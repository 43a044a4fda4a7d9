----------------------------- MODULE MCIoprofiler -----------------------------
(* Traces of at most three records: one cannot be opened, one ends in the      *)
(* middle, one is without a call and one ends the program that replays it.     *)
EXTENDS Ioprofiler

R(n) == [op |-> "read", name |-> n]
W(n) == [op |-> "write", name |-> n]
Trace(items, ok) == [items |-> items, ok |-> ok]
One     == Trace(<<R("a"), W("b"), R("b")>>, TRUE)
Another == Trace(<<W("a"), R("c")>>, TRUE)
Missing == Trace(<<>>, FALSE)
Cut     == Trace(<<R("c")>>, FALSE)
Empty   == Trace(<<>>, TRUE)
Fatal   == Trace(<<R("a"), [op |-> "fatal", name |-> "a"]>>, TRUE)
AllFiles == {One, Another, Missing, Cut, Empty, Fatal}
Sound    == {One, Another}
WithMissing == {One, Missing}
=============================================================================
