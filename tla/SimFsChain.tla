----------------------------- MODULE SimFsChain -----------------------------
(***************************************************************************)
(* What the comment of simfs.h promises of the complaints: "one error      *)
(* doesn't cause chain of other related problems".  Beside the file system *)
(* that the check goes on with stands the one it would go on with if what  *)
(* a complaint asks for were done: missing files created, and files that   *)
(* should not be there deleted.                                            *)
(***************************************************************************)
EXTENDS MCSimFs

VARIABLES
  promised,  \* the disk with all that calls made and all complaints settled
  due        \* the last call would have ended otherwise there
chainVars == <<vars, promised, due>>

Under(p) == {q \in Paths : p \in Above[q]}

ChainInit == Init /\ promised = disk /\ due = FALSE

(* A call, simulated as in SimFs, and the complaint about it settled.      *)
Call(op, p, ok) ==
  /\ Handle(op, p, ok)
  /\ due' = (ok # Succeeds(promised, op, p))
  /\ promised' =
       IF ok THEN After(promised \cup Above[Parent[p]], op, p) \cup (IF op \in Lookups THEN {p} ELSE {})
       ELSE IF op \in Lookups /\ last'.said # "ok" THEN promised \ Under(p)
       ELSE promised

ChainNext == \E op \in Ops, p \in Names, ok \in BOOLEAN : Call(op, p, ok)
ChainSpec == ChainInit /\ [][ChainNext]_chainVars

-----------------------------------------------------------------------------
(* simfs.h: a call is complained about only for a reason of its own, and   *)
(* not because of a file that a complaint before it asked to delete.       *)
NoChain == last.said # "ok" => due
=============================================================================
