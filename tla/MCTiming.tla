------------------------------- MODULE MCTiming -------------------------------
(* Traces of three calls.  Calls overlap, start out of order, last longer than *)
(* DUR_WRAP, and follow after more than WRAP.                                  *)
EXTENDS Timing, TLC

Records == [start : {3, 4, 7, 13}, dur : {0, 2, 9}]
MCTraces == {<<a, b, c>> : a \in [start : {3}, dur : {0, 2, 9}], b \in Records,
                           c \in Records}
MCScales == {<<1, 1>>, <<2, 1>>, <<1, 2>>, <<2, 3>>}
=============================================================================
