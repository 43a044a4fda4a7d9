---------------------------- MODULE MCPositions ----------------------------
EXTENDS Positions, TLC

(* Nothing tells one open file description from another but its state.     *)
SymDescs == Permutations(Descs)
=============================================================================
