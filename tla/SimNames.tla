------------------------------ MODULE SimNames ------------------------------
(***************************************************************************)
(* The tree of SimFs with the names that calls give for its places: every  *)
(* simulated call makes the name of its record absolute before it searches *)
(* the tree (module AbsoluteName).                                         *)
(***************************************************************************)
EXTENDS SimFs, AbsoluteName

CONSTANT Spelling    \* place of the tree -> the parts of its name

\* Only the root has a name without parts.
ASSUME SpellingAssumption == \A p \in Names : Spelling[p] # <<>>

(* A place that the tree has a node for is found again under every name    *)
(* the code foresees for it (module AbsoluteName): absolute or not, with   *)
(* "." and ".." in it, but no name that begins with a dot and no "."       *)
(* before a "..".                                                          *)
KnownIsFound == \A p \in Names : node[p] # "none" => Spelling[p] \notin Misnamed
=============================================================================
