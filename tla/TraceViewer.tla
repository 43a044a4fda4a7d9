----------------------------- MODULE TraceViewer ------------------------------
(* What a viewer of traces promises (CHANGELOG, v1.1: "ioprofiler can now      *)
(* re-open files without restarting the application"): a file is opened, any   *)
(* number of times, and its transfers are shown in the end.                    *)
CONSTANTS Openable,    \* the files that are opened
          None,        \* no file
          Contents(_)  \* what there is to see in a file

VARIABLES opened, shown
view == <<opened, shown>>

ViewInit == opened = None /\ shown = Contents(None)
Open == opened' \in Openable /\ shown' = Contents(None)
Show == opened # None /\ shown' = Contents(opened) /\ UNCHANGED opened
AllShown == \A f \in Openable : opened = f ~> shown = Contents(f) \/ opened # f
ViewSafety == ViewInit /\ [][Open \/ Show]_view
ViewSpec == ViewSafety /\ AllShown
=============================================================================
