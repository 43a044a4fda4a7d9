--------------------------- MODULE TracedReplay ----------------------------
(***************************************************************************)
(* ioreplay -r fed with the trace of a run of TracedProcesses, from the    *)
(* start of the first process: the replayer of Replicate handles a record  *)
(* when strace reports it.                                                 *)
(***************************************************************************)
EXTENDS Replicate

CONSTANTS Idle, Unborn, Dead, InOrder, Exits, ReusePids

(* The marks of TracedProcesses are not pids, calls or open descriptors.   *)
Kinds == {"open", "socket", "pipe", "close", "dup", "read", "clone"}
CallsOn(A, B) == [op : Kinds, pid : Pids, a : A, b : B]
ASSUME MarkAssumption ==
  /\ Unborn \notin Pids /\ Dead \notin Pids /\ Unborn # Dead
  /\ Virtual # Closed
  /\ Idle \notin CallsOn(Fds, Files) /\ Idle \notin CallsOn(Fds, {Virtual, Closed})
  /\ Idle \notin CallsOn(Fds, Fds) /\ Idle \notin CallsOn(Pids, BOOLEAN)

VARIABLES kproc, kfds, pend
allvars == <<vars, kproc, kfds, pend>>

K == INSTANCE TracedProcesses WITH None <- Closed, Special <- Virtual, Calls <- Ops

TracedInit == Init /\ K!KInit

(* The dispatch of replicate() on the type of the record.                  *)
Replay(s, rec) ==
  CASE rec.op = "open"   -> Open(s, rec.pid, rec.a, rec.b, {})
    [] rec.op = "close"  -> Close(s, rec.pid, rec.a, {}, FALSE)
    [] rec.op = "dup"    -> Dup(s, rec.pid, rec.a, rec.b, {}, FALSE)
    [] rec.op = "clone"  -> Clone(s, rec.pid, rec.a, rec.b)
    [] rec.op = "pipe"   -> Pipe(s, rec.pid, rec.a, rec.b)
    [] rec.op = "socket" -> Socket(s, rec.pid, rec.a)
    [] rec.op = "read"   -> Use(s, rec.pid, rec.a, {})

Report(p) == st = "run" /\ K!Reported(p) /\ Become(Replay(Cur, pend[p]))
Run(p) == st = "run" /\ UsageBelowBound /\ K!KStep(p) /\ UNCHANGED vars

TracedNext == \E p \in Pids : Run(p) \/ Report(p)
TracedSpec == TracedInit /\ [][TracedNext]_allvars

-----------------------------------------------------------------------------
(* Whenever every call is reported, every recorded descriptor of every     *)
(* live process stands for the same file in the replayer as it does in     *)
(* the recorded process, and for no file where that has none.              *)
SameFile ==
  st = "run" /\ K!Quiet =>
    \A p \in Pids : K!Live(p) =>
      /\ HasTable(Cur, p)
      /\ \A f \in Fds : View(proc[p], f) = K!OpenOn(p, f)

(* A trace recorded from the start never makes the replayer invent a file: *)
(* no descriptor of it is open on an UNKNOWN_FILE name. (If recorded pipes *)
(* have no number of a real descriptor: replicate_pipe counts a use of the *)
(* recorded number, so that what dup2 makes up there would stay open.)     *)
NothingInvented == \A r \in RealFds : os[r] # Unknown
=============================================================================
