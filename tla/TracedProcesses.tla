-------------------------- MODULE TracedProcesses --------------------------
(***************************************************************************)
(* The environment of the replayer: the processes that strace -f recorded, *)
(* and their kernel.  Nothing of it is in the repository; it is what the   *)
(* parsers and the handlers take for granted of a trace.                   *)
(*                                                                         *)
(* A call has its effect in the kernel in one step (Call...) and appears   *)
(* in the trace in a later one (Report), when strace sees its exit: this   *)
(* is the order in which in_strace.c emits calls, those it completes from  *)
(* an "unfinished" and a "resumed" line included.  With InOrder a call is  *)
(* reported before another one starts.                                     *)
(***************************************************************************)
EXTENDS Naturals

CONSTANTS
  Pids, Root, Fds, Files,
  None,      \* descriptor not open
  Special,   \* descriptor open on a terminal, pipe or socket
  Idle,      \* no call in flight
  Unborn, Dead,
  InOrder,   \* calls of different processes do not overlap
  Exits,     \* processes end
  ReusePids, \* the pid of a process that ended is used again
  Calls      \* kinds of calls the processes make

VARIABLES
  kproc,     \* pid -> its descriptor table (named by a pid), Unborn or Dead
  kfds,      \* table -> fd -> what it is open on
  pend       \* pid -> its call that had its effect and is not reported yet
kvars == <<kproc, kfds, pend>>

(* A process starts with the standard descriptors.                         *)
KInit ==
  /\ kproc = [p \in Pids |-> IF p = Root THEN Root ELSE Unborn]
  /\ kfds = [p \in Pids |-> [f \in Fds |-> IF p = Root /\ f \in 0..2 THEN Special ELSE None]]
  /\ pend = [p \in Pids |-> Idle]

Live(p) == kproc[p] \in Pids
Quiet == \A p \in Pids : pend[p] = Idle
OpenOn(p, f) == kfds[kproc[p]][f]
Unused(p) == {f \in Fds : OpenOn(p, f) = None}
LowestUnused(p) == CHOOSE f \in Unused(p) : \A g \in Unused(p) : f <= g

MayCall(op, p) ==
  /\ op \in Calls /\ Live(p) /\ pend[p] = Idle
  /\ InOrder => Quiet

Call(p, op, a, b) == pend' = [pend EXCEPT ![p] = [op |-> op, pid |-> p, a |-> a, b |-> b]]
SetFd(p, f, c) == kfds' = [kfds EXCEPT ![kproc[p]][f] = c]

CallOpen(p) ==
  /\ MayCall("open", p) /\ Unused(p) # {}
  /\ \E file \in Files : /\ SetFd(p, LowestUnused(p), file)
                         /\ Call(p, "open", LowestUnused(p), file)
  /\ UNCHANGED kproc

CallSocket(p) ==
  /\ MayCall("socket", p) /\ Unused(p) # {}
  /\ SetFd(p, LowestUnused(p), Special)
  /\ Call(p, "socket", LowestUnused(p), Special)
  /\ UNCHANGED kproc

CallPipe(p) ==
  LET fd1 == LowestUnused(p)
      fd2 == CHOOSE f \in Unused(p) \ {fd1} : \A g \in Unused(p) \ {fd1} : f <= g
  IN  /\ MayCall("pipe", p) /\ Unused(p) # {} /\ Unused(p) # {fd1}
      /\ kfds' = [kfds EXCEPT ![kproc[p]][fd1] = Special, ![kproc[p]][fd2] = Special]
      /\ Call(p, "pipe", fd1, fd2)
      /\ UNCHANGED kproc

CallClose(p) ==
  /\ MayCall("close", p)
  /\ \E f \in Fds \ Unused(p) : SetFd(p, f, None) /\ Call(p, "close", f, None)
  /\ UNCHANGED kproc

(* dup takes the lowest descriptor, dup2 and dup3 any, open or not.        *)
CallDup(p) ==
  /\ MayCall("dup", p)
  /\ \E f \in Fds \ Unused(p) : \E new \in Fds \ {f} :
       SetFd(p, new, OpenOn(p, f)) /\ Call(p, "dup", f, new)
  /\ UNCHANGED kproc

(* read, write, lseek and their kind: no effect on the table.              *)
CallUse(p) ==
  /\ MayCall("read", p)
  /\ \E f \in Fds \ Unused(p) : Call(p, "read", f, None)
  /\ UNCHANGED <<kproc, kfds>>

(* clone with CLONE_FILES ("thread") shares the table, else copies it.  A  *)
(* pid may be free again when its process is gone.                         *)
CallClone(p) ==
  \E c \in Pids \ {p}, share \in BOOLEAN :
    /\ MayCall(IF share THEN "thread" ELSE "fork", p)
    /\ kproc[c] = Unborn \/ (ReusePids /\ kproc[c] = Dead)
    /\ share \/ \A q \in Pids : kproc[q] # c
    /\ kproc' = [kproc EXCEPT ![c] = IF share THEN kproc[p] ELSE c]
    /\ kfds' = IF share THEN kfds ELSE [kfds EXCEPT ![c] = kfds[kproc[p]]]
    /\ Call(p, "clone", c, share)

(* The end of a process is not a record that the parsers know.             *)
Exit(p) ==
  /\ Exits /\ Live(p) /\ p # Root /\ pend[p] = Idle /\ (InOrder => Quiet)
  /\ kproc' = [kproc EXCEPT ![p] = Dead]
  /\ UNCHANGED <<kfds, pend>>

Reported(p) == pend[p] # Idle /\ pend' = [pend EXCEPT ![p] = Idle] /\ UNCHANGED <<kproc, kfds>>

KStep(p) == \/ CallOpen(p) \/ CallSocket(p) \/ CallPipe(p) \/ CallClose(p)
            \/ CallDup(p) \/ CallUse(p) \/ CallClone(p) \/ Exit(p)
=============================================================================
