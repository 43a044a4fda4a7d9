----------------------------- MODULE Replicate -----------------------------
(***************************************************************************)
(* ioreplay -r (replicate.c, op_mask ACT_REPLICATE): the handlers that     *)
(* keep the recorded descriptors of every recorded process mapped to open  *)
(* descriptors of the replayer.  One action is one record of the trace,    *)
(* handled to the end.  The trace is arbitrary: any pid may do anything    *)
(* with any descriptor, as in a trace taken by attaching to a running      *)
(* program.  TracedReplay restricts it to what a kernel can have done.     *)
(***************************************************************************)
EXTENDS FdMap

CONSTANTS
  Files,         \* recorded names that are replayed
  Ignored,       \* a recorded name that the ignore list drops
  Unknown,       \* the made-up UNKNOWN_FILE name of a missing open
  Failed,        \* the -1 of a failed call or of a call on no descriptor
  FixMissing,    \* global_fix_missing: -d not given
  MinusOne,      \* the trace has calls on fd -1 and failed clones
  DupSelf,       \* the trace has dup2(fd, fd)
  OpenMayFail,   \* open(2) of the replayer may fail
  CloseMayFail,  \* close(2) of the replayer may fail (and still releases the fd)
  Ops,           \* kinds of records the trace has
  MaxUsage       \* bound on usage counts where nothing else bounds them

ASSUME NameAssumption == /\ Ignored \notin Files \cup {Unknown}
                         /\ Closed \notin Files \cup {Unknown, Ignored}
ASSUME FailedAssumption == Failed \notin Fds /\ Failed \notin Pids
ASSUME SwitchAssumption ==
  {FixMissing, MinusOne, DupSelf, OpenMayFail, CloseMayFail} \subseteq BOOLEAN
ASSUME UsageAssumption == MaxUsage \in Nat

VARIABLES proc, ht, map, usage, os, st
vars == <<proc, ht, map, usage, os, st>>

Cur == [proc |-> proc, ht |-> ht, map |-> map, usage |-> usage, os |-> os, st |-> st]
Become(s) == /\ proc' = s.proc /\ ht' = s.ht /\ map' = s.map
             /\ usage' = s.usage /\ os' = s.os /\ st' = s.st

Status == {"run", "assert_key", "assert_parent", "assert_usage", "uaf", "segv", "bound"}

(* replicate_init for the pid of the first record: stdout and stderr are   *)
(* mapped to themselves; the stdin item is the stray of FdMap.  The usage  *)
(* counts of 0, 1 and 2 are never read again and are left out.             *)
StdFds == {1, 2} \cap Fds
Init ==
  /\ proc = [p \in Pids |-> IF p = Root THEN Root ELSE Absent]
  /\ ht = [p \in Pids |-> [f \in Fds |->
             IF p = Root /\ f \in StdFds THEN <<<<Root, f, 1>>>> ELSE <<>>]]
  /\ map = [m \in MapIds |->
             IF m[1] = Root /\ m[2] \in StdFds /\ m[3] = 1
             THEN [my |-> Virtual, parents |-> {m[2]}] ELSE Nil]
  /\ usage = [r \in RealFds |-> 0]
  /\ os = [r \in RealFds |-> Closed]
  /\ st = "run"

-----------------------------------------------------------------------------
(* The replayer's kernel (external): open(2) takes the lowest descriptor.  *)
FreeFds(s) == {r \in RealFds : s.os[r] = Closed}
LowestFree(s) == CHOOSE r \in FreeFds(s) : \A q \in FreeFds(s) : r <= q

(* supported_type: a regular file or a directory has a real descriptor.    *)
SupportedType(m) == m.my # Virtual

HasTable(s, pid) == GetProcessHt(s, pid) \in Pids
Chain(s, pid, fd) == s.ht[GetProcessHt(s, pid)][fd]

(* replicate_clone: a known child is only reported.  Sharing with a parent *)
(* that has no table leaves the child a NULL table for good (a later item  *)
(* for the same pid is behind it and never found); copying one crashes.    *)
IgnoresMode(s, parent, child, share) == [s EXCEPT !.proc[child] = s.proc[Root]]
Clone(s, parent, child, share) ==
  IF child = Failed THEN Stop(s, "assert_key")
  ELSE IF HasTable(s, child) THEN s
  ELSE IF share
  THEN IF s.proc[child] = Null THEN s
       ELSE [s EXCEPT !.proc[child] = IF HasTable(s, parent) THEN s.proc[parent] ELSE Null]
  ELSE IF ~HasTable(s, parent) THEN Stop(s, "segv")
  ELSE IF s.proc[child] = Null
  THEN [s EXCEPT !.usage = [r \in RealFds |-> @[r] + Cardinality(UsersIn(s, s.proc[parent], r))]]
  ELSE DuplicateProcessHt(s, s.proc[parent], child)

(* get_process_ht, then replicate_missing_ht: an unknown pid becomes a     *)
(* thread of the first process.                                            *)
MissingHt(s, pid) ==
  IF ~FixMissing \/ HasTable(s, pid) THEN s ELSE Clone(s, Root, pid, TRUE)

(* The tail of open, socket and pipe: a new item is filed under fd in      *)
(* table t and a use of a descriptor is counted.                           *)
AddItem(s, t, fd, my, counted) ==
  LET s1 == NewFdItem(s, t, fd, my)
  IN  IF s1.st # "run" THEN s1 ELSE [s1 EXCEPT !.usage = IncreaseFdUsage(@, counted)]

(* replicate_open after its early return for a failed call.                *)
Open(s0, pid, fd, file, fails) ==
  LET open(s, t, r) ==
        IF ~HasTable(s, pid) \/ Chain(s, pid, fd) # <<>> THEN s
        ELSE IF file = Ignored THEN AddItem(s, t, fd, Virtual, Virtual)
        ELSE IF fd \in fails \/ FreeFds(s) = {} THEN s
        ELSE AddItem([s EXCEPT !.os[r] = file], t, fd, r, r)
      lookup(s) == open(s, GetProcessHt(s, pid), LowestFree(s))
  IN  lookup(MissingHt(s0, pid))

(* replicate_get_fd_map, with the lookup of the table before it: a lookup  *)
(* of fd -1 asserts in ht_hash_int, a missing fd is opened under a name    *)
(* made up for it.                                                         *)
GetFdMap(s0, pid, fd, fails) ==
  LET lookup(s) ==
        IF ~HasTable(s, pid) THEN s
        ELSE IF fd = Failed THEN Stop(s, "assert_key")
        ELSE IF Chain(s, pid, fd) # <<>> \/ ~FixMissing THEN s
        ELSE Open(s, pid, fd, Unknown, fails)
  IN  lookup(MissingHt(s0, pid))

Found(s, pid, fd) == s.st = "run" /\ HasTable(s, pid) /\ Chain(s, pid, fd) # <<>>
IdOf(s, pid, fd) == Head(Chain(s, pid, fd))

(* replicate_close.  closeFails is what close(2) returns; a descriptor     *)
(* that is not open makes it fail anyway.  The usage count is given up     *)
(* before close(2) is called, the mapping only if it succeeds.             *)
Close(s0, pid, fd, fails, closeFails) ==
  LET lookup(s) ==
        LET t  == GetProcessHt(s, pid)
            m  == s.map[IdOf(s, pid, fd)]
            s1 == [s EXCEPT !.usage = DecreaseFdUsage(@, m.my)]
            s2 == [s1 EXCEPT !.os[m.my] = Closed]
        IN  IF ~Found(s, pid, fd) THEN s
            ELSE IF m = Nil THEN Stop(s, "uaf")
            ELSE IF ~SupportedType(m) THEN RemoveFdItem(s, t, fd)
            ELSE IF s.usage[m.my] = 0 THEN Stop(s, "assert_usage")
            ELSE IF ~LastUse(s.usage, m.my) THEN RemoveFdItem(s1, t, fd)
            ELSE IF closeFails \/ s.os[m.my] = Closed THEN s2
            ELSE RemoveFdItem(s2, t, fd)
  IN  lookup(GetFdMap(s0, pid, fd, fails))

(* replicate_dup after its early return for a failed call.  The test that  *)
(* should spare the close looks up fd, which is there, so new is always    *)
(* closed first; if new is fd itself its item is gone when it is used.     *)
Dup(s0, pid, fd, new, fails, closeFails) ==
  LET closed(s, s1, id) ==
        LET t == GetProcessHt(s1, pid)
            m == s1.map[id]
        IN  IF s1.st # "run" THEN s1
            ELSE IF fd = new /\ s1.ht[t][fd] # s.ht[t][fd] THEN Stop(s1, "uaf")
            ELSE IF m = Nil THEN Stop(s1, "uaf")
            ELSE IF InsertParentAsserts(m.parents, new) THEN Stop(s1, "assert_parent")
            ELSE IF Len(s1.ht[t][new]) >= MaxGens THEN Stop(s1, "bound")
            ELSE [s1 EXCEPT !.map[id].parents = InsertParentFd(@, new),
                            !.ht[t][new] = Append(@, id),
                            !.usage = IncreaseFdUsage(@, m.my)]
      lookup(s) ==
        IF ~Found(s, pid, fd) THEN s
        ELSE closed(s, Close(s, pid, new, fails, closeFails), IdOf(s, pid, fd))
  IN  lookup(GetFdMap(s0, pid, fd, fails))

(* replicate_socket after its early return for a failed call.              *)
SocketIgnored(s0, pid, fd) == s0
Socket(s0, pid, fd) ==
  LET lookup(s) ==
        IF ~HasTable(s, pid) \/ Chain(s, pid, fd) # <<>> THEN s
        ELSE AddItem(s, GetProcessHt(s, pid), fd, Virtual, Virtual)
  IN  lookup(MissingHt(s0, pid))

(* replicate_pipe: the usage counted is that of the recorded descriptor.   *)
Pipe(s0, pid, fd1, fd2) ==
  LET second(s1, t) == IF s1.st # "run" THEN s1 ELSE AddItem(s1, t, fd2, Virtual, fd2)
      both(s, t) ==
        IF ~HasTable(s, pid) \/ Chain(s, pid, fd1) # <<>> \/ Chain(s, pid, fd2) # <<>> THEN s
        ELSE second(AddItem(s, t, fd1, Virtual, fd1), t)
      lookup(s) == both(s, GetProcessHt(s, pid))
  IN  lookup(MissingHt(s0, pid))

(* What read, write, pread, pwrite, lseek and _llseek do to this state:    *)
(* find, or make, the descriptor to use.                                   *)
Use(s0, pid, fd, fails) ==
  LET touch(s) ==
        IF Found(s, pid, fd) /\ s.map[IdOf(s, pid, fd)] = Nil THEN Stop(s, "uaf") ELSE s
  IN  touch(GetFdMap(s0, pid, fd, fails))

(* replicate_sendfile: the out descriptor is looked up first, and without  *)
(* it the in descriptor is not.                                            *)
Sendfile(s0, pid, out, in, fails) ==
  LET gone(s, fd) == s.map[IdOf(s, pid, fd)] = Nil
      touch(s) ==
        IF Found(s, pid, in) /\ (gone(s, out) \/ gone(s, in)) THEN Stop(s, "uaf") ELSE s
      lookup(s) ==
        IF ~Found(s, pid, out) THEN s ELSE touch(GetFdMap(s, pid, in, fails))
  IN  lookup(GetFdMap(s0, pid, out, fails))

-----------------------------------------------------------------------------
(* One action per kind of record.  Nothing is handled after the replayer   *)
(* died.                                                                   *)
Handle(op, s) == st = "run" /\ op \in Ops /\ Become(s)

FdArgs == Fds \cup (IF MinusOne THEN {Failed} ELSE {})
FailSets(fds) == IF OpenMayFail THEN SUBSET (fds \cap Fds) ELSE {{}}
CloseResults == IF CloseMayFail THEN BOOLEAN ELSE {FALSE}
UsageBelowBound == \A r \in RealFds : usage[r] < MaxUsage

ReplicateOpen(pid) ==
  \E fd \in FdArgs, file \in Files \cup {Ignored} : \E fails \in FailSets({fd}) :
    Handle("open", IF fd = Failed THEN Cur ELSE Open(Cur, pid, fd, file, fails))

ReplicateClose(pid) ==
  \E fd \in FdArgs, closeFails \in CloseResults : \E fails \in FailSets({fd}) :
    Handle("close", Close(Cur, pid, fd, fails, closeFails))

ReplicateClone(pid) ==
  \E child \in (Pids \ {pid}) \cup (IF MinusOne THEN {Failed} ELSE {}), share \in BOOLEAN :
    /\ UsageBelowBound
    /\ Handle(IF share THEN "thread" ELSE "fork", Clone(Cur, pid, child, share))

ReplicateDup(pid) ==
  \E fd \in FdArgs, new \in FdArgs, closeFails \in CloseResults :
    \E fails \in FailSets({fd, new}) :
      /\ fd = new => DupSelf
      /\ Handle("dup", IF new = Failed THEN Cur ELSE Dup(Cur, pid, fd, new, fails, closeFails))

ReplicatePipe(pid) ==
  \E fd1, fd2 \in Fds :
    /\ fd1 # fd2
    /\ UsageBelowBound
    /\ Handle("pipe", Pipe(Cur, pid, fd1, fd2))

ReplicateSocket(pid) ==
  \E fd \in FdArgs : Handle("socket", IF fd = Failed THEN Cur ELSE Socket(Cur, pid, fd))

UseFd(op, pid) ==
  \E fd \in FdArgs : \E fails \in FailSets({fd}) : Handle(op, Use(Cur, pid, fd, fails))
ReplicateRead(pid) == UseFd("read", pid)
ReplicateWrite(pid) == UseFd("write", pid)
ReplicatePread(pid) == UseFd("pread", pid)
ReplicatePwrite(pid) == UseFd("pwrite", pid)
ReplicateLseek(pid) == UseFd("lseek", pid)
ReplicateLlseek(pid) == UseFd("llseek", pid)

ReplicateSendfile(pid) ==
  \E out, in \in FdArgs : \E fails \in FailSets({out, in}) :
    Handle("sendfile", Sendfile(Cur, pid, out, in, fails))

Next ==
  \E pid \in Pids :
    \/ ReplicateOpen(pid) \/ ReplicateClose(pid) \/ ReplicateClone(pid)
    \/ ReplicateDup(pid) \/ ReplicatePipe(pid) \/ ReplicateSocket(pid)
    \/ ReplicateRead(pid) \/ ReplicateWrite(pid) \/ ReplicatePread(pid)
    \/ ReplicatePwrite(pid) \/ ReplicateLseek(pid) \/ ReplicateLlseek(pid)
    \/ ReplicateSendfile(pid)

Spec == Init /\ [][Next]_vars

-----------------------------------------------------------------------------
TypeOK ==
  /\ proc \in [Pids -> Pids \cup {Absent, Null}]
  /\ ht \in [Pids -> [Fds -> Seq(MapIds)]]
  /\ map \in [MapIds -> FdMaps \cup {Nil}]
  /\ usage \in [RealFds -> Nat]
  /\ os \in [RealFds -> Files \cup {Unknown, Closed}]
  /\ st \in Status

(* No item of a table points to an fd_map that was freed, and no handler   *)
(* has touched one: freeing in replicate_close goes by parent_fds alone.   *)
NoUseAfterFree ==
  /\ st # "uaf"
  /\ \A t \in Pids, f \in Fds : \A i \in 1..Len(ht[t][f]) : map[ht[t][f][i]] # Nil

(* Why that is so, as a relation of tables and parent_fds that every       *)
(* handler keeps: an item belongs to the table whose fd_map it points to,  *)
(* an fd_map lists every fd whose item points to it, and no chain has the  *)
(* same fd_map twice.  A fork gives every item of the copy an fd_map of    *)
(* its own whose list may name fds that do not point to it: the converse   *)
(* does not hold.                                                          *)
ItemsLinked(s) ==
  \A t \in Pids, f \in Fds : \A i \in 1..Len(s.ht[t][f]) :
    LET m == s.ht[t][f][i]
    IN  /\ m[1] = t
        /\ s.map[m] # Nil
        /\ f \in s.map[m].parents
        /\ \A j \in 1..Len(s.ht[t][f]) : s.ht[t][f][j] = m => j = i
ParentFdsCoverItems == ItemsLinked(Cur)

(* The mapping of every recorded file descriptor is backed by a descriptor *)
(* the replayer still has open, whatever other processes closed.           *)
MappedFdsAreOpen ==
  \A t \in Pids : \A e \in Places(Cur, t) :
    LET m == MapAt(Cur, t, e)
    IN  m # Nil /\ SupportedType(m) => os[m.my] # Closed

Users(r) == {x \in Pids \X Fds \X Gens : <<x[2], x[3]>> \in UsersIn(Cur, x[1], r)}

(* usage_map counts at least the items that use a descriptor, so that the  *)
(* last close is never taken too early.                                    *)
UsageCoversUsers == \A r \in RealFds : usage[r] >= Cardinality(Users(r))

(* ... and exactly them, so that it is taken at all: a real descriptor is  *)
(* open if and only if some recorded descriptor still needs it.            *)
UsageExact ==
  \A r \in RealFds : /\ usage[r] = Cardinality(Users(r))
                     /\ os[r] = Closed <=> Users(r) = {}

(* What process-visible descriptors refer to: table t, descriptor fd.      *)
View(t, fd) ==
  IF ht[t][fd] = <<>> THEN Closed
  ELSE LET m == map[Head(ht[t][fd])]
       IN  IF m = Nil THEN Nil ELSE IF SupportedType(m) THEN os[m.my] ELSE Virtual

(* One record changes what descriptors refer to in at most one table that  *)
(* existed: a close, dup or open of one process never disturbs another     *)
(* process that has a table of its own.                                    *)
OneTableChanges ==
  [][\A t, u \in Pids :
       (t # u /\ proc[t] = t /\ proc[u] = u)
         => \/ \A f \in Fds : View(t, f)' = View(t, f)
            \/ \A f \in Fds : View(u, f)' = View(u, f)]_vars

(* The replayer survives every trace without fork and without pipes: no    *)
(* assertion of fdmap.c or hash_table.c fails, no NULL table is used and   *)
(* no fd_map after it was freed.                                           *)
NeverDies == st = "run"

(* The assertion of insert_parent_fd (fdmap.c) never fails.                *)
InsertNeverAsserts == st # "assert_parent"
=============================================================================
