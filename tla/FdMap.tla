------------------------------- MODULE FdMap -------------------------------
(***************************************************************************)
(* The file-descriptor tables of ioreplay (fdmap.c, with the chains of     *)
(* adt/hash_table.c they are kept in), as operators on a record            *)
(*                                                                         *)
(*    proc   pid -> the table (hash_table_t) the pid uses: fd_mappings     *)
(*    ht     table -> recorded fd -> chain of the fd_items filed under it  *)
(*    map    the heap of fd_map_t records; Nil is memory that is not live  *)
(*    usage  usage_map: how often a real descriptor is used, 0 = no item   *)
(*    os     what the replayer's own descriptors are open on               *)
(*    st     "run", or why the replayer died                               *)
(*                                                                         *)
(* A table is named by the pid it was made for: a pid gets at most one.    *)
(* An fd_item is its place in a chain together with the fd_map it points   *)
(* to; hash_table_find returns the head of a chain, hash_table_remove      *)
(* removes the head, hash_table_insert appends.                            *)
(***************************************************************************)
EXTENDS Naturals, Sequences, FiniteSets

CONSTANTS
  Pids,        \* recorded process ids
  Root,        \* pid of the first recorded call: global_parent_pid
  Fds,         \* recorded descriptors
  RealFds,     \* descriptors the replayer's kernel has for replayed files
  MaxGens,     \* bound: fd_maps live at once that were made for one (table, fd)
  MaxParents,  \* MAX_PARENT_IDS
  Absent,      \* no process item for the pid
  Null,        \* a process item whose ht pointer is NULL
  Nil,         \* freed or never allocated fd_map
  Virtual,     \* my_fd of a pipe end, socket, standard or ignored descriptor
  Closed       \* not an open descriptor of the replayer

ASSUME RootAssumption == Root \in Pids
ASSUME FdAssumption == Fds \subseteq Nat /\ IsFiniteSet(Fds) /\ RealFds \subseteq Nat
ASSUME BoundAssumption == MaxGens \in Nat \ {0} /\ MaxParents \in Nat \ {0}
ASSUME SentinelAssumption ==
  /\ Absent \notin Pids /\ Null \notin Pids /\ Absent # Null
  /\ Virtual \notin RealFds

Stdin == 0
Gens == 1..MaxGens
MapIds == Pids \X Fds \X Gens

(* fd_map_t as far as replaying uses it: the descriptor to call the kernel *)
(* with, and the recorded fds of its table that share it (parent_fds).     *)
FdMaps == [my : RealFds \cup {Virtual}, parents : SUBSET Fds]
ASSUME NilAssumption == Nil \notin FdMaps

Stop(s, why) == [s EXCEPT !.st = why]

(* get_process_ht: the table of pid, or something that is not a table.     *)
GetProcessHt(s, pid) == s.proc[pid]

(* Every place of a chain of table t: <<fd, position>>.                    *)
Places(s, t) == {e \in Fds \X Gens : e[2] <= Len(s.ht[t][e[1]])}
MapAt(s, t, e) == s.map[s.ht[t][e[1]][e[2]]]

(* Places of table t that the replayer would serve with real descriptor r. *)
UsersIn(s, t, r) == {e \in Places(s, t) : MapAt(s, t, e) # Nil /\ MapAt(s, t, e).my = r}

CountsOnce(usage, my) == IF my \in RealFds THEN [usage EXCEPT ![my] = 1] ELSE usage
IncreaseFdUsage(usage, my) ==
  IF my \in RealFds THEN [usage EXCEPT ![my] = @ + 1] ELSE usage

(* decrease_fd_usage of a descriptor that has an item; LastUse says that   *)
(* the item goes away, which is what it returns.                           *)
CountsTwo(usage, my) == [usage EXCEPT ![my] = @ - 2]
DecreaseFdUsage(usage, my) == [usage EXCEPT ![my] = @ - 1]
LastUseEarly(usage, my) == usage[my] <= 2
LastUseLate(usage, my) == usage[my] = 0
LastUse(usage, my) == usage[my] = 1

(* parent_fds as a bounded set: a full array does not take the fd, and     *)
(* only complains.                                                         *)
ForgetsParent(parents, fd) == parents
InsertParentFd(parents, fd) ==
  IF Cardinality(parents) < MaxParents THEN parents \cup {fd} ELSE parents
InsertParentAsserts(parents, fd) == fd \in parents

(* A full array is searched to its end without meeting the -1 that makes   *)
(* the search assert.                                                      *)
DeletesLast(parents, fd) == parents \ {CHOOSE f \in parents : \A g \in parents : g <= f}
DeleteParentFd(parents, fd) == parents \ {fd}
DeleteParentAsserts(parents, fd) == fd \notin parents /\ Cardinality(parents) < MaxParents

(* new_fd_item with its fd_map, filed under fd in table t.  "bound" is the *)
(* end of the model's heap, not of the program's.                          *)
FreeGens(s, t, fd) == {g \in Gens : s.map[<<t, fd, g>>] = Nil}
NewFdItem(s, t, fd, my) ==
  IF FreeGens(s, t, fd) = {} THEN Stop(s, "bound")
  ELSE LET m == <<t, fd, CHOOSE g \in FreeGens(s, t, fd) : TRUE>>
       IN  [s EXCEPT !.ht[t][fd] = Append(@, m),
                     !.map[m] = [my |-> my, parents |-> {fd}]]

(* hash_table_remove of fd's item after delete_parent_fd; the fd_map is    *)
(* freed with its last parent.  An fd_map that nothing points to any more  *)
(* is leaked memory, which the model does not tell from free memory.       *)
Referenced(ht, m) == \E t \in Pids, f \in Fds : \E i \in 1..Len(ht[t][f]) : ht[t][f][i] = m
RemoveFdItem(s, t, fd) ==
  LET m  == Head(s.ht[t][fd])
      p  == DeleteParentFd(s.map[m].parents, fd)
      ht == [s.ht EXCEPT ![t][fd] = Tail(@)]
  IN  IF DeleteParentAsserts(s.map[m].parents, fd) THEN Stop(s, "assert_parent")
      ELSE [s EXCEPT !.ht = ht,
                     !.map[m] = IF p = {} \/ ~Referenced(ht, m)
                                THEN Nil ELSE [@ EXCEPT !.parents = p]]

(* The items of table t that duplicate_process_ht meets and refiles under  *)
(* their old_fd.  replicate_init files the stdin item of the first table   *)
(* under the key of stdout: no lookup finds it there, a copy refiles it.   *)
HasStrayStdin(t, fd) == t = Root /\ fd = Stdin
CopyLen(s, t, fd) == Len(s.ht[t][fd]) + (IF HasStrayStdin(t, fd) THEN 1 ELSE 0)
CopyOf(s, t, fd, g) ==
  IF g <= Len(s.ht[t][fd]) THEN s.map[s.ht[t][fd][g]]
  ELSE [my |-> Virtual, parents |-> {Stdin}]

(* duplicate_process_ht: every item of src gets a copy, with an fd_map of  *)
(* its own, in the new table dst, and is counted in usage_map.             *)
DuplicateProcessHt(s, src, dst) ==
  IF \E e \in Places(s, src) : MapAt(s, src, e) = Nil THEN Stop(s, "uaf")
  ELSE IF \E f \in Fds : CopyLen(s, src, f) > MaxGens THEN Stop(s, "bound")
  ELSE [s EXCEPT
          !.proc[dst] = dst,
          !.ht[dst] = [f \in Fds |-> [i \in 1..CopyLen(s, src, f) |-> <<dst, f, i>>]],
          !.map = [m \in MapIds |-> IF m[1] = dst /\ m[3] <= CopyLen(s, src, m[2])
                                    THEN CopyOf(s, src, m[2], m[3]) ELSE @[m]],
          !.usage = [r \in RealFds |-> @[r] + Cardinality(UsersIn(s, src, r))]]
=============================================================================
