------------------------ MODULE TracedReplayProofs -------------------------
(***************************************************************************)
(* That the replayer of a trace recorded from the start has, after every   *)
(* call, the descriptor tables of the recorded processes.                  *)
(***************************************************************************)
EXTENDS TracedReplay, ReplicateProofs

(* The replayer's tables s are those of the processes kp and tables kf.    *)
Follows(s, kp, kf) ==
  /\ \A p \in Pids : kp[p] = Unborn =>
       s.proc[p] = Absent /\ \A f \in Fds : s.ht[p][f] = <<>>
  /\ \A p \in Pids : kp[p] \in Pids =>
       /\ s.proc[p] = kp[p]
       /\ kp[kp[p]] # Unborn
       /\ \A f \in Fds : ViewIn(s, kp[p], f) = kf[kp[p]][f]

(* open(2) has a descriptor to give when a call of the trace needs one.    *)
RoomToOpen == \A p \in Pids : pend[p] # Idle /\ pend[p].op = "open" => FreeFds(Cur) # {}

-----------------------------------------------------------------------------
(* What one change of a table does to what descriptors refer to.           *)
SameFiles(s, n) ==
  \A r \in RealFds : s.os[r] # Closed /\ n.os[r] # Closed => n.os[r] = s.os[r]

LEMMA HeadView ==
  ASSUME NEW s \in CountedStates, NEW w \in Pids, NEW fd \in Fds, s.ht[w][fd] # <<>>
  PROVE  LET y == Head(s.ht[w][fd])
             m == s.map[y]
         IN  /\ y \in MapIds /\ m # Nil /\ m \in FdMaps
             /\ ViewIn(s, w, fd) = IF m.my = Virtual THEN Virtual ELSE s.os[m.my]
             /\ m.my # Virtual => m.my \in RealFds /\ s.os[m.my] # Closed
<1> DEFINE q == s.ht[w][fd]
           y == Head(q)
           m == s.map[y]
<1>1. s \in States /\ Safe(s) /\ Counted(s)
  BY DEF CountedStates
<1>2. y \in MapIds /\ y[1] = w /\ m # Nil /\ m \in FdMaps
  BY <1>1, HeadLinked DEF Safe
<1>3. ViewIn(s, w, fd) = IF m.my = Virtual THEN Virtual ELSE s.os[m.my]
  BY <1>2 DEF ViewIn, SupportedType
<1>4. q \in Seq(MapIds) /\ q # <<>>
  BY <1>1 DEF States
<1> HIDE DEF q
<1>5. InChain(q, y)
  <2>1. q[1] = y /\ 1 \in 1..Len(q)
    BY <1>4
  <2> QED
    BY <2>1 DEF InChain
<1>6. InChain(s.ht[y[1]][fd], y)
  BY <1>2, <1>5 DEF q
<1> HIDE DEF y
<1>7. m.my # Virtual => m.my \in RealFds
  BY <1>2 DEF FdMaps
<1> HIDE DEF m
<1>8. <<fd, y>> \in Uses(s, m.my)
  BY <1>1, <1>2, <1>6, UseOf DEF m
<1>9. m.my # Virtual => s.os[m.my] # Closed
  BY <1>1, <1>7, <1>8 DEF Counted, Counts
<1> QED
  BY <1>2, <1>3, <1>7, <1>9 DEF m, y, q

(* A descriptor refers to nothing exactly if it has no item.               *)
LEMMA VacantView ==
  ASSUME NEW s \in CountedStates, NEW w \in Pids, NEW fd \in Fds
  PROVE  ViewIn(s, w, fd) = Closed <=> s.ht[w][fd] = <<>>
<1>1. s.ht[w][fd] = <<>> => ViewIn(s, w, fd) = Closed
  BY DEF ViewIn
<1>2. s.ht[w][fd] # <<>> => ViewIn(s, w, fd) # Closed
  BY HeadView, MarkAssumption
<1> QED
  BY <1>1, <1>2

LEMMA ViewStays ==
  ASSUME NEW s \in CountedStates, NEW n \in CountedStates, SameFiles(s, n),
         NEW w \in Pids, NEW fd \in Fds, n.ht[w][fd] = s.ht[w][fd],
         s.ht[w][fd] # <<>> =>
           n.map[Head(s.ht[w][fd])].my = s.map[Head(s.ht[w][fd])].my
  PROVE  ViewIn(n, w, fd) = ViewIn(s, w, fd)
<1>1. CASE s.ht[w][fd] = <<>>
  BY <1>1 DEF ViewIn
<1>2. CASE s.ht[w][fd] # <<>>
  <2> DEFINE my == s.map[Head(s.ht[w][fd])].my
  <2>1. /\ ViewIn(s, w, fd) = IF my = Virtual THEN Virtual ELSE s.os[my]
        /\ my # Virtual => my \in RealFds /\ s.os[my] # Closed
    BY <1>2, HeadView
  <2>2. n.ht[w][fd] # <<>> /\ n.map[Head(n.ht[w][fd])].my = my
    BY <1>2
  <2> DEFINE k == n.map[Head(n.ht[w][fd])].my
  <2>3. /\ ViewIn(n, w, fd) = IF k = Virtual THEN Virtual ELSE n.os[k]
        /\ k # Virtual => n.os[k] # Closed
    BY <2>2, HeadView
  <2> HIDE DEF my, k
  <2> QED
    BY <2>1, <2>2, <2>3 DEF SameFiles, k
<1> QED
  BY <1>1, <1>2

(* n is s with v under descriptor fd of table t, and all else as it was.   *)
Sets(s, n, t, fd, v) ==
  /\ n \in CountedStates /\ n.st = "run" /\ Short(n) /\ n.proc = s.proc
  /\ \A w \in Pids : w # t => n.ht[w] = s.ht[w]
  /\ \A w \in Pids, f \in Fds :
       ViewIn(n, w, f) = IF w = t /\ f = fd THEN v ELSE ViewIn(s, w, f)

(* A new item is the only one of its descriptor and has an fd_map of its   *)
(* own; nothing else of the tables changes.                                *)
Added(s, n, t, fd, my, c, m) ==
  /\ n.st = "run" /\ n.proc = s.proc /\ n.os = s.os
  /\ n.usage = IncreaseFdUsage(s.usage, c)
  /\ m \in MapIds /\ m[1] = t /\ s.map[m] = Nil
  /\ n.map[m] \in FdMaps /\ n.map[m].my = my
  /\ \A y \in MapIds : y # m => n.map[y] = s.map[y]
  /\ n.ht[t][fd] = <<m>>
  /\ \A w \in Pids : w # t => n.ht[w] = s.ht[w]
  /\ \A w \in Pids, f \in Fds : (w # t \/ f # fd) => n.ht[w][f] = s.ht[w][f]

LEMMA AddItemAdds ==
  ASSUME NEW s \in States, s.st = "run", NEW t \in Pids, NEW fd \in Fds,
         NEW my \in RealFds \cup {Virtual}, NEW c, s.ht[t][fd] = <<>>, FreeGens(s, t, fd) # {}
  PROVE  \E m : Added(s, AddItem(s, t, fd, my, c), t, fd, my, c, m)
<1> DEFINE p == NewFdItem(s, t, fd, my)
           u == IncreaseFdUsage(p.usage, c)
           a == [p EXCEPT !.usage = u]
           n == AddItem(s, t, fd, my, c)
           m == <<t, fd, CHOOSE g \in FreeGens(s, t, fd) : TRUE>>
           h == [s.ht EXCEPT ![t] = [s.ht[t] EXCEPT ![fd] = Append(s.ht[t][fd], m)]]
           v == [my |-> my, parents |-> {fd}]
           k == [s.map EXCEPT ![m] = v]
<1>1. n = (IF p.st # "run" THEN p ELSE a)
  BY DEF AddItem
<1>2. p = [s EXCEPT !.ht = h, !.map = k]
  BY DEF NewFdItem
<1>3. m \in MapIds /\ m[1] = t /\ s.map[m] = Nil
  BY DEF FreeGens, MapIds
<1>4. v \in FdMaps /\ v.my = my
  BY DEF FdMaps
<1> HIDE DEF m, v
<1>5. k[m] = v /\ \A y \in MapIds : y # m => k[y] = s.map[y]
  BY <1>3 DEF States
<1>6. /\ h[t][fd] = <<m>>
      /\ \A w \in Pids : w # t => h[w] = s.ht[w]
      /\ \A w \in Pids, f \in Fds : (w # t \/ f # fd) => h[w][f] = s.ht[w][f]
  BY DEF States
<1> HIDE DEF h, k, p
<1>7. /\ p.ht = h /\ p.map = k /\ p.os = s.os /\ p.usage = s.usage
      /\ p.proc = s.proc /\ p.st = "run"
  BY <1>2 DEF States
<1>8. p = [s EXCEPT !.ht = h, !.map = k]
  BY <1>2
<1> HIDE DEF u
<1>9. /\ a.ht = h /\ a.map = k /\ a.os = s.os /\ a.usage = u
      /\ a.proc = s.proc /\ a.st = "run"
  BY <1>7, <1>8 DEF States
<1>10. u = IncreaseFdUsage(s.usage, c) /\ n = a
  BY <1>1, <1>7 DEF u
<1> HIDE DEF a, n
<1>11. Added(s, n, t, fd, my, c, m)
  BY <1>3, <1>4, <1>5, <1>6, <1>9, <1>10 DEF Added
<1> QED
  BY <1>11 DEF n

LEMMA AddItemSets ==
  ASSUME NEW s \in CountedStates, s.st = "run", Short(s), NEW t \in Pids, NEW fd \in Fds,
         NEW my \in RealFds \cup {Virtual}, NEW c, my # Virtual => c = my /\ s.os[my] # Closed,
         s.ht[t][fd] = <<>>, AddItem(s, t, fd, my, c).st = "run"
  PROVE  Sets(s, AddItem(s, t, fd, my, c), t, fd, IF my = Virtual THEN Virtual ELSE s.os[my])
<1> DEFINE n == AddItem(s, t, fd, my, c)
<1>1. s \in States /\ Safe(s) /\ Counted(s)
  BY DEF CountedStates
<1>2. n \in CountedStates
  BY <1>1, AddItemType, AddItemSafe, AddItemCounted DEF CountedStates
<1>3. FreeGens(s, t, fd) # {}
  <2> SUFFICES ASSUME FreeGens(s, t, fd) = {} PROVE FALSE
    OBVIOUS
  <2>1. NewFdItem(s, t, fd, my) = Stop(s, "bound") /\ Stop(s, "bound").st = "bound"
    BY <1>1 DEF NewFdItem, Stop, States
  <2>2. n = Stop(s, "bound")
    BY <2>1 DEF AddItem
  <2> QED
    BY <2>1, <2>2
<1>4. PICK m : Added(s, n, t, fd, my, c, m)
  BY <1>1, <1>3, AddItemAdds
<1> HIDE DEF n
<1>5. Len(<<m>>) <= 1 /\ Head(<<m>>) = m /\ <<m>> # <<>>
  OBVIOUS
<1>6. Short(n)
  <2> SUFFICES ASSUME NEW w \in Pids, NEW f \in Fds PROVE Len(n.ht[w][f]) <= 1
    BY DEF Short
  <2>1. Len(s.ht[w][f]) <= 1
    BY DEF Short
  <2>2. n.ht[w][f] = <<m>> \/ n.ht[w][f] = s.ht[w][f]
    BY <1>4 DEF Added
  <2> QED
    BY <1>5, <2>1, <2>2, Zenon
<1>7. ViewIn(n, t, fd) = IF my = Virtual THEN Virtual ELSE s.os[my]
  <2> DEFINE d == n.map[Head(n.ht[t][fd])].my
  <2>1. n.ht[t][fd] = <<m>> /\ n.map[m].my = my /\ n.os = s.os
    BY <1>4 DEF Added
  <2>2. n.ht[t][fd] # <<>> /\ Head(n.ht[t][fd]) = m
    BY <1>5, <2>1, Zenon
  <2>3. ViewIn(n, t, fd) = IF d = Virtual THEN Virtual ELSE n.os[d]
    BY <1>2, <2>2, HeadView DEF n
  <2> QED
    BY <2>1, <2>2, <2>3
<1>8. ASSUME NEW w \in Pids, NEW f \in Fds, w # t \/ f # fd
      PROVE  ViewIn(n, w, f) = ViewIn(s, w, f)
  <2>1. n.ht[w][f] = s.ht[w][f]
    BY <1>4, <1>8 DEF Added
  <2>2. ASSUME s.ht[w][f] # <<>>
        PROVE  n.map[Head(s.ht[w][f])].my = s.map[Head(s.ht[w][f])].my
    <3>1. Head(s.ht[w][f]) \in MapIds /\ s.map[Head(s.ht[w][f])] # Nil
      BY <2>2, HeadView
    <3> QED
      BY <1>4, <3>1 DEF Added
  <2>3. SameFiles(s, n) /\ n \in CountedStates
    BY <1>2, <1>4 DEF SameFiles, Added, n
  <2> QED
    BY <2>1, <2>2, <2>3, ViewStays
<1>9. n \in CountedStates /\ n.st = "run" /\ n.proc = s.proc
      /\ \A w \in Pids : w # t => n.ht[w] = s.ht[w]
  BY <1>2, <1>4 DEF Added, n
<1>10. Sets(s, n, t, fd, IF my = Virtual THEN Virtual ELSE s.os[my])
  BY <1>6, <1>7, <1>8, <1>9 DEF Sets
<1> QED
  BY <1>10 DEF n

LEMMA OpenedItemSets ==
  ASSUME NEW s \in CountedStates, s.st = "run", Short(s), NEW t \in Pids, NEW fd \in Fds,
         NEW file \in Files \cup {Unknown}, FreeFds(s) # {}, s.ht[t][fd] = <<>>,
         OpenedItem(s, t, fd, file).st = "run"
  PROVE  Sets(s, OpenedItem(s, t, fd, file), t, fd, file)
<1> DEFINE r  == LowestFree(s)
           o  == [s.os EXCEPT ![r] = file]
           s1 == [s EXCEPT !.os = o]
           n  == OpenedItem(s, t, fd, file)
<1>0. s \in States /\ Safe(s) /\ Counted(s)
  BY DEF CountedStates
<1>1. r \in RealFds /\ s.os[r] = Closed /\ file # Closed /\ r # Virtual
  BY <1>0, LowestFreeIsFree, NameAssumption, SentinelAssumption
<1>2. n = AddItem(s1, t, fd, r, r)
  BY DEF OpenedItem
<1> HIDE DEF r, n
<1>3. o \in [RealFds -> Files \cup {Unknown, Closed}]
  BY <1>0 DEF States
<1>4. o[r] = file /\ \A q \in RealFds : q # r => o[q] = s.os[q]
  BY <1>0, <1>1 DEF States
<1> HIDE DEF o
<1>5. s1 \in States /\ s1.ht = s.ht /\ s1.map = s.map /\ s1.proc = s.proc /\ s1.os = o
      /\ s1.st = "run" /\ s1.usage = s.usage
  BY <1>0, <1>3 DEF States
<1> HIDE DEF s1
<1>6. Safe(s1)
  BY <1>0, <1>5, SameLinks DEF Safe
<1>7. Counted(s1)
  <2> SUFFICES ASSUME NEW q \in RealFds PROVE Counts(s1, q)
    BY DEF Counted
  <2>1. Uses(s1, q) = Uses(s, q)
    BY <1>5, SameUses
  <2>2. Counts(s, q)
    BY <1>0 DEF Counted
  <2>3. s1.os[q] = Closed => s.os[q] = Closed
    BY <1>1, <1>4, <1>5
  <2> QED
    BY <1>5, <2>1, <2>2, <2>3 DEF Counts
<1>8. s1 \in CountedStates /\ Short(s1) /\ s1.ht[t][fd] = <<>>
  BY <1>5, <1>6, <1>7 DEF CountedStates, Short
<1>9. s1.os[r] = file /\ n.st = "run"
  BY <1>4, <1>5 DEF n
<1>10. Sets(s1, n, t, fd, file)
  BY <1>1, <1>2, <1>5, <1>8, <1>9, AddItemSets
<1>11. SameFiles(s, s1)
  BY <1>1, <1>4, <1>5 DEF SameFiles
<1>12. \A w \in Pids, f \in Fds : ViewIn(s1, w, f) = ViewIn(s, w, f)
  BY <1>5, <1>8, <1>11, ViewStays
<1> QED
  BY <1>5, <1>10, <1>12 DEF Sets, n

(* A closed item is gone, and its fd_map unless another item points to it. *)
Removed(s, n, t, fd, m) ==
  /\ n.st = "run" /\ n.proc = s.proc /\ n.ht[t][fd] = <<>>
  /\ \A w \in Pids : w # t => n.ht[w] = s.ht[w]
  /\ \A w \in Pids, f \in Fds : (w # t \/ f # fd) => n.ht[w][f] = s.ht[w][f]
  /\ \A y \in MapIds : y # m => n.map[y] = s.map[y]
  /\ n.map[m] # Nil => n.map[m].my = s.map[m].my /\ Referenced(n.ht, m)

LEMMA ClosedItemRemoves ==
  ASSUME NEW s \in CountedStates, s.st = "run", Short(s), NEW t \in Pids, NEW fd \in Fds,
         s.ht[t][fd] # <<>>
  PROVE  Removed(s, ClosedItem(s, t, fd, FALSE), t, fd, Head(s.ht[t][fd]))
<1> DEFINE n == ClosedItem(s, t, fd, FALSE)
<1>1. s \in States /\ Safe(s) /\ Counted(s)
  BY DEF CountedStates
<1>2. n.st = "run"
  BY <1>1, ClosedItemCounted
<1>3. PICK p \in States : /\ p.proc = s.proc /\ p.ht = s.ht /\ p.map = s.map /\ p.st = s.st
                         /\ Safe(p) /\ n = RemoveFdItem(p, t, fd)
  BY <1>1, ClosedItemEffect
<1> HIDE DEF n
<1> DEFINE m == Head(p.ht[t][fd])
           d == DeleteParentFd(p.map[m].parents, fd)
           h == [p.ht EXCEPT ![t] = [p.ht[t] EXCEPT ![fd] = Tail(p.ht[t][fd])]]
           v == IF d = {} \/ ~Referenced(h, m) THEN Nil ELSE [p.map[m] EXCEPT !.parents = d]
           k == [p.map EXCEPT ![m] = v]
<1>4. m \in MapIds /\ p.map[m] \in FdMaps /\ fd \in p.map[m].parents
  BY <1>3, HeadLinked, SMTT(60) DEF Safe
<1>5. n = [p EXCEPT !.ht = h, !.map = k]
  BY <1>3, <1>4 DEF RemoveFdItem, DeleteParentAsserts
<1>6. v # Nil => v.my = p.map[m].my /\ Referenced(h, m)
  BY <1>4 DEF FdMaps
<1>7. p.ht[t][fd] \in Seq(MapIds) /\ Len(p.ht[t][fd]) <= 1 /\ p.ht[t][fd] # <<>>
  BY <1>3 DEF States, Short
<1>8. Tail(p.ht[t][fd]) = <<>>
  BY <1>7, ShortChain
<1>9. m = Head(s.ht[t][fd])
  BY <1>3
<1> HIDE DEF m, v
<1>10. k[m] = v /\ \A y \in MapIds : y # m => k[y] = p.map[y]
  BY <1>4 DEF States
<1>11. /\ h[t][fd] = <<>>
       /\ \A w \in Pids : w # t => h[w] = s.ht[w]
       /\ \A w \in Pids, f \in Fds : (w # t \/ f # fd) => h[w][f] = s.ht[w][f]
  BY <1>1, <1>3, <1>8 DEF States
<1> HIDE DEF h, k
<1>12. n.ht = h /\ n.map = k /\ n.proc = s.proc
  BY <1>3, <1>5 DEF States
<1>13. Removed(s, n, t, fd, m)
  BY <1>2, <1>3, <1>6, <1>10, <1>11, <1>12 DEF Removed
<1> QED
  BY <1>9, <1>13 DEF n

LEMMA ClosedItemSets ==
  ASSUME NEW s \in CountedStates, s.st = "run", Short(s), NEW t \in Pids, NEW fd \in Fds,
         s.ht[t][fd] # <<>>
  PROVE  Sets(s, ClosedItem(s, t, fd, FALSE), t, fd, Closed)
<1> DEFINE n == ClosedItem(s, t, fd, FALSE)
           m == Head(s.ht[t][fd])
<1>1. s \in States /\ Safe(s) /\ Counted(s)
  BY DEF CountedStates
<1>2. n \in CountedStates
  BY <1>1, ClosedItemCounted DEF CountedStates
<1>3. SameFiles(s, n)
  BY <1>1, ClosedItemEffect, ZenonT(60) DEF SameFiles
<1>4. Removed(s, n, t, fd, m)
  BY ClosedItemRemoves
<1> HIDE DEF n, m
<1>5. Short(n)
  <2> SUFFICES ASSUME NEW w \in Pids, NEW f \in Fds PROVE Len(n.ht[w][f]) <= 1
    BY DEF Short
  <2>1. Len(s.ht[w][f]) <= 1 /\ Len(<<>>) <= 1
    BY DEF Short
  <2>2. n.ht[w][f] = <<>> \/ n.ht[w][f] = s.ht[w][f]
    BY <1>4 DEF Removed
  <2> QED
    BY <2>1, <2>2, Zenon
<1>6. ViewIn(n, t, fd) = Closed
  BY <1>4 DEF ViewIn, Removed
<1>7. ASSUME NEW w \in Pids, NEW f \in Fds, w # t \/ f # fd
      PROVE  ViewIn(n, w, f) = ViewIn(s, w, f)
  <2>1. n.ht[w][f] = s.ht[w][f]
    BY <1>4, <1>7 DEF Removed
  <2>2. ASSUME s.ht[w][f] # <<>>
        PROVE  n.map[Head(s.ht[w][f])].my = s.map[Head(s.ht[w][f])].my
    <3> DEFINE y == Head(n.ht[w][f])
    <3>1. n.ht[w][f] # <<>> /\ y = Head(s.ht[w][f])
      BY <2>1, <2>2
    <3>2. y \in MapIds /\ n.map[y] # Nil
      BY <1>2, <3>1, HeadView
    <3> HIDE DEF y
    <3>3. n.map[y].my = s.map[y].my
      BY <1>4, <3>2 DEF Removed
    <3> QED
      BY <3>1, <3>3
  <2> QED
    BY <1>2, <1>3, <2>1, <2>2, ViewStays
<1>8. n.st = "run" /\ n.proc = s.proc /\ \A w \in Pids : w # t => n.ht[w] = s.ht[w]
  BY <1>4 DEF Removed
<1>9. Sets(s, n, t, fd, Closed)
  BY <1>2, <1>5, <1>6, <1>7, <1>8 DEF Sets
<1> QED
  BY <1>9 DEF n

(* A duplicate is one more item that points to the fd_map of the original. *)
Linked(s, n, t, new, id) ==
  /\ n.proc = s.proc /\ n.os = s.os
  /\ n.usage = IncreaseFdUsage(s.usage, s.map[id].my)
  /\ id \in MapIds /\ id[1] = t /\ s.map[id] \in FdMaps
  /\ \A y \in MapIds : n.map[y].my = s.map[y].my
  /\ \A y \in MapIds : y # id => n.map[y] = s.map[y]
  /\ n.ht[t][new] = <<id>>
  /\ \A w \in Pids : w # t => n.ht[w] = s.ht[w]
  /\ \A w \in Pids, f \in Fds : (w # t \/ f # new) => n.ht[w][f] = s.ht[w][f]

LEMMA LinkedItemLinks ==
  ASSUME NEW s \in States, Safe(s), NEW t \in Pids, NEW fd \in Fds, NEW new \in Fds,
         s.ht[t][fd] # <<>>, s.ht[t][new] = <<>>, LinkedItem(s, t, fd, new).st = "run"
  PROVE  Linked(s, LinkedItem(s, t, fd, new), t, new, Head(s.ht[t][fd]))
<1> DEFINE id == Head(s.ht[t][fd])
           m  == s.map[id]
           v  == [m EXCEPT !.parents = InsertParentFd(m.parents, new)]
           k  == [s.map EXCEPT ![id] = v]
           h  == [s.ht EXCEPT ![t] = [s.ht[t] EXCEPT ![new] = Append(s.ht[t][new], id)]]
           u  == IncreaseFdUsage(s.usage, m.my)
           n  == LinkedItem(s, t, fd, new)
<1>1. id \in MapIds /\ id[1] = t /\ m \in FdMaps
  BY HeadLinked DEF Safe
<1>2. n \in {Stop(s, "assert_parent"), Stop(s, "bound")}
      \/ n = [s EXCEPT !.map = k, !.ht = h, !.usage = u]
  BY DEF LinkedItem
<1>3. v.my = m.my
  BY <1>1 DEF FdMaps
<1> HIDE DEF id, v, u, n
<1>4. n \notin {Stop(s, "assert_parent"), Stop(s, "bound")}
  <2>1. \A why : Stop(s, why).st = why
    BY DEF Stop, States
  <2>2. n.st = "run"
    BY DEF n
  <2> QED
    BY <2>1, <2>2
<1>5. k[id] = v /\ \A y \in MapIds : y # id => k[y] = s.map[y]
  BY <1>1 DEF States
<1>6. /\ h[t][new] = <<id>>
      /\ \A w \in Pids : w # t => h[w] = s.ht[w]
      /\ \A w \in Pids, f \in Fds : (w # t \/ f # new) => h[w][f] = s.ht[w][f]
  BY DEF States
<1> HIDE DEF h, k
<1>7. n.ht = h /\ n.map = k /\ n.os = s.os /\ n.proc = s.proc /\ n.usage = u
  BY <1>2, <1>4 DEF States
<1>8. \A y \in MapIds : n.map[y].my = s.map[y].my
  BY <1>3, <1>5, <1>7 DEF m
<1>9. Linked(s, n, t, new, id)
  BY <1>1, <1>5, <1>6, <1>7, <1>8 DEF Linked, m, u
<1> QED
  BY <1>9 DEF n, id

LEMMA LinkedItemSets ==
  ASSUME RoomForParents, NEW s \in CountedStates, s.st = "run", Short(s),
         NEW t \in Pids, NEW fd \in Fds, NEW new \in Fds,
         s.ht[t][fd] # <<>>, s.ht[t][new] = <<>>, LinkedItem(s, t, fd, new).st = "run"
  PROVE  Sets(s, LinkedItem(s, t, fd, new), t, new, ViewIn(s, t, fd))
<1> DEFINE id == Head(s.ht[t][fd])
           m  == s.map[id]
           n  == LinkedItem(s, t, fd, new)
<1>1. s \in States /\ Safe(s) /\ Counted(s)
  BY DEF CountedStates
<1>2. n \in CountedStates
  BY <1>1, LinkedItemSafe, LinkedItemCounted DEF CountedStates
<1>3. Linked(s, n, t, new, id)
  BY <1>1, LinkedItemLinks
<1>4. ViewIn(s, t, fd) = IF m.my = Virtual THEN Virtual ELSE s.os[m.my]
  BY HeadView
<1>5. n.st = "run"
  OBVIOUS
<1> HIDE DEF id, n
<1>6. SameFiles(s, n)
  BY <1>3 DEF SameFiles, Linked
<1>7. Len(<<id>>) <= 1 /\ Head(<<id>>) = id /\ <<id>> # <<>>
  OBVIOUS
<1>8. Short(n)
  <2> SUFFICES ASSUME NEW w \in Pids, NEW f \in Fds PROVE Len(n.ht[w][f]) <= 1
    BY DEF Short
  <2>1. Len(s.ht[w][f]) <= 1
    BY DEF Short
  <2>2. n.ht[w][f] = <<id>> \/ n.ht[w][f] = s.ht[w][f]
    BY <1>3 DEF Linked
  <2> QED
    BY <1>7, <2>1, <2>2, Zenon
<1>9. ASSUME NEW w \in Pids, NEW f \in Fds, w # t \/ f # new
      PROVE  ViewIn(n, w, f) = ViewIn(s, w, f)
  <2>1. n.ht[w][f] = s.ht[w][f]
    BY <1>3, <1>9 DEF Linked
  <2>2. ASSUME s.ht[w][f] # <<>>
        PROVE  n.map[Head(s.ht[w][f])].my = s.map[Head(s.ht[w][f])].my
    <3>1. Head(s.ht[w][f]) \in MapIds
      BY <2>2, HeadView
    <3> QED
      BY <1>3, <3>1 DEF Linked
  <2> QED
    BY <1>2, <1>6, <2>1, <2>2, ViewStays
<1>10. ViewIn(n, t, new) = ViewIn(s, t, fd)
  <2>1. n.ht[t][new] = <<id>> /\ n.map[id].my = m.my /\ n.os = s.os
    BY <1>3 DEF Linked
  <2>2. n.ht[t][new] # <<>> /\ Head(n.ht[t][new]) = id
    BY <1>7, <2>1, Zenon
  <2> DEFINE my == n.map[Head(n.ht[t][new])].my
  <2>3. ViewIn(n, t, new) = IF my = Virtual THEN Virtual ELSE n.os[my]
    BY <1>2, <2>2, HeadView
  <2>4. my = m.my
    BY <2>1, <2>2
  <2> HIDE DEF my, m
  <2> QED
    BY <1>4, <2>1, <2>3, <2>4
<1>11. n.proc = s.proc /\ \A w \in Pids : w # t => n.ht[w] = s.ht[w]
  BY <1>3 DEF Linked
<1>12. Sets(s, n, t, new, ViewIn(s, t, fd))
  BY <1>2, <1>5, <1>8, <1>9, <1>10, <1>11 DEF Sets
<1> QED
  BY <1>12 DEF n

LEMMA SetsTwice ==
  ASSUME NEW s, NEW g, NEW n, NEW t, NEW fd, NEW v, NEW v2,
         Sets(s, g, t, fd, v), Sets(g, n, t, fd, v2)
  PROVE  Sets(s, n, t, fd, v2)
<1>1. \A w \in Pids : w # t => n.ht[w] = s.ht[w]
  BY DEF Sets
<1>2. \A w \in Pids, f \in Fds :
        ViewIn(n, w, f) = IF w = t /\ f = fd THEN v2 ELSE ViewIn(s, w, f)
  BY DEF Sets
<1> QED
  BY <1>1, <1>2 DEF Sets

-----------------------------------------------------------------------------
(* The handlers of a process that has a table.                             *)
Ready(s, pid, t) ==
  s \in CountedStates /\ s.st = "run" /\ Short(s) /\ t \in Pids /\ s.proc[pid] = t

LEMMA ReadyTable ==
  ASSUME NEW s, NEW pid \in Pids, NEW t, Ready(s, pid, t)
  PROVE  /\ HasTable(s, pid) /\ TableOf(s, pid) = t /\ MissingHt(s, pid) = s
         /\ \A fd : Chain(s, pid, fd) = s.ht[t][fd]
         /\ \A fd : Found(s, pid, fd) <=> s.ht[t][fd] # <<>>
<1>1. HasTable(s, pid)
  BY DEF Ready, HasTable, GetProcessHt
<1> QED
  BY <1>1, MissingHtKnown DEF Ready, TableOf, GetProcessHt, Chain, Found

LEMMA OpenSets ==
  ASSUME NEW s, NEW pid \in Pids, NEW t, Ready(s, pid, t), NEW fd \in Fds,
         NEW file \in Files \cup {Unknown}, FreeFds(s) # {}, s.ht[t][fd] = <<>>,
         Open(s, pid, fd, file, {}).st = "run"
  PROVE  /\ Open(s, pid, fd, file, {}) = OpenedItem(s, t, fd, file)
         /\ Sets(s, Open(s, pid, fd, file, {}), t, fd, file)
<1>1. HasTable(s, pid) /\ TableOf(s, pid) = t /\ MissingHt(s, pid) = s
      /\ Chain(s, pid, fd) = <<>>
  BY ReadyTable
<1>2. file # Ignored
  BY NameAssumption
<1>3. Open(s, pid, fd, file, {}) = OpenedItem(s, t, fd, file)
  BY <1>1, <1>2 DEF Open, OpenedItem, TableOf
<1> QED
  BY <1>3, OpenedItemSets DEF Ready

LEMMA SocketSets ==
  ASSUME NEW s, NEW pid \in Pids, NEW t, Ready(s, pid, t), NEW fd \in Fds,
         s.ht[t][fd] = <<>>, Socket(s, pid, fd).st = "run"
  PROVE  /\ Socket(s, pid, fd) = AddItem(s, t, fd, Virtual, Virtual)
         /\ Sets(s, Socket(s, pid, fd), t, fd, Virtual)
<1>1. HasTable(s, pid) /\ TableOf(s, pid) = t /\ MissingHt(s, pid) = s
      /\ Chain(s, pid, fd) = <<>>
  BY ReadyTable
<1>2. Socket(s, pid, fd) = AddItem(s, t, fd, Virtual, Virtual)
  BY <1>1 DEF Socket, TableOf
<1> QED
  BY <1>2, AddItemSets DEF Ready

LEMMA PipeSets ==
  ASSUME NEW s, NEW pid \in Pids, NEW t, Ready(s, pid, t), NEW fd1 \in Fds, NEW fd2 \in Fds,
         fd1 # fd2, s.ht[t][fd1] = <<>>, s.ht[t][fd2] = <<>>,
         Pipe(s, pid, fd1, fd2).st = "run"
  PROVE  LET g == AddItem(s, t, fd1, Virtual, fd1)
         IN  /\ Pipe(s, pid, fd1, fd2) = AddItem(g, t, fd2, Virtual, fd2)
             /\ Sets(s, g, t, fd1, Virtual) /\ g.ht[t][fd2] = <<>>
             /\ Sets(g, Pipe(s, pid, fd1, fd2), t, fd2, Virtual)
<1> DEFINE g == AddItem(s, t, fd1, Virtual, fd1)
<1>1. HasTable(s, pid) /\ TableOf(s, pid) = t /\ MissingHt(s, pid) = s
      /\ Chain(s, pid, fd1) = <<>> /\ Chain(s, pid, fd2) = <<>>
  BY ReadyTable
<1>2. Pipe(s, pid, fd1, fd2) = IF g.st # "run" THEN g ELSE AddItem(g, t, fd2, Virtual, fd2)
  BY <1>1 DEF Pipe, TableOf
<1> HIDE DEF g
<1>3. g.st = "run" /\ Pipe(s, pid, fd1, fd2) = AddItem(g, t, fd2, Virtual, fd2)
  BY <1>2
<1>4. Sets(s, g, t, fd1, Virtual)
  BY <1>3, AddItemSets DEF g, Ready
<1>5. g \in CountedStates /\ g.st = "run" /\ Short(g) /\ t \in Pids
  BY <1>4 DEF Sets, Ready
<1>6. g.ht[t][fd2] = <<>>
  <2>1. ViewIn(s, t, fd2) = Closed
    BY VacantView DEF Ready
  <2>2. ViewIn(g, t, fd2) = Closed
    BY <1>4, <1>5, <2>1 DEF Sets
  <2> QED
    BY <1>5, <2>2, VacantView
<1>7. Sets(g, Pipe(s, pid, fd1, fd2), t, fd2, Virtual)
  BY <1>3, <1>5, <1>6, AddItemSets
<1> QED
  BY <1>3, <1>4, <1>6, <1>7 DEF g

LEMMA UseSets ==
  ASSUME NEW s, NEW pid \in Pids, NEW t, Ready(s, pid, t), NEW fd \in Fds, s.ht[t][fd] # <<>>
  PROVE  GetFdMap(s, pid, fd, {}) = s /\ Use(s, pid, fd, {}) = s
<1>1. HasTable(s, pid) /\ MissingHt(s, pid) = s /\ Chain(s, pid, fd) = s.ht[t][fd]
  BY ReadyTable
<1>2. fd # Failed
  BY FailedAssumption
<1>3. GetFdMap(s, pid, fd, {}) = s
  BY <1>1, <1>2 DEF GetFdMap
<1>4. s.map[IdOf(s, pid, fd)] # Nil
  <2>1. s \in CountedStates /\ t \in Pids
    BY DEF Ready
  <2>2. s.map[Head(s.ht[t][fd])] # Nil
    BY <2>1, HeadView
  <2> QED
    BY <1>1, <2>2 DEF IdOf
<1> QED
  BY <1>3, <1>4 DEF Use

(* A close of a descriptor that has an item, and one that makes the item   *)
(* it closes.                                                              *)
Closes(g, n, t, fd) == n = ClosedItem(g, t, fd, FALSE) /\ Sets(g, n, t, fd, Closed)

LEMMA ClosesItem ==
  ASSUME NEW s, NEW pid \in Pids, NEW t, NEW fd \in Fds, NEW g, Ready(g, pid, t),
         g = GetFdMap(s, pid, fd, {}), g.ht[t][fd] # <<>>
  PROVE  Closes(g, Close(s, pid, fd, {}, FALSE), t, fd)
<1> DEFINE m == g.map[Head(g.ht[t][fd])]
<1>1. /\ HasTable(g, pid) /\ GetProcessHt(g, pid) = t /\ Found(g, pid, fd)
      /\ Chain(g, pid, fd) = g.ht[t][fd]
  BY ReadyTable DEF TableOf
<1>2. Close(s, pid, fd, {}, FALSE) =
        IF m = Nil THEN Stop(g, "uaf") ELSE ClosedItem(g, t, fd, FALSE)
  <2> DEFINE x == GetFdMap(s, pid, fd, {})
             y == x.map[IdOf(x, pid, fd)]
  <2>1. Close(s, pid, fd, {}, FALSE) =
          IF ~Found(x, pid, fd) THEN x
          ELSE IF y = Nil THEN Stop(x, "uaf")
          ELSE ClosedItem(x, GetProcessHt(x, pid), fd, FALSE)
    BY DEF Close, ClosedItem, IdOf, Chain
  <2>2. x = g /\ y = m
    BY <1>1 DEF IdOf
  <2> HIDE DEF x, y, m
  <2> QED
    BY <1>1, <2>1, <2>2
<1>3. m # Nil
  BY HeadView DEF Ready
<1> QED
  BY <1>2, <1>3, ClosedItemSets DEF Ready, Closes

LEMMA CloseSets ==
  ASSUME NEW s, NEW pid \in Pids, NEW t, Ready(s, pid, t), NEW fd \in Fds,
         Close(s, pid, fd, {}, FALSE).st = "run"
  PROVE  Sets(s, Close(s, pid, fd, {}, FALSE), t, fd, Closed)
<1>0. Found(s, pid, fd) <=> s.ht[t][fd] # <<>>
  BY ReadyTable DEF Found, Ready
<1> DEFINE g == GetFdMap(s, pid, fd, {})
           n == Close(s, pid, fd, {}, FALSE)
<1>1. CASE s.ht[t][fd] # <<>>
  <2>1. s = g
    BY <1>1, UseSets
  <2> QED
    BY <1>1, <2>1, ClosesItem DEF Closes
<1>2. CASE s.ht[t][fd] = <<>>
  <2>1. HasTable(s, pid) /\ MissingHt(s, pid) = s /\ Chain(s, pid, fd) = <<>> /\ fd # Failed
    BY <1>2, ReadyTable, FailedAssumption
  <2>2. g = IF FixMissing THEN Open(s, pid, fd, Unknown, {}) ELSE s
    BY <2>1 DEF GetFdMap
  <2>3. FreeFds(s) = {} => Open(s, pid, fd, Unknown, {}) = s
    BY <2>1, NameAssumption DEF Open
  <2>4. CASE g = s
    <3>1. ~Found(s, pid, fd)
      BY <1>0, <1>2
    <3>2. n = s
      BY <1>2, <2>4, <3>1 DEF Close
    <3>3. ViewIn(s, t, fd) = Closed
      BY <1>2, VacantView DEF Ready
    <3> QED
      BY <3>2, <3>3 DEF Sets, Ready
  <2>5. CASE g # s
    <3>1. FreeFds(s) # {} /\ g = Open(s, pid, fd, Unknown, {})
      BY <2>2, <2>3, <2>5
    <3>2. g.st = "run"
      <4>1. ~Found(g, pid, fd) => n = g
        BY DEF Close
      <4> QED
        BY <4>1 DEF Found
    <3>3. Sets(s, g, t, fd, Unknown)
      BY <1>2, <3>1, <3>2, OpenSets
    <3>4. Ready(g, pid, t)
      BY <3>3 DEF Ready, Sets
    <3>5. g.ht[t][fd] # <<>>
      <4>1. ViewIn(g, t, fd) = Unknown
        BY <3>3, <3>4 DEF Sets, Ready
      <4> QED
        BY <3>4, <4>1, VacantView, NameAssumption DEF Ready
    <3>6. Sets(g, n, t, fd, Closed)
      BY <3>4, <3>5, ClosesItem DEF Closes
    <3> QED
      BY <3>3, <3>6, SetsTwice
  <2> QED
    BY <2>4, <2>5
<1> QED
  BY <1>1, <1>2

(* n is the duplicate of fd as new in g, which is s without new.           *)
DupOf(s, g, n, pid, t, fd, new) ==
  /\ n = LinkedItem(g, t, fd, new)
  /\ Sets(s, g, t, new, Closed) /\ Ready(g, pid, t)
  /\ g.ht[t][fd] # <<>> /\ g.ht[t][new] = <<>>
  /\ ViewIn(g, t, fd) = ViewIn(s, t, fd)

LEMMA DupLinks ==
  ASSUME NEW s, NEW pid \in Pids, NEW t, Ready(s, pid, t),
         NEW fd \in Fds, NEW new \in Fds, fd # new, s.ht[t][fd] # <<>>
  PROVE  LET g == Close(s, pid, new, {}, FALSE)
             n == Dup(s, pid, fd, new, {}, FALSE)
         IN  /\ g.st # "run" => n = g
             /\ g.st = "run" => DupOf(s, g, n, pid, t, fd, new)
<1> DEFINE g  == Close(s, pid, new, {}, FALSE)
           id == IdOf(s, pid, fd)
           n  == Dup(s, pid, fd, new, {}, FALSE)
<1>1. /\ HasTable(s, pid) /\ GetProcessHt(s, pid) = t /\ GetFdMap(s, pid, fd, {}) = s
      /\ Found(s, pid, fd) /\ Chain(s, pid, fd) = s.ht[t][fd]
  <2>1. Found(s, pid, fd) <=> s.ht[t][fd] # <<>>
    BY ReadyTable
  <2>2. GetFdMap(s, pid, fd, {}) = s
    BY UseSets
  <2> QED
    BY <2>1, <2>2, ReadyTable DEF TableOf
<1>2. n =
        IF g.st # "run" THEN g
        ELSE IF g.map[id] = Nil THEN Stop(g, "uaf")
        ELSE IF InsertParentAsserts(g.map[id].parents, new) THEN Stop(g, "assert_parent")
        ELSE IF Len(g.ht[GetProcessHt(g, pid)][new]) >= MaxGens THEN Stop(g, "bound")
        ELSE [g EXCEPT !.map[id].parents = InsertParentFd(@, new),
                       !.ht[GetProcessHt(g, pid)][new] = Append(@, id),
                       !.usage = IncreaseFdUsage(@, g.map[id].my)]
  BY <1>1 DEF Dup
<1>3. g.st # "run" => n = g
  BY <1>2
<1> SUFFICES ASSUME g.st = "run" PROVE DupOf(s, g, n, pid, t, fd, new)
  BY <1>3
<1>4. Sets(s, g, t, new, Closed)
  BY CloseSets
<1>5. g = Close(s, pid, new, {}, FALSE)
  OBVIOUS
<1> HIDE DEF g, n
<1>6. Ready(g, pid, t)
  BY <1>4 DEF Ready, Sets
<1>7. GetProcessHt(g, pid) = t
  BY <1>6 DEF Ready, GetProcessHt
<1>8. /\ ViewIn(g, t, fd) = ViewIn(s, t, fd)
      /\ ViewIn(g, t, new) = Closed
  BY <1>4, <1>6 DEF Sets, Ready
<1>9. g.ht[t][new] = <<>> /\ g.ht[t][fd] # <<>>
  BY <1>6, <1>8, VacantView DEF Ready
<1>10. id = Head(g.ht[t][fd])
  <2>1. s \in States /\ t \in Pids
    BY DEF Ready, CountedStates
  <2>2. Frame(s, g, t, new)
    BY <1>1, <1>5, <2>1, CloseFrame
  <2> QED
    BY <1>1, <2>2 DEF Frame, IdOf
<1>11. g.map[id] # Nil
  <2>1. g \in CountedStates /\ t \in Pids
    BY <1>6 DEF Ready
  <2>2. g.map[Head(g.ht[t][fd])] # Nil
    BY <1>9, <2>1, HeadView
  <2> QED
    BY <1>10, <2>2
<1> HIDE DEF id
<1>12. n = LinkedItem(g, t, fd, new)
  BY <1>2, <1>7, <1>10, <1>11 DEF LinkedItem
<1> QED
  BY <1>4, <1>6, <1>8, <1>9, <1>12 DEF DupOf

LEMMA DupSets ==
  ASSUME RoomForParents, NEW s, NEW pid \in Pids, NEW t, Ready(s, pid, t),
         NEW fd \in Fds, NEW new \in Fds, fd # new, s.ht[t][fd] # <<>>,
         Dup(s, pid, fd, new, {}, FALSE).st = "run"
  PROVE  Sets(s, Dup(s, pid, fd, new, {}, FALSE), t, new, ViewIn(s, t, fd))
<1> DEFINE g == Close(s, pid, new, {}, FALSE)
           n == Dup(s, pid, fd, new, {}, FALSE)
<1>1. /\ g.st # "run" => n = g
      /\ g.st = "run" => DupOf(s, g, n, pid, t, fd, new)
  BY DupLinks
<1>2. n.st = "run"
  OBVIOUS
<1> HIDE DEF g, n
<1>3. g.st = "run"
  BY <1>1, <1>2
<1>4. /\ n = LinkedItem(g, t, fd, new)
      /\ Sets(s, g, t, new, Closed) /\ Ready(g, pid, t)
      /\ g.ht[t][fd] # <<>> /\ g.ht[t][new] = <<>>
      /\ ViewIn(g, t, fd) = ViewIn(s, t, fd)
  BY <1>1, <1>3 DEF DupOf
<1>5. Sets(g, n, t, new, ViewIn(g, t, fd))
  BY <1>2, <1>4, LinkedItemSets DEF Ready
<1>6. Sets(s, n, t, new, ViewIn(s, t, fd))
  BY <1>5, <1>4, SetsTwice
<1> QED
  BY <1>6 DEF n

-----------------------------------------------------------------------------
(* A clone for a child the trace has not shown before: a thread gets the   *)
(* parent's table and a process a copy of it.                              *)
Threaded(s, n, t, c) ==
  /\ n \in CountedStates /\ n.st = "run" /\ Short(n)
  /\ n.proc[c] = t /\ \A p \in Pids : p # c => n.proc[p] = s.proc[p]
  /\ n.ht = s.ht /\ n.map = s.map /\ n.os = s.os /\ n.usage = s.usage
Forked(s, n, t, c) ==
  /\ n \in CountedStates /\ Short(n)
  /\ n.proc[c] = c /\ \A p \in Pids : p # c => n.proc[p] = s.proc[p]
  /\ n.os = s.os
  /\ \A r \in RealFds : n.usage[r] = s.usage[r] + Cardinality(UsersIn(s, t, r))
  /\ \A w \in Pids : w # c => n.ht[w] = s.ht[w]
  /\ \A f \in Fds : n.ht[c][f] = IF s.ht[t][f] = <<>> THEN <<>> ELSE <<<<c, f, 1>>>>
  /\ \A y \in MapIds : y[1] # c \/ s.ht[t][y[2]] = <<>> \/ y[3] # 1
                         => n.map[y] = s.map[y]
  /\ \A f \in Fds : s.ht[t][f] # <<>> =>
       <<c, f, 1>> \in MapIds /\ n.map[<<c, f, 1>>] = s.map[Head(s.ht[t][f])]

LEMMA ThreadSets ==
  ASSUME NEW s, NEW pid \in Pids, NEW t, Ready(s, pid, t), NEW c \in Pids, s.proc[c] = Absent
  PROVE  Threaded(s, Clone(s, pid, c, TRUE), t, c)
<1> DEFINE pr == [s.proc EXCEPT ![c] = t]
           n  == Clone(s, pid, c, TRUE)
<1>1. s \in States /\ Safe(s) /\ Counted(s) /\ s.st = "run" /\ s.proc[pid] = t /\ t \in Pids
  BY DEF Ready, CountedStates
<1>2. c # Failed /\ ~HasTable(s, c) /\ s.proc[c] # Null /\ HasTable(s, pid)
  BY <1>1, FailedAssumption, SentinelAssumption DEF HasTable, GetProcessHt
<1>3. n = [s EXCEPT !.proc = pr]
  BY <1>1, <1>2 DEF Clone
<1>4. n \in CountedStates
  BY <1>1, CloneType, CloneSafe, CloneCounted DEF CountedStates
<1>5. pr[c] = t /\ \A p \in Pids : p # c => pr[p] = s.proc[p]
  BY <1>1 DEF States
<1> HIDE DEF pr, n
<1>6. /\ n.proc = pr /\ n.ht = s.ht /\ n.map = s.map
      /\ n.os = s.os /\ n.usage = s.usage /\ n.st = s.st
  BY <1>1, <1>3 DEF States
<1> QED
  BY <1>1, <1>4, <1>6, <1>5 DEF n, Short, Ready, Threaded

LEMMA ForkSets ==
  ASSUME Stdin \notin Fds, NEW s, NEW pid \in Pids, NEW t, Ready(s, pid, t), NEW c \in Pids,
         s.proc[c] = Absent, Clone(s, pid, c, FALSE).st = "run"
  PROVE  Forked(s, Clone(s, pid, c, FALSE), t, c)
<1> DEFINE pr == [s.proc EXCEPT ![c] = c]
           nt == [f \in Fds |-> [i \in 1..CopyLen(s, t, f) |-> <<c, f, i>>]]
           h  == [s.ht EXCEPT ![c] = nt]
           k  == [m \in MapIds |-> IF m[1] = c /\ m[3] <= CopyLen(s, t, m[2])
                                   THEN CopyOf(s, t, m[2], m[3]) ELSE s.map[m]]
           u  == [r \in RealFds |-> s.usage[r] + Cardinality(UsersIn(s, t, r))]
           n  == Clone(s, pid, c, FALSE)
<1>1. s \in States /\ Safe(s) /\ Counted(s) /\ s.st = "run" /\ s.proc[pid] = t /\ t \in Pids
      /\ Short(s)
  BY DEF Ready, CountedStates
<1>2. c # Failed /\ ~HasTable(s, c) /\ s.proc[c] # Null /\ HasTable(s, pid)
  BY <1>1, FailedAssumption, SentinelAssumption DEF HasTable, GetProcessHt
<1>3. n \in CountedStates
  BY <1>1, CloneType, CloneSafe, CloneCounted DEF CountedStates
<1>4. n = DuplicateProcessHt(s, t, c)
  BY <1>1, <1>2 DEF Clone
<1>5. Stop(s, "uaf").st = "uaf" /\ Stop(s, "bound").st = "bound" /\ n.st = "run"
  BY <1>1 DEF Stop, States
<1>6. n = [s EXCEPT !.proc = pr, !.ht = h, !.map = k, !.usage = u]
  BY <1>4, <1>5 DEF DuplicateProcessHt
<1>7. ASSUME NEW f \in Fds
      PROVE  /\ s.ht[t][f] \in Seq(MapIds)
             /\ CopyLen(s, t, f) = Len(s.ht[t][f])
             /\ CopyLen(s, t, f) = IF s.ht[t][f] = <<>> THEN 0 ELSE 1
             /\ s.ht[t][f] # <<>> => Head(s.ht[t][f]) = s.ht[t][f][1]
  <2>1. s.ht[t][f] \in Seq(MapIds) /\ Len(s.ht[t][f]) <= 1
    BY <1>1 DEF States, Short
  <2>2. CopyLen(s, t, f) = Len(s.ht[t][f])
    BY <1>1, CopyLenType DEF HasStrayStdin
  <2>3. /\ s.ht[t][f] # <<>> => Len(s.ht[t][f]) = 1 /\ Head(s.ht[t][f]) = s.ht[t][f][1]
        /\ s.ht[t][f] = <<>> => Len(s.ht[t][f]) = 0
    BY <2>1, ShortChain
  <2> QED
    BY <2>1, <2>2, <2>3
<1>8. /\ \A f \in Fds : h[c][f] = [i \in 1..CopyLen(s, t, f) |-> <<c, f, i>>]
      /\ \A w \in Pids : w # c => h[w] = s.ht[w]
  BY <1>1 DEF States
<1>9. /\ \A y \in MapIds : ~(y[1] = c /\ y[3] <= CopyLen(s, t, y[2])) => k[y] = s.map[y]
      /\ \A y \in MapIds : y[1] = c /\ y[3] <= CopyLen(s, t, y[2])
                             => k[y] = CopyOf(s, t, y[2], y[3])
  OBVIOUS
<1>10. /\ pr[c] = c /\ \A p \in Pids : p # c => pr[p] = s.proc[p]
      /\ \A r \in RealFds : u[r] = s.usage[r] + Cardinality(UsersIn(s, t, r))
  BY <1>1 DEF States
<1> HIDE DEF pr, h, k, u, n, nt
<1>11. n.proc = pr /\ n.ht = h /\ n.map = k /\ n.usage = u /\ n.os = s.os
  BY <1>1, <1>6 DEF States
<1>12. ASSUME NEW f \in Fds
       PROVE  h[c][f] = IF s.ht[t][f] = <<>> THEN <<>> ELSE <<<<c, f, 1>>>>
  <2>1. CASE s.ht[t][f] = <<>>
    <3>1. h[c][f] = [i \in 1..0 |-> <<c, f, i>>]
      BY <1>7, <1>8, <2>1
    <3>2. [i \in 1..0 |-> <<c, f, i>>] = <<>>
      OBVIOUS
    <3> QED
      BY <2>1, <3>1, <3>2
  <2>2. CASE s.ht[t][f] # <<>>
    <3>1. h[c][f] = [i \in 1..1 |-> <<c, f, i>>]
      BY <1>7, <1>8, <2>2
    <3>2. [i \in 1..1 |-> <<c, f, i>>] = <<<<c, f, 1>>>>
      OBVIOUS
    <3> QED
      BY <2>2, <3>1, <3>2
  <2> QED
    BY <2>1, <2>2
<1>13. ASSUME NEW f \in Fds, s.ht[t][f] # <<>>
       PROVE  <<c, f, 1>> \in MapIds /\ k[<<c, f, 1>>] = s.map[Head(s.ht[t][f])]
  <2> DEFINE y == <<c, f, 1>>
  <2>1. y \in MapIds /\ y[1] = c /\ y[2] = f /\ y[3] = 1
    BY BoundAssumption DEF MapIds, Gens
  <2>2. CopyLen(s, t, f) = 1 /\ Len(s.ht[t][f]) = 1
    BY <1>7, <1>13
  <2> HIDE DEF y
  <2>3. k[y] = CopyOf(s, t, f, 1)
    BY <1>9, <2>1, <2>2
  <2>4. CopyOf(s, t, f, 1) = s.map[Head(s.ht[t][f])]
    BY <1>7, <1>13, <2>2 DEF CopyOf
  <2> QED
    BY <2>1, <2>3, <2>4 DEF y
<1>14. ASSUME NEW y \in MapIds, y[1] # c \/ s.ht[t][y[2]] = <<>> \/ y[3] # 1
       PROVE  k[y] = s.map[y]
  <2>1. y[2] \in Fds /\ y[3] \in Gens
    BY DEF MapIds
  <2>2. y[3] \in Nat /\ y[3] >= 1
    BY <2>1 DEF Gens
  <2>3. CopyLen(s, t, y[2]) = IF s.ht[t][y[2]] = <<>> THEN 0 ELSE 1
    BY <1>7, <2>1
  <2>4. ~(y[1] = c /\ y[3] <= CopyLen(s, t, y[2]))
    BY <1>14, <2>2, <2>3
  <2> QED
    BY <1>9, <2>4
<1>15. Short(n)
  <2> SUFFICES ASSUME NEW w \in Pids, NEW f \in Fds PROVE Len(h[w][f]) <= 1
    BY <1>11 DEF Short
  <2>1. Len(s.ht[w][f]) <= 1 /\ Len(<<>>) <= 1 /\ Len(<<<<c, f, 1>>>>) <= 1
    BY <1>1 DEF Short
  <2>2. h[w][f] = s.ht[w][f] \/ h[w][f] = <<>> \/ h[w][f] = <<<<c, f, 1>>>>
    BY <1>8, <1>12
  <2> QED
    BY <2>1, <2>2, Zenon
<1> QED
  BY <1>3, <1>8, <1>11, <1>12, <1>13, <1>14, <1>15, <1>10 DEF n, Forked

-----------------------------------------------------------------------------
(* What the handlers do to the replayer's tables is what the calls did to  *)
(* the tables of the recorded processes.                                   *)
KProcs == [Pids -> Pids \cup {Unborn, Dead}]
KTables == [Pids -> [Fds -> Files \cup {Virtual, Closed}]]

LEMMA LiveIsReady ==
  ASSUME NEW s \in CountedStates, s.st = "run", Short(s), NEW kp, NEW kf, Follows(s, kp, kf),
         NEW pid \in Pids, kp[pid] \in Pids
  PROVE  /\ Ready(s, pid, kp[pid])
         /\ \A fd \in Fds : s.ht[kp[pid]][fd] = <<>> <=> kf[kp[pid]][fd] = Closed
<1> DEFINE t == kp[pid]
<1>1. s.proc[pid] = t /\ t \in Pids /\ \A f \in Fds : ViewIn(s, t, f) = kf[t][f]
  BY DEF Follows
<1> HIDE DEF t
<1>2. \A fd \in Fds : s.ht[t][fd] = <<>> <=> kf[t][fd] = Closed
  BY <1>1, VacantView
<1> QED
  BY <1>1, <1>2 DEF Ready, t

LEMMA SetsFollow ==
  ASSUME NEW s, NEW n, NEW kp, NEW kf \in KTables, Follows(s, kp, kf), NEW pid \in Pids,
         kp[pid] \in Pids, NEW fd \in Fds, NEW v, Sets(s, n, kp[pid], fd, v)
  PROVE  Follows(n, kp, [kf EXCEPT ![kp[pid]][fd] = v])
<1> DEFINE t == kp[pid]
           g == [kf EXCEPT ![t] = [kf[t] EXCEPT ![fd] = v]]
<1>1. t \in Pids /\ kp[t] # Unborn
  BY DEF Follows
<1>2. g = [kf EXCEPT ![kp[pid]][fd] = v]
  BY DEF KTables
<1>3. \A w \in Pids, f \in Fds : g[w][f] = IF w = t /\ f = fd THEN v ELSE kf[w][f]
  BY <1>1 DEF KTables
<1>4. Sets(s, n, t, fd, v)
  OBVIOUS
<1> HIDE DEF t, g
<1>5. ASSUME NEW p \in Pids, kp[p] = Unborn
      PROVE  n.proc[p] = Absent /\ \A f \in Fds : n.ht[p][f] = <<>>
  <2>1. p # t
    BY <1>1, <1>5
  <2>2. n.ht[p] = s.ht[p] /\ n.proc = s.proc
    BY <1>4, <2>1 DEF Sets
  <2> QED
    BY <1>5, <2>2 DEF Follows
<1>6. ASSUME NEW p \in Pids, kp[p] \in Pids
      PROVE  /\ n.proc[p] = kp[p] /\ kp[kp[p]] # Unborn
             /\ \A f \in Fds : ViewIn(n, kp[p], f) = g[kp[p]][f]
  <2>1. /\ s.proc[p] = kp[p] /\ kp[kp[p]] # Unborn
        /\ \A f \in Fds : ViewIn(s, kp[p], f) = kf[kp[p]][f]
    BY <1>6 DEF Follows
  <2>2. n.proc = s.proc
    BY <1>4 DEF Sets
  <2>3. \A f \in Fds : ViewIn(n, kp[p], f) = g[kp[p]][f]
    BY <1>3, <1>4, <1>6, <2>1 DEF Sets
  <2> QED
    BY <2>1, <2>2, <2>3
<1> QED
  BY <1>2, <1>5, <1>6 DEF Follows

LEMMA ThreadFollows ==
  ASSUME NEW s \in CountedStates, s.st = "run", Short(s), NEW kp \in KProcs, NEW kf,
         Follows(s, kp, kf), NEW pid \in Pids, kp[pid] \in Pids, NEW c \in Pids, kp[c] = Unborn
  PROVE  LET n == Clone(s, pid, c, TRUE)
         IN  /\ n \in CountedStates /\ n.st = "run" /\ Short(n)
             /\ Follows(n, [kp EXCEPT ![c] = kp[pid]], kf)
<1> DEFINE t  == kp[pid]
           np == [kp EXCEPT ![c] = t]
           n  == Clone(s, pid, c, TRUE)
<1>1. Ready(s, pid, t) /\ s.proc[c] = Absent /\ t \in Pids /\ kp[t] # Unborn
  BY LiveIsReady DEF Follows
<1>2. /\ n \in CountedStates /\ n.st = "run" /\ Short(n)
      /\ n.proc[c] = t /\ \A p \in Pids : p # c => n.proc[p] = s.proc[p]
      /\ n.ht = s.ht /\ n.map = s.map /\ n.os = s.os
  <2> HIDE DEF t
  <2>1. Ready(s, pid, t) /\ s.proc[c] = Absent
    BY <1>1
  <2> QED
    <3>1. Threaded(s, n, t, c)
      BY <2>1, ThreadSets
    <3> HIDE DEF n
    <3> QED
      BY <3>1 DEF Threaded
<1>3. s \in States
  BY DEF CountedStates
<1>4. n.proc[c] = t /\ \A p \in Pids : p # c => n.proc[p] = s.proc[p]
  BY <1>2
<1>5. np[c] = t /\ \A p \in Pids : p # c => np[p] = kp[p]
  BY DEF KProcs
<1>6. \A w, f : ViewIn(n, w, f) = ViewIn(s, w, f)
  BY <1>2 DEF ViewIn
<1>7. np = [kp EXCEPT ![c] = kp[pid]]
  OBVIOUS
<1> HIDE DEF t, np, n
<1>8. ASSUME NEW p \in Pids, np[p] = Unborn
      PROVE  n.proc[p] = Absent /\ \A f \in Fds : n.ht[p][f] = <<>>
  <2>1. p # c /\ kp[p] = Unborn
    BY <1>1, <1>5, <1>8, MarkAssumption
  <2> QED
    BY <1>2, <1>4, <2>1 DEF Follows
<1>9. ASSUME NEW p \in Pids, np[p] \in Pids
      PROVE  /\ n.proc[p] = np[p] /\ np[np[p]] # Unborn
             /\ \A f \in Fds : ViewIn(n, np[p], f) = kf[np[p]][f]
  <2>1. PICK q \in Pids : kp[q] \in Pids /\ np[p] = kp[q] /\ n.proc[p] = s.proc[q]
    <3>1. CASE p = c
      <4>1. s.proc[pid] = t /\ kp[pid] = t
        BY <1>1 DEF Ready, t
      <4> QED
        BY <1>1, <1>4, <1>5, <3>1, <4>1
    <3>2. CASE p # c
      BY <1>4, <1>5, <1>9, <3>2
    <3> QED
      BY <3>1, <3>2
  <2>2. /\ s.proc[q] = kp[q] /\ kp[kp[q]] # Unborn
        /\ \A f \in Fds : ViewIn(s, kp[q], f) = kf[kp[q]][f]
    BY <2>1 DEF Follows
  <2>3. np[kp[q]] # Unborn
    BY <1>1, <1>5, <2>1, <2>2, MarkAssumption
  <2> QED
    BY <1>6, <2>1, <2>2, <2>3
<1>10. Follows(n, np, kf)
  BY <1>8, <1>9 DEF Follows
<1> QED
  BY <1>2, <1>7, <1>10 DEF n

LEMMA ForkFollows ==
  ASSUME Stdin \notin Fds, NEW s \in CountedStates, s.st = "run", Short(s), NEW kp \in KProcs,
         NEW kf \in KTables, Follows(s, kp, kf), NEW pid \in Pids, kp[pid] \in Pids,
         NEW c \in Pids, kp[c] = Unborn, Clone(s, pid, c, FALSE).st = "run"
  PROVE  LET n == Clone(s, pid, c, FALSE)
         IN  /\ n \in CountedStates /\ Short(n)
             /\ Follows(n, [kp EXCEPT ![c] = c], [kf EXCEPT ![c] = kf[kp[pid]]])
<1> DEFINE t  == kp[pid]
           np == [kp EXCEPT ![c] = c]
           nf == [kf EXCEPT ![c] = kf[t]]
           n  == Clone(s, pid, c, FALSE)
<1>1. Ready(s, pid, t) /\ s.proc[c] = Absent /\ t \in Pids /\ kp[t] # Unborn
      /\ \A f \in Fds : ViewIn(s, t, f) = kf[t][f]
  BY LiveIsReady DEF Follows
<1>2. /\ n \in CountedStates /\ Short(n)
      /\ n.proc[c] = c /\ \A p \in Pids : p # c => n.proc[p] = s.proc[p]
      /\ n.os = s.os
      /\ \A w \in Pids : w # c => n.ht[w] = s.ht[w]
      /\ \A f \in Fds : n.ht[c][f] = IF s.ht[t][f] = <<>> THEN <<>> ELSE <<<<c, f, 1>>>>
      /\ \A y \in MapIds : y[1] # c => n.map[y] = s.map[y]
      /\ \A f \in Fds : s.ht[t][f] # <<>> => n.map[<<c, f, 1>>] = s.map[Head(s.ht[t][f])]
  <2> HIDE DEF t
  <2>1. Ready(s, pid, t) /\ s.proc[c] = Absent /\ n.st = "run"
    BY <1>1
  <2> QED
    <3>1. Forked(s, n, t, c)
      BY <2>1, ForkSets
    <3> HIDE DEF n
    <3> QED
      BY <3>1 DEF Forked
<1>3. s \in States /\ Safe(s)
  BY DEF CountedStates
<1>4. n.proc[c] = c /\ \A p \in Pids : p # c => n.proc[p] = s.proc[p]
  BY <1>2
<1>5. np[c] = c /\ \A p \in Pids : p # c => np[p] = kp[p]
  BY DEF KProcs
<1>6. nf[c] = kf[t] /\ \A w \in Pids : w # c => nf[w] = kf[w]
  BY DEF KTables
<1>7. SameFiles(s, n)
  BY <1>2 DEF SameFiles
<1>8. np = [kp EXCEPT ![c] = c] /\ nf = [kf EXCEPT ![c] = kf[kp[pid]]]
  OBVIOUS
<1> HIDE DEF t, np, nf, n
<1>9. ASSUME NEW w \in Pids, w # c, NEW f \in Fds
      PROVE  ViewIn(n, w, f) = ViewIn(s, w, f)
  <2>1. n.ht[w][f] = s.ht[w][f]
    BY <1>2, <1>9
  <2>2. ASSUME s.ht[w][f] # <<>>
        PROVE  n.map[Head(s.ht[w][f])].my = s.map[Head(s.ht[w][f])].my
    <3>1. Head(s.ht[w][f]) \in MapIds /\ Head(s.ht[w][f])[1] = w
      BY <1>3, <2>2, HeadLinked DEF Safe
    <3> QED
      BY <1>2, <1>9, <3>1
  <2> QED
    BY <1>2, <1>7, <2>1, <2>2, ViewStays
<1>10. ASSUME NEW f \in Fds
       PROVE  ViewIn(n, c, f) = ViewIn(s, t, f)
  <2>1. CASE s.ht[t][f] = <<>>
    BY <1>2, <2>1 DEF ViewIn
  <2>2. CASE s.ht[t][f] # <<>>
    <3> DEFINE y == <<c, f, 1>>
               x == Head(n.ht[c][f])
               m == s.map[Head(s.ht[t][f])]
    <3>1. n.ht[c][f] = <<y>> /\ n.map[y] = m
      BY <1>2, <2>2
    <3> HIDE DEF y
    <3>2. Head(<<y>>) = y /\ <<y>> # <<>>
      OBVIOUS
    <3>3. n.ht[c][f] # <<>> /\ x = y
      BY <3>1, <3>2, Zenon
    <3>4. ViewIn(n, c, f) = IF n.map[x].my = Virtual THEN Virtual ELSE n.os[n.map[x].my]
      <4>1. n \in CountedStates /\ n.ht[c][f] # <<>>
        BY <1>2, <3>3
      <4> QED
        BY <4>1, HeadView
    <3>5. ViewIn(s, t, f) = IF m.my = Virtual THEN Virtual ELSE s.os[m.my]
      BY <1>1, <2>2, HeadView
    <3> HIDE DEF x, m
    <3> QED
      BY <1>2, <3>1, <3>3, <3>4, <3>5
  <2> QED
    BY <2>1, <2>2
<1>11. ASSUME NEW p \in Pids, np[p] = Unborn
       PROVE  n.proc[p] = Absent /\ \A f \in Fds : n.ht[p][f] = <<>>
  <2>1. p # c /\ kp[p] = Unborn
    BY <1>5, <1>11, MarkAssumption
  <2> QED
    BY <1>2, <1>4, <2>1 DEF Follows
<1>12. ASSUME NEW p \in Pids, np[p] \in Pids
       PROVE  /\ n.proc[p] = np[p] /\ np[np[p]] # Unborn
              /\ \A f \in Fds : ViewIn(n, np[p], f) = nf[np[p]][f]
  <2>1. CASE p = c
    <3>1. np[p] = c /\ np[np[p]] # Unborn
      BY <1>5, <2>1, MarkAssumption
    <3> QED
      BY <1>1, <1>4, <1>6, <1>10, <2>1, <3>1
  <2>2. CASE p # c
    <3>1. np[p] = kp[p] /\ kp[p] \in Pids
      BY <1>5, <1>12, <2>2
    <3>2. /\ s.proc[p] = kp[p] /\ kp[kp[p]] # Unborn
          /\ \A f \in Fds : ViewIn(s, kp[p], f) = kf[kp[p]][f]
      BY <3>1 DEF Follows
    <3>3. kp[p] # c /\ np[kp[p]] # Unborn
      BY <1>5, <3>1, <3>2
    <3> QED
      BY <1>4, <1>6, <1>9, <2>2, <3>1, <3>2, <3>3
  <2> QED
    BY <2>1, <2>2
<1>13. Follows(n, np, nf)
  BY <1>11, <1>12 DEF Follows
<1> QED
  BY <1>2, <1>8, <1>13 DEF n

-----------------------------------------------------------------------------
(* When record rec has been replayed, the replayer's tables are those of   *)
(* the recorded processes, if it is still running and had room to open.    *)
Lands(s, rec, kp, kf) ==
  LET n == Replay(s, rec)
  IN  (rec.op = "open" => FreeFds(s) # {}) /\ n.st = "run"
        => n \in CountedStates /\ Short(n) /\ Follows(n, kp, kf)

(* A call of a live process, when the replayer has caught up with them.    *)
Calling(s, pid, kp, kf) ==
  /\ s \in CountedStates /\ s.st = "run" /\ Short(s) /\ Follows(s, kp, kf)
  /\ kp \in KProcs /\ kf \in KTables /\ kp[pid] \in Pids

Rec(op, pid, a, b) == [op |-> op, pid |-> pid, a |-> a, b |-> b]

LEMMA OpenLands ==
  ASSUME NEW s, NEW pid \in Pids, NEW kp, NEW kf, Calling(s, pid, kp, kf),
         NEW fd \in Fds, kf[kp[pid]][fd] = Closed, NEW file \in Files
  PROVE  Lands(s, Rec("open", pid, fd, file), kp, [kf EXCEPT ![kp[pid]][fd] = file])
<1> DEFINE t == kp[pid]
           n == Open(s, pid, fd, file, {})
<1>1. Replay(s, Rec("open", pid, fd, file)) = n /\ Rec("open", pid, fd, file).op = "open"
  BY DEF Replay, Rec
<1>2. Ready(s, pid, t) /\ s.ht[t][fd] = <<>>
  BY LiveIsReady DEF Calling
<1> SUFFICES ASSUME FreeFds(s) # {}, n.st = "run"
             PROVE  n \in CountedStates /\ Short(n) /\ Follows(n, kp, [kf EXCEPT ![t][fd] = file])
  BY <1>1 DEF Lands
<1>3. Sets(s, n, t, fd, file)
  <2> HIDE DEF t
  <2> QED
    BY <1>2, OpenSets
<1> HIDE DEF n
<1> QED
  BY <1>3, SetsFollow DEF Calling, Sets

LEMMA SocketLands ==
  ASSUME NEW s, NEW pid \in Pids, NEW kp, NEW kf, Calling(s, pid, kp, kf),
         NEW fd \in Fds, kf[kp[pid]][fd] = Closed
  PROVE  Lands(s, Rec("socket", pid, fd, Virtual), kp, [kf EXCEPT ![kp[pid]][fd] = Virtual])
<1> DEFINE t == kp[pid]
           n == Socket(s, pid, fd)
<1>1. Replay(s, Rec("socket", pid, fd, Virtual)) = n
  BY DEF Replay, Rec
<1>2. Ready(s, pid, t) /\ s.ht[t][fd] = <<>>
  BY LiveIsReady DEF Calling
<1> SUFFICES ASSUME n.st = "run"
             PROVE  n \in CountedStates /\ Short(n) /\ Follows(n, kp, [kf EXCEPT ![t][fd] = Virtual])
  BY <1>1 DEF Lands
<1>3. Sets(s, n, t, fd, Virtual)
  <2> HIDE DEF t
  <2> QED
    BY <1>2, SocketSets
<1> HIDE DEF n
<1> QED
  BY <1>3, SetsFollow DEF Calling, Sets

LEMMA CloseLands ==
  ASSUME NEW s, NEW pid \in Pids, NEW kp, NEW kf, Calling(s, pid, kp, kf), NEW fd \in Fds
  PROVE  Lands(s, Rec("close", pid, fd, Closed), kp, [kf EXCEPT ![kp[pid]][fd] = Closed])
<1> DEFINE t == kp[pid]
           n == Close(s, pid, fd, {}, FALSE)
<1>1. Replay(s, Rec("close", pid, fd, Closed)) = n
  BY DEF Replay, Rec
<1>2. Ready(s, pid, t)
  BY LiveIsReady DEF Calling
<1> SUFFICES ASSUME n.st = "run"
             PROVE  n \in CountedStates /\ Short(n) /\ Follows(n, kp, [kf EXCEPT ![t][fd] = Closed])
  BY <1>1 DEF Lands
<1>3. Sets(s, n, t, fd, Closed)
  <2> HIDE DEF t
  <2> QED
    BY <1>2, CloseSets
<1> HIDE DEF n
<1> QED
  BY <1>3, SetsFollow DEF Calling, Sets

LEMMA DupLands ==
  ASSUME RoomForParents, NEW s, NEW pid \in Pids, NEW kp, NEW kf, Calling(s, pid, kp, kf),
         NEW fd \in Fds, NEW new \in Fds, fd # new, kf[kp[pid]][fd] # Closed
  PROVE  Lands(s, Rec("dup", pid, fd, new), kp,
               [kf EXCEPT ![kp[pid]][new] = kf[kp[pid]][fd]])
<1> DEFINE t == kp[pid]
           v == kf[t][fd]
           n == Dup(s, pid, fd, new, {}, FALSE)
<1>1. Replay(s, Rec("dup", pid, fd, new)) = n
  BY DEF Replay, Rec
<1>2. Ready(s, pid, t) /\ s.ht[t][fd] # <<>> /\ ViewIn(s, t, fd) = v
  BY LiveIsReady DEF Calling, Follows
<1> SUFFICES ASSUME n.st = "run"
             PROVE  n \in CountedStates /\ Short(n) /\ Follows(n, kp, [kf EXCEPT ![t][new] = v])
  BY <1>1 DEF Lands
<1>3. Sets(s, n, t, new, v)
  <2> HIDE DEF t, v
  <2>1. Sets(s, n, t, new, ViewIn(s, t, fd))
    BY <1>2, DupSets
  <2> QED
    BY <1>2, <2>1
<1> HIDE DEF n, v
<1> QED
  BY <1>3, SetsFollow DEF Calling, Sets

LEMMA UseLands ==
  ASSUME NEW s, NEW pid \in Pids, NEW kp, NEW kf, Calling(s, pid, kp, kf),
         NEW fd \in Fds, kf[kp[pid]][fd] # Closed
  PROVE  Lands(s, Rec("read", pid, fd, Closed), kp, kf)
<1> DEFINE t == kp[pid]
<1>1. Replay(s, Rec("read", pid, fd, Closed)) = Use(s, pid, fd, {})
  BY DEF Replay, Rec
<1>2. Ready(s, pid, t) /\ s.ht[t][fd] # <<>>
  BY LiveIsReady DEF Calling
<1> HIDE DEF t
<1>3. Use(s, pid, fd, {}) = s
  BY <1>2, UseSets
<1> QED
  BY <1>1, <1>3 DEF Lands, Calling

LEMMA PipeLands ==
  ASSUME NEW s, NEW pid \in Pids, NEW kp, NEW kf, Calling(s, pid, kp, kf),
         NEW fd1 \in Fds, NEW fd2 \in Fds, fd1 # fd2,
         kf[kp[pid]][fd1] = Closed, kf[kp[pid]][fd2] = Closed
  PROVE  Lands(s, Rec("pipe", pid, fd1, fd2), kp,
               [kf EXCEPT ![kp[pid]][fd1] = Virtual, ![kp[pid]][fd2] = Virtual])
<1> DEFINE t == kp[pid]
           n == Pipe(s, pid, fd1, fd2)
           g == AddItem(s, t, fd1, Virtual, fd1)
           k == [kf EXCEPT ![t][fd1] = Virtual]
<1>1. Replay(s, Rec("pipe", pid, fd1, fd2)) = n
  BY DEF Replay, Rec
<1>2. Ready(s, pid, t) /\ s.ht[t][fd1] = <<>> /\ s.ht[t][fd2] = <<>>
  BY LiveIsReady DEF Calling
<1>3. [kf EXCEPT ![kp[pid]][fd1] = Virtual, ![kp[pid]][fd2] = Virtual]
        = [k EXCEPT ![kp[pid]][fd2] = Virtual]
  OBVIOUS
<1>4. k \in KTables
  BY DEF Calling, KTables
<1> SUFFICES ASSUME n.st = "run"
             PROVE  n \in CountedStates /\ Short(n) /\ Follows(n, kp, [k EXCEPT ![t][fd2] = Virtual])
  BY <1>1, <1>3 DEF Lands
<1>5. Sets(s, g, t, fd1, Virtual) /\ Sets(g, n, t, fd2, Virtual)
  <2> HIDE DEF t
  <2> QED
    BY <1>2, PipeSets
<1> HIDE DEF g, n
<1>6. Follows(g, kp, k)
  BY <1>5, SetsFollow DEF Calling
<1> HIDE DEF k
<1>7. kp[pid] \in Pids
  BY DEF Calling
<1>8. Follows(n, kp, [k EXCEPT ![t][fd2] = Virtual])
  BY <1>4, <1>5, <1>6, <1>7, SetsFollow
<1> QED
  BY <1>5, <1>8 DEF Sets

LEMMA CloneLands ==
  ASSUME Stdin \notin Fds, NEW s, NEW pid \in Pids, NEW kp, NEW kf, Calling(s, pid, kp, kf),
         NEW c \in Pids, kp[c] = Unborn, NEW share \in BOOLEAN
  PROVE  Lands(s, Rec("clone", pid, c, share),
               [kp EXCEPT ![c] = IF share THEN kp[pid] ELSE c],
               IF share THEN kf ELSE [kf EXCEPT ![c] = kf[kp[pid]]])
<1> DEFINE n == Clone(s, pid, c, share)
<1>1. Replay(s, Rec("clone", pid, c, share)) = n
  BY DEF Replay, Rec
<1>2. CASE share
  <2>1. share = TRUE
    BY <1>2
  <2> DEFINE m == Clone(s, pid, c, TRUE)
  <2>2. m \in CountedStates /\ Short(m) /\ Follows(m, [kp EXCEPT ![c] = kp[pid]], kf)
    BY ThreadFollows DEF Calling
  <2>3. n = m
    BY <2>1
  <2> HIDE DEF m, n
  <2> QED
    BY <1>1, <2>1, <2>2, <2>3 DEF Lands
<1>3. CASE ~share
  <2>1. share = FALSE
    BY <1>3
  <2> DEFINE m == Clone(s, pid, c, FALSE)
             np == [kp EXCEPT ![c] = c]
             nf == [kf EXCEPT ![c] = kf[kp[pid]]]
  <2>2. m.st = "run" => m \in CountedStates /\ Short(m) /\ Follows(m, np, nf)
    BY ForkFollows DEF Calling
  <2>3. n = m
    BY <2>1
  <2>4. Rec("clone", pid, c, share) = Rec("clone", pid, c, FALSE)
    BY <2>1
  <2> HIDE DEF m, n, np, nf
  <2>5. Lands(s, Rec("clone", pid, c, share), np, nf)
    BY <1>1, <2>2, <2>3 DEF Lands
  <2> QED
    BY <2>1, <2>5 DEF np, nf
<1> QED
  BY <1>2, <1>3

-----------------------------------------------------------------------------
(* The replayer has the tables of the recorded processes when every call   *)
(* is reported, and a call that is not reported yet gives it them.         *)
Pending == CallsOn(Fds, Files) \cup CallsOn(Fds, {Virtual, Closed})
             \cup CallsOn(Fds, Fds) \cup CallsOn(Pids, BOOLEAN)
KTypes ==
  /\ kproc \in KProcs /\ kfds \in KTables
  /\ pend \in [Pids -> Pending \cup {Idle}]
OneCall == \A p, q \in Pids : pend[p] # Idle /\ pend[q] # Idle => p = q
KeepsUp ==
  st = "run" =>
    /\ Cur \in CountedStates /\ Short(Cur)
    /\ K!Quiet => Follows(Cur, kproc, kfds)
    /\ \A p \in Pids : pend[p] # Idle => Lands(Cur, pend[p], kproc, kfds)
TracedInv == KTypes /\ OneCall /\ KeepsUp

LEMMA TracedInitKeepsUp == Stdin \notin Fds /\ TracedInit => TracedInv
<1> SUFFICES ASSUME Stdin \notin Fds, TracedInit PROVE TracedInv
  OBVIOUS
<1>1. Init /\ K!KInit
  BY DEF TracedInit
<1>2. KTypes /\ OneCall
  BY <1>1, RootAssumption DEF K!KInit, KTypes, OneCall, KProcs, KTables
<1>3. Cur \in CountedStates
  BY <1>1, InitCounted
<1>4. ASSUME NEW t \in Pids, NEW f \in Fds
      PROVE  Cur.ht[t][f] = IF t = Root /\ f \in StdFds THEN <<<<Root, f, 1>>>> ELSE <<>>
  BY <1>1 DEF Init, Cur
<1>5. Short(Cur)
  <2> SUFFICES ASSUME NEW t \in Pids, NEW f \in Fds PROVE Len(Cur.ht[t][f]) <= 1
    BY DEF Short
  <2>1. Len(<<>>) <= 1 /\ Len(<<<<Root, f, 1>>>>) <= 1
    OBVIOUS
  <2>2. Cur.ht[t][f] = <<>> \/ Cur.ht[t][f] = <<<<Root, f, 1>>>>
    BY <1>4
  <2> QED
    BY <2>1, <2>2, Zenon
<1>6. Follows(Cur, kproc, kfds)
  <2>1. ASSUME NEW p \in Pids
        PROVE  /\ kproc[p] = IF p = Root THEN Root ELSE Unborn
               /\ Cur.proc[p] = IF p = Root THEN Root ELSE Absent
    BY <1>1 DEF K!KInit, Init, Cur
  <2>2. ASSUME NEW f \in Fds
        PROVE  ViewIn(Cur, Root, f) = kfds[Root][f]
    <3>1. f \in 0..2 <=> f \in StdFds
      BY FdAssumption DEF StdFds, Stdin
    <3>2. kfds[Root][f] = IF f \in StdFds THEN Virtual ELSE Closed
      BY <1>1, <3>1, RootAssumption DEF K!KInit
    <3>3. CASE f \in StdFds
      <4> DEFINE y == <<Root, f, 1>>
      <4>1. y \in MapIds /\ y[1] = Root /\ y[2] = f /\ y[3] = 1
        BY RootAssumption, BoundAssumption DEF MapIds, Gens
      <4>2. Cur.ht[Root][f] = <<y>>
        BY <1>4, <3>3, RootAssumption
      <4> HIDE DEF y
      <4>3. Cur.map[y].my = Virtual
        BY <1>1, <3>3, <4>1 DEF Init, Cur
      <4>4. Head(<<y>>) = y /\ <<y>> # <<>>
        OBVIOUS
      <4>5. Cur.ht[Root][f] # <<>> /\ Head(Cur.ht[Root][f]) = y
        BY <4>2, <4>4, Zenon
      <4>6. ViewIn(Cur, Root, f) = Virtual
        <5> DEFINE my == Cur.map[Head(Cur.ht[Root][f])].my
        <5>1. ViewIn(Cur, Root, f) = IF my = Virtual THEN Virtual ELSE Cur.os[my]
          BY <1>3, <4>5, RootAssumption, HeadView
        <5> QED
          BY <4>3, <4>5, <5>1
      <4> QED
        BY <3>2, <3>3, <4>6
    <3>4. CASE f \notin StdFds
      <4>1. Cur.ht[Root][f] = <<>>
        BY <1>4, <3>4, RootAssumption
      <4>2. ViewIn(Cur, Root, f) = Closed
        BY <4>1 DEF ViewIn
      <4> QED
        BY <3>2, <3>4, <4>2
    <3> QED
      BY <3>3, <3>4
  <2>3. ASSUME NEW p \in Pids, p # Root, NEW f \in Fds PROVE Cur.ht[p][f] = <<>>
    BY <1>4, <2>3
  <2> QED
    BY <2>1, <2>2, <2>3, RootAssumption, MarkAssumption DEF Follows
<1>7. \A p \in Pids : pend[p] = Idle
  BY <1>1 DEF K!KInit
<1> QED
  BY <1>2, <1>3, <1>5, <1>6, <1>7 DEF TracedInv, KeepsUp

(* A call starts when every other is reported; the replayer then has what  *)
(* it needs to follow it.                                                  *)
LEMMA LowestIsUnused ==
  ASSUME NEW p \in Pids, K!Unused(p) # {}
  PROVE  K!LowestUnused(p) \in Fds /\ kfds[kproc[p]][K!LowestUnused(p)] = Closed
<1>1. K!Unused(p) \in SUBSET Nat
  BY FdAssumption DEF K!Unused
<1>2. \E f \in K!Unused(p) : \A g \in K!Unused(p) : f <= g
  BY <1>1, LeastNat
<1>3. K!LowestUnused(p) \in K!Unused(p)
  BY <1>2 DEF K!LowestUnused
<1> QED
  BY <1>3 DEF K!Unused, K!OpenOn

LEMMA CallStarts ==
  ASSUME KTypes, NEW p \in Pids, NEW op, NEW a, NEW b,
         Rec(op, p, a, b) \in Pending, K!Quiet, K!Call(p, op, a, b)
  PROVE  /\ pend' \in [Pids -> Pending \cup {Idle}]
         /\ pend'[p] = Rec(op, p, a, b) /\ \A q \in Pids : q # p => pend'[q] = Idle
         /\ OneCall' /\ ~(K!Quiet)'
<1> DEFINE r == Rec(op, p, a, b)
<1>1. pend' = [pend EXCEPT ![p] = r] /\ r \in Pending
  BY DEF K!Call, Rec
<1>2. r # Idle
  BY <1>1, MarkAssumption DEF Pending
<1> HIDE DEF r
<1>3. /\ pend' \in [Pids -> Pending \cup {Idle}]
      /\ pend'[p] = r /\ \A q \in Pids : q # p => pend'[q] = Idle
  BY <1>1 DEF KTypes, K!Quiet
<1> QED
  BY <1>2, <1>3 DEF r, OneCall, K!Quiet

(* A record of a call of a live process, by the tables before the call.    *)
MadeCall(rec, kp, kf) ==
  LET t == kp[rec.pid]
  IN  \/ rec.op = "open" /\ rec.a \in Fds /\ kf[t][rec.a] = Closed /\ rec.b \in Files
      \/ rec.op = "socket" /\ rec.a \in Fds /\ kf[t][rec.a] = Closed
      \/ rec.op = "pipe" /\ "pipe" \in Ops /\ rec.a \in Fds /\ kf[t][rec.a] = Closed
           /\ rec.b \in Fds /\ kf[t][rec.b] = Closed /\ rec.a # rec.b
      \/ rec.op = "close" /\ rec.a \in Fds
      \/ rec.op = "dup" /\ rec.a \in Fds /\ kf[t][rec.a] # Closed
           /\ rec.b \in Fds /\ rec.a # rec.b
      \/ rec.op = "read" /\ rec.a \in Fds /\ kf[t][rec.a] # Closed
      \/ rec.op = "clone" /\ rec.a \in Pids /\ kp[rec.a] = Unborn /\ rec.b \in BOOLEAN

(* What a process calls is followed as soon as it is reported.             *)
Called(p) ==
  /\ kproc' \in KProcs /\ kfds' \in KTables
  /\ \E op, a, b : /\ Rec(op, p, a, b) \in Pending /\ K!Call(p, op, a, b)
                   /\ kproc[p] \in Pids /\ MadeCall(Rec(op, p, a, b), kproc, kfds)
                   /\ st = "run" => Lands(Cur, Rec(op, p, a, b), kproc', kfds')

LEMMA RunCalls ==
  ASSUME RoomForParents, InOrder, ~ReusePids, Stdin \notin Fds, TracedInv,
         NEW p \in Pids, K!KStep(p), ~K!Exit(p)
  PROVE  K!Quiet /\ Called(p)
<1> DEFINE t == kproc[p]
<1>0. /\ kproc \in KProcs /\ kfds \in KTables
      /\ \A f \in Fds : K!OpenOn(p, f) = kfds[t][f]
      /\ \A f \in Fds \ K!Unused(p) : kfds[t][f] # Closed
  BY DEF TracedInv, KTypes, K!OpenOn, K!Unused
<1>1. ASSUME NEW op, K!MayCall(op, p)
      PROVE  /\ K!Quiet /\ t \in Pids
             /\ st = "run" => Calling(Cur, p, kproc, kfds)
  BY <1>1 DEF K!MayCall, K!Live, TracedInv, KTypes, KeepsUp, Calling, Cur
<1>2. ASSUME NEW f \in Fds, NEW v \in Files \cup {Virtual, Closed}, t \in Pids, K!SetFd(p, f, v)
      PROVE  kfds' = [kfds EXCEPT ![t][f] = v] /\ kfds' \in KTables
  BY <1>0, <1>2 DEF K!SetFd, KTables
<1>3. CASE K!CallOpen(p)
  <2> DEFINE fd == K!LowestUnused(p)
  <2>1. PICK file \in Files : K!SetFd(p, fd, file) /\ K!Call(p, "open", fd, file)
    BY <1>3 DEF K!CallOpen
  <2>2. K!MayCall("open", p) /\ K!Unused(p) # {} /\ kproc' = kproc
    BY <1>3 DEF K!CallOpen
  <2>3. fd \in Fds /\ kfds[t][fd] = Closed
    BY <2>2, LowestIsUnused
  <2> HIDE DEF fd
  <2>4. Rec("open", p, fd, file) \in Pending
    BY <2>3 DEF Rec, Pending, CallsOn, Kinds
  <2>5. kfds' = [kfds EXCEPT ![t][fd] = file] /\ kfds' \in KTables
    BY <1>1, <1>2, <2>1, <2>2, <2>3
  <2>6. st = "run" => Lands(Cur, Rec("open", p, fd, file), kproc, [kfds EXCEPT ![t][fd] = file])
    BY <1>1, <2>2, <2>3, OpenLands
  <2>7. MadeCall(Rec("open", p, fd, file), kproc, kfds)
    BY <2>3 DEF MadeCall, Rec
  <2> QED
    BY <1>0, <1>1, <2>1, <2>2, <2>4, <2>5, <2>6, <2>7 DEF Called
<1>4. CASE K!CallSocket(p)
  <2> DEFINE fd == K!LowestUnused(p)
  <2>1. K!SetFd(p, fd, Virtual) /\ K!Call(p, "socket", fd, Virtual)
    BY <1>4 DEF K!CallSocket
  <2>2. K!MayCall("socket", p) /\ K!Unused(p) # {} /\ kproc' = kproc
    BY <1>4 DEF K!CallSocket
  <2>3. fd \in Fds /\ kfds[t][fd] = Closed
    BY <2>2, LowestIsUnused
  <2> HIDE DEF fd
  <2>4. Rec("socket", p, fd, Virtual) \in Pending
    BY <2>3 DEF Rec, Pending, CallsOn, Kinds
  <2>5. kfds' = [kfds EXCEPT ![t][fd] = Virtual] /\ kfds' \in KTables
    BY <1>1, <1>2, <2>1, <2>2, <2>3
  <2>6. st = "run" => Lands(Cur, Rec("socket", p, fd, Virtual), kproc,
                            [kfds EXCEPT ![t][fd] = Virtual])
    BY <1>1, <2>2, <2>3, SocketLands
  <2>7. MadeCall(Rec("socket", p, fd, Virtual), kproc, kfds)
    BY <2>3 DEF MadeCall, Rec
  <2> QED
    BY <1>0, <1>1, <2>1, <2>2, <2>4, <2>5, <2>6, <2>7 DEF Called
<1>5. CASE K!CallPipe(p)
  <2> DEFINE fd1 == K!LowestUnused(p)
             rest == K!Unused(p) \ {fd1}
             fd2 == CHOOSE f \in rest : \A g \in rest : f <= g
  <2>1. /\ kfds' = [kfds EXCEPT ![t][fd1] = Virtual, ![t][fd2] = Virtual]
        /\ K!Call(p, "pipe", fd1, fd2)
    BY <1>5 DEF K!CallPipe
  <2>2. K!MayCall("pipe", p) /\ K!Unused(p) # {} /\ K!Unused(p) # {fd1} /\ kproc' = kproc
    BY <1>5 DEF K!CallPipe
  <2>3. fd1 \in Fds /\ kfds[t][fd1] = Closed
    BY <2>2, LowestIsUnused
  <2>4. fd2 \in rest
    <3>1. rest \in SUBSET Nat /\ rest # {}
      BY <2>2, FdAssumption DEF K!Unused
    <3>2. \E f \in rest : \A g \in rest : f <= g
      BY <3>1, LeastNat
    <3> HIDE DEF rest
    <3> QED
      BY <3>2
  <2>5. fd2 \in Fds /\ fd1 # fd2 /\ kfds[t][fd2] = Closed
    BY <2>4 DEF K!Unused, K!OpenOn
  <2> HIDE DEF fd1, fd2
  <2>6. Rec("pipe", p, fd1, fd2) \in Pending
    BY <2>3, <2>5 DEF Rec, Pending, CallsOn, Kinds
  <2>7. kfds' \in KTables
    BY <1>0, <1>1, <2>1, <2>2 DEF KTables
  <2>8. st = "run" => Lands(Cur, Rec("pipe", p, fd1, fd2), kproc,
                            [kfds EXCEPT ![t][fd1] = Virtual, ![t][fd2] = Virtual])
    BY <1>1, <2>2, <2>3, <2>5, PipeLands
  <2>9. MadeCall(Rec("pipe", p, fd1, fd2), kproc, kfds)
    BY <2>2, <2>3, <2>5 DEF MadeCall, Rec, K!MayCall
  <2> QED
    BY <1>0, <1>1, <2>1, <2>2, <2>6, <2>7, <2>8, <2>9 DEF Called
<1>6. CASE K!CallClose(p)
  <2>1. PICK f \in Fds \ K!Unused(p) : K!SetFd(p, f, Closed) /\ K!Call(p, "close", f, Closed)
    BY <1>6 DEF K!CallClose
  <2>2. K!MayCall("close", p) /\ kproc' = kproc
    BY <1>6 DEF K!CallClose
  <2>3. Rec("close", p, f, Closed) \in Pending
    BY DEF Rec, Pending, CallsOn, Kinds
  <2>4. kfds' = [kfds EXCEPT ![t][f] = Closed] /\ kfds' \in KTables
    BY <1>1, <1>2, <2>1, <2>2
  <2>5. st = "run" => Lands(Cur, Rec("close", p, f, Closed), kproc,
                            [kfds EXCEPT ![t][f] = Closed])
    BY <1>1, <2>2, CloseLands
  <2>6. MadeCall(Rec("close", p, f, Closed), kproc, kfds)
    BY DEF MadeCall, Rec
  <2> QED
    BY <1>0, <1>1, <2>1, <2>2, <2>3, <2>4, <2>5, <2>6 DEF Called
<1>7. CASE K!CallDup(p)
  <2>1. PICK f \in Fds \ K!Unused(p), new \in Fds :
          new # f /\ K!SetFd(p, new, K!OpenOn(p, f)) /\ K!Call(p, "dup", f, new)
    BY <1>7 DEF K!CallDup
  <2>2. K!MayCall("dup", p) /\ kproc' = kproc
    BY <1>7 DEF K!CallDup
  <2>3. Rec("dup", p, f, new) \in Pending
    BY DEF Rec, Pending, CallsOn, Kinds
  <2>4. kfds[t][f] # Closed /\ K!OpenOn(p, f) = kfds[t][f]
    BY <1>0
  <2>5. kfds[t][f] \in Files \cup {Virtual, Closed}
    BY <1>0, <1>1, <2>2 DEF KTables
  <2>6. kfds' = [kfds EXCEPT ![t][new] = kfds[t][f]] /\ kfds' \in KTables
    BY <1>1, <1>2, <2>1, <2>2, <2>4, <2>5
  <2>7. st = "run" => Lands(Cur, Rec("dup", p, f, new), kproc,
                            [kfds EXCEPT ![t][new] = kfds[t][f]])
    BY <1>1, <2>1, <2>2, <2>4, DupLands
  <2>8. MadeCall(Rec("dup", p, f, new), kproc, kfds)
    BY <2>1, <2>4 DEF MadeCall, Rec
  <2> QED
    BY <1>0, <1>1, <2>1, <2>2, <2>3, <2>6, <2>7, <2>8 DEF Called
<1>8. CASE K!CallUse(p)
  <2>1. PICK f \in Fds \ K!Unused(p) : K!Call(p, "read", f, Closed)
    BY <1>8 DEF K!CallUse
  <2>2. K!MayCall("read", p) /\ kproc' = kproc /\ kfds' = kfds
    BY <1>8 DEF K!CallUse
  <2>3. Rec("read", p, f, Closed) \in Pending
    BY DEF Rec, Pending, CallsOn, Kinds
  <2>4. kfds[t][f] # Closed
    BY <1>0
  <2>5. st = "run" => Lands(Cur, Rec("read", p, f, Closed), kproc, kfds)
    BY <1>1, <2>2, <2>4, UseLands
  <2>6. MadeCall(Rec("read", p, f, Closed), kproc, kfds)
    BY <2>4 DEF MadeCall, Rec
  <2> QED
    BY <1>0, <1>1, <2>1, <2>2, <2>3, <2>5, <2>6 DEF Called
<1>9. CASE K!CallClone(p)
  <2>1. PICK c \in Pids, share \in BOOLEAN :
          /\ K!MayCall(IF share THEN "thread" ELSE "fork", p)
          /\ kproc[c] = Unborn
          /\ kproc' = [kproc EXCEPT ![c] = IF share THEN kproc[p] ELSE c]
          /\ kfds' = IF share THEN kfds ELSE [kfds EXCEPT ![c] = kfds[kproc[p]]]
          /\ K!Call(p, "clone", c, share)
    BY <1>9 DEF K!CallClone
  <2>2. K!Quiet /\ t \in Pids /\ (st = "run" => Calling(Cur, p, kproc, kfds))
    BY <1>1, <2>1
  <2>3. Rec("clone", p, c, share) \in Pending
    BY DEF Rec, Pending, CallsOn, Kinds
  <2>4. kproc' \in KProcs /\ kfds' \in KTables
    BY <1>0, <2>1, <2>2 DEF KProcs, KTables
  <2>5. st = "run" => Lands(Cur, Rec("clone", p, c, share), kproc', kfds')
    BY <2>1, <2>2, CloneLands
  <2>6. MadeCall(Rec("clone", p, c, share), kproc, kfds)
    BY <2>1 DEF MadeCall, Rec
  <2> QED
    BY <2>1, <2>2, <2>3, <2>4, <2>5, <2>6 DEF Called
<1> QED
  BY <1>3, <1>4, <1>5, <1>6, <1>7, <1>8, <1>9 DEF K!KStep

LEMMA RunKeepsUp ==
  ASSUME RoomForParents, InOrder, ~ReusePids, Stdin \notin Fds, TracedInv,
         NEW p \in Pids, Run(p)
  PROVE  TracedInv'
<1>1. UNCHANGED vars /\ K!KStep(p) /\ st = "run"
  BY DEF Run
<1>2. Cur' = Cur /\ st' = st
  BY <1>1 DEF vars, Cur
<1>3. KTypes /\ OneCall /\ KeepsUp
  BY DEF TracedInv
<1>4. CASE ~K!Exit(p)
  <2>1. K!Quiet /\ Called(p)
    BY <1>1, <1>4, RunCalls
  <2>2. PICK op, a, b : /\ Rec(op, p, a, b) \in Pending /\ K!Call(p, op, a, b)
                        /\ st = "run" => Lands(Cur, Rec(op, p, a, b), kproc', kfds')
    BY <2>1 DEF Called
  <2>3. /\ pend' \in [Pids -> Pending \cup {Idle}]
        /\ pend'[p] = Rec(op, p, a, b) /\ \A q \in Pids : q # p => pend'[q] = Idle
        /\ OneCall' /\ ~(K!Quiet)'
    BY <1>3, <2>1, <2>2, CallStarts
  <2>4. KTypes'
    BY <2>1, <2>3 DEF KTypes, Called
  <2>5. \A q \in Pids : pend'[q] # Idle => Lands(Cur, pend'[q], kproc', kfds')
    BY <1>1, <2>2, <2>3
  <2>6. KeepsUp'
    BY <1>1, <1>2, <1>3, <2>3, <2>5 DEF KeepsUp
  <2> QED
    BY <2>3, <2>4, <2>6 DEF TracedInv
<1>5. CASE K!Exit(p)
  <2>1. /\ K!Quiet /\ kproc' = [kproc EXCEPT ![p] = Dead]
        /\ kfds' = kfds /\ pend' = pend
    BY <1>5 DEF K!Exit
  <2>2. kproc' \in KProcs /\ kproc'[p] = Dead /\ \A q \in Pids : q # p => kproc'[q] = kproc[q]
    BY <1>3, <2>1 DEF KTypes, KProcs
  <2>3. KTypes' /\ OneCall' /\ \A q \in Pids : pend'[q] = Idle
    BY <1>3, <2>1, <2>2 DEF KTypes, OneCall, K!Quiet
  <2>4. Follows(Cur, kproc, kfds)
    BY <1>1, <1>3, <2>1 DEF KeepsUp
  <2>5. Follows(Cur, kproc', kfds')
    <3>1. \A q \in Pids : kproc'[q] = Unborn => kproc[q] = Unborn
      BY <2>2, MarkAssumption
    <3>2. \A q \in Pids : kproc'[q] \in Pids => kproc'[q] = kproc[q] /\ kproc[q] \in Pids
      BY <2>2, MarkAssumption
    <3>3. \A q \in Pids : kproc[q] # Unborn => kproc'[q] # Unborn
      BY <2>2, MarkAssumption
    <3> QED
      BY <2>1, <2>4, <3>1, <3>2, <3>3 DEF Follows
  <2>6. KeepsUp'
    BY <1>1, <1>2, <1>3, <2>3, <2>5 DEF KeepsUp
  <2> QED
    BY <2>3, <2>6 DEF TracedInv
<1> QED
  BY <1>4, <1>5

LEMMA ReportKeepsUp ==
  ASSUME TracedInv, RoomToOpen, NEW p \in Pids, Report(p)
  PROVE  TracedInv'
<1> DEFINE n == Replay(Cur, pend[p])
<1>1. /\ st = "run" /\ pend[p] # Idle /\ pend' = [pend EXCEPT ![p] = Idle]
      /\ kproc' = kproc /\ kfds' = kfds /\ Become(n)
  BY DEF Report, K!Reported
<1>2. KTypes /\ OneCall /\ KeepsUp
  BY DEF TracedInv
<1>3. Lands(Cur, pend[p], kproc, kfds)
  BY <1>1, <1>2 DEF KeepsUp
<1>4. n.st = "run" => n \in CountedStates /\ Short(n) /\ Follows(n, kproc, kfds)
  BY <1>1, <1>3 DEF Lands, RoomToOpen
<1> HIDE DEF n
<1>5. \A q \in Pids : pend'[q] = Idle
  BY <1>1, <1>2 DEF KTypes, OneCall
<1>6. KTypes' /\ OneCall'
  BY <1>1, <1>2, <1>5 DEF KTypes, OneCall
<1>7. KeepsUp'
  <2> SUFFICES ASSUME st' = "run"
               PROVE  /\ Cur' \in CountedStates /\ Short(Cur')
                      /\ Follows(Cur', kproc', kfds')
    BY <1>5 DEF KeepsUp
  <2>1. n.st = "run"
    BY <1>1 DEF Become
  <2>2. n \in CountedStates /\ Short(n) /\ Follows(n, kproc, kfds)
    BY <1>4, <2>1
  <2>3. Cur' = n
    BY <1>1, <2>2, BecomeCur DEF CountedStates
  <2> QED
    BY <1>1, <2>2, <2>3
<1> QED
  BY <1>6, <1>7 DEF TracedInv

LEMMA KeepsUpMeans == TracedInv => SameFile
<1> SUFFICES ASSUME TracedInv, st = "run", K!Quiet, NEW p \in Pids, K!Live(p)
             PROVE  /\ HasTable(Cur, p)
                    /\ \A f \in Fds : View(proc[p], f) = K!OpenOn(p, f)
  BY DEF SameFile
<1>1. Follows(Cur, kproc, kfds) /\ kproc[p] \in Pids
  BY DEF TracedInv, KeepsUp, K!Live
<1>2. /\ Cur.proc[p] = kproc[p]
      /\ \A f \in Fds : ViewIn(Cur, kproc[p], f) = kfds[kproc[p]][f]
  BY <1>1 DEF Follows
<1>3. Cur.proc = proc /\ \A w, fd : View(w, fd) = ViewIn(Cur, w, fd)
  BY DEF View, ViewIn, Cur
<1> QED
  BY <1>1, <1>2, <1>3 DEF HasTable, GetProcessHt, K!OpenOn

(* The replayer of a trace taken from the start, of programs without stdin *)
(* whose calls do not overlap, that fork as they like, has after every     *)
(* call the descriptors of every recorded process open on the files that   *)
(* they were open on there, as long as open(2) has a descriptor to give.   *)
THEOREM ReplaysTheSameFiles ==
  (RoomForParents /\ InOrder /\ ~ReusePids /\ Stdin \notin Fds)
    => (TracedSpec /\ []RoomToOpen => []SameFile)
<1> SUFFICES ASSUME RoomForParents, InOrder, ~ReusePids, Stdin \notin Fds
             PROVE  TracedSpec /\ []RoomToOpen => []SameFile
  OBVIOUS
<1>1. TracedInit => TracedInv
  BY TracedInitKeepsUp
<1>2. TracedInv /\ RoomToOpen /\ [TracedNext]_allvars => TracedInv'
  <2> SUFFICES ASSUME TracedInv, RoomToOpen, [TracedNext]_allvars PROVE TracedInv'
    OBVIOUS
  <2>1. CASE TracedNext
    BY <2>1, RunKeepsUp, ReportKeepsUp DEF TracedNext
  <2>2. CASE UNCHANGED allvars
    BY <2>2 DEF allvars, vars, TracedInv, KTypes, OneCall, KeepsUp, Cur, K!Quiet
  <2> QED
    BY <2>1, <2>2
<1>3. TracedInv => SameFile
  BY KeepsUpMeans
<1> QED
  BY <1>1, <1>2, <1>3, PTL DEF TracedSpec

-----------------------------------------------------------------------------
(* A descriptor of the replayer that is not open is not counted, and one   *)
(* that was opened under a made-up name serves the record being replayed   *)
(* and nothing else.                                                       *)
Tidy(s) ==
  /\ Reached(s)
  /\ \A r \in RealFds : /\ s.os[r] = Closed => s.usage[r] = 0
                        /\ s.os[r] = Unknown => s.usage[r] = 1
Clean(s) == \A r \in RealFds : s.os[r] # Unknown

LEMMA OneInChain == \A m, y : InChain(<<m>>, y) <=> y = m
BY DEF InChain

LEMMA AddedReached ==
  ASSUME NEW s, NEW n, NEW t \in Pids, NEW fd \in Fds, NEW my, NEW c, NEW m,
         s.ht[t][fd] = <<>>, Reached(s), Added(s, n, t, fd, my, c, m)
  PROVE  Reached(n)
<1> SUFFICES ASSUME NEW y \in MapIds, n.map[y] # Nil
             PROVE  \E f \in Fds : InChain(n.ht[y[1]][f], y)
  BY DEF Reached
<1>1. CASE y = m
  <2>1. n.ht[y[1]][fd] = <<m>>
    BY <1>1 DEF Added
  <2> QED
    BY <1>1, <2>1, OneInChain
<1>2. CASE y # m
  <2>1. s.map[y] # Nil
    BY <1>2 DEF Added
  <2>2. PICK f \in Fds : InChain(s.ht[y[1]][f], y)
    BY <2>1 DEF Reached
  <2>3. y[1] # t \/ f # fd
    BY <2>2, EmptyChain
  <2>4. y[1] \in Pids
    BY DEF MapIds
  <2>5. n.ht[y[1]][f] = s.ht[y[1]][f]
    BY <2>3, <2>4 DEF Added
  <2> QED
    BY <2>2, <2>5
<1> QED
  BY <1>1, <1>2

LEMMA RemovedReached ==
  ASSUME NEW s \in CountedStates, Short(s), NEW n \in CountedStates, NEW t \in Pids,
         NEW fd \in Fds, s.ht[t][fd] # <<>>, Reached(s),
         Removed(s, n, t, fd, Head(s.ht[t][fd]))
  PROVE  Reached(n)
<1> DEFINE m == Head(s.ht[t][fd])
<1>1. s.ht[t][fd] \in Seq(MapIds) /\ Len(s.ht[t][fd]) <= 1
  BY DEF CountedStates, States, Short
<1>2. m \in MapIds /\ \A y : InChain(s.ht[t][fd], y) <=> y = m
  BY <1>1, ShortChain, HeadView
<1>3. Removed(s, n, t, fd, m)
  OBVIOUS
<1>4. n \in States /\ Safe(n)
  BY DEF CountedStates
<1> HIDE DEF m
<1> SUFFICES ASSUME NEW y \in MapIds, n.map[y] # Nil
             PROVE  \E f \in Fds : InChain(n.ht[y[1]][f], y)
  BY DEF Reached
<1>5. CASE y = m
  <2>1. PICK w \in Pids, f \in Fds : InChain(n.ht[w][f], m)
    BY <1>3, <1>5 DEF Removed, Referenced, InChain
  <2>2. m[1] = w
    BY <1>2, <1>4, <2>1, ItemMap
  <2> QED
    BY <1>5, <2>1, <2>2
<1>6. CASE y # m
  <2>1. s.map[y] # Nil
    BY <1>3, <1>6 DEF Removed
  <2>2. PICK f \in Fds : InChain(s.ht[y[1]][f], y)
    BY <2>1 DEF Reached
  <2>3. y[1] # t \/ f # fd
    BY <1>2, <1>6, <2>2
  <2>4. y[1] \in Pids
    BY DEF MapIds
  <2>5. n.ht[y[1]][f] = s.ht[y[1]][f]
    BY <1>3, <2>3, <2>4 DEF Removed
  <2> QED
    BY <2>2, <2>5
<1> QED
  BY <1>5, <1>6

LEMMA LinkedReached ==
  ASSUME NEW s, NEW n, NEW t \in Pids, NEW new \in Fds, NEW id,
         s.ht[t][new] = <<>>, Reached(s), Linked(s, n, t, new, id)
  PROVE  Reached(n)
<1> SUFFICES ASSUME NEW y \in MapIds, n.map[y] # Nil
             PROVE  \E f \in Fds : InChain(n.ht[y[1]][f], y)
  BY DEF Reached
<1>1. CASE y = id
  <2>1. n.ht[y[1]][new] = <<id>>
    BY <1>1 DEF Linked
  <2> QED
    BY <1>1, <2>1, OneInChain
<1>2. CASE y # id
  <2>1. s.map[y] # Nil
    BY <1>2 DEF Linked
  <2>2. PICK f \in Fds : InChain(s.ht[y[1]][f], y)
    BY <2>1 DEF Reached
  <2>3. y[1] # t \/ f # new
    BY <2>2, EmptyChain
  <2>4. y[1] \in Pids
    BY DEF MapIds
  <2>5. n.ht[y[1]][f] = s.ht[y[1]][f]
    BY <2>3, <2>4 DEF Linked
  <2> QED
    BY <2>2, <2>5
<1> QED
  BY <1>1, <1>2

(* A new item that no real descriptor is counted for, and one that opens   *)
(* the lowest free descriptor.                                             *)
LEMMA AddItemTidy ==
  ASSUME RoomForMaps, NEW s \in CountedStates, s.st = "run", Short(s), Tidy(s),
         NEW t \in Pids, NEW fd \in Fds, s.ht[t][fd] = <<>>, NEW c, c \notin RealFds
  PROVE  LET n == AddItem(s, t, fd, Virtual, c)
         IN  n.st = "run" /\ n.os = s.os /\ Tidy(n)
<1> DEFINE n == AddItem(s, t, fd, Virtual, c)
<1>1. s \in States /\ FreeGens(s, t, fd) # {}
  BY SlotFree DEF CountedStates, Tidy
<1>2. PICK m : Added(s, n, t, fd, Virtual, c, m)
  BY <1>1, AddItemAdds
<1> HIDE DEF n
<1>3. n.usage = s.usage /\ n.os = s.os /\ n.st = "run"
  BY <1>2 DEF Added, IncreaseFdUsage
<1>4. Reached(n)
  BY <1>2, AddedReached DEF Tidy
<1>5. Tidy(n)
  BY <1>3, <1>4 DEF Tidy
<1> QED
  BY <1>3, <1>5 DEF n

LEMMA OpenedItemTidy ==
  ASSUME RoomForMaps, NEW s \in CountedStates, s.st = "run", Short(s), Tidy(s),
         NEW t \in Pids, NEW fd \in Fds, s.ht[t][fd] = <<>>,
         NEW file \in Files \cup {Unknown}, FreeFds(s) # {}
  PROVE  LET n == OpenedItem(s, t, fd, file)
         IN  /\ n.st = "run" /\ Tidy(n)
             /\ \A r \in RealFds : n.os[r] = Unknown =>
                  \/ s.os[r] = Unknown
                  \/ file = Unknown /\ r = n.map[Head(n.ht[t][fd])].my
<1> DEFINE r  == LowestFree(s)
           o  == [s.os EXCEPT ![r] = file]
           s1 == [s EXCEPT !.os = o]
           n  == OpenedItem(s, t, fd, file)
<1>0. s \in States
  BY DEF CountedStates
<1>1. r \in RealFds /\ s.os[r] = Closed /\ file # Closed
  BY <1>0, LowestFreeIsFree, NameAssumption
<1>2. n = AddItem(s1, t, fd, r, r)
  BY DEF OpenedItem
<1> HIDE DEF r, n
<1>3. o \in [RealFds -> Files \cup {Unknown, Closed}]
  BY <1>0 DEF States
<1>4. o[r] = file /\ \A q \in RealFds : q # r => o[q] = s.os[q]
  BY <1>0, <1>1 DEF States
<1> HIDE DEF o
<1>5. s1 \in States /\ s1.ht = s.ht /\ s1.map = s.map /\ s1.os = o
      /\ s1.st = "run" /\ s1.usage = s.usage
  BY <1>0, <1>3 DEF States
<1> HIDE DEF s1
<1>6. Short(s1) /\ Reached(s1) /\ s1.ht[t][fd] = <<>>
  BY <1>5 DEF Tidy, Short, Reached
<1>7. FreeGens(s1, t, fd) # {}
  BY <1>5, <1>6, SlotFree
<1>8. PICK m : Added(s1, n, t, fd, r, r, m)
  BY <1>1, <1>2, <1>5, <1>6, <1>7, AddItemAdds
<1>9. Reached(n)
  BY <1>6, <1>8, AddedReached
<1>10. n.st = "run" /\ n.os = o /\ n.usage = IncreaseFdUsage(s.usage, r)
  BY <1>5, <1>8 DEF Added
<1>11. \A q \in RealFds : n.usage[q] = s.usage[q] + (IF r = q THEN 1 ELSE 0)
  <2>1. s.usage \in [RealFds -> Nat]
    BY <1>0 DEF States
  <2> QED
    BY <1>10, <2>1, IncreasedCount
<1>12. s.usage[r] = 0 /\ \A q \in RealFds : s.usage[q] \in Nat
  BY <1>0, <1>1 DEF Tidy, States
<1>13. Tidy(n)
  <2> SUFFICES ASSUME NEW q \in RealFds
               PROVE  /\ n.os[q] = Closed => n.usage[q] = 0
                      /\ n.os[q] = Unknown => n.usage[q] = 1
    BY <1>9 DEF Tidy
  <2>1. CASE q = r
    BY <1>1, <1>4, <1>10, <1>11, <1>12, <2>1
  <2>2. CASE q # r
    BY <1>4, <1>10, <1>11, <1>12, <2>2 DEF Tidy
  <2> QED
    BY <2>1, <2>2
<1>14. n.map[Head(n.ht[t][fd])].my = r
  <2>1. n.ht[t][fd] = <<m>> /\ n.map[m].my = r
    BY <1>8 DEF Added
  <2>2. Head(<<m>>) = m
    OBVIOUS
  <2> QED
    BY <2>1, <2>2
<1>15. \A q \in RealFds : n.os[q] = Unknown =>
         s.os[q] = Unknown \/ (file = Unknown /\ q = r)
  BY <1>4, <1>10
<1> QED
  BY <1>10, <1>13, <1>14, <1>15 DEF n

(* Closing an item closes the real descriptor with the last use of it, so  *)
(* one that was opened under a made-up name is gone with its item.         *)
LEMMA ClosedItemTidy ==
  ASSUME NEW s \in CountedStates, s.st = "run", Short(s), Tidy(s), NEW t \in Pids,
         NEW fd \in Fds, s.ht[t][fd] # <<>>
  PROVE  LET n == ClosedItem(s, t, fd, FALSE)
         IN  /\ n.st = "run" /\ Tidy(n)
             /\ \A r \in RealFds : n.os[r] = Unknown =>
                  s.os[r] = Unknown /\ r # s.map[Head(s.ht[t][fd])].my
<1> DEFINE n  == ClosedItem(s, t, fd, FALSE)
           my == s.map[Head(s.ht[t][fd])].my
<1>1. s \in States /\ Safe(s) /\ Counted(s)
  BY DEF CountedStates
<1>2. n \in CountedStates /\ n.st = "run"
  BY <1>1, ClosedItemCounted DEF CountedStates
<1>3. Removed(s, n, t, fd, Head(s.ht[t][fd]))
  BY ClosedItemRemoves
<1>4. \A r \in RealFds : /\ n.usage[r] = IF my = r THEN s.usage[r] - 1 ELSE s.usage[r]
                         /\ n.os[r] = IF my = r /\ s.usage[r] = 1 THEN Closed ELSE s.os[r]
  BY <1>1, ClosedItemEffect
<1>5. my \in RealFds => s.os[my] # Closed
  BY HeadView, SentinelAssumption
<1> HIDE DEF n
<1>6. Reached(n)
  BY <1>2, <1>3, RemovedReached DEF Tidy
<1> HIDE DEF my
<1>7. Closed # Unknown
  BY NameAssumption
<1>8. ASSUME NEW r \in RealFds
      PROVE  /\ n.os[r] = Closed => n.usage[r] = 0
             /\ n.os[r] = Unknown => n.usage[r] = 1
             /\ n.os[r] = Unknown => s.os[r] = Unknown /\ r # my
  <2>1. CASE r = my
    BY <1>4, <1>5, <1>7, <2>1 DEF Tidy
  <2>2. CASE r # my
    BY <1>4, <2>2 DEF Tidy
  <2> QED
    BY <2>1, <2>2
<1>9. Tidy(n)
  BY <1>6, <1>8 DEF Tidy
<1> QED
  BY <1>2, <1>8, <1>9 DEF n, my

LEMMA LinkedItemTidy ==
  ASSUME NEW s \in CountedStates, s.st = "run", Tidy(s), Clean(s), NEW t \in Pids,
         NEW fd \in Fds, NEW new \in Fds, s.ht[t][fd] # <<>>, s.ht[t][new] = <<>>
  PROVE  LET n == LinkedItem(s, t, fd, new)
         IN  n.os = s.os /\ (n.st = "run" => Tidy(n))
<1> DEFINE n  == LinkedItem(s, t, fd, new)
           my == s.map[Head(s.ht[t][fd])].my
<1>1. s \in States /\ Safe(s)
  BY DEF CountedStates
<1>2. n.os = s.os
  BY <1>1 DEF LinkedItem, Stop, States
<1>3. n.st = "run" => Linked(s, n, t, new, Head(s.ht[t][fd]))
  BY <1>1, LinkedItemLinks
<1>4. my \in RealFds => s.os[my] # Closed
  BY HeadView, SentinelAssumption
<1> HIDE DEF n
<1>5. ASSUME n.st = "run" PROVE Tidy(n)
  <2>1. Reached(n)
    BY <1>3, <1>5, LinkedReached DEF Tidy
  <2>2. n.usage = IncreaseFdUsage(s.usage, my)
    BY <1>3, <1>5 DEF Linked
  <2>3. s.usage \in [RealFds -> Nat]
    BY <1>1 DEF States
  <2> HIDE DEF my
  <2>4. ASSUME NEW r \in RealFds
        PROVE  /\ n.os[r] = Closed => n.usage[r] = 0
               /\ n.os[r] = Unknown => n.usage[r] = 1
    <3>1. n.usage[r] = s.usage[r] + (IF my = r THEN 1 ELSE 0)
      BY <2>2, <2>3, IncreasedCount
    <3>2. s.os[r] # Unknown /\ (s.os[r] = Closed => s.usage[r] = 0)
      BY DEF Clean, Tidy
    <3> QED
      BY <1>2, <1>4, <3>1, <3>2
  <2> QED
    BY <2>1, <2>4 DEF Tidy
<1> QED
  BY <1>2, <1>5 DEF n

(* The handlers leave nothing open under a made-up name, whether the       *)
(* replayer lives on or not.                                               *)
Neat(n) == Clean(n) /\ (n.st = "run" => Tidy(n))

LEMMA OpenNeat ==
  ASSUME RoomForMaps, NEW s, NEW pid \in Pids, NEW t, Ready(s, pid, t), Tidy(s), Clean(s),
         NEW fd \in Fds, s.ht[t][fd] = <<>>, NEW file \in Files, Unknown \notin Files
  PROVE  Neat(Open(s, pid, fd, file, {}))
<1> DEFINE n == Open(s, pid, fd, file, {})
           g == OpenedItem(s, t, fd, file)
<1>1. HasTable(s, pid) /\ TableOf(s, pid) = t /\ MissingHt(s, pid) = s
      /\ Chain(s, pid, fd) = <<>> /\ file # Ignored
  BY ReadyTable, NameAssumption
<1>2. n = IF FreeFds(s) = {} THEN s ELSE g
  BY <1>1 DEF Open, OpenedItem, TableOf
<1>3. ASSUME FreeFds(s) # {} PROVE Neat(g)
  <2>1. /\ g.st = "run" /\ Tidy(g)
        /\ \A r \in RealFds : g.os[r] = Unknown => s.os[r] = Unknown \/ file = Unknown
    BY <1>3, OpenedItemTidy DEF Ready
  <2> HIDE DEF g
  <2> QED
    BY <2>1 DEF Neat, Clean
<1> HIDE DEF g, n
<1> QED
  BY <1>2, <1>3 DEF Neat, n

LEMMA CloseNeat ==
  ASSUME RoomForMaps, NEW s, NEW pid \in Pids, NEW t, Ready(s, pid, t), Tidy(s), Clean(s),
         NEW fd \in Fds
  PROVE  LET n == Close(s, pid, fd, {}, FALSE)
         IN  n.st = "run" /\ Tidy(n) /\ Clean(n)
<1> DEFINE g == GetFdMap(s, pid, fd, {})
           n == Close(s, pid, fd, {}, FALSE)
<1>1. HasTable(s, pid) /\ TableOf(s, pid) = t /\ MissingHt(s, pid) = s
      /\ Chain(s, pid, fd) = s.ht[t][fd] /\ fd # Failed
  BY ReadyTable, FailedAssumption
<1>2. Found(s, pid, fd) <=> s.ht[t][fd] # <<>>
  <2>1. \A x : Found(s, pid, x) <=> s.ht[t][x] # <<>>
    BY ReadyTable
  <2> QED
    BY <2>1
<1>3. CASE s.ht[t][fd] # <<>>
  <2> DEFINE c == ClosedItem(s, t, fd, FALSE)
  <2>1. s = g
    BY <1>3, UseSets
  <2>2. n = c
    <3>1. Ready(s, pid, t) /\ s = GetFdMap(s, pid, fd, {}) /\ s.ht[t][fd] # <<>>
      BY <1>3, <2>1
    <3> HIDE DEF g
    <3>2. Closes(s, n, t, fd)
      BY <3>1, ClosesItem
    <3> HIDE DEF c, n
    <3> QED
      BY <3>2 DEF Closes, c
  <2>3. /\ c.st = "run" /\ Tidy(c)
        /\ \A r \in RealFds : c.os[r] = Unknown => s.os[r] = Unknown
    BY <1>3, ClosedItemTidy DEF Ready
  <2> HIDE DEF c, n
  <2> QED
    BY <2>2, <2>3 DEF Clean, n
<1>4. CASE s.ht[t][fd] = <<>> /\ g = s
  <2>1. ~Found(s, pid, fd)
    BY <1>2, <1>4
  <2>2. n = s
    BY <1>4, <2>1 DEF Close
  <2> QED
    BY <2>2 DEF Ready
<1>5. CASE s.ht[t][fd] = <<>> /\ g # s
  <2> DEFINE o == OpenedItem(s, t, fd, Unknown)
  <2>1. g = IF FixMissing THEN Open(s, pid, fd, Unknown, {}) ELSE s
    BY <1>1, <1>5 DEF GetFdMap
  <2>2. Open(s, pid, fd, Unknown, {}) = IF FreeFds(s) = {} THEN s ELSE o
    BY <1>1, <1>5, NameAssumption DEF Open, OpenedItem, TableOf
  <2>3. FreeFds(s) # {} /\ g = o
    BY <1>5, <2>1, <2>2
  <2>4. /\ o.st = "run" /\ Tidy(o)
        /\ \A r \in RealFds : o.os[r] = Unknown =>
             s.os[r] = Unknown \/ r = o.map[Head(o.ht[t][fd])].my
    BY <1>5, <2>3, OpenedItemTidy DEF Ready
  <2>5. Sets(s, o, t, fd, Unknown)
    BY <1>5, <2>3, <2>4, OpenedItemSets DEF Ready
  <2> HIDE DEF o
  <2>6. Ready(o, pid, t)
    BY <2>5 DEF Ready, Sets
  <2>7. o.ht[t][fd] # <<>>
    <3>1. ViewIn(o, t, fd) = Unknown
      BY <2>5, <2>6 DEF Sets, Ready
    <3> QED
      BY <2>6, <3>1, VacantView, NameAssumption DEF Ready
  <2> DEFINE c == ClosedItem(o, t, fd, FALSE)
  <2>8. n = c
    <3>1. Ready(o, pid, t) /\ o = GetFdMap(s, pid, fd, {}) /\ o.ht[t][fd] # <<>>
      BY <2>3, <2>6, <2>7
    <3> HIDE DEF g
    <3>2. Closes(o, n, t, fd)
      BY <3>1, ClosesItem
    <3> HIDE DEF c, n
    <3> QED
      BY <3>2 DEF Closes, c
  <2>9. /\ c.st = "run" /\ Tidy(c)
        /\ \A r \in RealFds : c.os[r] = Unknown =>
             o.os[r] = Unknown /\ r # o.map[Head(o.ht[t][fd])].my
    BY <2>4, <2>6, <2>7, ClosedItemTidy DEF Ready
  <2> HIDE DEF c, n
  <2> QED
    BY <2>4, <2>8, <2>9 DEF Clean, n
<1> QED
  BY <1>3, <1>4, <1>5

LEMMA DupNeat ==
  ASSUME RoomForMaps, NEW s, NEW pid \in Pids, NEW t, Ready(s, pid, t), Tidy(s), Clean(s),
         NEW fd \in Fds, NEW new \in Fds, fd # new, s.ht[t][fd] # <<>>
  PROVE  Neat(Dup(s, pid, fd, new, {}, FALSE))
<1> DEFINE g == Close(s, pid, new, {}, FALSE)
           n == Dup(s, pid, fd, new, {}, FALSE)
<1>1. g.st = "run" /\ Tidy(g) /\ Clean(g)
  BY CloseNeat
<1>2. g.st = "run" => DupOf(s, g, n, pid, t, fd, new)
  BY DupLinks
<1>3. /\ n = LinkedItem(g, t, fd, new) /\ Ready(g, pid, t)
      /\ g.ht[t][fd] # <<>> /\ g.ht[t][new] = <<>>
  BY <1>1, <1>2 DEF DupOf
<1> HIDE DEF g, n
<1>4. n.os = g.os /\ (n.st = "run" => Tidy(n))
  BY <1>1, <1>3, LinkedItemTidy DEF Ready
<1>5. Neat(n)
  BY <1>1, <1>4 DEF Neat, Clean
<1> QED
  BY <1>5 DEF n

LEMMA SocketNeat ==
  ASSUME RoomForMaps, NEW s, NEW pid \in Pids, NEW t, Ready(s, pid, t), Tidy(s), Clean(s),
         NEW fd \in Fds, s.ht[t][fd] = <<>>
  PROVE  Neat(Socket(s, pid, fd))
<1> DEFINE n == AddItem(s, t, fd, Virtual, Virtual)
<1>1. HasTable(s, pid) /\ TableOf(s, pid) = t /\ MissingHt(s, pid) = s
      /\ Chain(s, pid, fd) = <<>>
  BY ReadyTable
<1>2. Socket(s, pid, fd) = n
  BY <1>1 DEF Socket, TableOf
<1>3. n.st = "run" /\ n.os = s.os /\ Tidy(n)
  BY AddItemTidy, SentinelAssumption DEF Ready
<1> HIDE DEF n
<1> QED
  BY <1>2, <1>3 DEF Neat, Clean

LEMMA PipeNeat ==
  ASSUME RoomForMaps, NEW s, NEW pid \in Pids, NEW t, Ready(s, pid, t), Tidy(s), Clean(s),
         NEW fd1 \in Fds, NEW fd2 \in Fds, fd1 # fd2, s.ht[t][fd1] = <<>>, s.ht[t][fd2] = <<>>,
         Fds \cap RealFds = {}
  PROVE  Neat(Pipe(s, pid, fd1, fd2))
<1> DEFINE g == AddItem(s, t, fd1, Virtual, fd1)
           n == AddItem(g, t, fd2, Virtual, fd2)
<1>1. HasTable(s, pid) /\ TableOf(s, pid) = t /\ MissingHt(s, pid) = s
      /\ Chain(s, pid, fd1) = <<>> /\ Chain(s, pid, fd2) = <<>>
  BY ReadyTable
<1>2. Pipe(s, pid, fd1, fd2) = IF g.st # "run" THEN g ELSE n
  BY <1>1 DEF Pipe, TableOf
<1>3. fd1 \notin RealFds /\ fd2 \notin RealFds
  OBVIOUS
<1>4. g.st = "run" /\ g.os = s.os /\ Tidy(g)
  BY <1>3, AddItemTidy DEF Ready
<1>5. Sets(s, g, t, fd1, Virtual)
  BY <1>4, AddItemSets DEF Ready
<1> HIDE DEF g
<1>6. g \in CountedStates /\ Short(g) /\ t \in Pids
  BY <1>5 DEF Sets, Ready
<1>7. g.ht[t][fd2] = <<>>
  <2>1. ViewIn(s, t, fd2) = Closed
    BY VacantView DEF Ready
  <2>2. ViewIn(g, t, fd2) = Closed
    BY <1>5, <1>6, <2>1 DEF Sets
  <2> QED
    BY <1>6, <2>2, VacantView
<1>8. n.st = "run" /\ n.os = g.os /\ Tidy(n)
  BY <1>3, <1>4, <1>6, <1>7, AddItemTidy
<1> HIDE DEF n
<1> QED
  BY <1>2, <1>4, <1>8 DEF Neat, Clean

(* A descriptor that is not open has no users that a fork would copy.      *)
LEMMA NoUsers ==
  ASSUME NEW s \in CountedStates, NEW t \in Pids, NEW r \in RealFds, s.os[r] = Closed
  PROVE  UsersIn(s, t, r) = {}
<1> SUFFICES ASSUME NEW e \in UsersIn(s, t, r) PROVE FALSE
  OBVIOUS
<1>1. s \in States /\ Safe(s) /\ Uses(s, r) = {}
  BY DEF CountedStates, Counted, Counts
<1>2. PICK f \in Fds, g \in Gens : e = <<f, g>>
  BY DEF UsersIn, Places
<1> DEFINE q == s.ht[t][f]
           m == q[g]
<1>3. g <= Len(q) /\ s.map[m].my = r
  BY <1>2 DEF UsersIn, Places, MapAt
<1>4. q \in Seq(MapIds)
  BY <1>1 DEF States
<1>5. g \in Nat /\ g >= 1 /\ Len(q) \in Nat
  BY <1>4, BoundAssumption DEF Gens
<1>6. g \in 1..Len(q)
  BY <1>3, <1>5
<1>7. m \in MapIds /\ InChain(q, m)
  BY <1>4, <1>6 DEF InChain
<1> HIDE DEF m
<1>8. m[1] = t
  BY <1>1, <1>7, ItemMap
<1>9. <<f, m>> \in Uses(s, r)
  <2>1. InChain(s.ht[m[1]][f], m)
    BY <1>7, <1>8
  <2>2. s \in States /\ Safe(s) /\ m \in MapIds /\ s.map[m].my = r
    BY <1>1, <1>3, <1>7
  <2> HIDE DEF q
  <2> QED
    BY <2>1, <2>2, UseOf
<1> QED
  BY <1>1, <1>9

LEMMA CloneNeat ==
  ASSUME Stdin \notin Fds, NEW s, NEW pid \in Pids, NEW t, Ready(s, pid, t), Tidy(s), Clean(s),
         NEW c \in Pids, s.proc[c] = Absent, \A f \in Fds : s.ht[c][f] = <<>>,
         NEW share \in BOOLEAN
  PROVE  Neat(Clone(s, pid, c, share))
<1> DEFINE n == Clone(s, pid, c, share)
<1>1. s \in States /\ t \in Pids /\ s.proc[pid] = t
  BY DEF Ready, CountedStates
<1>2. c # Failed /\ ~HasTable(s, c) /\ s.proc[c] # Null /\ HasTable(s, pid)
  BY <1>1, FailedAssumption, SentinelAssumption DEF HasTable, GetProcessHt
<1>3. CASE share
  <2> DEFINE m == Clone(s, pid, c, TRUE)
  <2>1. n = m
    <3>1. share = TRUE
      BY <1>3
    <3> QED
      BY <3>1
  <2>2. Threaded(s, m, t, c)
    BY ThreadSets
  <2> HIDE DEF m, n
  <2>3. Neat(m)
    BY <2>2 DEF Threaded, Neat, Tidy, Clean, Reached
  <2> QED
    BY <2>1, <2>3 DEF n
<1>4. CASE ~share
  <2> DEFINE m == Clone(s, pid, c, FALSE)
  <2>1. n = m
    <3>1. share = FALSE
      BY <1>4
    <3> QED
      BY <3>1
  <2>2. m = DuplicateProcessHt(s, t, c)
    BY <1>1, <1>2 DEF Clone
  <2>3. m.os = s.os
    BY <1>1, <2>2 DEF DuplicateProcessHt, Stop, States
  <2>4. m.st = "run" => Forked(s, m, t, c)
    BY ForkSets
  <2> HIDE DEF m, n
  <2>5. ASSUME m.st = "run" PROVE Tidy(m)
    <3>1. Forked(s, m, t, c)
      BY <2>4, <2>5
    <3>2. ASSUME NEW y \in MapIds, m.map[y] # Nil
          PROVE  \E f \in Fds : InChain(m.ht[y[1]][f], y)
      <4>0. y[1] \in Pids /\ y[2] \in Fds /\ y = <<y[1], y[2], y[3]>>
        BY DEF MapIds
      <4>1. CASE y[1] = c
        <5>1. s.map[y] = Nil
          BY <4>1, EmptyChain DEF Tidy, Reached
        <5>2. s.ht[t][y[2]] # <<>> /\ y[3] = 1
          BY <3>1, <3>2, <5>1 DEF Forked
        <5>3. m.ht[c][y[2]] = <<<<c, y[2], 1>>>> /\ y = <<c, y[2], 1>>
          BY <3>1, <4>0, <4>1, <5>2 DEF Forked
        <5>4. InChain(m.ht[c][y[2]], y)
          BY <5>3, OneInChain
        <5> QED
          BY <4>0, <4>1, <5>4
      <4>2. CASE y[1] # c
        <5>1. s.map[y] # Nil /\ m.ht[y[1]] = s.ht[y[1]]
          BY <3>1, <3>2, <4>0, <4>2 DEF Forked
        <5> QED
          BY <5>1 DEF Tidy, Reached
      <4> QED
        BY <4>1, <4>2
    <3>3. ASSUME NEW r \in RealFds, m.os[r] = Closed PROVE m.usage[r] = 0
      <4>1. s.os[r] = Closed
        BY <2>3, <3>3
      <4>2. UsersIn(s, t, r) = {}
        BY <4>1, NoUsers DEF Ready
      <4>3. Cardinality(UsersIn(s, t, r)) = 0
        BY <4>2, FS_EmptySet
      <4>4. s.usage[r] = 0
        BY <4>1 DEF Tidy
      <4>5. m.usage[r] = s.usage[r] + Cardinality(UsersIn(s, t, r))
        BY <3>1 DEF Forked
      <4> QED
        BY <4>3, <4>4, <4>5
    <3> QED
      BY <2>3, <3>2, <3>3 DEF Tidy, Reached, Clean
  <2> QED
    BY <2>1, <2>3, <2>5 DEF Neat, Clean, n
<1> QED
  BY <1>3, <1>4

LEMMA MadeNeat ==
  ASSUME RoomForMaps, Stdin \notin Fds, Unknown \notin Files,
         "pipe" \in Ops => Fds \cap RealFds = {},
         NEW s, NEW rec, NEW kp, NEW kf, rec.pid \in Pids, Calling(s, rec.pid, kp, kf),
         MadeCall(rec, kp, kf), Tidy(s), Clean(s)
  PROVE  Neat(Replay(s, rec))
<1> DEFINE pid == rec.pid
           t   == kp[pid]
           n   == Replay(s, rec)
<1>1. Ready(s, pid, t) /\ \A fd \in Fds : s.ht[t][fd] = <<>> <=> kf[t][fd] = Closed
  BY LiveIsReady DEF Calling
<1>2. Neat(s)
  BY DEF Neat
<1> HIDE DEF t
<1>3. CASE rec.op = "open" /\ rec.a \in Fds /\ kf[t][rec.a] = Closed /\ rec.b \in Files
  <2>1. n = Open(s, pid, rec.a, rec.b, {})
    BY <1>3 DEF Replay
  <2>2. Neat(Open(s, pid, rec.a, rec.b, {}))
    BY <1>1, <1>3, OpenNeat
  <2> QED
    BY <2>1, <2>2
<1>4. CASE rec.op = "socket" /\ rec.a \in Fds /\ kf[t][rec.a] = Closed
  <2>1. n = Socket(s, pid, rec.a)
    BY <1>4 DEF Replay
  <2>2. Neat(Socket(s, pid, rec.a))
    BY <1>1, <1>4, SocketNeat
  <2> QED
    BY <2>1, <2>2
<1>5. CASE /\ rec.op = "pipe" /\ "pipe" \in Ops /\ rec.a \in Fds /\ kf[t][rec.a] = Closed
           /\ rec.b \in Fds /\ kf[t][rec.b] = Closed /\ rec.a # rec.b
  <2>1. n = Pipe(s, pid, rec.a, rec.b)
    BY <1>5 DEF Replay
  <2>2. Neat(Pipe(s, pid, rec.a, rec.b))
    BY <1>1, <1>5, PipeNeat
  <2> QED
    BY <2>1, <2>2
<1>6. CASE rec.op = "close" /\ rec.a \in Fds
  <2> DEFINE m == Close(s, pid, rec.a, {}, FALSE)
  <2>1. n = m
    BY <1>6 DEF Replay
  <2>2. m.st = "run" /\ Tidy(m) /\ Clean(m)
    BY <1>1, <1>6, CloseNeat
  <2> HIDE DEF m
  <2> QED
    BY <2>1, <2>2 DEF Neat
<1>7. CASE /\ rec.op = "dup" /\ rec.a \in Fds /\ kf[t][rec.a] # Closed
           /\ rec.b \in Fds /\ rec.a # rec.b
  <2>1. n = Dup(s, pid, rec.a, rec.b, {}, FALSE)
    BY <1>7 DEF Replay
  <2>2. Neat(Dup(s, pid, rec.a, rec.b, {}, FALSE))
    BY <1>1, <1>7, DupNeat
  <2> QED
    BY <2>1, <2>2
<1>8. CASE rec.op = "read" /\ rec.a \in Fds /\ kf[t][rec.a] # Closed
  <2>1. n = Use(s, pid, rec.a, {})
    BY <1>8 DEF Replay
  <2>2. rec.pid \in Pids /\ rec.a \in Fds /\ Ready(s, rec.pid, t) /\ s.ht[t][rec.a] # <<>>
    BY <1>1, <1>8
  <2>3. Use(s, rec.pid, rec.a, {}) = s
    BY <2>2, UseSets
  <2> QED
    BY <1>2, <2>1, <2>3
<1>9. CASE rec.op = "clone" /\ rec.a \in Pids /\ kp[rec.a] = Unborn /\ rec.b \in BOOLEAN
  <2>1. n = Clone(s, pid, rec.a, rec.b)
    BY <1>9 DEF Replay
  <2>2. s.proc[rec.a] = Absent /\ \A f \in Fds : s.ht[rec.a][f] = <<>>
    BY <1>9 DEF Calling, Follows
  <2>3. Neat(Clone(s, pid, rec.a, rec.b))
    BY <1>1, <1>9, <2>2, CloneNeat
  <2> QED
    BY <2>1, <2>3
<1> QED
  BY <1>3, <1>4, <1>5, <1>6, <1>7, <1>8, <1>9 DEF MadeCall, t

(* Between two records nothing is open under a made-up name, and a call    *)
(* that is not reported yet will leave it so.                              *)
StaysNeat ==
  /\ Neat(Cur)
  /\ st = "run" => \A p \in Pids : pend[p] # Idle => Neat(Replay(Cur, pend[p]))

LEMMA InitStaysNeat == Stdin \notin Fds /\ TracedInit => StaysNeat
<1> SUFFICES ASSUME TracedInit PROVE StaysNeat
  OBVIOUS
<1>1. Init /\ K!KInit
  BY DEF TracedInit
<1>2. \A p \in Pids : pend[p] = Idle
  BY <1>1 DEF K!KInit
<1>3. Clean(Cur)
  BY <1>1, NameAssumption DEF Init, Cur, Clean
<1>4. \A r \in RealFds : Cur.usage[r] = 0 /\ Cur.os[r] = Closed
  BY <1>1 DEF Init, Cur
<1>5. Reached(Cur)
  <2> SUFFICES ASSUME NEW m \in MapIds, Cur.map[m] # Nil
               PROVE  \E f \in Fds : InChain(Cur.ht[m[1]][f], m)
    BY DEF Reached
  <2>1. m[1] = Root /\ m[2] \in StdFds /\ m[3] = 1 /\ m[2] \in Fds /\ m = <<m[1], m[2], m[3]>>
    BY <1>1 DEF Init, Cur, MapIds
  <2>2. Cur.ht[Root][m[2]] = <<<<Root, m[2], 1>>>> /\ m = <<Root, m[2], 1>>
    BY <1>1, <2>1, RootAssumption DEF Init, Cur
  <2>3. InChain(Cur.ht[Root][m[2]], m)
    BY <2>2, OneInChain
  <2> QED
    BY <2>1, <2>3
<1>6. Tidy(Cur)
  BY <1>3, <1>4, <1>5 DEF Tidy, Clean
<1> QED
  BY <1>2, <1>3, <1>6 DEF StaysNeat, Neat

LEMMA StepStaysNeat ==
  ASSUME RoomForParents, RoomForMaps, InOrder, ~ReusePids, Stdin \notin Fds,
         Unknown \notin Files, "pipe" \in Ops => Fds \cap RealFds = {},
         TracedInv, StaysNeat, TracedNext
  PROVE  StaysNeat'
<1>1. PICK p \in Pids : Run(p) \/ Report(p)
  BY DEF TracedNext
<1>2. CASE Run(p)
  <2>1. UNCHANGED vars /\ K!KStep(p) /\ st = "run"
    BY <1>2 DEF Run
  <2>2. Cur' = Cur /\ st' = st /\ Cur.st = "run"
    BY <2>1 DEF vars, Cur
  <2>3. Neat(Cur) /\ Tidy(Cur) /\ Clean(Cur)
    BY <2>2 DEF StaysNeat, Neat
  <2>4. CASE ~K!Exit(p)
    <3>1. K!Quiet /\ Called(p)
      BY <2>1, <2>4, RunCalls
    <3>2. PICK op, a, b :
            /\ Rec(op, p, a, b) \in Pending /\ K!Call(p, op, a, b)
            /\ kproc[p] \in Pids /\ MadeCall(Rec(op, p, a, b), kproc, kfds)
      BY <3>1 DEF Called
    <3>3. KTypes
      BY DEF TracedInv
    <3>4. pend'[p] = Rec(op, p, a, b) /\ \A q \in Pids : q # p => pend'[q] = Idle
      BY <3>1, <3>2, <3>3, CallStarts
    <3>5. Calling(Cur, p, kproc, kfds)
      BY <2>1, <2>2, <3>1, <3>2 DEF TracedInv, KTypes, KeepsUp, Calling
    <3> DEFINE r == Rec(op, p, a, b)
    <3>6. r.pid = p
      BY DEF Rec
    <3>7. MadeCall(r, kproc, kfds)
      BY <3>2
    <3> HIDE DEF r
    <3>8. Neat(Replay(Cur, r))
      BY <2>3, <3>5, <3>6, <3>7, MadeNeat
    <3> QED
      BY <2>2, <2>3, <3>4, <3>8 DEF StaysNeat, r
  <2>5. CASE K!Exit(p)
    <3>1. pend' = pend
      BY <2>5 DEF K!Exit
    <3> QED
      BY <2>2, <3>1 DEF StaysNeat
  <2> QED
    BY <2>4, <2>5
<1>3. CASE Report(p)
  <2> DEFINE n == Replay(Cur, pend[p])
  <2>1. /\ st = "run" /\ pend[p] # Idle /\ pend' = [pend EXCEPT ![p] = Idle] /\ Become(n)
    BY <1>3 DEF Report, K!Reported
  <2>2. Neat(n)
    BY <2>1 DEF StaysNeat
  <2> HIDE DEF n
  <2>3. \A q \in Pids : pend'[q] = Idle
    BY <2>1 DEF TracedInv, KTypes, OneCall
  <2>4. Neat(Cur')
    <3>1. /\ (Cur').os = n.os /\ (Cur').usage = n.usage /\ (Cur').st = n.st
          /\ (Cur').ht = n.ht /\ (Cur').map = n.map
      BY <2>1 DEF Become, Cur
    <3> QED
      BY <2>2, <3>1 DEF Neat, Clean, Tidy, Reached
  <2> QED
    BY <2>3, <2>4 DEF StaysNeat
<1> QED
  BY <1>1, <1>2, <1>3

(* A trace recorded from the start never leaves the replayer with a file   *)
(* that it opened because a call on it was missing: dup2 of an open        *)
(* descriptor, which makes one up to close it, closes it in the same       *)
(* record.                                                                 *)
THEOREM InventsNothing ==
  (/\ RoomForParents /\ RoomForMaps /\ InOrder /\ ~ReusePids
   /\ Stdin \notin Fds /\ Unknown \notin Files
   /\ "pipe" \in Ops => Fds \cap RealFds = {})
    => (TracedSpec /\ []RoomToOpen => []NothingInvented)
<1> SUFFICES ASSUME RoomForParents, RoomForMaps, InOrder, ~ReusePids,
                    Stdin \notin Fds, Unknown \notin Files,
                    "pipe" \in Ops => Fds \cap RealFds = {}
             PROVE  TracedSpec /\ []RoomToOpen => []NothingInvented
  OBVIOUS
<1> DEFINE I == TracedInv /\ StaysNeat
<1>1. TracedInit => I
  BY TracedInitKeepsUp, InitStaysNeat
<1>2. I /\ RoomToOpen /\ [TracedNext]_allvars => I'
  <2> SUFFICES ASSUME TracedInv, StaysNeat, RoomToOpen, [TracedNext]_allvars
               PROVE  TracedInv' /\ StaysNeat'
    OBVIOUS
  <2>1. CASE TracedNext
    <3>1. TracedInv'
      BY <2>1, RunKeepsUp, ReportKeepsUp DEF TracedNext
    <3>2. StaysNeat'
      BY <2>1, StepStaysNeat
    <3> QED
      BY <3>1, <3>2
  <2>2. CASE UNCHANGED allvars
    BY <2>2 DEF allvars, vars, TracedInv, KTypes, OneCall, KeepsUp, Cur, K!Quiet, StaysNeat
  <2> QED
    BY <2>1, <2>2
<1>3. I => NothingInvented
  BY DEF StaysNeat, Neat, Clean, NothingInvented, Cur
<1> QED
  BY <1>1, <1>2, <1>3, PTL DEF TracedSpec
=============================================================================
