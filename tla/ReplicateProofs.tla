-------------------------- MODULE ReplicateProofs --------------------------
(***************************************************************************)
(* Proofs about Replicate for every set of processes, descriptors and      *)
(* files, and every length of trace.                                       *)
(***************************************************************************)
EXTENDS Replicate, FiniteSetTheorems, FunctionTheorems, WellFoundedInduction, TLAPS

(* The type of the state record the handlers transform.                    *)
States ==
  [proc  : [Pids -> Pids \cup {Absent, Null}],
   ht    : [Pids -> [Fds -> Seq(MapIds)]],
   map   : [MapIds -> FdMaps \cup {Nil}],
   usage : [RealFds -> Nat],
   os    : [RealFds -> Files \cup {Unknown, Closed}],
   st    : Status]

(* A nonempty set of naturals has a least element, so that the kernel's    *)
(* choice of the lowest free descriptor is one of the free ones.           *)
LEMMA LeastNat ==
  ASSUME NEW T \in SUBSET Nat, T # {}
  PROVE  \E x \in T : \A y \in T : x <= y
<1>1. PICK x \in T : \A y \in T : ~ (<<y, x>> \in OpToRel(<, Nat))
  BY WFMin, NatLessThanWellFounded
<1>2. \A y \in T : ~ (y < x)
  BY <1>1 DEF OpToRel
<1> QED
  BY <1>2

LEMMA LowestFreeIsFree ==
  ASSUME NEW s \in States, FreeFds(s) # {}
  PROVE  LowestFree(s) \in RealFds /\ s.os[LowestFree(s)] = Closed
<1>1. FreeFds(s) \in SUBSET Nat
  BY FdAssumption DEF FreeFds
<1>2. \E r \in FreeFds(s) : \A q \in FreeFds(s) : r <= q
  BY <1>1, LeastNat
<1>3. LowestFree(s) \in FreeFds(s)
  BY <1>2 DEF LowestFree
<1> QED
  BY <1>3 DEF FreeFds

(* Counting the users of a descriptor in one table gives a number.         *)
LEMMA UsersCount ==
  ASSUME NEW s, NEW t, NEW r
  PROVE  IsFiniteSet(UsersIn(s, t, r)) /\ Cardinality(UsersIn(s, t, r)) \in Nat
<1>1. IsFiniteSet(Fds \X Gens)
  <2>1. IsFiniteSet(Gens)
    BY FS_Interval, BoundAssumption DEF Gens
  <2> QED
    BY <2>1, FS_Product, FdAssumption
<1>2. UsersIn(s, t, r) \in SUBSET (Fds \X Gens)
  BY DEF UsersIn, Places
<1> QED
  BY <1>1, <1>2, FS_Subset, FS_CardinalityType

LEMMA NewFdItemType ==
  ASSUME NEW s \in States, NEW t \in Pids, NEW fd \in Fds,
         NEW my \in RealFds \cup {Virtual}
  PROVE  NewFdItem(s, t, fd, my) \in States
<1> DEFINE m == <<t, fd, CHOOSE g \in FreeGens(s, t, fd) : TRUE>>
<1>1. CASE FreeGens(s, t, fd) = {}
  BY <1>1 DEF NewFdItem, Stop, States, Status
<1>2. CASE FreeGens(s, t, fd) # {}
  <2>1. m \in MapIds
    BY <1>2 DEF MapIds, FreeGens
  <2>2. [my |-> my, parents |-> {fd}] \in FdMaps
    BY DEF FdMaps
  <2>3. NewFdItem(s, t, fd, my) =
          [s EXCEPT !.ht[t][fd] = Append(@, m), !.map[m] = [my |-> my, parents |-> {fd}]]
    BY <1>2 DEF NewFdItem
  <2> HIDE DEF m
  <2>4. Append(s.ht[t][fd], m) \in Seq(MapIds)
    BY <2>1 DEF States
  <2> DEFINE h == [s.ht EXCEPT ![t] = [s.ht[t] EXCEPT ![fd] = Append(s.ht[t][fd], m)]]
             p == [s.map EXCEPT ![m] = [my |-> my, parents |-> {fd}]]
  <2>5. NewFdItem(s, t, fd, my) = [s EXCEPT !.ht = h, !.map = p]
    BY <2>3
  <2>6. h \in [Pids -> [Fds -> Seq(MapIds)]]
    BY <2>4 DEF States
  <2>7. p \in [MapIds -> FdMaps \cup {Nil}]
    BY <2>1, <2>2 DEF States
  <2> HIDE DEF h, p
  <2> QED
    BY <2>5, <2>6, <2>7 DEF States
<1> QED
  BY <1>1, <1>2

LEMMA RemoveFdItemType ==
  ASSUME NEW s \in States, NEW t \in Pids, NEW fd \in Fds,
         s.ht[t][fd] # <<>>, s.map[Head(s.ht[t][fd])] # Nil
  PROVE  RemoveFdItem(s, t, fd) \in States
<1> DEFINE m == Head(s.ht[t][fd])
           p == DeleteParentFd(s.map[m].parents, fd)
           h == [s.ht EXCEPT ![t][fd] = Tail(@)]
           c == IF p = {} \/ ~Referenced(h, m) THEN Nil ELSE [s.map[m] EXCEPT !.parents = p]
           k == [s.map EXCEPT ![m] = c]
<1>1. CASE DeleteParentAsserts(s.map[m].parents, fd)
  BY <1>1 DEF RemoveFdItem, Stop, States, Status
<1>2. CASE ~DeleteParentAsserts(s.map[m].parents, fd)
  <2>1. s.ht[t][fd] \in Seq(MapIds)
    BY DEF States
  <2>2. m \in MapIds /\ Tail(s.ht[t][fd]) \in Seq(MapIds)
    BY <2>1
  <2>3. s.map[m] \in FdMaps
    BY <2>2 DEF States
  <2>4. c \in FdMaps \cup {Nil}
    BY <2>3 DEF FdMaps, DeleteParentFd
  <2>5. RemoveFdItem(s, t, fd) = [s EXCEPT !.ht = h, !.map = k]
    BY <1>2 DEF RemoveFdItem
  <2>6. h \in [Pids -> [Fds -> Seq(MapIds)]]
    BY <2>2 DEF States
  <2> HIDE DEF h, c, m
  <2>7. k \in [MapIds -> FdMaps \cup {Nil}]
    BY <2>2, <2>4 DEF States
  <2> HIDE DEF k
  <2> QED
    BY <2>5, <2>6, <2>7 DEF States
<1> QED
  BY <1>1, <1>2

LEMMA CopyLenType ==
  ASSUME NEW s \in States, NEW t \in Pids, NEW fd \in Fds
  PROVE  /\ CopyLen(s, t, fd) \in Nat
         /\ HasStrayStdin(t, fd) => CopyLen(s, t, fd) = Len(s.ht[t][fd]) + 1
         /\ ~HasStrayStdin(t, fd) => CopyLen(s, t, fd) = Len(s.ht[t][fd])
<1>1. Len(s.ht[t][fd]) \in Nat
  <2>1. s.ht[t][fd] \in Seq(MapIds)
    BY DEF States
  <2> QED
    BY <2>1
<1>2. CASE HasStrayStdin(t, fd)
  BY <1>1, <1>2 DEF CopyLen
<1>3. CASE ~HasStrayStdin(t, fd)
  BY <1>1, <1>3 DEF CopyLen
<1> QED
  BY <1>2, <1>3

LEMMA CopyType ==
  ASSUME NEW s \in States, NEW t \in Pids, NEW fd \in Fds,
         NEW g \in 1..CopyLen(s, t, fd)
  PROVE  CopyOf(s, t, fd, g) \in FdMaps \cup {Nil}
<1>1. CASE g <= Len(s.ht[t][fd])
  <2>1. s.ht[t][fd] \in Seq(MapIds)
    BY DEF States
  <2>2. s.ht[t][fd][g] \in MapIds
    BY <1>1, <2>1
  <2> QED
    BY <1>1, <2>2 DEF CopyOf, States
<1>2. CASE ~(g <= Len(s.ht[t][fd]))
  <2>1. s.ht[t][fd] \in Seq(MapIds)
    BY DEF States
  <2>2. fd = Stdin
    <3>1. HasStrayStdin(t, fd)
      BY <1>2, <2>1, CopyLenType
    <3> QED
      BY <3>1 DEF HasStrayStdin
  <2>3. [my |-> Virtual, parents |-> {Stdin}] \in FdMaps
    BY <2>2 DEF FdMaps
  <2> QED
    BY <1>2, <2>3 DEF CopyOf
<1> QED
  BY <1>1, <1>2

LEMMA DuplicateType ==
  ASSUME NEW s \in States, NEW src \in Pids, NEW dst \in Pids
  PROVE  DuplicateProcessHt(s, src, dst) \in States
<1> DEFINE pr == [s.proc EXCEPT ![dst] = dst]
           nt == [f \in Fds |-> [i \in 1..CopyLen(s, src, f) |-> <<dst, f, i>>]]
           h  == [s.ht EXCEPT ![dst] = nt]
           k  == [m \in MapIds |-> IF m[1] = dst /\ m[3] <= CopyLen(s, src, m[2])
                                   THEN CopyOf(s, src, m[2], m[3]) ELSE s.map[m]]
           u  == [r \in RealFds |-> s.usage[r] + Cardinality(UsersIn(s, src, r))]
<1>1. CASE \E e \in Places(s, src) : MapAt(s, src, e) = Nil
  BY <1>1 DEF DuplicateProcessHt, Stop, States, Status
<1>2. CASE /\ ~(\E e \in Places(s, src) : MapAt(s, src, e) = Nil)
           /\ \E f \in Fds : CopyLen(s, src, f) > MaxGens
  BY <1>2 DEF DuplicateProcessHt, Stop, States, Status
<1>3. CASE /\ ~(\E e \in Places(s, src) : MapAt(s, src, e) = Nil)
           /\ ~(\E f \in Fds : CopyLen(s, src, f) > MaxGens)
  <2>1. DuplicateProcessHt(s, src, dst) =
          [s EXCEPT !.proc = pr, !.ht = h, !.map = k, !.usage = u]
    BY <1>3 DEF DuplicateProcessHt
  <2>2. ASSUME NEW f \in Fds
        PROVE  [i \in 1..CopyLen(s, src, f) |-> <<dst, f, i>>] \in Seq(MapIds)
    <3>1. CopyLen(s, src, f) \in Nat /\ CopyLen(s, src, f) <= MaxGens
      BY <1>3, CopyLenType, BoundAssumption
    <3>2. \A i \in 1..CopyLen(s, src, f) : <<dst, f, i>> \in MapIds
      BY <3>1, BoundAssumption DEF MapIds, Gens
    <3> QED
      BY <3>1, <3>2
  <2>3. h \in [Pids -> [Fds -> Seq(MapIds)]]
    BY <2>2 DEF States
  <2>4. pr \in [Pids -> Pids \cup {Absent, Null}]
    BY DEF States
  <2>5. k \in [MapIds -> FdMaps \cup {Nil}]
    <3> SUFFICES ASSUME NEW m \in MapIds
                 PROVE  k[m] \in FdMaps \cup {Nil}
      BY DEF States
    <3>1. m[2] \in Fds /\ m[3] \in Gens
      BY DEF MapIds
    <3>2. CASE m[1] = dst /\ m[3] <= CopyLen(s, src, m[2])
      <4>1. m[3] \in 1..CopyLen(s, src, m[2])
        BY <3>1, <3>2, CopyLenType DEF Gens
      <4> QED
        BY <3>1, <3>2, <4>1, CopyType
    <3>3. CASE ~(m[1] = dst /\ m[3] <= CopyLen(s, src, m[2]))
      BY <3>3 DEF States
    <3> QED
      BY <3>2, <3>3
  <2>6. u \in [RealFds -> Nat]
    BY UsersCount DEF States
  <2> HIDE DEF pr, h, k, u
  <2> QED
    BY <2>1, <2>3, <2>4, <2>5, <2>6 DEF States
<1> QED
  BY <1>1, <1>2, <1>3

LEMMA StopType ==
  ASSUME NEW s \in States, NEW why \in Status
  PROVE  Stop(s, why) \in States
BY DEF Stop, States

LEMMA CloneType ==
  ASSUME NEW s \in States, NEW parent \in Pids, NEW child \in Pids \cup {Failed},
         NEW share \in BOOLEAN
  PROVE  Clone(s, parent, child, share) \in States
<1>1. CASE child = Failed
  BY <1>1, StopType DEF Clone, Status
<1>2. CASE child # Failed /\ HasTable(s, child)
  BY <1>2 DEF Clone
<1>3. CASE child # Failed /\ ~HasTable(s, child) /\ share
  <2>1. CASE s.proc[child] = Null
    BY <1>3, <2>1 DEF Clone
  <2>2. CASE s.proc[child] # Null
    <3> DEFINE q == IF HasTable(s, parent) THEN s.proc[parent] ELSE Null
    <3>1. q \in Pids \cup {Absent, Null}
      BY DEF States
    <3>2. Clone(s, parent, child, share) = [s EXCEPT !.proc = [s.proc EXCEPT ![child] = q]]
      BY <1>3, <2>2 DEF Clone
    <3>3. [s.proc EXCEPT ![child] = q] \in [Pids -> Pids \cup {Absent, Null}]
      BY <3>1 DEF States
    <3> HIDE DEF q
    <3> QED
      BY <3>2, <3>3 DEF States
  <2> QED
    BY <2>1, <2>2
<1>4. CASE child # Failed /\ ~HasTable(s, child) /\ ~share /\ ~HasTable(s, parent)
  BY <1>4, StopType DEF Clone, Status
<1>5. CASE child # Failed /\ ~HasTable(s, child) /\ ~share /\ HasTable(s, parent)
  <2>1. s.proc[parent] \in Pids
    BY <1>5 DEF HasTable, GetProcessHt
  <2>2. CASE s.proc[child] = Null
    <3> DEFINE u == [r \in RealFds |->
                       s.usage[r] + Cardinality(UsersIn(s, s.proc[parent], r))]
    <3>1. u \in [RealFds -> Nat]
      BY UsersCount DEF States
    <3>2. Clone(s, parent, child, share) = [s EXCEPT !.usage = u]
      BY <1>5, <2>2 DEF Clone
    <3> HIDE DEF u
    <3> QED
      BY <3>1, <3>2 DEF States
  <2>3. CASE s.proc[child] # Null
    BY <1>5, <2>1, <2>3, DuplicateType DEF Clone
  <2> QED
    BY <2>2, <2>3
<1> QED
  BY <1>1, <1>2, <1>3, <1>4, <1>5

LEMMA MissingHtType ==
  ASSUME NEW s \in States, NEW pid \in Pids
  PROVE  MissingHt(s, pid) \in States
BY CloneType, RootAssumption DEF MissingHt

LEMMA IncreaseType ==
  ASSUME NEW u \in [RealFds -> Nat], NEW my
  PROVE  IncreaseFdUsage(u, my) \in [RealFds -> Nat]
BY DEF IncreaseFdUsage

LEMMA AddItemType ==
  ASSUME NEW s \in States, NEW t \in Pids, NEW fd \in Fds,
         NEW my \in RealFds \cup {Virtual}, NEW counted
  PROVE  AddItem(s, t, fd, my, counted) \in States
<1> DEFINE s2 == NewFdItem(s, t, fd, my)
           u  == IncreaseFdUsage(s2.usage, counted)
<1>1. s2 \in States
  BY NewFdItemType
<1> HIDE DEF s2
<1>2. u \in [RealFds -> Nat]
  BY <1>1, IncreaseType DEF States
<1>3. AddItem(s, t, fd, my, counted) = IF s2.st # "run" THEN s2 ELSE [s2 EXCEPT !.usage = u]
  BY DEF AddItem, s2
<1> HIDE DEF u
<1> QED
  BY <1>1, <1>2, <1>3 DEF States

LEMMA OpenType ==
  ASSUME NEW s0 \in States, NEW pid \in Pids, NEW fd \in Fds,
         NEW file \in Files \cup {Unknown, Ignored}, NEW fails
  PROVE  Open(s0, pid, fd, file, fails) \in States
<1> DEFINE s == MissingHt(s0, pid)
           t == GetProcessHt(s, pid)
           r == LowestFree(s)
           s1 == [s EXCEPT !.os = [s.os EXCEPT ![r] = file]]
<1>1. s \in States
  BY MissingHtType
<1> HIDE DEF s
<1>2. CASE ~HasTable(s, pid) \/ Chain(s, pid, fd) # <<>>
  BY <1>1, <1>2 DEF Open, s
<1>3. CASE ~(~HasTable(s, pid) \/ Chain(s, pid, fd) # <<>>)
  <2>1. t \in Pids
    BY <1>3 DEF HasTable
  <2>2. CASE file = Ignored
    <3>1. Open(s0, pid, fd, file, fails) = AddItem(s, t, fd, Virtual, Virtual)
      BY <1>3, <2>2 DEF Open, s
    <3> QED
      BY <1>1, <2>1, <3>1, AddItemType
  <2>3. CASE file # Ignored /\ (fd \in fails \/ FreeFds(s) = {})
    BY <1>1, <1>3, <2>3 DEF Open, s
  <2>4. CASE file # Ignored /\ ~(fd \in fails \/ FreeFds(s) = {})
    <3>1. Open(s0, pid, fd, file, fails) = AddItem(s1, t, fd, r, r)
      BY <1>3, <2>4 DEF Open, s
    <3>2. r \in RealFds
      BY <1>1, <2>4, LowestFreeIsFree
    <3>3. s1 \in States
      BY <1>1, <2>4, <3>2 DEF States
    <3> QED
      BY <2>1, <3>1, <3>2, <3>3, AddItemType
  <2> QED
    BY <2>2, <2>3, <2>4
<1> QED
  BY <1>2, <1>3

LEMMA GetFdMapType ==
  ASSUME NEW s0 \in States, NEW pid \in Pids, NEW fd \in Fds \cup {Failed}, NEW fails
  PROVE  GetFdMap(s0, pid, fd, fails) \in States
<1> DEFINE s == MissingHt(s0, pid)
<1>1. s \in States
  BY MissingHtType
<1>2. fd # Failed => Open(s, pid, fd, Unknown, fails) \in States
  BY <1>1, OpenType
<1>3. Stop(s, "assert_key") \in States
  BY <1>1, StopType DEF Status
<1> QED
  BY <1>1, <1>2, <1>3 DEF GetFdMap

LEMMA FoundItem ==
  ASSUME NEW s \in States, NEW pid \in Pids, NEW fd \in Fds, Found(s, pid, fd)
  PROVE  /\ GetProcessHt(s, pid) \in Pids
         /\ s.ht[GetProcessHt(s, pid)][fd] # <<>>
         /\ IdOf(s, pid, fd) = Head(s.ht[GetProcessHt(s, pid)][fd])
         /\ IdOf(s, pid, fd) \in MapIds
         /\ IdOf(s, pid, fd) = s.ht[GetProcessHt(s, pid)][fd][1]
         /\ 1 \in 1..Len(s.ht[GetProcessHt(s, pid)][fd])
<1> DEFINE t == GetProcessHt(s, pid)
<1>1. t \in Pids /\ s.ht[t][fd] # <<>> /\ IdOf(s, pid, fd) = Head(s.ht[t][fd])
  BY DEF Found, HasTable, Chain, IdOf
<1>2. s.ht[t][fd] \in Seq(MapIds)
  BY <1>1 DEF States
<1> HIDE DEF t
<1>3. /\ Head(s.ht[t][fd]) \in MapIds
      /\ Head(s.ht[t][fd]) = s.ht[t][fd][1]
      /\ 1 \in 1..Len(s.ht[t][fd])
  BY <1>1, <1>2
<1> QED
  BY <1>1, <1>3 DEF t

LEMMA NotFoundFailed ==
  ASSUME NEW s0 \in States, NEW pid \in Pids, NEW fails, s0.st = "run"
  PROVE  ~Found(GetFdMap(s0, pid, Failed, fails), pid, Failed)
<1> DEFINE s == MissingHt(s0, pid)
<1>1. s \in States
  BY MissingHtType
<1> HIDE DEF s
<1>2. CASE ~HasTable(s, pid)
  BY <1>2 DEF GetFdMap, Found, s
<1>3. CASE HasTable(s, pid)
  <2>1. GetFdMap(s0, pid, Failed, fails) = [s EXCEPT !.st = "assert_key"]
    BY <1>3 DEF GetFdMap, Stop, s
  <2> QED
    BY <1>1, <2>1 DEF Found, States
<1> QED
  BY <1>2, <1>3

LEMMA CloseType ==
  ASSUME NEW s0 \in States, NEW pid \in Pids, NEW fd \in Fds \cup {Failed}, NEW fails,
         NEW closeFails \in BOOLEAN, s0.st = "run"
  PROVE  Close(s0, pid, fd, fails, closeFails) \in States
<1> DEFINE s  == GetFdMap(s0, pid, fd, fails)
           t  == GetProcessHt(s, pid)
           m  == s.map[IdOf(s, pid, fd)]
           u  == DecreaseFdUsage(s.usage, m.my)
           s1 == [s EXCEPT !.usage = u]
           o  == [s.os EXCEPT ![m.my] = Closed]
           s2 == [s1 EXCEPT !.os = o]
<1>1. s \in States
  BY GetFdMapType
<1>2. fd = Failed => ~Found(s, pid, fd)
  BY NotFoundFailed
<1>a. Close(s0, pid, fd, fails, closeFails) =
        IF ~Found(s, pid, fd) THEN s
        ELSE IF m = Nil THEN Stop(s, "uaf")
        ELSE IF ~SupportedType(m) THEN RemoveFdItem(s, t, fd)
        ELSE IF s.usage[m.my] = 0 THEN Stop(s, "assert_usage")
        ELSE IF ~LastUse(s.usage, m.my) THEN RemoveFdItem(s1, t, fd)
        ELSE IF closeFails \/ s.os[m.my] = Closed THEN s2
        ELSE RemoveFdItem(s2, t, fd)
  BY DEF Close
<1> HIDE DEF s
<1>3. CASE ~Found(s, pid, fd)
  BY <1>1, <1>3, <1>a
<1>4. CASE Found(s, pid, fd) /\ m = Nil
  BY <1>1, <1>4, <1>a, StopType DEF Status
<1>5. CASE Found(s, pid, fd) /\ m # Nil
  <2>1. fd \in Fds
    BY <1>2, <1>5
  <2>2. t \in Pids /\ s.ht[t][fd] # <<>> /\ IdOf(s, pid, fd) = Head(s.ht[t][fd])
        /\ IdOf(s, pid, fd) \in MapIds
    BY <1>1, <1>5, <2>1, FoundItem
  <2>3. m \in FdMaps
    BY <1>1, <1>5, <2>2 DEF States
  <2>4. CASE ~SupportedType(m)
    <3>1. RemoveFdItem(s, t, fd) \in States
      BY <1>1, <1>5, <2>1, <2>2, RemoveFdItemType
    <3> QED
      BY <1>5, <2>4, <3>1, <1>a
  <2>5. CASE SupportedType(m) /\ s.usage[m.my] = 0
    BY <1>1, <1>5, <2>5, <1>a, StopType DEF Status
  <2>6. CASE SupportedType(m) /\ s.usage[m.my] # 0
    <3>1. m.my \in RealFds
      BY <2>3, <2>6 DEF FdMaps, SupportedType
    <3>2. u \in [RealFds -> Nat]
      BY <1>1, <2>6, <3>1 DEF DecreaseFdUsage, States
    <3>3. o \in [RealFds -> Files \cup {Unknown, Closed}]
      BY <1>1, <3>1 DEF States
    <3> HIDE DEF u, o, t
    <3>4. /\ s1 \in States /\ s1.ht = s.ht /\ s1.map = s.map
          /\ s2 \in States /\ s2.ht = s.ht /\ s2.map = s.map
      BY <1>1, <3>2, <3>3 DEF States
    <3> HIDE DEF s1, s2
    <3>5. RemoveFdItem(s1, t, fd) \in States /\ RemoveFdItem(s2, t, fd) \in States
      BY <1>5, <2>1, <2>2, <3>4, RemoveFdItemType
    <3> QED
      BY <1>5, <2>6, <3>4, <3>5, <1>a
  <2> QED
    BY <2>4, <2>5, <2>6
<1> QED
  BY <1>3, <1>4, <1>5

-----------------------------------------------------------------------------
(* What handling a call on fd of a process that has a table leaves alone:  *)
(* which tables the processes use, and the other descriptors of its table. *)
Frame(s, r, t, fd) == /\ r.proc = s.proc
                      /\ \A f \in Fds : f # fd => r.ht[t][f] = s.ht[t][f]

LEMMA AddItemFrame ==
  ASSUME NEW s \in States, NEW t \in Pids, NEW fd \in Fds,
         NEW my \in RealFds \cup {Virtual}, NEW counted
  PROVE  Frame(s, AddItem(s, t, fd, my, counted), t, fd)
<1> DEFINE m == <<t, fd, CHOOSE g \in FreeGens(s, t, fd) : TRUE>>
           h == [s.ht EXCEPT ![t] = [s.ht[t] EXCEPT ![fd] = Append(s.ht[t][fd], m)]]
           k == [s.map EXCEPT ![m] = [my |-> my, parents |-> {fd}]]
           n == NewFdItem(s, t, fd, my)
<1>1. Frame(s, n, t, fd)
  <2>1. CASE FreeGens(s, t, fd) = {}
    <3>1. n = [s EXCEPT !.st = "bound"]
      BY <2>1 DEF NewFdItem, Stop
    <3> HIDE DEF n
    <3> QED
      BY <3>1 DEF Frame, States
  <2>2. CASE FreeGens(s, t, fd) # {}
    <3>1. n = [s EXCEPT !.ht = h, !.map = k]
      BY <2>2 DEF NewFdItem
    <3>2. \A f \in Fds : f # fd => h[t][f] = s.ht[t][f]
      BY DEF States
    <3> HIDE DEF n, h, k
    <3> QED
      BY <3>1, <3>2 DEF Frame, States
  <2> QED
    BY <2>1, <2>2
<1>2. AddItem(s, t, fd, my, counted) =
        IF n.st # "run" THEN n ELSE [n EXCEPT !.usage = IncreaseFdUsage(n.usage, counted)]
  BY DEF AddItem
<1>3. n \in States
  BY NewFdItemType
<1> HIDE DEF n
<1> QED
  BY <1>1, <1>2, <1>3 DEF Frame, States

LEMMA MissingHtKnown ==
  ASSUME NEW s, NEW pid, HasTable(s, pid)
  PROVE  MissingHt(s, pid) = s
BY DEF MissingHt

LEMMA OpenFrame ==
  ASSUME NEW s \in States, NEW pid \in Pids, NEW fd \in Fds,
         NEW file \in Files \cup {Unknown, Ignored}, NEW fails, HasTable(s, pid)
  PROVE  Frame(s, Open(s, pid, fd, file, fails), GetProcessHt(s, pid), fd)
<1> DEFINE t == GetProcessHt(s, pid)
           r == LowestFree(s)
           s1 == [s EXCEPT !.os = [s.os EXCEPT ![r] = file]]
<1>1. MissingHt(s, pid) = s
  BY MissingHtKnown
<1>2. Open(s, pid, fd, file, fails) =
        IF ~HasTable(s, pid) \/ Chain(s, pid, fd) # <<>> THEN s
        ELSE IF file = Ignored THEN AddItem(s, t, fd, Virtual, Virtual)
        ELSE IF fd \in fails \/ FreeFds(s) = {} THEN s
        ELSE AddItem(s1, t, fd, r, r)
  BY <1>1 DEF Open
<1>3. t \in Pids
  BY DEF HasTable
<1> HIDE DEF t
<1>4. Frame(s, s, t, fd) /\ Frame(s, AddItem(s, t, fd, Virtual, Virtual), t, fd)
  BY <1>3, AddItemFrame DEF Frame
<1>5. CASE file # Ignored /\ FreeFds(s) # {}
  <2>1. r \in RealFds
    BY <1>5, LowestFreeIsFree
  <2>2. s1 \in States /\ s1.proc = s.proc /\ s1.ht = s.ht
    BY <1>5, <2>1 DEF States
  <2> HIDE DEF s1
  <2>3. Frame(s1, AddItem(s1, t, fd, r, r), t, fd)
    BY <1>3, <2>1, <2>2, AddItemFrame
  <2>4. Frame(s, AddItem(s1, t, fd, r, r), t, fd)
    BY <2>2, <2>3 DEF Frame
  <2> QED
    BY <1>2, <1>4, <2>4 DEF t
<1>6. CASE ~(file # Ignored /\ FreeFds(s) # {})
  BY <1>2, <1>4, <1>6 DEF t
<1> QED
  BY <1>5, <1>6

LEMMA GetFdMapFrame ==
  ASSUME NEW s \in States, NEW pid \in Pids, NEW fd \in Fds, NEW fails, HasTable(s, pid)
  PROVE  Frame(s, GetFdMap(s, pid, fd, fails), GetProcessHt(s, pid), fd)
<1>1. GetFdMap(s, pid, fd, fails) =
        IF Chain(s, pid, fd) # <<>> \/ ~FixMissing THEN s
        ELSE Open(s, pid, fd, Unknown, fails)
  BY MissingHtKnown, FailedAssumption DEF GetFdMap
<1>2. Frame(s, s, GetProcessHt(s, pid), fd)
  BY DEF Frame
<1> QED
  BY <1>1, <1>2, OpenFrame

LEMMA RemoveFdItemFrame ==
  ASSUME NEW s \in States, NEW t \in Pids, NEW fd \in Fds
  PROVE  Frame(s, RemoveFdItem(s, t, fd), t, fd)
<1> DEFINE m == Head(s.ht[t][fd])
           p == DeleteParentFd(s.map[m].parents, fd)
           h == [s.ht EXCEPT ![t][fd] = Tail(@)]
           c == IF p = {} \/ ~Referenced(h, m) THEN Nil ELSE [s.map[m] EXCEPT !.parents = p]
           k == [s.map EXCEPT ![m] = c]
<1>1. CASE DeleteParentAsserts(s.map[m].parents, fd)
  BY <1>1 DEF RemoveFdItem, Stop, States, Frame
<1>2. CASE ~DeleteParentAsserts(s.map[m].parents, fd)
  <2>1. RemoveFdItem(s, t, fd) = [s EXCEPT !.ht = h, !.map = k]
    BY <1>2 DEF RemoveFdItem
  <2>2. \A f \in Fds : f # fd => h[t][f] = s.ht[t][f]
    BY DEF States
  <2> HIDE DEF h, k
  <2> QED
    BY <2>1, <2>2 DEF Frame, States
<1> QED
  BY <1>1, <1>2

LEMMA CloseFrame ==
  ASSUME NEW s0 \in States, NEW pid \in Pids, NEW fd \in Fds, NEW fails,
         NEW closeFails \in BOOLEAN, HasTable(s0, pid)
  PROVE  Frame(s0, Close(s0, pid, fd, fails, closeFails), GetProcessHt(s0, pid), fd)
<1> DEFINE s  == GetFdMap(s0, pid, fd, fails)
           t0 == GetProcessHt(s0, pid)
           t  == GetProcessHt(s, pid)
           m  == s.map[IdOf(s, pid, fd)]
           u  == DecreaseFdUsage(s.usage, m.my)
           s1 == [s EXCEPT !.usage = u]
           o  == [s.os EXCEPT ![m.my] = Closed]
           s2 == [s1 EXCEPT !.os = o]
<1>1. s \in States
  BY GetFdMapType
<1>2. Frame(s0, s, t0, fd)
  BY GetFdMapFrame
<1>a. Close(s0, pid, fd, fails, closeFails) =
        IF ~Found(s, pid, fd) THEN s
        ELSE IF m = Nil THEN Stop(s, "uaf")
        ELSE IF ~SupportedType(m) THEN RemoveFdItem(s, t, fd)
        ELSE IF s.usage[m.my] = 0 THEN Stop(s, "assert_usage")
        ELSE IF ~LastUse(s.usage, m.my) THEN RemoveFdItem(s1, t, fd)
        ELSE IF closeFails \/ s.os[m.my] = Closed THEN s2
        ELSE RemoveFdItem(s2, t, fd)
  BY DEF Close
<1> HIDE DEF s
<1>3. t = t0 /\ t0 \in Pids
  BY <1>2 DEF Frame, GetProcessHt, HasTable
<1>4. \A why : Frame(s, Stop(s, why), t0, fd)
  BY <1>1 DEF Stop, Frame, States
<1>5. Frame(s, RemoveFdItem(s, t, fd), t0, fd)
  BY <1>1, <1>3, RemoveFdItemFrame
<1>6. CASE Found(s, pid, fd) /\ m # Nil /\ SupportedType(m) /\ s.usage[m.my] # 0
  <2>1. m \in FdMaps
    <3>1. IdOf(s, pid, fd) \in MapIds
      BY <1>1, <1>6, FoundItem
    <3> QED
      BY <1>1, <1>6, <3>1 DEF States
  <2>2. m.my \in RealFds
    BY <1>6, <2>1 DEF FdMaps, SupportedType
  <2>3. u \in [RealFds -> Nat]
    BY <1>1, <1>6, <2>2 DEF DecreaseFdUsage, States
  <2>4. o \in [RealFds -> Files \cup {Unknown, Closed}]
    BY <1>1, <2>2 DEF States
  <2> HIDE DEF u, o, t, t0, m
  <2>5. /\ s1 \in States /\ s1.ht = s.ht /\ s1.proc = s.proc
        /\ s2 \in States /\ s2.ht = s.ht /\ s2.proc = s.proc
    BY <1>1, <2>3, <2>4 DEF States
  <2> HIDE DEF s1, s2
  <2>6. Frame(s1, RemoveFdItem(s1, t, fd), t0, fd) /\ Frame(s2, RemoveFdItem(s2, t, fd), t0, fd)
    BY <1>3, <2>5, RemoveFdItemFrame
  <2>7. /\ Frame(s, RemoveFdItem(s1, t, fd), t0, fd) /\ Frame(s, RemoveFdItem(s2, t, fd), t0, fd)
        /\ Frame(s, s2, t0, fd)
    BY <2>5, <2>6 DEF Frame
  <2>8. Frame(s, Close(s0, pid, fd, fails, closeFails), t0, fd)
    BY <1>6, <2>7, <1>a
  <2> QED
    BY <1>2, <2>8 DEF Frame, t0
<1>7. CASE ~(Found(s, pid, fd) /\ m # Nil /\ SupportedType(m) /\ s.usage[m.my] # 0)
  <2>1. Frame(s, s, t0, fd)
    BY DEF Frame
  <2> HIDE DEF t0, t, m
  <2>2. Frame(s, Close(s0, pid, fd, fails, closeFails), t0, fd)
    BY <1>4, <1>5, <1>7, <2>1, <1>a
  <2> QED
    BY <1>2, <2>2 DEF Frame, t0
<1> QED
  BY <1>6, <1>7

LEMMA DupType ==
  ASSUME NEW s0 \in States, NEW pid \in Pids, NEW fd \in Fds \cup {Failed}, NEW new \in Fds,
         NEW fails, NEW closeFails \in BOOLEAN, s0.st = "run"
  PROVE  Dup(s0, pid, fd, new, fails, closeFails) \in States
<1> DEFINE s  == GetFdMap(s0, pid, fd, fails)
           id == IdOf(s, pid, fd)
           s1 == Close(s, pid, new, fails, closeFails)
           t  == GetProcessHt(s1, pid)
           m  == s1.map[id]
           k  == [s1.map EXCEPT ![id] = [m EXCEPT !.parents = InsertParentFd(m.parents, new)]]
           h  == [s1.ht EXCEPT ![t] = [s1.ht[t] EXCEPT ![new] = Append(s1.ht[t][new], id)]]
           u  == IncreaseFdUsage(s1.usage, m.my)
<1>1. s \in States
  BY GetFdMapType
<1>2. fd = Failed => ~Found(s, pid, fd)
  BY NotFoundFailed
<1>a. Dup(s0, pid, fd, new, fails, closeFails) =
        IF ~Found(s, pid, fd) THEN s
        ELSE IF s1.st # "run" THEN s1
        ELSE IF fd = new /\ s1.ht[t][fd] # s.ht[t][fd] THEN Stop(s1, "uaf")
        ELSE IF m = Nil THEN Stop(s1, "uaf")
        ELSE IF InsertParentAsserts(m.parents, new) THEN Stop(s1, "assert_parent")
        ELSE IF Len(s1.ht[t][new]) >= MaxGens THEN Stop(s1, "bound")
        ELSE [s1 EXCEPT !.map = k, !.ht = h, !.usage = u]
  BY DEF Dup
<1> HIDE DEF s
<1>3. CASE ~Found(s, pid, fd)
  BY <1>1, <1>3, <1>a
<1>4. CASE Found(s, pid, fd)
  <2>1. fd \in Fds /\ s.st = "run" /\ HasTable(s, pid)
    BY <1>2, <1>4 DEF Found
  <2>2. id \in MapIds
    BY <1>1, <1>4, <2>1, FoundItem
  <2>3. s1 \in States
    BY <1>1, <2>1, CloseType
  <2>4. s1.proc = s.proc
    BY <1>1, <2>1, CloseFrame DEF Frame
  <2> HIDE DEF s1, id
  <2>5. t \in Pids
    BY <2>1, <2>4 DEF HasTable, GetProcessHt
  <2>6. CASE m = Nil \/ s1.st # "run" \/ InsertParentAsserts(m.parents, new)
             \/ (fd = new /\ s1.ht[t][fd] # s.ht[t][fd])
             \/ Len(s1.ht[t][new]) >= MaxGens
    <3>1. Stop(s1, "bound") \in States /\ Stop(s1, "uaf") \in States /\ Stop(s1, "assert_parent") \in States
      BY <2>3, StopType DEF Status
    <3> QED
      BY <1>4, <2>3, <2>6, <3>1, <1>a
  <2>7. CASE ~(m = Nil \/ s1.st # "run" \/ InsertParentAsserts(m.parents, new)
               \/ (fd = new /\ s1.ht[t][fd] # s.ht[t][fd])
               \/ Len(s1.ht[t][new]) >= MaxGens)
    <3>1. m \in FdMaps
      BY <2>2, <2>3, <2>7 DEF States
    <3>2. [m EXCEPT !.parents = InsertParentFd(m.parents, new)] \in FdMaps
      BY <3>1 DEF FdMaps, InsertParentFd
    <3>3. k \in [MapIds -> FdMaps \cup {Nil}]
      BY <2>2, <2>3, <3>2 DEF States
    <3> HIDE DEF t, m
    <3>4. s1.ht[t][new] \in Seq(MapIds)
      BY <2>3, <2>5 DEF States
    <3>5. h \in [Pids -> [Fds -> Seq(MapIds)]]
      BY <2>2, <2>3, <2>5, <3>4 DEF States
    <3>6. u \in [RealFds -> Nat]
      BY <2>3, IncreaseType DEF States
    <3>7. Dup(s0, pid, fd, new, fails, closeFails) = [s1 EXCEPT !.map = k, !.ht = h, !.usage = u]
      BY <1>4, <2>7, <1>a
    <3> HIDE DEF k, h, u
    <3> QED
      BY <2>3, <3>3, <3>5, <3>6, <3>7 DEF States
  <2> QED
    BY <2>6, <2>7
<1> QED
  BY <1>3, <1>4

LEMMA SocketType ==
  ASSUME NEW s0 \in States, NEW pid \in Pids, NEW fd \in Fds
  PROVE  Socket(s0, pid, fd) \in States
<1> DEFINE s == MissingHt(s0, pid)
<1>1. s \in States
  BY MissingHtType
<1>2. HasTable(s, pid) => AddItem(s, GetProcessHt(s, pid), fd, Virtual, Virtual) \in States
  BY <1>1, AddItemType DEF HasTable
<1> QED
  BY <1>1, <1>2 DEF Socket

LEMMA PipeType ==
  ASSUME NEW s0 \in States, NEW pid \in Pids, NEW fd1 \in Fds, NEW fd2 \in Fds
  PROVE  Pipe(s0, pid, fd1, fd2) \in States
<1> DEFINE s  == MissingHt(s0, pid)
           t  == GetProcessHt(s, pid)
           s1 == AddItem(s, t, fd1, Virtual, fd1)
<1>1. s \in States
  BY MissingHtType
<1>2. CASE HasTable(s, pid)
  <2>1. t \in Pids
    BY <1>2 DEF HasTable
  <2>2. s1 \in States
    BY <1>1, <2>1, AddItemType
  <2>3. AddItem(s1, t, fd2, Virtual, fd2) \in States
    BY <2>1, <2>2, AddItemType
  <2> QED
    BY <1>1, <2>2, <2>3 DEF Pipe
<1>3. CASE ~HasTable(s, pid)
  BY <1>1, <1>3 DEF Pipe
<1> QED
  BY <1>2, <1>3

LEMMA UseType ==
  ASSUME NEW s0 \in States, NEW pid \in Pids, NEW fd \in Fds \cup {Failed}, NEW fails
  PROVE  Use(s0, pid, fd, fails) \in States
<1>1. GetFdMap(s0, pid, fd, fails) \in States
  BY GetFdMapType
<1>2. Stop(GetFdMap(s0, pid, fd, fails), "uaf") \in States
  BY <1>1, StopType DEF Status
<1> QED
  BY <1>1, <1>2 DEF Use

LEMMA SendfileType ==
  ASSUME NEW s0 \in States, NEW pid \in Pids, NEW out \in Fds \cup {Failed},
         NEW in \in Fds \cup {Failed}, NEW fails
  PROVE  Sendfile(s0, pid, out, in, fails) \in States
<1> DEFINE s  == GetFdMap(s0, pid, out, fails)
           s1 == GetFdMap(s, pid, in, fails)
<1>1. s \in States
  BY GetFdMapType
<1> HIDE DEF s
<1>2. s1 \in States
  BY <1>1, GetFdMapType
<1> HIDE DEF s1
<1>3. Stop(s1, "uaf") \in States
  BY <1>2, StopType DEF Status
<1> QED
  BY <1>1, <1>2, <1>3 DEF Sendfile, s, s1

-----------------------------------------------------------------------------
(* A step of Next takes the state record s to the result r of one handler  *)
(* on arguments of the right kinds.                                        *)
Children == Pids \cup (IF MinusOne THEN {Failed} ELSE {})
Handled(s, r) ==
  \/ r = s
  \/ \E pid \in Pids, fd \in Fds, file \in Files \cup {Unknown, Ignored}, fails \in SUBSET Fds :
       r = Open(s, pid, fd, file, fails)
  \/ \E pid \in Pids, fd \in FdArgs, fails \in SUBSET Fds, cf \in CloseResults :
       r = Close(s, pid, fd, fails, cf)
  \/ \E pid \in Pids, child \in Children, share \in BOOLEAN :
       (IF share THEN "thread" ELSE "fork") \in Ops /\ r = Clone(s, pid, child, share)
  \/ \E pid \in Pids, fd \in FdArgs, new \in Fds, fails \in SUBSET Fds, cf \in CloseResults :
       (fd = new => DupSelf) /\ r = Dup(s, pid, fd, new, fails, cf)
  \/ \E pid \in Pids, fd1 \in Fds, fd2 \in Fds :
       fd1 # fd2 /\ "pipe" \in Ops /\ r = Pipe(s, pid, fd1, fd2)
  \/ \E pid \in Pids, fd \in Fds : r = Socket(s, pid, fd)
  \/ \E pid \in Pids, fd \in FdArgs, fails \in SUBSET Fds : r = Use(s, pid, fd, fails)
  \/ \E pid \in Pids, out \in FdArgs, in \in FdArgs, fails \in SUBSET Fds :
       r = Sendfile(s, pid, out, in, fails)

LEMMA ArgumentTypes ==
  /\ \A fd \in FdArgs : fd \in Fds \cup {Failed}
  /\ \A child \in Children : child \in Pids \cup {Failed}
  /\ \A cf \in CloseResults : cf \in BOOLEAN
BY DEF FdArgs, Children, CloseResults

LEMMA HandledType ==
  ASSUME NEW s \in States, s.st = "run", NEW r, Handled(s, r)
  PROVE  r \in States
<1>1. \A pid \in Pids, fd \in FdArgs, fails \in SUBSET Fds, cf \in CloseResults :
        Close(s, pid, fd, fails, cf) \in States
  BY ArgumentTypes, CloseType
<1>2. \A pid \in Pids, child \in Children, share \in BOOLEAN : Clone(s, pid, child, share) \in States
  BY ArgumentTypes, CloneType
<1>3. \A pid \in Pids, fd \in FdArgs, new \in Fds, fails \in SUBSET Fds, cf \in CloseResults :
        Dup(s, pid, fd, new, fails, cf) \in States
  BY ArgumentTypes, DupType
<1>4. \A pid \in Pids, fd \in FdArgs, fails \in SUBSET Fds : Use(s, pid, fd, fails) \in States
  BY ArgumentTypes, UseType
<1>5. \A pid \in Pids, out \in FdArgs, in \in FdArgs, fails \in SUBSET Fds :
        Sendfile(s, pid, out, in, fails) \in States
  BY ArgumentTypes, SendfileType
<1> QED
  BY <1>1, <1>2, <1>3, <1>4, <1>5, OpenType, PipeType, SocketType DEF Handled

LEMMA CurType == TypeOK <=> Cur \in States
BY DEF TypeOK, Cur, States

LEMMA BecomeCur ==
  ASSUME NEW r \in States, Become(r)
  PROVE  Cur' = r
BY DEF Become, Cur, States

LEMMA Arguments ==
  /\ \A fds : \A fails \in FailSets(fds) : fails \in SUBSET Fds
  /\ \A fd \in FdArgs : fd # Failed => fd \in Fds
BY DEF FailSets, FdArgs

LEMMA StepHandles ==
  ASSUME Cur \in States, Next
  PROVE  \E r : st = "run" /\ Handled(Cur, r) /\ Become(r)
<1> DEFINE OK == \E r : st = "run" /\ Handled(Cur, r) /\ Become(r)
<1>0. PICK pid \in Pids :
        \/ ReplicateOpen(pid) \/ ReplicateClose(pid) \/ ReplicateClone(pid)
        \/ ReplicateDup(pid) \/ ReplicatePipe(pid) \/ ReplicateSocket(pid)
        \/ ReplicateRead(pid) \/ ReplicateWrite(pid) \/ ReplicatePread(pid)
        \/ ReplicatePwrite(pid) \/ ReplicateLseek(pid) \/ ReplicateLlseek(pid)
        \/ ReplicateSendfile(pid)
  BY DEF Next
<1>1. CASE ReplicateOpen(pid)
  <2>1. PICK fd \in FdArgs, file \in Files \cup {Ignored} : \E fails \in FailSets({fd}) :
          Handle("open", IF fd = Failed THEN Cur ELSE Open(Cur, pid, fd, file, fails))
    BY <1>1 DEF ReplicateOpen
  <2>2. PICK fails \in FailSets({fd}) :
          Handle("open", IF fd = Failed THEN Cur ELSE Open(Cur, pid, fd, file, fails))
    BY <2>1
  <2>3. fails \in SUBSET Fds /\ (fd # Failed => fd \in Fds)
    BY Arguments
  <2> DEFINE r == IF fd = Failed THEN Cur ELSE Open(Cur, pid, fd, file, fails)
  <2>4. Handled(Cur, r)
    BY <2>3 DEF Handled
  <2> HIDE DEF r
  <2> QED
    BY <2>2, <2>4 DEF Handle, r
<1>2. CASE ReplicateClose(pid)
  <2>1. PICK fd \in FdArgs, cf \in CloseResults : \E fails \in FailSets({fd}) :
          Handle("close", Close(Cur, pid, fd, fails, cf))
    BY <1>2 DEF ReplicateClose
  <2>2. PICK fails \in FailSets({fd}) : Handle("close", Close(Cur, pid, fd, fails, cf))
    BY <2>1
  <2>3. fails \in SUBSET Fds
    BY Arguments
  <2>4. Handled(Cur, Close(Cur, pid, fd, fails, cf))
    BY <2>3 DEF Handled
  <2> QED
    BY <2>2, <2>4 DEF Handle
<1>3. CASE ReplicateClone(pid)
  <2>1. PICK child \in Children, share \in BOOLEAN :
          Handle(IF share THEN "thread" ELSE "fork", Clone(Cur, pid, child, share))
    BY <1>3 DEF ReplicateClone, Children
  <2>2. Handled(Cur, Clone(Cur, pid, child, share))
    BY <2>1 DEF Handle, Handled
  <2> QED
    BY <2>1, <2>2 DEF Handle
<1>4. CASE ReplicateDup(pid)
  <2>1. PICK fd \in FdArgs, new \in FdArgs, cf \in CloseResults : \E fails \in FailSets({fd, new}) :
          /\ fd = new => DupSelf
          /\ Handle("dup", IF new = Failed THEN Cur ELSE Dup(Cur, pid, fd, new, fails, cf))
    BY <1>4 DEF ReplicateDup
  <2>2. PICK fails \in FailSets({fd, new}) :
          /\ fd = new => DupSelf
          /\ Handle("dup", IF new = Failed THEN Cur ELSE Dup(Cur, pid, fd, new, fails, cf))
    BY <2>1
  <2>3. /\ fails \in SUBSET Fds
        /\ (new # Failed => new \in Fds)
    BY Arguments
  <2> DEFINE r == IF new = Failed THEN Cur ELSE Dup(Cur, pid, fd, new, fails, cf)
  <2>4. Handled(Cur, r)
    BY <2>2, <2>3 DEF Handled
  <2> HIDE DEF r
  <2> QED
    BY <2>2, <2>4 DEF Handle, r
<1>5. CASE ReplicatePipe(pid)
  <2>1. PICK fd1 \in Fds, fd2 \in Fds : fd1 # fd2 /\ Handle("pipe", Pipe(Cur, pid, fd1, fd2))
    BY <1>5 DEF ReplicatePipe
  <2>2. Handled(Cur, Pipe(Cur, pid, fd1, fd2))
    BY <2>1 DEF Handle, Handled
  <2> QED
    BY <2>1, <2>2 DEF Handle
<1>6. CASE ReplicateSocket(pid)
  <2>1. PICK fd \in FdArgs : Handle("socket", IF fd = Failed THEN Cur ELSE Socket(Cur, pid, fd))
    BY <1>6 DEF ReplicateSocket
  <2>2. fd # Failed => fd \in Fds
    BY Arguments
  <2> DEFINE r == IF fd = Failed THEN Cur ELSE Socket(Cur, pid, fd)
  <2>3. Handled(Cur, r)
    BY <2>2 DEF Handled
  <2> HIDE DEF r
  <2> QED
    BY <2>1, <2>3 DEF Handle, r
<1>7. ASSUME NEW op, UseFd(op, pid)
      PROVE  OK
  <2>1. PICK fd \in FdArgs : \E fails \in FailSets({fd}) : Handle(op, Use(Cur, pid, fd, fails))
    BY <1>7 DEF UseFd
  <2>2. PICK fails \in FailSets({fd}) : Handle(op, Use(Cur, pid, fd, fails))
    BY <2>1
  <2>3. fails \in SUBSET Fds
    BY Arguments
  <2>4. Handled(Cur, Use(Cur, pid, fd, fails))
    BY <2>3 DEF Handled
  <2> QED
    BY <2>2, <2>4 DEF Handle
<1>8. CASE ReplicateSendfile(pid)
  <2>1. PICK out \in FdArgs, in \in FdArgs : \E fails \in FailSets({out, in}) :
          Handle("sendfile", Sendfile(Cur, pid, out, in, fails))
    BY <1>8 DEF ReplicateSendfile
  <2>2. PICK fails \in FailSets({out, in}) :
          Handle("sendfile", Sendfile(Cur, pid, out, in, fails))
    BY <2>1
  <2>3. fails \in SUBSET Fds
    BY Arguments
  <2>4. Handled(Cur, Sendfile(Cur, pid, out, in, fails))
    BY <2>3 DEF Handled
  <2> QED
    BY <2>2, <2>4 DEF Handle
<1> QED
  BY <1>0, <1>1, <1>2, <1>3, <1>4, <1>5, <1>6, <1>7, <1>8
     DEF ReplicateRead, ReplicateWrite, ReplicatePread, ReplicatePwrite,
         ReplicateLseek, ReplicateLlseek

LEMMA InitType == Init => TypeOK
<1> SUFFICES ASSUME Init PROVE TypeOK
  OBVIOUS
<1>1. \A f \in StdFds : f \in Fds /\ <<Root, f, 1>> \in MapIds
  BY RootAssumption, BoundAssumption DEF StdFds, MapIds, Gens
<1>2. ht \in [Pids -> [Fds -> Seq(MapIds)]]
  BY <1>1 DEF Init
<1>3. map \in [MapIds -> FdMaps \cup {Nil}]
  BY <1>1 DEF Init, FdMaps
<1>4. proc \in [Pids -> Pids \cup {Absent, Null}]
  BY RootAssumption DEF Init
<1> QED
  BY <1>2, <1>3, <1>4 DEF Init, TypeOK, Status

(* Type correctness: whatever trace is replayed, the tables, the heap and  *)
(* the counts keep their shapes; in particular decrease_fd_usage never     *)
(* takes a count below zero and open(2) always yields one of the           *)
(* replayer's descriptors.                                                 *)
THEOREM TypeCorrect == Spec => []TypeOK
<1>1. TypeOK /\ [Next]_vars => TypeOK'
  <2> SUFFICES ASSUME TypeOK, [Next]_vars PROVE TypeOK'
    OBVIOUS
  <2>1. CASE Next
    <3>1. Cur \in States
      BY CurType
    <3>2. PICK r : st = "run" /\ Handled(Cur, r) /\ Become(r)
      BY <2>1, <3>1, StepHandles
    <3>3. r \in States
      BY <3>1, <3>2, HandledType DEF Cur
    <3> QED
      BY <3>2, <3>3 DEF Become, TypeOK, States
  <2>2. CASE UNCHANGED vars
    BY <2>2 DEF vars, TypeOK
  <2> QED
    BY <2>1, <2>2
<1> QED
  BY <1>1, InitType, PTL DEF Spec

-----------------------------------------------------------------------------
(***************************************************************************)
(* Pointer safety: no fd_item points to a freed fd_map.  ItemsLinked is    *)
(* kept by every handler provided that parent_fds has room for all         *)
(* descriptors and that no dup2 names one descriptor twice; with it no     *)
(* handler meets a freed fd_map.                                           *)
(***************************************************************************)
Safe(s) == ItemsLinked(s) /\ s.st # "uaf"
RoomForParents == Cardinality(Fds) <= MaxParents

(* ItemsLinked, one chain q (of table t, under f) at a time.               *)
ChainLinked(q, k, t, f) ==
  \A i \in 1..Len(q) :
    /\ q[i][1] = t
    /\ k[q[i]] # Nil
    /\ f \in k[q[i]].parents
    /\ \A j \in 1..Len(q) : q[j] = q[i] => j = i

LEMMA LinksByChain ==
  ASSUME NEW s
  PROVE  ItemsLinked(s) <=> \A t \in Pids, f \in Fds : ChainLinked(s.ht[t][f], s.map, t, f)
BY DEF ItemsLinked, ChainLinked

(* A chain stays linked in a heap that keeps what its items need.          *)
LEMMA ChainKept ==
  ASSUME NEW q, NEW k, NEW k2, NEW t, NEW f, ChainLinked(q, k, t, f),
         \A i \in 1..Len(q) : k2[q[i]] # Nil /\ f \in k2[q[i]].parents
  PROVE  ChainLinked(q, k2, t, f)
BY DEF ChainLinked

(* hash_table_insert of an item whose fd_map the chain does not have.      *)
LEMMA ChainAppend ==
  ASSUME NEW S, NEW q \in Seq(S), NEW x \in S, NEW k, NEW t, NEW f, ChainLinked(q, k, t, f),
         x[1] = t, k[x] # Nil, f \in k[x].parents, \A i \in 1..Len(q) : q[i] # x
  PROVE  ChainLinked(Append(q, x), k, t, f)
<1> DEFINE a == Append(q, x)
<1>1. /\ Len(q) \in Nat
      /\ Len(a) = Len(q) + 1
      /\ a[Len(q) + 1] = x
      /\ \A i \in 1..Len(q) : a[i] = q[i]
  OBVIOUS
<1> HIDE DEF a
<1>2. ASSUME NEW i \in 1..Len(a)
      PROVE  /\ a[i][1] = t /\ k[a[i]] # Nil /\ f \in k[a[i]].parents
             /\ \A j \in 1..Len(a) : a[j] = a[i] => j = i
  <2>1. CASE i = Len(q) + 1
    <3>1. a[i] = x
      BY <1>1, <2>1
    <3>2. \A j \in 1..Len(a) : a[j] = x => j = i
      <4> SUFFICES ASSUME NEW j \in 1..Len(a), j # i PROVE a[j] # x
        OBVIOUS
      <4>1. j \in 1..Len(q)
        BY <1>1, <2>1
      <4> QED
        BY <1>1, <4>1
    <3> QED
      BY <3>1, <3>2
  <2>2. CASE i # Len(q) + 1
    <3>1. i \in 1..Len(q)
      BY <1>1, <2>2
    <3>2. a[i] = q[i] /\ q[i] # x
      BY <1>1, <3>1
    <3>3. \A j \in 1..Len(a) : a[j] = q[i] => j = i
      <4> SUFFICES ASSUME NEW j \in 1..Len(a), a[j] = q[i] PROVE j = i
        OBVIOUS
      <4>1. j # Len(q) + 1
        BY <1>1, <3>2
      <4>2. j \in 1..Len(q)
        BY <1>1, <4>1
      <4>3. q[j] = q[i]
        BY <1>1, <4>2
      <4> QED
        BY <3>1, <4>2, <4>3 DEF ChainLinked
    <3> QED
      BY <3>1, <3>2, <3>3 DEF ChainLinked
  <2> QED
    BY <2>1, <2>2
<1> QED
  BY <1>2 DEF ChainLinked, a

(* hash_table_remove: the rest of the chain is linked and does not have    *)
(* the fd_map of the item that went.                                       *)
LEMMA ChainTail ==
  ASSUME NEW S, NEW q \in Seq(S), q # <<>>, NEW k, NEW t, NEW f, ChainLinked(q, k, t, f)
  PROVE  /\ ChainLinked(Tail(q), k, t, f)
         /\ \A i \in 1..Len(Tail(q)) : Tail(q)[i] # Head(q)
<1> DEFINE a == Tail(q)
<1>1. /\ Len(q) \in Nat \ {0}
      /\ Len(a) = Len(q) - 1
      /\ Head(q) = q[1]
      /\ \A i \in 1..Len(a) : a[i] = q[i + 1]
  OBVIOUS
<1> HIDE DEF a
<1>2. ASSUME NEW i \in 1..Len(a)
      PROVE  /\ a[i][1] = t /\ k[a[i]] # Nil /\ f \in k[a[i]].parents
             /\ a[i] # q[1]
             /\ \A j \in 1..Len(a) : a[j] = a[i] => j = i
  <2>1. i + 1 \in 1..Len(q) /\ 1 \in 1..Len(q) /\ i + 1 # 1 /\ a[i] = q[i + 1]
    BY <1>1
  <2>2. /\ q[i + 1][1] = t /\ k[q[i + 1]] # Nil /\ f \in k[q[i + 1]].parents
        /\ q[1] # q[i + 1]
    BY <2>1 DEF ChainLinked
  <2>3. \A j \in 1..Len(a) : a[j] = a[i] => j = i
    <3> SUFFICES ASSUME NEW j \in 1..Len(a), a[j] = a[i] PROVE j = i
      OBVIOUS
    <3>1. j + 1 \in 1..Len(q) /\ q[j + 1] = q[i + 1]
      BY <1>1, <2>1
    <3>2. j + 1 = i + 1
      BY <2>1, <3>1 DEF ChainLinked
    <3> QED
      BY <3>2
  <2> QED
    BY <2>1, <2>2, <2>3
<1> QED
  BY <1>1, <1>2 DEF ChainLinked, a

(* ItemsLinked is about the chains and the heap alone.                     *)
LEMMA SameLinks ==
  ASSUME NEW s, NEW r, ItemsLinked(s), r.ht = s.ht, r.map = s.map
  PROVE  ItemsLinked(r)
BY DEF ItemsLinked

LEMMA StopSafe ==
  ASSUME NEW s \in States, NEW why \in Status, Safe(s), why # "uaf"
  PROVE  Safe(Stop(s, why))
<1>1. Stop(s, why).ht = s.ht /\ Stop(s, why).map = s.map /\ Stop(s, why).st = why
  BY DEF Stop, States
<1> QED
  BY <1>1, SameLinks DEF Safe

(* A fresh fd_map is Nil beforehand, so no item points to it yet.          *)
LEMMA NewFdItemSafe ==
  ASSUME NEW s \in States, NEW t \in Pids, NEW fd \in Fds,
         NEW my \in RealFds \cup {Virtual}, Safe(s)
  PROVE  Safe(NewFdItem(s, t, fd, my))
<1> DEFINE m == <<t, fd, CHOOSE g \in FreeGens(s, t, fd) : TRUE>>
           h == [s.ht EXCEPT ![t] = [s.ht[t] EXCEPT ![fd] = Append(s.ht[t][fd], m)]]
           v == [my |-> my, parents |-> {fd}]
           k == [s.map EXCEPT ![m] = v]
           n == NewFdItem(s, t, fd, my)
<1>1. CASE FreeGens(s, t, fd) = {}
  BY <1>1, StopSafe DEF NewFdItem, Status
<1>2. CASE FreeGens(s, t, fd) # {}
  <2>1. n = [s EXCEPT !.ht = h, !.map = k]
    BY <1>2 DEF NewFdItem
  <2>2. m \in MapIds /\ s.map[m] = Nil /\ m[1] = t
    BY <1>2 DEF FreeGens, MapIds
  <2>3. v # Nil /\ fd \in v.parents
    BY NilAssumption DEF FdMaps
  <2> HIDE DEF m, v
  <2>4. k[m] = v /\ \A x \in MapIds : x # m => k[x] = s.map[x]
    BY <2>2 DEF States
  <2>5. h[t][fd] = Append(s.ht[t][fd], m)
    BY DEF States
  <2>6. \A u \in Pids, f \in Fds : (u # t \/ f # fd) => h[u][f] = s.ht[u][f]
    BY DEF States
  <2> HIDE DEF n, h, k
  <2>7. n.ht = h /\ n.map = k /\ n.st = s.st
    BY <2>1 DEF States
  <2>8. ASSUME NEW u \in Pids, NEW f \in Fds
        PROVE  /\ ChainLinked(s.ht[u][f], k, u, f)
               /\ \A i \in 1..Len(s.ht[u][f]) : s.ht[u][f][i] # m
    <3> DEFINE q == s.ht[u][f]
    <3>1. q \in Seq(MapIds) /\ ChainLinked(q, s.map, u, f)
      BY LinksByChain DEF States, Safe
    <3> HIDE DEF q
    <3>2. \A i \in 1..Len(q) : /\ q[i] \in MapIds
                               /\ s.map[q[i]] # Nil
                               /\ f \in s.map[q[i]].parents
      BY <3>1 DEF ChainLinked
    <3>3. \A i \in 1..Len(q) : q[i] # m /\ k[q[i]] = s.map[q[i]]
      BY <2>2, <2>4, <3>2
    <3>4. ChainLinked(q, k, u, f)
      BY <3>1, <3>2, <3>3, ChainKept
    <3> QED
      BY <3>3, <3>4 DEF q
  <2>9. ChainLinked(h[t][fd], k, t, fd)
    <3>1. s.ht[t][fd] \in Seq(MapIds)
      BY DEF States
    <3> QED
      BY <2>2, <2>3, <2>4, <2>5, <2>8, <3>1, ChainAppend
  <2>10. ItemsLinked(n)
    BY <2>6, <2>7, <2>8, <2>9, LinksByChain
  <2> QED
    BY <2>7, <2>10 DEF Safe, n
<1> QED
  BY <1>1, <1>2

LEMMA AddItemSafe ==
  ASSUME NEW s \in States, NEW t \in Pids, NEW fd \in Fds,
         NEW my \in RealFds \cup {Virtual}, NEW counted, Safe(s)
  PROVE  Safe(AddItem(s, t, fd, my, counted))
<1> DEFINE n == NewFdItem(s, t, fd, my)
           r == [n EXCEPT !.usage = IncreaseFdUsage(n.usage, counted)]
<1>1. n \in States /\ Safe(n)
  BY NewFdItemType, NewFdItemSafe
<1>2. AddItem(s, t, fd, my, counted) = IF n.st # "run" THEN n ELSE r
  BY DEF AddItem
<1> HIDE DEF n
<1>3. r.ht = n.ht /\ r.map = n.map /\ r.st = n.st
  BY <1>1 DEF States
<1> QED
  BY <1>1, <1>2, <1>3, SameLinks DEF Safe

(* The head of a chain that is not empty points to a live fd_map that      *)
(* lists the chain's descriptor.                                           *)
LEMMA HeadLinked ==
  ASSUME NEW s \in States, ItemsLinked(s), NEW t \in Pids, NEW fd \in Fds, s.ht[t][fd] # <<>>
  PROVE  LET m == Head(s.ht[t][fd])
         IN  /\ m \in MapIds
             /\ m[1] = t
             /\ s.map[m] # Nil
             /\ s.map[m] \in FdMaps
             /\ fd \in s.map[m].parents
<1> DEFINE q == s.ht[t][fd]
           m == Head(q)
<1>1. q \in Seq(MapIds) /\ q # <<>> /\ ChainLinked(q, s.map, t, fd)
  BY LinksByChain DEF States
<1> HIDE DEF q
<1>2. m = q[1] /\ 1 \in 1..Len(q) /\ m \in MapIds
  BY <1>1
<1>3. m[1] = t /\ s.map[m] # Nil /\ fd \in s.map[m].parents
  BY <1>1, <1>2 DEF ChainLinked
<1> HIDE DEF m
<1>4. s.map[m] \in FdMaps
  BY <1>2, <1>3 DEF States
<1> QED
  BY <1>2, <1>3, <1>4 DEF m, q

(* Another item that points to the fd_map of the removed one is in the     *)
(* same table under another descriptor, which parent_fds lists: the fd_map *)
(* is not freed.                                                           *)
LEMMA RemoveFdItemSafe ==
  ASSUME NEW s \in States, NEW t \in Pids, NEW fd \in Fds, s.ht[t][fd] # <<>>, Safe(s)
  PROVE  Safe(RemoveFdItem(s, t, fd))
<1> DEFINE m == Head(s.ht[t][fd])
           p == DeleteParentFd(s.map[m].parents, fd)
           h == [s.ht EXCEPT ![t][fd] = Tail(@)]
           c == IF p = {} \/ ~Referenced(h, m) THEN Nil ELSE [s.map[m] EXCEPT !.parents = p]
           k == [s.map EXCEPT ![m] = c]
           n == RemoveFdItem(s, t, fd)
<1>1. /\ m \in MapIds /\ m[1] = t
      /\ s.map[m] \in FdMaps /\ fd \in s.map[m].parents
  BY HeadLinked DEF Safe
<1>2. n = [s EXCEPT !.ht = h, !.map = k]
  BY <1>1 DEF RemoveFdItem, DeleteParentAsserts
<1>3. h[t][fd] = Tail(s.ht[t][fd])
  BY DEF States
<1>4. \A u \in Pids, f \in Fds : (u # t \/ f # fd) => h[u][f] = s.ht[u][f]
  BY DEF States
<1>5. \A x \in MapIds : x # m => k[x] = s.map[x]
  BY <1>1 DEF States
<1>6. k[m] = c
  BY <1>1 DEF States
<1>7. ASSUME NEW u \in Pids, NEW f \in Fds, NEW i \in 1..Len(h[u][f]), h[u][f][i] = m,
             f \in s.map[m].parents, f # fd
      PROVE  k[m] # Nil /\ f \in k[m].parents
  <2> HIDE DEF h, k, m
  <2>1. Referenced(h, m)
    BY <1>7 DEF Referenced
  <2>2. f \in p
    BY <1>7 DEF DeleteParentFd
  <2>3. c = [s.map[m] EXCEPT !.parents = p]
    BY <2>1, <2>2
  <2>4. p \in SUBSET Fds
    BY <1>1 DEF DeleteParentFd, FdMaps
  <2> HIDE DEF p, c
  <2>5. c \in FdMaps /\ c.parents = p
    BY <1>1, <2>3, <2>4 DEF FdMaps
  <2> QED
    BY <1>6, <2>2, <2>5, NilAssumption
<1> HIDE DEF h, k, n
<1>8. n.ht = h /\ n.map = k /\ n.st = s.st
  BY <1>2 DEF States
<1>9. ChainLinked(h[t][fd], k, t, fd)
  <2> DEFINE q == s.ht[t][fd]
             a == Tail(q)
  <2>1. q \in Seq(MapIds) /\ ChainLinked(q, s.map, t, fd) /\ q # <<>>
    BY LinksByChain DEF States, Safe
  <2>2. a \in Seq(MapIds)
    BY <2>1
  <2>3. ChainLinked(a, s.map, t, fd) /\ \A i \in 1..Len(a) : a[i] # m
    BY <2>1, ChainTail
  <2> HIDE DEF m, q
  <2> HIDE DEF a
  <2>4. \A i \in 1..Len(a) : k[a[i]] # Nil /\ fd \in k[a[i]].parents
    BY <1>5, <2>2, <2>3 DEF ChainLinked
  <2>5. ChainLinked(a, k, t, fd)
    BY <2>3, <2>4, ChainKept
  <2> QED
    BY <1>3, <2>5 DEF a, q
<1>10. ASSUME NEW u \in Pids, NEW f \in Fds, u # t \/ f # fd
       PROVE  ChainLinked(h[u][f], k, u, f)
  <2> DEFINE q == h[u][f]
  <2>1. q \in Seq(MapIds) /\ ChainLinked(q, s.map, u, f)
    BY <1>4, <1>10, LinksByChain DEF States, Safe
  <2> HIDE DEF m, c
  <2>2. ASSUME NEW i \in 1..Len(q)
        PROVE  k[q[i]] # Nil /\ f \in k[q[i]].parents
    <3>1. q[i] \in MapIds /\ q[i][1] = u /\ s.map[q[i]] # Nil /\ f \in s.map[q[i]].parents
      BY <2>1 DEF ChainLinked
    <3>2. CASE q[i] = m
      <4>1. f # fd
        BY <1>1, <1>10, <3>1, <3>2
      <4> QED
        BY <1>7, <3>1, <3>2, <4>1
    <3>3. CASE q[i] # m
      BY <1>5, <3>1, <3>3
    <3> QED
      BY <3>2, <3>3
  <2> QED
    BY <2>1, <2>2, ChainKept
<1>11. ItemsLinked(n)
  BY <1>8, <1>9, <1>10, LinksByChain
<1> QED
  BY <1>8, <1>11 DEF Safe, n

(* A fork copies live fd_maps to fresh ones, one per item of the copy.     *)
LEMMA DuplicateSafe ==
  ASSUME NEW s \in States, NEW src \in Pids, NEW dst \in Pids, Safe(s)
  PROVE  Safe(DuplicateProcessHt(s, src, dst))
<1> DEFINE pr == [s.proc EXCEPT ![dst] = dst]
           nt == [f \in Fds |-> [i \in 1..CopyLen(s, src, f) |-> <<dst, f, i>>]]
           h  == [s.ht EXCEPT ![dst] = nt]
           k  == [m \in MapIds |-> IF m[1] = dst /\ m[3] <= CopyLen(s, src, m[2])
                                   THEN CopyOf(s, src, m[2], m[3]) ELSE s.map[m]]
           u  == [r \in RealFds |-> s.usage[r] + Cardinality(UsersIn(s, src, r))]
           n  == DuplicateProcessHt(s, src, dst)
<1>1. \A e \in Places(s, src) : MapAt(s, src, e) # Nil
  <2> SUFFICES ASSUME NEW e \in Places(s, src) PROVE MapAt(s, src, e) # Nil
    OBVIOUS
  <2>1. e[1] \in Fds /\ e[2] \in Gens /\ e[2] <= Len(s.ht[src][e[1]])
    BY DEF Places
  <2>2. s.ht[src][e[1]] \in Seq(MapIds) /\ ChainLinked(s.ht[src][e[1]], s.map, src, e[1])
    BY <2>1, LinksByChain DEF States, Safe
  <2>3. e[2] \in 1..Len(s.ht[src][e[1]])
    BY <2>1, <2>2 DEF Gens
  <2> QED
    BY <2>2, <2>3 DEF ChainLinked, MapAt
<1>2. CASE \E f \in Fds : CopyLen(s, src, f) > MaxGens
  <2>1. n = Stop(s, "bound")
    BY <1>1, <1>2 DEF DuplicateProcessHt
  <2> QED
    BY <2>1, StopSafe DEF Status
<1>3. CASE ~(\E f \in Fds : CopyLen(s, src, f) > MaxGens)
  <2>1. n = [s EXCEPT !.proc = pr, !.ht = h, !.map = k, !.usage = u]
    BY <1>1, <1>3 DEF DuplicateProcessHt
  <2>2. \A f \in Fds : h[dst][f] = [i \in 1..CopyLen(s, src, f) |-> <<dst, f, i>>]
    BY DEF States
  <2>3. \A t \in Pids : t # dst => h[t] = s.ht[t]
    BY DEF States
  <2>4. \A x \in MapIds : x[1] # dst => k[x] = s.map[x]
    OBVIOUS
  <2>5. ASSUME NEW f \in Fds, NEW i \in 1..CopyLen(s, src, f)
        PROVE  k[<<dst, f, i>>] # Nil /\ f \in k[<<dst, f, i>>].parents
    <3>1. CopyLen(s, src, f) \in Nat /\ CopyLen(s, src, f) <= MaxGens
      BY <1>3, CopyLenType, BoundAssumption
    <3>2. <<dst, f, i>> \in MapIds
      BY <3>1, BoundAssumption DEF MapIds, Gens
    <3>3. k[<<dst, f, i>>] = CopyOf(s, src, f, i)
      BY <3>1, <3>2
    <3> HIDE DEF k
    <3>4. CASE i <= Len(s.ht[src][f])
      <4>1. s.ht[src][f] \in Seq(MapIds) /\ ChainLinked(s.ht[src][f], s.map, src, f)
        BY LinksByChain DEF States, Safe
      <4>2. i \in 1..Len(s.ht[src][f])
        BY <3>1, <3>4, <4>1
      <4> QED
        BY <3>3, <3>4, <4>1, <4>2 DEF ChainLinked, CopyOf
    <3>5. CASE ~(i <= Len(s.ht[src][f]))
      <4>1. s.ht[src][f] \in Seq(MapIds)
        BY DEF States
      <4>2. HasStrayStdin(src, f)
        BY <3>1, <3>5, <4>1, CopyLenType
      <4>3. f = Stdin
        BY <4>2 DEF HasStrayStdin
      <4>4. [my |-> Virtual, parents |-> {Stdin}] \in FdMaps
        BY <4>3 DEF FdMaps
      <4>5. k[<<dst, f, i>>] = [my |-> Virtual, parents |-> {Stdin}]
        BY <3>3, <3>5 DEF CopyOf
      <4> HIDE DEF Stdin
      <4> QED
        BY <4>3, <4>4, <4>5, NilAssumption
    <3> QED
      BY <3>4, <3>5
  <2> HIDE DEF pr, h, k, u, n
  <2>6. n.ht = h /\ n.map = k /\ n.st = s.st
    BY <2>1 DEF States
  <2>7. ASSUME NEW f \in Fds
        PROVE  ChainLinked(h[dst][f], k, dst, f)
    <3> DEFINE q == h[dst][f]
    <3>1. CopyLen(s, src, f) \in Nat
      BY CopyLenType
    <3>2. q = [i \in 1..CopyLen(s, src, f) |-> <<dst, f, i>>]
      BY <2>2
    <3> HIDE DEF q
    <3>3. Len(q) = CopyLen(s, src, f) /\ \A i \in 1..Len(q) : q[i] = <<dst, f, i>>
      BY <3>1, <3>2
    <3>4. \A i \in 1..Len(q) : k[q[i]] # Nil /\ f \in k[q[i]].parents
      BY <2>5, <3>3, ZenonT(60)
    <3>5. \A i \in 1..Len(q) : q[i][1] = dst /\ q[i][3] = i
      BY <3>3
    <3>6. ChainLinked(q, k, dst, f)
      BY <3>4, <3>5 DEF ChainLinked
    <3> QED
      BY <3>6 DEF q
  <2>8. ASSUME NEW t \in Pids, NEW f \in Fds, t # dst
        PROVE  ChainLinked(h[t][f], k, t, f)
    <3> DEFINE q == s.ht[t][f]
    <3>1. q \in Seq(MapIds) /\ ChainLinked(q, s.map, t, f)
      BY LinksByChain DEF States, Safe
    <3> HIDE DEF q
    <3>2. \A i \in 1..Len(q) : k[q[i]] # Nil /\ f \in k[q[i]].parents
      BY <2>4, <2>8, <3>1 DEF ChainLinked
    <3>3. ChainLinked(q, k, t, f)
      BY <3>1, <3>2, ChainKept
    <3> QED
      BY <2>3, <2>8, <3>3 DEF q
  <2>9. ItemsLinked(n)
    BY <2>6, <2>7, <2>8, LinksByChain
  <2> QED
    BY <2>6, <2>9 DEF Safe, n
<1> QED
  BY <1>2, <1>3

LEMMA CloneSafe ==
  ASSUME NEW s \in States, NEW parent \in Pids, NEW child \in Pids \cup {Failed},
         NEW share \in BOOLEAN, Safe(s)
  PROVE  Safe(Clone(s, parent, child, share))
<1>1. CASE child = Failed
  BY <1>1, StopSafe DEF Clone, Status
<1>2. CASE child # Failed /\ HasTable(s, child)
  BY <1>2 DEF Clone
<1>3. CASE child # Failed /\ ~HasTable(s, child) /\ share
  <2>1. CASE s.proc[child] = Null
    BY <1>3, <2>1 DEF Clone
  <2>2. CASE s.proc[child] # Null
    <3> DEFINE q == [s.proc EXCEPT ![child] = IF HasTable(s, parent) THEN s.proc[parent] ELSE Null]
               n == [s EXCEPT !.proc = q]
    <3>1. Clone(s, parent, child, share) = n
      BY <1>3, <2>2 DEF Clone
    <3> HIDE DEF q
    <3>2. n.ht = s.ht /\ n.map = s.map /\ n.st = s.st
      BY DEF States
    <3> QED
      BY <3>1, <3>2, SameLinks DEF Safe
  <2> QED
    BY <2>1, <2>2
<1>4. CASE child # Failed /\ ~HasTable(s, child) /\ ~share /\ ~HasTable(s, parent)
  BY <1>4, StopSafe DEF Clone, Status
<1>5. CASE child # Failed /\ ~HasTable(s, child) /\ ~share /\ HasTable(s, parent)
  <2>1. s.proc[parent] \in Pids
    BY <1>5 DEF HasTable, GetProcessHt
  <2>2. CASE s.proc[child] = Null
    <3> DEFINE u == [r \in RealFds |->
                       s.usage[r] + Cardinality(UsersIn(s, s.proc[parent], r))]
               n == [s EXCEPT !.usage = u]
    <3>1. Clone(s, parent, child, share) = n
      BY <1>5, <2>2 DEF Clone
    <3> HIDE DEF u
    <3>2. n.ht = s.ht /\ n.map = s.map /\ n.st = s.st
      BY DEF States
    <3> QED
      BY <3>1, <3>2, SameLinks DEF Safe
  <2>3. CASE s.proc[child] # Null
    BY <1>5, <2>1, <2>3, DuplicateSafe DEF Clone
  <2> QED
    BY <2>2, <2>3
<1> QED
  BY <1>1, <1>2, <1>3, <1>4, <1>5

LEMMA MissingHtSafe ==
  ASSUME NEW s \in States, NEW pid \in Pids, Safe(s)
  PROVE  Safe(MissingHt(s, pid))
BY CloneSafe, RootAssumption DEF MissingHt

LEMMA OpenSafe ==
  ASSUME NEW s0 \in States, NEW pid \in Pids, NEW fd \in Fds,
         NEW file \in Files \cup {Unknown, Ignored}, NEW fails, Safe(s0)
  PROVE  Safe(Open(s0, pid, fd, file, fails))
<1> DEFINE s == MissingHt(s0, pid)
           t == GetProcessHt(s, pid)
           r == LowestFree(s)
           s1 == [s EXCEPT !.os = [s.os EXCEPT ![r] = file]]
<1>1. s \in States /\ Safe(s)
  BY MissingHtType, MissingHtSafe
<1>a. Open(s0, pid, fd, file, fails) =
        IF ~HasTable(s, pid) \/ Chain(s, pid, fd) # <<>> THEN s
        ELSE IF file = Ignored THEN AddItem(s, t, fd, Virtual, Virtual)
        ELSE IF fd \in fails \/ FreeFds(s) = {} THEN s
        ELSE AddItem(s1, t, fd, r, r)
  BY DEF Open
<1> HIDE DEF s
<1>2. HasTable(s, pid) => t \in Pids
  BY DEF HasTable
<1> HIDE DEF t
<1>3. HasTable(s, pid) => Safe(AddItem(s, t, fd, Virtual, Virtual))
  BY <1>1, <1>2, AddItemSafe
<1>4. ASSUME HasTable(s, pid), file # Ignored, FreeFds(s) # {}
      PROVE  Safe(AddItem(s1, t, fd, r, r))
  <2>1. r \in RealFds
    BY <1>1, <1>4, LowestFreeIsFree
  <2>2. s1 \in States /\ s1.ht = s.ht /\ s1.map = s.map /\ s1.st = s.st
    BY <1>1, <1>4, <2>1 DEF States
  <2> HIDE DEF s1
  <2>3. Safe(s1)
    BY <1>1, <2>2, SameLinks DEF Safe
  <2> QED
    BY <1>2, <1>4, <2>1, <2>2, <2>3, AddItemSafe
<1> QED
  BY <1>1, <1>3, <1>4, <1>a

LEMMA GetFdMapSafe ==
  ASSUME NEW s0 \in States, NEW pid \in Pids, NEW fd \in Fds \cup {Failed}, NEW fails, Safe(s0)
  PROVE  Safe(GetFdMap(s0, pid, fd, fails))
<1> DEFINE s == MissingHt(s0, pid)
<1>1. s \in States /\ Safe(s)
  BY MissingHtType, MissingHtSafe
<1> HIDE DEF s
<1>2. fd # Failed => Safe(Open(s, pid, fd, Unknown, fails))
  BY <1>1, OpenSafe
<1>3. Safe(Stop(s, "assert_key"))
  BY <1>1, StopSafe DEF Status
<1> QED
  BY <1>1, <1>2, <1>3 DEF GetFdMap, s

LEMMA CloseSafe ==
  ASSUME NEW s0 \in States, NEW pid \in Pids, NEW fd \in Fds \cup {Failed}, NEW fails,
         NEW closeFails \in BOOLEAN, s0.st = "run", Safe(s0)
  PROVE  Safe(Close(s0, pid, fd, fails, closeFails))
<1> DEFINE s  == GetFdMap(s0, pid, fd, fails)
           t  == GetProcessHt(s, pid)
           m  == s.map[IdOf(s, pid, fd)]
           u  == DecreaseFdUsage(s.usage, m.my)
           s1 == [s EXCEPT !.usage = u]
           o  == [s.os EXCEPT ![m.my] = Closed]
           s2 == [s1 EXCEPT !.os = o]
<1>1. s \in States /\ Safe(s)
  BY GetFdMapType, GetFdMapSafe
<1>2. fd = Failed => ~Found(s, pid, fd)
  BY NotFoundFailed
<1>a. Close(s0, pid, fd, fails, closeFails) =
        IF ~Found(s, pid, fd) THEN s
        ELSE IF m = Nil THEN Stop(s, "uaf")
        ELSE IF ~SupportedType(m) THEN RemoveFdItem(s, t, fd)
        ELSE IF s.usage[m.my] = 0 THEN Stop(s, "assert_usage")
        ELSE IF ~LastUse(s.usage, m.my) THEN RemoveFdItem(s1, t, fd)
        ELSE IF closeFails \/ s.os[m.my] = Closed THEN s2
        ELSE RemoveFdItem(s2, t, fd)
  BY DEF Close
<1> HIDE DEF s
<1>3. CASE ~Found(s, pid, fd)
  BY <1>1, <1>3, <1>a
<1>4. CASE Found(s, pid, fd)
  <2>1. fd \in Fds
    BY <1>2, <1>4
  <2>2. /\ t \in Pids /\ s.ht[t][fd] # <<>> /\ IdOf(s, pid, fd) = Head(s.ht[t][fd])
    BY <1>1, <1>4, <2>1, FoundItem
  <2>3. m \in FdMaps /\ m # Nil
    <3>1. ItemsLinked(s)
      BY <1>1 DEF Safe
    <3> DEFINE h == Head(s.ht[t][fd])
    <3>2. s.map[h] \in FdMaps /\ s.map[h] # Nil
      <4> HIDE DEF t
      <4> QED
        BY <1>1, <2>1, <2>2, <3>1, HeadLinked
    <3> QED
      BY <2>2, <3>2
  <2>4. Safe(RemoveFdItem(s, t, fd))
    BY <1>1, <2>1, <2>2, RemoveFdItemSafe
  <2>5. Safe(Stop(s, "assert_usage"))
    BY <1>1, StopSafe DEF Status
  <2>6. ASSUME SupportedType(m), s.usage[m.my] # 0
        PROVE  Safe(s2) /\ Safe(RemoveFdItem(s1, t, fd)) /\ Safe(RemoveFdItem(s2, t, fd))
    <3>1. m.my \in RealFds
      BY <2>3, <2>6 DEF FdMaps, SupportedType
    <3>2. u \in [RealFds -> Nat]
      BY <1>1, <2>6, <3>1 DEF DecreaseFdUsage, States
    <3>3. o \in [RealFds -> Files \cup {Unknown, Closed}]
      BY <1>1, <3>1 DEF States
    <3> HIDE DEF u, o, t
    <3>4. /\ s1 \in States /\ s1.ht = s.ht /\ s1.map = s.map /\ s1.st = s.st
          /\ s2 \in States /\ s2.ht = s.ht /\ s2.map = s.map /\ s2.st = s.st
      BY <1>1, <3>2, <3>3 DEF States
    <3> HIDE DEF s1, s2
    <3>5. Safe(s1) /\ Safe(s2)
      BY <1>1, <3>4, SameLinks DEF Safe
    <3> QED
      BY <2>1, <2>2, <3>4, <3>5, RemoveFdItemSafe
  <2> HIDE DEF s1, s2, t, m
  <2> QED
    BY <1>4, <2>3, <2>4, <2>5, <2>6, <1>a
<1> QED
  BY <1>3, <1>4

(* An array with room for all descriptors has room for one more that it    *)
(* does not have.                                                          *)
LEMMA ParentsHaveRoom ==
  ASSUME RoomForParents, NEW parents \in SUBSET Fds, NEW new \in Fds, new \notin parents
  PROVE  Cardinality(parents) < MaxParents
<1>1. IsFiniteSet(Fds \ {new}) /\ Cardinality(Fds \ {new}) = Cardinality(Fds) - 1
  BY FdAssumption, FS_RemoveElement
<1>2. parents \in SUBSET (Fds \ {new})
  OBVIOUS
<1>3. IsFiniteSet(parents) /\ Cardinality(parents) <= Cardinality(Fds \ {new})
  BY <1>1, <1>2, FS_Subset
<1>4. Cardinality(parents) \in Nat /\ Cardinality(Fds) \in Nat
  BY <1>3, FdAssumption, FS_CardinalityType
<1> QED
  BY <1>1, <1>3, <1>4, BoundAssumption DEF RoomForParents

(* The duplicate that replicate_dup files under new after the close: one   *)
(* more item of the same table that points to the fd_map of fd.            *)
LinkedItem(s, t, fd, new) ==
  LET id == Head(s.ht[t][fd])
      m  == s.map[id]
  IN  IF InsertParentAsserts(m.parents, new) THEN Stop(s, "assert_parent")
      ELSE IF Len(s.ht[t][new]) >= MaxGens THEN Stop(s, "bound")
      ELSE [s EXCEPT !.map[id].parents = InsertParentFd(@, new),
                     !.ht[t][new] = Append(@, id),
                     !.usage = IncreaseFdUsage(@, m.my)]

LEMMA LinkedItemSafe ==
  ASSUME RoomForParents, NEW s \in States, NEW t \in Pids, NEW fd \in Fds, NEW new \in Fds,
         s.ht[t][fd] # <<>>, Safe(s)
  PROVE  LinkedItem(s, t, fd, new) \in States /\ Safe(LinkedItem(s, t, fd, new))
<1> DEFINE id == Head(s.ht[t][fd])
           m  == s.map[id]
           v  == [m EXCEPT !.parents = InsertParentFd(m.parents, new)]
           k  == [s.map EXCEPT ![id] = v]
           h  == [s.ht EXCEPT ![t] = [s.ht[t] EXCEPT ![new] = Append(s.ht[t][new], id)]]
           u  == IncreaseFdUsage(s.usage, m.my)
           n  == [s EXCEPT !.map = k, !.ht = h, !.usage = u]
<1>1. id \in MapIds /\ id[1] = t /\ m # Nil /\ m \in FdMaps
  BY HeadLinked DEF Safe
<1>a. LinkedItem(s, t, fd, new) =
        IF InsertParentAsserts(m.parents, new) THEN Stop(s, "assert_parent")
        ELSE IF Len(s.ht[t][new]) >= MaxGens THEN Stop(s, "bound")
        ELSE n
  BY DEF LinkedItem
<1> HIDE DEF m, id
<1>2. CASE InsertParentAsserts(m.parents, new) \/ Len(s.ht[t][new]) >= MaxGens
  <2>1. /\ Safe(Stop(s, "assert_parent")) /\ Safe(Stop(s, "bound"))
        /\ Stop(s, "assert_parent") \in States /\ Stop(s, "bound") \in States
    BY StopSafe, StopType DEF Status
  <2> QED
    BY <1>2, <1>a, <2>1
<1>3. CASE ~(InsertParentAsserts(m.parents, new) \/ Len(s.ht[t][new]) >= MaxGens)
  <2>1. m.parents \in SUBSET Fds /\ new \notin m.parents
    BY <1>1, <1>3 DEF FdMaps, InsertParentAsserts
  <2>2. InsertParentFd(m.parents, new) = m.parents \cup {new}
    BY <2>1, ParentsHaveRoom DEF InsertParentFd
  <2>3. v \in FdMaps /\ v # Nil /\ v.parents = m.parents \cup {new}
    BY <1>1, <2>1, <2>2, NilAssumption DEF FdMaps
  <2> HIDE DEF v
  <2>4. k[id] = v /\ \A x \in MapIds : x # id => k[x] = s.map[x]
    BY <1>1 DEF States
  <2>5. h[t][new] = Append(s.ht[t][new], id) /\ s.ht[t][new] \in Seq(MapIds)
    BY DEF States
  <2>6. \A w \in Pids, f \in Fds : (w # t \/ f # new) => h[w][f] = s.ht[w][f]
    BY DEF States
  <2>7. /\ k \in [MapIds -> FdMaps \cup {Nil}]
        /\ u \in [RealFds -> Nat]
    BY <1>1, <2>3, IncreaseType DEF States
  <2>8. h \in [Pids -> [Fds -> Seq(MapIds)]]
    BY <1>1, <2>5 DEF States
  <2> HIDE DEF k, h, u
  <2>9. n.ht = h /\ n.map = k /\ n.st = s.st /\ n \in States
    BY <2>7, <2>8 DEF States
  <2> HIDE DEF n
  <2>10. ASSUME NEW w \in Pids, NEW f \in Fds
         PROVE  /\ ChainLinked(s.ht[w][f], k, w, f)
                /\ f = new => \A i \in 1..Len(s.ht[w][f]) : s.ht[w][f][i] # id
    <3> DEFINE q == s.ht[w][f]
    <3>1. q \in Seq(MapIds) /\ ChainLinked(q, s.map, w, f)
      BY LinksByChain DEF States, Safe
    <3> HIDE DEF q
    <3>2. \A i \in 1..Len(q) : /\ q[i] \in MapIds
                               /\ s.map[q[i]] # Nil
                               /\ f \in s.map[q[i]].parents
      BY <3>1 DEF ChainLinked
    <3>3. \A i \in 1..Len(q) : k[q[i]] # Nil /\ f \in k[q[i]].parents
      BY <2>3, <2>4, <3>2 DEF m
    <3>4. f = new => \A i \in 1..Len(q) : q[i] # id
      BY <2>1, <3>2 DEF m
    <3>5. ChainLinked(q, k, w, f)
      BY <3>1, <3>3, ChainKept
    <3> QED
      BY <3>4, <3>5 DEF q
  <2>11. ChainLinked(h[t][new], k, t, new)
    <3>1. new \in k[id].parents /\ k[id] # Nil
      BY <2>3, <2>4
    <3> QED
      BY <1>1, <2>5, <2>10, <3>1, ChainAppend
  <2>12. ItemsLinked(n)
    BY <2>6, <2>9, <2>10, <2>11, LinksByChain
  <2>13. Safe(n)
    BY <2>9, <2>12 DEF Safe
  <2> QED
    BY <1>3, <1>a, <2>9, <2>13
<1> QED
  BY <1>2, <1>3

(* Closing new first leaves the item of fd in place, so its fd_map is      *)
(* still live when the duplicate is filed.                                 *)
LEMMA DupSafe ==
  ASSUME RoomForParents,
         NEW s0 \in States, NEW pid \in Pids, NEW fd \in Fds \cup {Failed}, NEW new \in Fds,
         NEW fails, NEW closeFails \in BOOLEAN, fd # new, s0.st = "run", Safe(s0)
  PROVE  Safe(Dup(s0, pid, fd, new, fails, closeFails))
<1> DEFINE s  == GetFdMap(s0, pid, fd, fails)
           id == IdOf(s, pid, fd)
           s1 == Close(s, pid, new, fails, closeFails)
           t  == GetProcessHt(s1, pid)
           m  == s1.map[id]
<1>1. s \in States /\ Safe(s)
  BY GetFdMapType, GetFdMapSafe
<1>2. fd = Failed => ~Found(s, pid, fd)
  BY NotFoundFailed
<1>a. Dup(s0, pid, fd, new, fails, closeFails) =
        IF ~Found(s, pid, fd) THEN s
        ELSE IF s1.st # "run" THEN s1
        ELSE IF m = Nil THEN Stop(s1, "uaf")
        ELSE IF InsertParentAsserts(m.parents, new) THEN Stop(s1, "assert_parent")
        ELSE IF Len(s1.ht[t][new]) >= MaxGens THEN Stop(s1, "bound")
        ELSE [s1 EXCEPT !.map[id].parents = InsertParentFd(@, new),
                        !.ht[t][new] = Append(@, id),
                        !.usage = IncreaseFdUsage(@, m.my)]
  BY DEF Dup
<1> HIDE DEF s
<1>3. CASE ~Found(s, pid, fd)
  BY <1>1, <1>3, <1>a
<1>4. CASE Found(s, pid, fd)
  <2>1. fd \in Fds /\ s.st = "run" /\ HasTable(s, pid)
    BY <1>2, <1>4 DEF Found
  <2>2. s1 \in States /\ Safe(s1)
    BY <1>1, <2>1, CloseType, CloseSafe
  <2>3. Frame(s, s1, GetProcessHt(s, pid), new)
    BY <1>1, <2>1, CloseFrame
  <2>4. /\ GetProcessHt(s, pid) \in Pids
        /\ s.ht[GetProcessHt(s, pid)][fd] # <<>>
        /\ id = Head(s.ht[GetProcessHt(s, pid)][fd])
    BY <1>1, <1>4, <2>1, FoundItem
  <2> HIDE DEF s1, id
  <2>5. t = GetProcessHt(s, pid)
    BY <2>3 DEF Frame, GetProcessHt
  <2>6. t \in Pids /\ s1.ht[t][fd] # <<>> /\ id = Head(s1.ht[t][fd])
    BY <2>1, <2>3, <2>4, <2>5 DEF Frame
  <2> HIDE DEF t
  <2>7. m # Nil
    BY <2>1, <2>2, <2>6, HeadLinked DEF Safe
  <2>8. s1.st = "run" => Dup(s0, pid, fd, new, fails, closeFails) = LinkedItem(s1, t, fd, new)
    BY <1>4, <1>a, <2>6, <2>7 DEF LinkedItem
  <2>9. CASE s1.st # "run"
    <3>1. Dup(s0, pid, fd, new, fails, closeFails) = s1
      BY <1>4, <1>a, <2>9
    <3> QED
      BY <2>2, <3>1
  <2>10. CASE s1.st = "run"
    <3>1. Safe(LinkedItem(s1, t, fd, new))
      BY <2>1, <2>2, <2>6, LinkedItemSafe
    <3> QED
      BY <2>8, <2>10, <3>1
  <2> QED
    BY <2>9, <2>10
<1> QED
  BY <1>3, <1>4

LEMMA SocketSafe ==
  ASSUME NEW s0 \in States, NEW pid \in Pids, NEW fd \in Fds, Safe(s0)
  PROVE  Safe(Socket(s0, pid, fd))
<1> DEFINE s == MissingHt(s0, pid)
<1>1. s \in States /\ Safe(s)
  BY MissingHtType, MissingHtSafe
<1> HIDE DEF s
<1>2. HasTable(s, pid) => Safe(AddItem(s, GetProcessHt(s, pid), fd, Virtual, Virtual))
  BY <1>1, AddItemSafe DEF HasTable
<1> QED
  BY <1>1, <1>2 DEF Socket, s

LEMMA PipeSafe ==
  ASSUME NEW s0 \in States, NEW pid \in Pids, NEW fd1 \in Fds, NEW fd2 \in Fds, Safe(s0)
  PROVE  Safe(Pipe(s0, pid, fd1, fd2))
<1> DEFINE s  == MissingHt(s0, pid)
           t  == GetProcessHt(s, pid)
           s1 == AddItem(s, t, fd1, Virtual, fd1)
<1>1. s \in States /\ Safe(s)
  BY MissingHtType, MissingHtSafe
<1>2. CASE HasTable(s, pid)
  <2>1. t \in Pids
    BY <1>2 DEF HasTable
  <2>2. s1 \in States /\ Safe(s1)
    BY <1>1, <2>1, AddItemType, AddItemSafe
  <2>3. Safe(AddItem(s1, t, fd2, Virtual, fd2))
    BY <2>1, <2>2, AddItemSafe
  <2> QED
    BY <1>1, <2>2, <2>3 DEF Pipe
<1>3. CASE ~HasTable(s, pid)
  BY <1>1, <1>3 DEF Pipe
<1> QED
  BY <1>2, <1>3

LEMMA UseSafe ==
  ASSUME NEW s0 \in States, NEW pid \in Pids, NEW fd \in Fds \cup {Failed}, NEW fails,
         s0.st = "run", Safe(s0)
  PROVE  Safe(Use(s0, pid, fd, fails))
<1> DEFINE s == GetFdMap(s0, pid, fd, fails)
<1>1. s \in States /\ Safe(s)
  BY GetFdMapType, GetFdMapSafe
<1>2. fd = Failed => ~Found(s, pid, fd)
  BY NotFoundFailed
<1> HIDE DEF s
<1>3. Found(s, pid, fd) => s.map[IdOf(s, pid, fd)] # Nil
  BY <1>1, <1>2, FoundItem, HeadLinked DEF Safe
<1> QED
  BY <1>1, <1>3 DEF Use, s

LEMMA SendfileSafe ==
  ASSUME NEW s0 \in States, NEW pid \in Pids, NEW out \in Fds \cup {Failed},
         NEW in \in Fds \cup {Failed}, NEW fails, s0.st = "run", Safe(s0)
  PROVE  Safe(Sendfile(s0, pid, out, in, fails))
<1> DEFINE s  == GetFdMap(s0, pid, out, fails)
           s1 == GetFdMap(s, pid, in, fails)
           gone(fd) == s1.map[IdOf(s1, pid, fd)] = Nil
<1>1. s \in States /\ Safe(s)
  BY GetFdMapType, GetFdMapSafe
<1>2. out = Failed => ~Found(s, pid, out)
  BY NotFoundFailed
<1>a. Sendfile(s0, pid, out, in, fails) =
        IF ~Found(s, pid, out) THEN s
        ELSE IF Found(s1, pid, in) /\ (gone(out) \/ gone(in)) THEN Stop(s1, "uaf")
        ELSE s1
  BY DEF Sendfile
<1> HIDE DEF s
<1>3. CASE ~Found(s, pid, out)
  BY <1>1, <1>3, <1>a
<1>4. CASE Found(s, pid, out)
  <2>1. s1 \in States /\ Safe(s1)
    BY <1>1, GetFdMapType, GetFdMapSafe
  <2>2. out \in Fds /\ s.st = "run" /\ HasTable(s, pid)
    BY <1>2, <1>4 DEF Found
  <2>3. in = Failed => ~Found(s1, pid, in)
    BY <1>1, <2>2, NotFoundFailed
  <2>4. Found(s1, pid, in) => in \in Fds
    BY <2>3
  <2>5. Found(s1, pid, in) => Found(s1, pid, out)
    <3> SUFFICES ASSUME Found(s1, pid, in), in # out PROVE Found(s1, pid, out)
      OBVIOUS
    <3>1. Frame(s, s1, GetProcessHt(s, pid), in)
      BY <1>1, <2>2, <2>4, GetFdMapFrame
    <3> HIDE DEF s1
    <3>2. GetProcessHt(s1, pid) = GetProcessHt(s, pid)
      BY <3>1 DEF Frame, GetProcessHt
    <3> QED
      BY <1>4, <2>2, <3>1, <3>2 DEF Frame, Found, HasTable, Chain
  <2> HIDE DEF s1
  <2>6. Found(s1, pid, in) => ~gone(in)
    BY <2>1, <2>4, FoundItem, HeadLinked DEF Safe
  <2>7. Found(s1, pid, out) => ~gone(out)
    BY <2>1, <2>2, FoundItem, HeadLinked DEF Safe
  <2> QED
    BY <1>4, <1>a, <2>1, <2>5, <2>6, <2>7
<1> QED
  BY <1>3, <1>4

LEMMA HandledSafe ==
  ASSUME RoomForParents, ~DupSelf, NEW s \in States, s.st = "run", Safe(s), NEW r, Handled(s, r)
  PROVE  Safe(r)
<1>1. \A pid \in Pids, fd \in FdArgs, fails \in SUBSET Fds, cf \in CloseResults :
        Safe(Close(s, pid, fd, fails, cf))
  BY ArgumentTypes, CloseSafe
<1>2. \A pid \in Pids, child \in Children, share \in BOOLEAN : Safe(Clone(s, pid, child, share))
  BY ArgumentTypes, CloneSafe
<1>3. \A pid \in Pids, fd \in FdArgs, new \in Fds, fails \in SUBSET Fds, cf \in CloseResults :
        fd # new => Safe(Dup(s, pid, fd, new, fails, cf))
  BY ArgumentTypes, DupSafe
<1>4. \A pid \in Pids, fd \in FdArgs, fails \in SUBSET Fds : Safe(Use(s, pid, fd, fails))
  BY ArgumentTypes, UseSafe
<1>5. \A pid \in Pids, out \in FdArgs, in \in FdArgs, fails \in SUBSET Fds :
        Safe(Sendfile(s, pid, out, in, fails))
  BY ArgumentTypes, SendfileSafe
<1> QED
  BY <1>1, <1>2, <1>3, <1>4, <1>5, OpenSafe, PipeSafe, SocketSafe DEF Handled

LEMMA InitSafe ==
  ASSUME Init
  PROVE  Safe(Cur)
<1>1. \A f \in StdFds : f \in Fds /\ <<Root, f, 1>> \in MapIds
  BY RootAssumption, BoundAssumption DEF StdFds, MapIds, Gens
<1>2. \A f \in StdFds : [my |-> Virtual, parents |-> {f}] \in FdMaps
  BY <1>1 DEF FdMaps
<1>3. ASSUME NEW t \in Pids, NEW f \in Fds
      PROVE  ChainLinked(ht[t][f], map, t, f)
  <2>1. CASE t = Root /\ f \in StdFds
    <3>1. ht[t][f] = <<<<Root, f, 1>>>>
      BY <2>1 DEF Init
    <3>2. map[<<Root, f, 1>>] = [my |-> Virtual, parents |-> {f}]
      BY <1>1, <2>1 DEF Init
    <3>3. map[<<Root, f, 1>>] # Nil /\ f \in map[<<Root, f, 1>>].parents
      BY <1>2, <2>1, <3>2, NilAssumption
    <3> QED
      BY <2>1, <3>1, <3>3 DEF ChainLinked
  <2>2. CASE ~(t = Root /\ f \in StdFds)
    <3>1. ht[t][f] = <<>>
      BY <2>2 DEF Init
    <3> QED
      BY <3>1 DEF ChainLinked
  <2> QED
    BY <2>1, <2>2
<1> QED
  BY <1>3, LinksByChain DEF Init, Safe, Cur

LEMMA SafeStep ==
  ASSUME RoomForParents, ~DupSelf, TypeOK, Safe(Cur), [Next]_vars
  PROVE  Safe(Cur)'
<1>1. CASE Next
  <2>1. Cur \in States
    BY CurType
  <2>2. PICK r : st = "run" /\ Handled(Cur, r) /\ Become(r)
    BY <1>1, <2>1, StepHandles
  <2>3. Cur.st = "run"
    BY <2>2 DEF Cur
  <2>4. r \in States /\ Safe(r)
    BY <2>1, <2>2, <2>3, HandledType, HandledSafe
  <2>5. Cur' = r
    BY <2>2, <2>4, BecomeCur
  <2> QED
    BY <2>4, <2>5
<1>2. CASE UNCHANGED vars
  BY <1>2 DEF vars, Cur
<1> QED
  BY <1>1, <1>2

LEMMA SafeMeans == Safe(Cur) => ParentFdsCoverItems /\ NoUseAfterFree
BY DEF Safe, ParentFdsCoverItems, NoUseAfterFree, ItemsLinked, Cur

(* The relation between tables and parent_fds that replicate_close relies  *)
(* on when it frees an fd_map: kept by every handler for every trace that  *)
(* dups no descriptor onto itself and fits MAX_PARENT_IDS.                 *)
THEOREM LinksKept == (RoomForParents /\ ~DupSelf) => (Spec => []ParentFdsCoverItems)
<1> SUFFICES ASSUME RoomForParents, ~DupSelf PROVE Spec => []ParentFdsCoverItems
  OBVIOUS
<1>1. Init => Safe(Cur)
  BY InitSafe
<1>2. TypeOK /\ Safe(Cur) /\ [Next]_vars => Safe(Cur)'
  BY SafeStep
<1>3. Safe(Cur) => ParentFdsCoverItems
  BY SafeMeans
<1> QED
  BY <1>1, <1>2, <1>3, TypeCorrect, PTL DEF Spec

(* Pointer safety: under the same conditions no item ever points to a      *)
(* freed fd_map and no handler touches one, however processes, threads and *)
(* duplicated descriptors are closed.                                      *)
THEOREM PointerSafety == (RoomForParents /\ ~DupSelf) => (Spec => []NoUseAfterFree)
<1> SUFFICES ASSUME RoomForParents, ~DupSelf PROVE Spec => []NoUseAfterFree
  OBVIOUS
<1>1. Init => Safe(Cur)
  BY InitSafe
<1>2. TypeOK /\ Safe(Cur) /\ [Next]_vars => Safe(Cur)'
  BY SafeStep
<1>3. Safe(Cur) => NoUseAfterFree
  BY SafeMeans
<1> QED
  BY <1>1, <1>2, <1>3, TypeCorrect, PTL DEF Spec

-----------------------------------------------------------------------------
(***************************************************************************)
(* The real descriptors that Replicate uses for recorded ones: open as     *)
(* long as they are needed, counted, and closed by nobody else, for every  *)
(* trace and any number of processes, descriptors and files.               *)
(***************************************************************************)

(* The handlers are put together from a few changes of the state: one      *)
(* clone of a thread, a new item, a closed one and a duplicate.            *)
TableOf(s, pid) == GetProcessHt(s, pid)

OpenedItem(s, t, fd, file) ==
  AddItem([s EXCEPT !.os[LowestFree(s)] = file], t, fd, LowestFree(s), LowestFree(s))

ClosedItem(s, t, fd, closeFails) ==
  LET m  == s.map[Head(s.ht[t][fd])]
      s1 == [s EXCEPT !.usage = DecreaseFdUsage(@, m.my)]
      s2 == [s1 EXCEPT !.os[m.my] = Closed]
  IN  IF ~SupportedType(m) THEN RemoveFdItem(s, t, fd)
      ELSE IF s.usage[m.my] = 0 THEN Stop(s, "assert_usage")
      ELSE IF ~LastUse(s.usage, m.my) THEN RemoveFdItem(s1, t, fd)
      ELSE IF closeFails \/ s.os[m.my] = Closed THEN s2
      ELSE RemoveFdItem(s2, t, fd)

Vacant(s, pid, fd) == s.st = "run" /\ HasTable(s, pid) /\ Chain(s, pid, fd) = <<>>

(* A set of states that the clone, the new and the closed items of pid do  *)
(* not leave, and one that its duplicates do not leave either.             *)
ItemsKept(pid, G) ==
  /\ \A s \in G : s \in States /\ Safe(s)
  /\ MinusOne => \A s \in G : Stop(s, "assert_key") \in G
  /\ \A s \in G : s.st = "run" /\ ~HasTable(s, pid) => Clone(s, Root, pid, TRUE) \in G
  /\ \A s \in G, fd \in Fds, c \in {Virtual} \cup Fds :
       Vacant(s, pid, fd) /\ (c = Virtual \/ "pipe" \in Ops)
         => AddItem(s, TableOf(s, pid), fd, Virtual, c) \in G
  /\ \A s \in G, fd \in Fds, file \in Files \cup {Unknown} :
       Vacant(s, pid, fd) /\ FreeFds(s) # {} => OpenedItem(s, TableOf(s, pid), fd, file) \in G
  /\ \A s \in G, fd \in Fds, cf \in CloseResults :
       Found(s, pid, fd) => ClosedItem(s, TableOf(s, pid), fd, cf) \in G
KeptBy(pid, G) ==
  /\ ItemsKept(pid, G)
  /\ \A s \in G, fd, new \in Fds, fails \in SUBSET Fds, cf \in CloseResults, r \in G :
       /\ Found(s, pid, fd) /\ fd # new
       /\ r = Close(s, pid, new, fails, cf) /\ Found(r, pid, fd)
       => LinkedItem(r, TableOf(r, pid), fd, new) \in G

LEMMA MissingKept ==
  ASSUME NEW pid \in Pids, NEW G, ItemsKept(pid, G), NEW s \in G, s.st = "run"
  PROVE  MissingHt(s, pid) \in G /\ MissingHt(s, pid).st = "run"
<1>1. CASE ~FixMissing \/ HasTable(s, pid)
  BY <1>1 DEF MissingHt
<1>2. CASE ~(~FixMissing \/ HasTable(s, pid))
  <2>1. MissingHt(s, pid) = Clone(s, Root, pid, TRUE) /\ Clone(s, Root, pid, TRUE) \in G
    BY <1>2 DEF MissingHt, ItemsKept
  <2>2. s \in States /\ pid # Failed
    BY FailedAssumption DEF ItemsKept
  <2>3. Clone(s, Root, pid, TRUE).st = s.st
    BY <2>2 DEF Clone, States
  <2> QED
    BY <2>1, <2>3
<1> QED
  BY <1>1, <1>2

LEMMA OpenKept ==
  ASSUME NEW pid \in Pids, NEW G, ItemsKept(pid, G), NEW s0 \in G, s0.st = "run",
         NEW fd \in Fds, NEW file \in Files \cup {Unknown, Ignored}, NEW fails
  PROVE  Open(s0, pid, fd, file, fails) \in G
<1> DEFINE s == MissingHt(s0, pid)
           t == TableOf(s, pid)
<1>1. s \in G /\ s.st = "run"
  BY MissingKept
<1>2. Open(s0, pid, fd, file, fails) =
        IF ~HasTable(s, pid) \/ Chain(s, pid, fd) # <<>> THEN s
        ELSE IF file = Ignored THEN AddItem(s, t, fd, Virtual, Virtual)
        ELSE IF fd \in fails \/ FreeFds(s) = {} THEN s
        ELSE OpenedItem(s, t, fd, file)
  BY DEF Open, OpenedItem, TableOf
<1> HIDE DEF s
<1>3. Vacant(s, pid, fd) => AddItem(s, t, fd, Virtual, Virtual) \in G
  BY <1>1 DEF ItemsKept
<1>4. Vacant(s, pid, fd) /\ FreeFds(s) # {} /\ file # Ignored => OpenedItem(s, t, fd, file) \in G
  BY <1>1 DEF ItemsKept
<1> QED
  BY <1>1, <1>2, <1>3, <1>4 DEF Vacant

LEMMA GetFdMapKept ==
  ASSUME NEW pid \in Pids, NEW G, ItemsKept(pid, G), NEW s0 \in G, s0.st = "run",
         NEW fd \in FdArgs, NEW fails
  PROVE  GetFdMap(s0, pid, fd, fails) \in G
<1> DEFINE s == MissingHt(s0, pid)
<1>1. s \in G /\ s.st = "run"
  BY MissingKept
<1>2. fd # Failed => fd \in Fds
  BY Arguments
<1>3. fd = Failed => MinusOne
  BY FailedAssumption DEF FdArgs
<1>4. GetFdMap(s0, pid, fd, fails) =
        IF ~HasTable(s, pid) THEN s
        ELSE IF fd = Failed THEN Stop(s, "assert_key")
        ELSE IF Chain(s, pid, fd) # <<>> \/ ~FixMissing THEN s
        ELSE Open(s, pid, fd, Unknown, fails)
  BY DEF GetFdMap
<1> HIDE DEF s
<1>5. fd = Failed => Stop(s, "assert_key") \in G
  BY <1>1, <1>3 DEF ItemsKept
<1>6. fd # Failed => Open(s, pid, fd, Unknown, fails) \in G
  BY <1>1, <1>2, OpenKept
<1> QED
  BY <1>1, <1>4, <1>5, <1>6

(* With no freed fd_map among the items, replicate_close is its lookup and *)
(* a closed item.                                                          *)
LEMMA CloseKept ==
  ASSUME NEW pid \in Pids, NEW G, ItemsKept(pid, G), NEW s0 \in G, s0.st = "run",
         NEW fd \in FdArgs, NEW fails, NEW cf \in CloseResults
  PROVE  /\ Close(s0, pid, fd, fails, cf) \in G
         /\ LET s == GetFdMap(s0, pid, fd, fails)
            IN  Close(s0, pid, fd, fails, cf) =
                  IF Found(s, pid, fd) THEN ClosedItem(s, TableOf(s, pid), fd, cf) ELSE s
<1> DEFINE s == GetFdMap(s0, pid, fd, fails)
           t == TableOf(s, pid)
           m == s.map[Head(s.ht[t][fd])]
<1>1. s \in G /\ s \in States /\ Safe(s)
  BY GetFdMapKept DEF ItemsKept
<1>2. fd = Failed => ~Found(s, pid, fd)
  BY NotFoundFailed DEF ItemsKept
<1>3. Found(s, pid, fd) => fd \in Fds
  BY <1>2, Arguments
<1>4. Close(s0, pid, fd, fails, cf) =
        IF ~Found(s, pid, fd) THEN s
        ELSE IF m = Nil THEN Stop(s, "uaf")
        ELSE ClosedItem(s, t, fd, cf)
  BY DEF Close, ClosedItem, TableOf, IdOf, Chain
<1> HIDE DEF s
<1>5. Found(s, pid, fd) => m # Nil
  BY <1>1, <1>3, FoundItem, HeadLinked DEF Safe, TableOf
<1>6. Found(s, pid, fd) => ClosedItem(s, t, fd, cf) \in G
  BY <1>1, <1>3 DEF ItemsKept
<1> QED
  BY <1>1, <1>4, <1>5, <1>6 DEF s

LEMMA SocketKept ==
  ASSUME NEW pid \in Pids, NEW G, KeptBy(pid, G), NEW s0 \in G, s0.st = "run", NEW fd \in Fds
  PROVE  Socket(s0, pid, fd) \in G
<1> DEFINE s == MissingHt(s0, pid)
<1>1. s \in G /\ s.st = "run"
  BY MissingKept DEF KeptBy
<1>2. Socket(s0, pid, fd) =
        IF ~HasTable(s, pid) \/ Chain(s, pid, fd) # <<>> THEN s
        ELSE AddItem(s, TableOf(s, pid), fd, Virtual, Virtual)
  BY DEF Socket, TableOf
<1> HIDE DEF s
<1> QED
  BY <1>1, <1>2 DEF KeptBy, ItemsKept, Vacant

LEMMA PipeKept ==
  ASSUME NEW pid \in Pids, NEW G, KeptBy(pid, G), NEW s0 \in G, s0.st = "run", "pipe" \in Ops,
         NEW fd1 \in Fds, NEW fd2 \in Fds, fd1 # fd2
  PROVE  Pipe(s0, pid, fd1, fd2) \in G
<1> DEFINE s  == MissingHt(s0, pid)
           t  == TableOf(s, pid)
           s1 == AddItem(s, t, fd1, Virtual, fd1)
<1>1. s \in G /\ s.st = "run"
  BY MissingKept DEF KeptBy
<1>2. Pipe(s0, pid, fd1, fd2) =
        IF ~HasTable(s, pid) \/ Chain(s, pid, fd1) # <<>> \/ Chain(s, pid, fd2) # <<>> THEN s
        ELSE IF s1.st # "run" THEN s1 ELSE AddItem(s1, t, fd2, Virtual, fd2)
  BY DEF Pipe, TableOf
<1> HIDE DEF s
<1>3. CASE Vacant(s, pid, fd1) /\ Chain(s, pid, fd2) = <<>>
  <2>1. s1 \in G /\ s \in States
    BY <1>1, <1>3 DEF KeptBy, ItemsKept
  <2>2. t \in Pids
    BY <1>3 DEF Vacant, HasTable, TableOf
  <2>3. Frame(s, s1, t, fd1)
    BY <2>1, <2>2, AddItemFrame
  <2> HIDE DEF s1
  <2>4. TableOf(s1, pid) = t /\ (s1.st = "run" => Vacant(s1, pid, fd2))
    BY <1>3, <2>3 DEF Vacant, HasTable, Chain, TableOf, GetProcessHt, Frame
  <2>5. s1.st = "run" => AddItem(s1, TableOf(s1, pid), fd2, Virtual, fd2) \in G
    BY <2>1, <2>4 DEF KeptBy, ItemsKept
  <2> QED
    BY <1>2, <1>3, <2>1, <2>4, <2>5 DEF Vacant
<1>4. CASE ~(Vacant(s, pid, fd1) /\ Chain(s, pid, fd2) = <<>>)
  BY <1>1, <1>2, <1>4 DEF Vacant
<1> QED
  BY <1>3, <1>4

LEMMA UseKept ==
  ASSUME NEW pid \in Pids, NEW G, KeptBy(pid, G), NEW s0 \in G, s0.st = "run",
         NEW fd \in FdArgs, NEW fails
  PROVE  Use(s0, pid, fd, fails) \in G
<1> DEFINE s == GetFdMap(s0, pid, fd, fails)
<1>1. s \in G /\ s \in States /\ Safe(s)
  BY GetFdMapKept DEF KeptBy, ItemsKept
<1>2. Found(s, pid, fd) => fd \in Fds
  BY NotFoundFailed, Arguments DEF KeptBy, ItemsKept
<1> HIDE DEF s
<1>3. Found(s, pid, fd) => s.map[IdOf(s, pid, fd)] # Nil
  BY <1>1, <1>2, FoundItem, HeadLinked DEF Safe
<1> QED
  BY <1>1, <1>3 DEF Use, s

LEMMA SendfileKept ==
  ASSUME NEW pid \in Pids, NEW G, KeptBy(pid, G), NEW s0 \in G, s0.st = "run",
         NEW out \in FdArgs, NEW in \in FdArgs, NEW fails \in SUBSET Fds
  PROVE  Sendfile(s0, pid, out, in, fails) \in G
<1> DEFINE s  == GetFdMap(s0, pid, out, fails)
           s1 == GetFdMap(s, pid, in, fails)
<1>1. s \in G
  BY GetFdMapKept DEF KeptBy
<1>2. s0 \in States /\ Safe(s0)
  BY DEF KeptBy, ItemsKept
<1>3. Sendfile(s0, pid, out, in, fails).st # "uaf"
  BY <1>2, ArgumentTypes, SendfileSafe DEF Safe
<1>4. Sendfile(s0, pid, out, in, fails) \in {s, s1, Stop(s1, "uaf")}
  BY DEF Sendfile
<1>5. Sendfile(s0, pid, out, in, fails) # s => Found(s, pid, out)
  BY DEF Sendfile
<1> HIDE DEF s
<1>6. Found(s, pid, out) => s1 \in G
  BY <1>1, GetFdMapKept DEF Found, KeptBy
<1>7. Found(s, pid, out) => s1 \in States
  BY <1>6 DEF KeptBy, ItemsKept
<1> HIDE DEF s1
<1>8. Found(s, pid, out) => Stop(s1, "uaf").st = "uaf"
  BY <1>7 DEF Stop, States
<1> QED
  BY <1>1, <1>3, <1>4, <1>5, <1>6, <1>8

LEMMA DupKept ==
  ASSUME NEW pid \in Pids, NEW G, KeptBy(pid, G), NEW s0 \in G, s0.st = "run",
         NEW fd \in FdArgs, NEW new \in Fds, fd # new, NEW fails \in SUBSET Fds,
         NEW cf \in CloseResults
  PROVE  Dup(s0, pid, fd, new, fails, cf) \in G
<1> DEFINE s  == GetFdMap(s0, pid, fd, fails)
           id == IdOf(s, pid, fd)
           s1 == Close(s, pid, new, fails, cf)
           t  == TableOf(s1, pid)
<1>1. s \in G /\ s \in States /\ Safe(s)
  BY GetFdMapKept DEF KeptBy, ItemsKept
<1>2. Found(s, pid, fd) => fd \in Fds
  BY NotFoundFailed, Arguments DEF KeptBy, ItemsKept
<1>3. Dup(s0, pid, fd, new, fails, cf) =
        IF ~Found(s, pid, fd) THEN s
        ELSE IF s1.st # "run" THEN s1
        ELSE IF s1.map[id] = Nil THEN Stop(s1, "uaf")
        ELSE IF InsertParentAsserts(s1.map[id].parents, new) THEN Stop(s1, "assert_parent")
        ELSE IF Len(s1.ht[t][new]) >= MaxGens THEN Stop(s1, "bound")
        ELSE [s1 EXCEPT !.map[id].parents = InsertParentFd(@, new),
                        !.ht[t][new] = Append(@, id),
                        !.usage = IncreaseFdUsage(@, s1.map[id].my)]
  BY DEF Dup, TableOf
<1> HIDE DEF s
<1>4. CASE ~Found(s, pid, fd)
  BY <1>1, <1>3, <1>4
<1>5. CASE Found(s, pid, fd)
  <2>1. fd \in Fds /\ new \in FdArgs /\ s.st = "run" /\ HasTable(s, pid) /\ cf \in BOOLEAN
    BY <1>2, <1>5, ArgumentTypes DEF Found, FdArgs
  <2>2. s1 \in G /\ s1 \in States /\ Safe(s1)
    BY <1>1, <2>1, CloseKept DEF KeptBy, ItemsKept
  <2>3. Frame(s, s1, TableOf(s, pid), new)
    BY <1>1, <2>1, CloseFrame DEF TableOf
  <2>4. /\ TableOf(s, pid) \in Pids
        /\ s.ht[TableOf(s, pid)][fd] # <<>>
        /\ id = Head(s.ht[TableOf(s, pid)][fd])
    BY <1>1, <1>5, <2>1, FoundItem DEF TableOf
  <2>5. s1 = Close(s, pid, new, fails, cf)
    OBVIOUS
  <2> HIDE DEF s1, id
  <2>6. t = TableOf(s, pid)
    BY <2>3 DEF Frame, TableOf, GetProcessHt
  <2>7. t \in Pids /\ s1.ht[t][fd] # <<>> /\ id = Head(s1.ht[t][fd])
    BY <2>1, <2>3, <2>4, <2>6 DEF Frame
  <2>8. s1.st = "run" => Found(s1, pid, fd)
    BY <2>7 DEF Found, HasTable, Chain, TableOf
  <2>9. s1.map[id] # Nil
    BY <2>1, <2>2, <2>7, HeadLinked DEF Safe
  <2>10. s1.st = "run" => LinkedItem(s1, t, fd, new) \in G
    BY <1>1, <1>5, <2>1, <2>2, <2>5, <2>8 DEF KeptBy, ItemsKept
  <2>11. s1.st = "run" => Dup(s0, pid, fd, new, fails, cf) = LinkedItem(s1, t, fd, new)
    BY <1>3, <1>5, <2>7, <2>9 DEF LinkedItem
  <2> QED
    BY <1>3, <1>5, <2>2, <2>10, <2>11
<1> QED
  BY <1>4, <1>5

(* So a handler is a clone or keeps the set of states that the changes of  *)
(* its process do not leave, and a set that no process and no clone leaves *)
(* is not left by any step.                                                *)
LEMMA HandledKept ==
  ASSUME ~DupSelf, NEW G, NEW s, s.st = "run", \A pid \in Pids : KeptBy(pid, G[pid]) /\ s \in G[pid],
         NEW r, Handled(s, r)
  PROVE  \/ \E pid \in Pids : r \in G[pid]
         \/ \E pid \in Pids, child \in Children, share \in BOOLEAN :
              (IF share THEN "thread" ELSE "fork") \in Ops /\ r = Clone(s, pid, child, share)
<1>1. \A pid \in Pids, fd \in Fds, file \in Files \cup {Unknown, Ignored}, fails \in SUBSET Fds :
        Open(s, pid, fd, file, fails) \in G[pid]
  BY OpenKept DEF KeptBy
<1>2. \A pid \in Pids, fd \in FdArgs, fails \in SUBSET Fds, cf \in CloseResults :
        Close(s, pid, fd, fails, cf) \in G[pid]
  BY CloseKept DEF KeptBy
<1>3. \A pid \in Pids, fd \in FdArgs, new \in Fds, fails \in SUBSET Fds, cf \in CloseResults :
        fd # new => Dup(s, pid, fd, new, fails, cf) \in G[pid]
  BY DupKept
<1>4. \A pid \in Pids, fd1 \in Fds, fd2 \in Fds :
        fd1 # fd2 /\ "pipe" \in Ops => Pipe(s, pid, fd1, fd2) \in G[pid]
  BY PipeKept
<1>5. \A pid \in Pids, fd \in Fds : Socket(s, pid, fd) \in G[pid]
  BY SocketKept
<1>6. \A pid \in Pids, fd \in FdArgs, fails \in SUBSET Fds : Use(s, pid, fd, fails) \in G[pid]
  BY UseKept
<1>7. \A pid \in Pids, out \in FdArgs, in \in FdArgs, fails \in SUBSET Fds :
        Sendfile(s, pid, out, in, fails) \in G[pid]
  BY SendfileKept
<1>8. r = s => \E pid \in Pids : r \in G[pid]
  BY RootAssumption
<1> QED
  BY <1>1, <1>2, <1>3, <1>4, <1>5, <1>6, <1>7, <1>8 DEF Handled

LEMMA StepKept ==
  ASSUME ~DupSelf, NEW G, \A pid \in Pids : KeptBy(pid, G),
         \A s \in G, pid \in Pids, child \in Children, share \in BOOLEAN :
           s.st = "run" /\ (IF share THEN "thread" ELSE "fork") \in Ops
             => Clone(s, pid, child, share) \in G,
         Cur \in G, [Next]_vars
  PROVE  Cur' \in G
<1>1. CASE Next
  <2> DEFINE H == [pid \in Pids |-> G]
  <2>1. Cur \in States
    BY RootAssumption DEF KeptBy, ItemsKept
  <2>2. PICK r : st = "run" /\ Handled(Cur, r) /\ Become(r)
    BY <1>1, <2>1, StepHandles
  <2>3. Cur.st = "run"
    BY <2>2 DEF Cur
  <2>4. \A pid \in Pids : H[pid] = G
    OBVIOUS
  <2> HIDE DEF H
  <2>5. \A pid \in Pids : KeptBy(pid, H[pid]) /\ Cur \in H[pid]
    BY <2>4
  <2>6. \/ \E pid \in Pids : r \in H[pid]
        \/ \E pid \in Pids, child \in Children, share \in BOOLEAN :
             (IF share THEN "thread" ELSE "fork") \in Ops /\ r = Clone(Cur, pid, child, share)
    BY <2>2, <2>3, <2>5, HandledKept
  <2>7. r \in G
    BY <2>3, <2>4, <2>6
  <2>8. r \in States
    BY <2>7, RootAssumption DEF KeptBy, ItemsKept
  <2>9. Cur' = r
    BY <2>2, <2>8, BecomeCur
  <2> QED
    BY <2>7, <2>9
<1>2. CASE UNCHANGED vars
  BY <1>2 DEF vars, Cur
<1> QED
  BY <1>1, <1>2

-----------------------------------------------------------------------------
(* The items that use a real descriptor: the descriptor an item is filed   *)
(* under and its fd_map, which belongs to the same table.                  *)
InChain(q, m) == \E i \in 1..Len(q) : q[i] = m
Uses(s, r) ==
  {x \in Fds \X MapIds :
     InChain(s.ht[x[2][1]][x[1]], x[2]) /\ s.map[x[2]] # Nil /\ s.map[x[2]].my = r}

LEMMA InAppend ==
  ASSUME NEW S, NEW q \in Seq(S), NEW x, NEW m
  PROVE  InChain(Append(q, x), m) <=> InChain(q, m) \/ m = x
<1> DEFINE a == Append(q, x)
<1>1. /\ Len(q) \in Nat
      /\ Len(a) = Len(q) + 1
      /\ a[Len(q) + 1] = x
      /\ \A i \in 1..Len(q) : a[i] = q[i]
  OBVIOUS
<1> HIDE DEF a
<1>2. ASSUME NEW i \in 1..Len(a) PROVE i \in 1..Len(q) \/ i = Len(q) + 1
  BY <1>1
<1>3. 1..Len(q) \subseteq 1..Len(a) /\ Len(q) + 1 \in 1..Len(a)
  BY <1>1
<1> QED
  BY <1>1, <1>2, <1>3 DEF InChain, a

LEMMA InTail ==
  ASSUME NEW S, NEW q \in Seq(S), q # <<>>, NEW m, m # Head(q)
  PROVE  InChain(Tail(q), m) <=> InChain(q, m)
<1> DEFINE a == Tail(q)
<1>1. /\ Len(q) \in Nat \ {0}
      /\ Len(a) = Len(q) - 1
      /\ Head(q) = q[1]
      /\ \A i \in 1..Len(a) : a[i] = q[i + 1] /\ i + 1 \in 1..Len(q)
  OBVIOUS
<1> HIDE DEF a
<1>2. ASSUME NEW i \in 1..Len(q), q[i] = m PROVE i - 1 \in 1..Len(a) /\ a[i - 1] = m
  <2>1. i # 1
    BY <1>1, <1>2
  <2>2. i - 1 \in 1..Len(a) /\ (i - 1) + 1 = i
    BY <1>1, <2>1
  <2> QED
    BY <1>1, <1>2, <2>2
<1> QED
  BY <1>1, <1>2 DEF InChain, a

(* What an item that points to an fd_map says about it.                    *)
LEMMA ItemMap ==
  ASSUME NEW s \in States, Safe(s), NEW t \in Pids, NEW f \in Fds, NEW m \in MapIds,
         InChain(s.ht[t][f], m)
  PROVE  m[1] = t /\ s.map[m] # Nil /\ s.map[m] \in FdMaps /\ f \in s.map[m].parents
<1>1. PICK i \in 1..Len(s.ht[t][f]) : s.ht[t][f][i] = m
  BY DEF InChain
<1>2. m[1] = t /\ s.map[m] # Nil /\ f \in s.map[m].parents
  BY <1>1 DEF Safe, ItemsLinked
<1> QED
  BY <1>2 DEF States

LEMMA UseOf ==
  ASSUME NEW s \in States, Safe(s), NEW f \in Fds, NEW m \in MapIds, NEW r
  PROVE  <<f, m>> \in Uses(s, r) <=> InChain(s.ht[m[1]][f], m) /\ s.map[m].my = r
<1>1. m[1] \in Pids
  BY DEF MapIds
<1> QED
  BY <1>1, ItemMap DEF Uses

(* How the uses of s become those of n: one more of my, or all but x.      *)
OneMoreUse(s, n, my) ==
  \E x : \A r : x \notin Uses(s, r) /\ Uses(n, r) = Uses(s, r) \cup (IF my = r THEN {x} ELSE {})
OneUseGone(s, n, x) == \A r : Uses(n, r) = Uses(s, r) \ {x}

LEMMA SameUses ==
  ASSUME NEW s, NEW r, r.ht = s.ht, r.map = s.map
  PROVE  \A d : Uses(r, d) = Uses(s, d)
BY DEF Uses

(* A new item is one more use of its descriptor, and of no other.          *)
LEMMA UsesAdded ==
  ASSUME NEW s \in States, NEW t \in Pids, NEW fd \in Fds,
         NEW my \in RealFds \cup {Virtual}, Safe(s), FreeGens(s, t, fd) # {}
  PROVE  LET n == NewFdItem(s, t, fd, my)
         IN  /\ n.usage = s.usage /\ n.os = s.os /\ n.st = s.st
             /\ OneMoreUse(s, n, my)
<1> DEFINE m == <<t, fd, CHOOSE g \in FreeGens(s, t, fd) : TRUE>>
           h == [s.ht EXCEPT ![t] = [s.ht[t] EXCEPT ![fd] = Append(s.ht[t][fd], m)]]
           v == [my |-> my, parents |-> {fd}]
           k == [s.map EXCEPT ![m] = v]
           n == NewFdItem(s, t, fd, my)
           x == <<fd, m>>
<1>1. n = [s EXCEPT !.ht = h, !.map = k]
  BY DEF NewFdItem
<1>2. m \in MapIds /\ s.map[m] = Nil /\ m[1] = t
  BY DEF FreeGens, MapIds
<1>3. v.my = my
  OBVIOUS
<1>4. n \in States /\ Safe(n)
  BY NewFdItemType, NewFdItemSafe
<1> HIDE DEF m, v
<1>5. k[m] = v /\ \A y \in MapIds : y # m => k[y] = s.map[y]
  BY <1>2 DEF States
<1>6. h[t][fd] = Append(s.ht[t][fd], m) /\ s.ht[t][fd] \in Seq(MapIds)
  BY DEF States
<1>7. \A u \in Pids, f \in Fds : (u # t \/ f # fd) => h[u][f] = s.ht[u][f]
  BY DEF States
<1> HIDE DEF n, h, k
<1>8. n.ht = h /\ n.map = k /\ n.st = s.st /\ n.usage = s.usage /\ n.os = s.os
  BY <1>1 DEF States
<1>9. ASSUME NEW f \in Fds, NEW y \in MapIds
      PROVE  InChain(h[y[1]][f], y) <=> InChain(s.ht[y[1]][f], y) \/ (f = fd /\ y = m)
  <2>1. y[1] \in Pids
    BY DEF MapIds
  <2>2. CASE y[1] = t /\ f = fd
    <3>1. InChain(Append(s.ht[t][fd], m), y) <=> InChain(s.ht[t][fd], y) \/ y = m
      BY <1>6, InAppend
    <3> QED
      BY <1>6, <2>2, <3>1
  <2>3. CASE y[1] # t \/ f # fd
    BY <1>2, <1>7, <2>1, <2>3
  <2> QED
    BY <2>2, <2>3
<1>10. \A f \in Fds : ~InChain(s.ht[m[1]][f], m)
  BY <1>2, ItemMap
<1>11. ASSUME NEW r PROVE x \notin Uses(s, r)
  BY <1>2, <1>10, UseOf DEF x
<1>12. ASSUME NEW r PROVE Uses(n, r) = Uses(s, r) \cup (IF my = r THEN {x} ELSE {})
  <2>1. ASSUME NEW f \in Fds, NEW y \in MapIds
        PROVE  <<f, y>> \in Uses(n, r) <=> <<f, y>> \in Uses(s, r) \/ (my = r /\ f = fd /\ y = m)
    <3>1. <<f, y>> \in Uses(n, r) <=> InChain(h[y[1]][f], y) /\ k[y].my = r
      BY <1>4, <1>8, UseOf
    <3>2. <<f, y>> \in Uses(s, r) <=> InChain(s.ht[y[1]][f], y) /\ s.map[y].my = r
      BY UseOf
    <3>3. CASE y = m
      BY <1>3, <1>5, <1>9, <1>10, <3>1, <3>2, <3>3
    <3>4. CASE y # m
      BY <1>5, <1>9, <3>1, <3>2, <3>4
    <3> QED
      BY <3>3, <3>4
  <2>2. Uses(n, r) \subseteq Fds \X MapIds /\ Uses(s, r) \subseteq Fds \X MapIds
    BY DEF Uses
  <2> QED
    BY <1>2, <2>1, <2>2 DEF x
<1> QED
  BY <1>8, <1>11, <1>12 DEF n, OneMoreUse

(* A removed item is one use less of its descriptor, and of no other: the  *)
(* fd_map goes only if no other descriptor points to it.                   *)
LEMMA UsesRemoved ==
  ASSUME NEW s \in States, NEW t \in Pids, NEW fd \in Fds, s.ht[t][fd] # <<>>, Safe(s)
  PROVE  LET n == RemoveFdItem(s, t, fd)
             m == Head(s.ht[t][fd])
             x == <<fd, m>>
         IN  /\ n.usage = s.usage /\ n.os = s.os /\ n.st = s.st
             /\ x \in Uses(s, s.map[m].my)
             /\ OneUseGone(s, n, x)
<1> DEFINE m == Head(s.ht[t][fd])
           p == DeleteParentFd(s.map[m].parents, fd)
           h == [s.ht EXCEPT ![t][fd] = Tail(@)]
           c == IF p = {} \/ ~Referenced(h, m) THEN Nil ELSE [s.map[m] EXCEPT !.parents = p]
           k == [s.map EXCEPT ![m] = c]
           n == RemoveFdItem(s, t, fd)
           x == <<fd, m>>
<1>1. /\ m \in MapIds /\ m[1] = t
      /\ s.map[m] # Nil /\ s.map[m] \in FdMaps /\ fd \in s.map[m].parents
  BY HeadLinked DEF Safe
<1>2. n = [s EXCEPT !.ht = h, !.map = k]
  BY <1>1 DEF RemoveFdItem, DeleteParentAsserts
<1>3. h[t][fd] = Tail(s.ht[t][fd])
  BY DEF States
<1>4. \A u \in Pids, f \in Fds : (u # t \/ f # fd) => h[u][f] = s.ht[u][f]
  BY DEF States
<1>5. \A y \in MapIds : y # m => k[y] = s.map[y]
  BY <1>1 DEF States
<1>6. k[m] # Nil => k[m].my = s.map[m].my
  <2>1. k[m] = c
    BY <1>1 DEF States
  <2>2. [s.map[m] EXCEPT !.parents = p].my = s.map[m].my
    BY <1>1 DEF FdMaps
  <2> QED
    BY <2>1, <2>2
<1>7. n \in States /\ Safe(n)
  BY <1>1, RemoveFdItemType, RemoveFdItemSafe
<1>8. /\ s.ht[t][fd] \in Seq(MapIds)
      /\ ChainLinked(s.ht[t][fd], s.map, t, fd)
  BY LinksByChain DEF States, Safe
<1>9. ~InChain(Tail(s.ht[t][fd]), m) /\ InChain(s.ht[t][fd], m)
  <2>1. \A i \in 1..Len(Tail(s.ht[t][fd])) : Tail(s.ht[t][fd])[i] # m
    BY <1>8, ChainTail
  <2>2. s.ht[t][fd][1] = m /\ 1 \in 1..Len(s.ht[t][fd])
    BY <1>8
  <2> QED
    BY <2>1, <2>2 DEF InChain
<1>10. \A y \in MapIds : y # m => (InChain(Tail(s.ht[t][fd]), y) <=> InChain(s.ht[t][fd], y))
  BY <1>8, InTail
<1> HIDE DEF n, h, k, m
<1>11. n.ht = h /\ n.map = k /\ n.st = s.st /\ n.usage = s.usage /\ n.os = s.os
  BY <1>2 DEF States
<1>12. ASSUME NEW f \in Fds, NEW y \in MapIds
       PROVE  InChain(h[y[1]][f], y) <=> InChain(s.ht[y[1]][f], y) /\ ~(f = fd /\ y = m)
  <2>1. y[1] \in Pids
    BY DEF MapIds
  <2>2. CASE y[1] = t /\ f = fd
    BY <1>3, <1>9, <1>10, <2>2
  <2>3. CASE y[1] # t \/ f # fd
    BY <1>1, <1>4, <2>1, <2>3
  <2> QED
    BY <2>2, <2>3
<1>13. x \in Uses(s, s.map[m].my)
  BY <1>1, <1>9, UseOf
<1>14. ASSUME NEW r PROVE Uses(n, r) = Uses(s, r) \ {x}
  <2>1. ASSUME NEW f \in Fds, NEW y \in MapIds
        PROVE  <<f, y>> \in Uses(n, r) <=> <<f, y>> \in Uses(s, r) /\ ~(f = fd /\ y = m)
    <3>1. <<f, y>> \in Uses(n, r) <=> InChain(h[y[1]][f], y) /\ k[y].my = r
      BY <1>7, <1>11, UseOf
    <3>2. <<f, y>> \in Uses(s, r) <=> InChain(s.ht[y[1]][f], y) /\ s.map[y].my = r
      BY UseOf
    <3>3. InChain(h[y[1]][f], y) => k[y] # Nil
      BY <1>7, <1>11, ItemMap DEF MapIds
    <3>4. InChain(h[y[1]][f], y) => k[y].my = s.map[y].my
      BY <1>5, <1>6, <3>3
    <3> QED
      BY <1>12, <3>1, <3>2, <3>4
  <2>2. Uses(n, r) \subseteq Fds \X MapIds /\ Uses(s, r) \subseteq Fds \X MapIds
    BY DEF Uses
  <2> QED
    BY <1>1, <2>1, <2>2
<1> QED
  BY <1>11, <1>13, <1>14 DEF n, m, OneUseGone

(* A duplicate that fits is one more use of the same descriptor.           *)
LEMMA UsesLinked ==
  ASSUME RoomForParents, NEW s \in States, NEW t \in Pids, NEW fd \in Fds, NEW new \in Fds,
         s.ht[t][fd] # <<>>, Safe(s),
         ~InsertParentAsserts(s.map[Head(s.ht[t][fd])].parents, new),
         Len(s.ht[t][new]) < MaxGens
  PROVE  LET n  == LinkedItem(s, t, fd, new)
             my == s.map[Head(s.ht[t][fd])].my
         IN  /\ n.usage = IncreaseFdUsage(s.usage, my) /\ n.os = s.os /\ n.st = s.st
             /\ OneMoreUse(s, n, my)
<1> DEFINE id == Head(s.ht[t][fd])
           m  == s.map[id]
           v  == [m EXCEPT !.parents = InsertParentFd(m.parents, new)]
           k  == [s.map EXCEPT ![id] = v]
           h  == [s.ht EXCEPT ![t] = [s.ht[t] EXCEPT ![new] = Append(s.ht[t][new], id)]]
           u  == IncreaseFdUsage(s.usage, m.my)
           n  == LinkedItem(s, t, fd, new)
           x  == <<new, id>>
<1>1. id \in MapIds /\ id[1] = t /\ m # Nil /\ m \in FdMaps
  BY HeadLinked DEF Safe
<1>2. ~(Len(s.ht[t][new]) >= MaxGens)
  <2>1. s.ht[t][new] \in Seq(MapIds)
    BY DEF States
  <2> QED
    BY <2>1, BoundAssumption
<1>3. n = [s EXCEPT !.map = k, !.ht = h, !.usage = u]
  BY <1>2 DEF LinkedItem
<1>4. n \in States /\ Safe(n)
  BY LinkedItemSafe
<1>5. v.my = m.my
  BY <1>1 DEF FdMaps
<1>6. \A y \in MapIds : k[y].my = s.map[y].my
  BY <1>1, <1>5 DEF States
<1>7. h[t][new] = Append(s.ht[t][new], id) /\ s.ht[t][new] \in Seq(MapIds)
  BY DEF States
<1>8. \A w \in Pids, f \in Fds : (w # t \/ f # new) => h[w][f] = s.ht[w][f]
  BY DEF States
<1> HIDE DEF n, h, k, u, v, id
<1>9. n.ht = h /\ n.map = k /\ n.usage = u /\ n.st = s.st /\ n.os = s.os
  BY <1>3 DEF States
<1>10. ~InChain(s.ht[t][new], id)
  <2>1. new \notin s.map[id].parents
    BY DEF InsertParentAsserts, id
  <2> QED
    BY <1>1, <2>1, ItemMap
<1>11. ASSUME NEW f \in Fds, NEW y \in MapIds
       PROVE  InChain(h[y[1]][f], y) <=> InChain(s.ht[y[1]][f], y) \/ (f = new /\ y = id)
  <2>1. y[1] \in Pids
    BY DEF MapIds
  <2>2. CASE y[1] = t /\ f = new
    <3>1. InChain(Append(s.ht[t][new], id), y) <=> InChain(s.ht[t][new], y) \/ y = id
      BY <1>7, InAppend
    <3> QED
      BY <1>7, <2>2, <3>1
  <2>3. CASE y[1] # t \/ f # new
    BY <1>1, <1>8, <2>1, <2>3
  <2> QED
    BY <2>2, <2>3
<1>12. ASSUME NEW r PROVE x \notin Uses(s, r)
  BY <1>1, <1>10, UseOf
<1>13. ASSUME NEW r PROVE Uses(n, r) = Uses(s, r) \cup (IF m.my = r THEN {x} ELSE {})
  <2>1. ASSUME NEW f \in Fds, NEW y \in MapIds
        PROVE  <<f, y>> \in Uses(n, r) <=> <<f, y>> \in Uses(s, r) \/ (m.my = r /\ f = new /\ y = id)
    <3>1. <<f, y>> \in Uses(n, r) <=> InChain(h[y[1]][f], y) /\ k[y].my = r
      BY <1>4, <1>9, UseOf
    <3>2. <<f, y>> \in Uses(s, r) <=> InChain(s.ht[y[1]][f], y) /\ s.map[y].my = r
      BY UseOf
    <3>3. k[y].my = s.map[y].my
      BY <1>6
    <3> HIDE DEF m
    <3>4. CASE y = id
      BY <1>11, <3>1, <3>2, <3>3, <3>4 DEF m
    <3>5. CASE y # id
      BY <1>11, <3>1, <3>2, <3>3, <3>5
    <3> QED
      BY <3>4, <3>5
  <2>2. Uses(n, r) \subseteq Fds \X MapIds /\ Uses(s, r) \subseteq Fds \X MapIds
    BY DEF Uses
  <2> HIDE DEF m
  <2> QED
    BY <1>1, <2>1, <2>2
<1> QED
  BY <1>9, <1>12, <1>13 DEF n, id, u, OneMoreUse

(* A copied item is a use of the descriptor of its original, so that a     *)
(* fork adds at most as many uses as the original table has.               *)
LEMMA CopiedUse ==
  ASSUME NEW s \in States, NEW src \in Pids, Safe(s), NEW r \in RealFds, NEW f \in Fds,
         NEW i \in 1..CopyLen(s, src, f), CopyOf(s, src, f, i).my = r,
         CopyLen(s, src, f) <= MaxGens
  PROVE  /\ <<f, i>> \in UsersIn(s, src, r)
         /\ <<f, s.ht[src][f][i]>> \in Uses(s, r)
<1>1. s.ht[src][f] \in Seq(MapIds) /\ CopyLen(s, src, f) \in Nat
  BY CopyLenType DEF States
<1>2. i <= Len(s.ht[src][f])
  BY <1>1, SentinelAssumption DEF CopyOf
<1>3. i \in 1..Len(s.ht[src][f]) /\ i \in Gens /\ CopyOf(s, src, f, i) = s.map[s.ht[src][f][i]]
  BY <1>1, <1>2, BoundAssumption DEF CopyOf, Gens
<1>4. s.ht[src][f][i] \in MapIds /\ InChain(s.ht[src][f], s.ht[src][f][i])
  BY <1>1, <1>3 DEF InChain
<1>5. s.ht[src][f][i][1] = src /\ s.map[s.ht[src][f][i]] # Nil
  BY <1>4, ItemMap
<1>6. <<f, i>> \in UsersIn(s, src, r)
  BY <1>2, <1>3, <1>5 DEF UsersIn, Places, MapAt
<1>7. <<f, s.ht[src][f][i]>> \in Uses(s, r)
  BY <1>3, <1>4, <1>5, UseOf
<1> QED
  BY <1>6, <1>7

LEMMA UsesCopied ==
  ASSUME NEW s \in States, NEW src \in Pids, NEW dst \in Pids, Safe(s), NEW r \in RealFds,
         DuplicateProcessHt(s, src, dst).st = s.st, s.st = "run",
         IsFiniteSet(Uses(s, r))
  PROVE  LET n == DuplicateProcessHt(s, src, dst)
         IN  /\ n.os = s.os
             /\ n.usage[r] = s.usage[r] + Cardinality(UsersIn(s, src, r))
             /\ IsFiniteSet(Uses(n, r))
             /\ Cardinality(Uses(n, r)) <= Cardinality(Uses(s, r)) + Cardinality(UsersIn(s, src, r))
             /\ Uses(s, r) = {} => Uses(n, r) = {}
<1> DEFINE pr == [s.proc EXCEPT ![dst] = dst]
           nt == [f \in Fds |-> [i \in 1..CopyLen(s, src, f) |-> <<dst, f, i>>]]
           h  == [s.ht EXCEPT ![dst] = nt]
           k  == [m \in MapIds |-> IF m[1] = dst /\ m[3] <= CopyLen(s, src, m[2])
                                   THEN CopyOf(s, src, m[2], m[3]) ELSE s.map[m]]
           u  == [q \in RealFds |-> s.usage[q] + Cardinality(UsersIn(s, src, q))]
           n  == DuplicateProcessHt(s, src, dst)
           N  == {x \in Uses(n, r) : x[2][1] = dst}
           U  == UsersIn(s, src, r)
<1>1. n \in States /\ Safe(n)
  BY DuplicateType, DuplicateSafe
<1>2. Stop(s, "uaf").st # s.st /\ Stop(s, "bound").st # s.st
  BY DEF Stop, States
<1>3. /\ n = [s EXCEPT !.proc = pr, !.ht = h, !.map = k, !.usage = u]
      /\ ~(\E f \in Fds : CopyLen(s, src, f) > MaxGens)
  BY <1>2 DEF DuplicateProcessHt
<1>4. \A f \in Fds : h[dst][f] = [i \in 1..CopyLen(s, src, f) |-> <<dst, f, i>>]
  BY DEF States
<1>5. \A t \in Pids : t # dst => h[t] = s.ht[t]
  BY DEF States
<1>6. \A y \in MapIds : y[1] # dst => k[y] = s.map[y]
  OBVIOUS
<1>7. \A y \in MapIds : y[1] = dst /\ y[3] <= CopyLen(s, src, y[2]) => k[y] = CopyOf(s, src, y[2], y[3])
  OBVIOUS
<1>8. u[r] = s.usage[r] + Cardinality(U)
  OBVIOUS
<1> HIDE DEF pr, h, k, u, n
<1>9. n.ht = h /\ n.map = k /\ n.usage = u /\ n.os = s.os
  BY <1>3 DEF States
<1>10. ASSUME NEW f \in Fds
       PROVE  CopyLen(s, src, f) \in Nat /\ CopyLen(s, src, f) <= MaxGens
  BY <1>3, CopyLenType, BoundAssumption
<1>11. ASSUME NEW f \in Fds, NEW y \in MapIds, <<f, y>> \in N
       PROVE  /\ y[1] = dst /\ y[2] = f /\ y = <<dst, f, y[3]>>
              /\ y[3] \in 1..CopyLen(s, src, f)
              /\ CopyOf(s, src, f, y[3]).my = r
  <2>1. <<f, y>> \in Uses(n, r) /\ y[1] = dst
    BY <1>11
  <2>2. InChain(h[dst][f], y) /\ k[y].my = r
    BY <1>1, <1>9, <2>1, UseOf
  <2>3. PICK i \in 1..CopyLen(s, src, f) : y = <<dst, f, i>>
    <3> DEFINE q == h[dst][f]
    <3>1. q = [i \in 1..CopyLen(s, src, f) |-> <<dst, f, i>>]
      BY <1>4
    <3> HIDE DEF q
    <3>2. Len(q) = CopyLen(s, src, f) /\ \A i \in 1..Len(q) : q[i] = <<dst, f, i>>
      BY <1>10, <3>1
    <3>3. PICK i \in 1..Len(q) : q[i] = y
      BY <2>2 DEF InChain, q
    <3> QED
      BY <3>2, <3>3
  <2>4. y[1] = dst /\ y[2] = f /\ y[3] = i /\ y[3] <= CopyLen(s, src, f)
    BY <1>10, <2>3
  <2> QED
    BY <1>7, <2>2, <2>3, <2>4
<1>12. ASSUME NEW f \in Fds, NEW y \in MapIds, <<f, y>> \in N
       PROVE  /\ <<f, y[3]>> \in U
              /\ Uses(s, r) # {}
  <2>1. y[3] \in 1..CopyLen(s, src, f) /\ CopyOf(s, src, f, y[3]).my = r
    BY <1>11, <1>12
  <2>2. CopyLen(s, src, f) <= MaxGens
    BY <1>10
  <2>3. /\ <<f, y[3]>> \in UsersIn(s, src, r)
        /\ <<f, s.ht[src][f][y[3]]>> \in Uses(s, r)
    BY <2>1, <2>2, CopiedUse
  <2> QED
    BY <2>3
<1>13. \A x \in N : x = <<x[1], x[2]>> /\ x[1] \in Fds /\ x[2] \in MapIds
  BY DEF Uses
<1>14. IsFiniteSet(N) /\ Cardinality(N) <= Cardinality(U)
  <2> DEFINE g == [x \in N |-> <<x[1], x[2][3]>>]
  <2>1. g \in [N -> U]
    BY <1>12, <1>13
  <2>2. ASSUME NEW x \in N, NEW z \in N, g[x] = g[z]
        PROVE  x = z
    <3>1. x[1] = z[1] /\ x[2][3] = z[2][3]
      BY <2>2
    <3>2. x[2] = <<dst, x[1], x[2][3]>> /\ z[2] = <<dst, z[1], z[2][3]>>
      BY <1>11, <1>13
    <3> QED
      BY <1>13, <3>1, <3>2
  <2> HIDE DEF g
  <2>3. g \in Injection(N, U)
    BY <2>1, <2>2, Fun_IsInj
  <2>4. IsFiniteSet(U)
    BY UsersCount
  <2> QED
    BY <2>3, <2>4, FS_Injection
<1>15. ASSUME NEW x \in Uses(n, r), x[2][1] # dst
       PROVE  x \in Uses(s, r)
  <2>1. PICK f \in Fds, y \in MapIds : x = <<f, y>>
    BY DEF Uses
  <2>2. InChain(h[y[1]][f], y) /\ k[y].my = r
    BY <1>1, <1>9, <2>1, UseOf
  <2>3. y[1] \in Pids /\ y[1] # dst
    BY <1>15, <2>1 DEF MapIds
  <2> QED
    BY <1>5, <1>6, <2>1, <2>2, <2>3, UseOf
<1>16. Uses(n, r) \in SUBSET (Uses(s, r) \cup N)
  BY <1>15
<1>17. /\ IsFiniteSet(Uses(s, r) \cup N)
       /\ Cardinality(Uses(s, r) \cup N) <= Cardinality(Uses(s, r)) + Cardinality(N)
  <2>1. /\ IsFiniteSet(Uses(s, r) \cup N)
        /\ IsFiniteSet(Uses(s, r) \cap N)
        /\ Cardinality(Uses(s, r) \cup N) =
             Cardinality(Uses(s, r)) + Cardinality(N) - Cardinality(Uses(s, r) \cap N)
    BY <1>14, FS_Union, FS_Intersection
  <2> QED
    BY <1>14, <2>1, FS_CardinalityType
<1>18. /\ IsFiniteSet(Uses(n, r))
       /\ Cardinality(Uses(n, r)) <= Cardinality(Uses(s, r) \cup N)
  BY <1>16, <1>17, FS_Subset
<1>19. Uses(s, r) = {} => Uses(n, r) = {}
  BY <1>12, <1>13, <1>16
<1>20. Cardinality(Uses(n, r)) <= Cardinality(Uses(s, r)) + Cardinality(U)
  BY <1>14, <1>17, <1>18, UsersCount, FS_CardinalityType
<1> QED
  BY <1>8, <1>9, <1>18, <1>19, <1>20 DEF n

-----------------------------------------------------------------------------
(* The counts: at least one for every use, and no use of a descriptor that *)
(* is not open.  At least, because a pipe counts the recorded descriptor   *)
(* and a fork into a NULL table counts items it does not copy.             *)
Counts(s, r) == /\ IsFiniteSet(Uses(s, r))
                /\ Cardinality(Uses(s, r)) <= s.usage[r]
                /\ s.os[r] = Closed => Uses(s, r) = {}
Counted(s) == \A r \in RealFds : Counts(s, r)
CountedStates == {s \in States : Safe(s) /\ Counted(s)}

LEMMA OneLess ==
  ASSUME NEW U, NEW x \in U, IsFiniteSet(U)
  PROVE  /\ IsFiniteSet(U \ {x})
         /\ Cardinality(U \ {x}) = Cardinality(U) - 1
         /\ Cardinality(U \ {x}) \in Nat
         /\ Cardinality(U) \in Nat \ {0}
         /\ Cardinality(U) = 1 => U \ {x} = {}
<1>1. IsFiniteSet(U \ {x}) /\ Cardinality(U \ {x}) = Cardinality(U) - 1
  BY FS_RemoveElement
<1>2. Cardinality(U \ {x}) \in Nat /\ Cardinality(U) \in Nat
  BY <1>1, FS_CardinalityType
<1>3. Cardinality(U \ {x}) = 0 => U \ {x} = {}
  BY <1>1, FS_EmptySet
<1> QED
  BY <1>1, <1>2, <1>3

LEMMA CountedStop ==
  ASSUME NEW s \in States, NEW why, Counted(s)
  PROVE  Counted(Stop(s, why))
<1>1. /\ Stop(s, why).ht = s.ht /\ Stop(s, why).map = s.map
      /\ Stop(s, why).usage = s.usage /\ Stop(s, why).os = s.os
  BY DEF Stop, States
<1> QED
  BY <1>1, SameUses DEF Counted, Counts

LEMMA IncreasedCount ==
  ASSUME NEW u \in [RealFds -> Nat], NEW c, NEW r \in RealFds
  PROVE  IncreaseFdUsage(u, c)[r] = u[r] + (IF c = r THEN 1 ELSE 0)
BY DEF IncreaseFdUsage

LEMMA AddItemCounted ==
  ASSUME NEW s \in States, NEW t \in Pids, NEW fd \in Fds, NEW my \in RealFds \cup {Virtual},
         NEW c, s.st = "run", Safe(s), Counted(s), my # Virtual => c = my /\ s.os[my] # Closed
  PROVE  Counted(AddItem(s, t, fd, my, c))
<1> DEFINE n == NewFdItem(s, t, fd, my)
           u == IncreaseFdUsage(n.usage, c)
           a == [n EXCEPT !.usage = u]
<1>1. AddItem(s, t, fd, my, c) = IF n.st # "run" THEN n ELSE a
  BY DEF AddItem
<1>2. CASE FreeGens(s, t, fd) = {}
  <2>1. n = Stop(s, "bound") /\ n.st # "run"
    BY <1>2 DEF NewFdItem, Stop, States
  <2> QED
    BY <1>1, <2>1, CountedStop
<1>3. CASE FreeGens(s, t, fd) # {} /\ n.st # "run"
  <2>1. n.usage = s.usage /\ n.os = s.os /\ n.st = s.st
    BY <1>3, UsesAdded
  <2> QED
    BY <1>3, <2>1
<1>4. CASE FreeGens(s, t, fd) # {} /\ n.st = "run"
  <2>1. n \in States /\ n.usage = s.usage /\ n.os = s.os
    BY <1>4, UsesAdded, NewFdItemType
  <2>2. PICK x : \A r : /\ x \notin Uses(s, r)
                        /\ Uses(n, r) = Uses(s, r) \cup (IF my = r THEN {x} ELSE {})
    <3>1. OneMoreUse(s, n, my)
      BY <1>4, UsesAdded
    <3> HIDE DEF n
    <3> QED
      BY <3>1 DEF OneMoreUse
  <2> HIDE DEF n, u
  <2>3. a.ht = n.ht /\ a.map = n.map /\ a.os = s.os /\ a.usage = u
    BY <2>1 DEF States
  <2> HIDE DEF a
  <2>4. ASSUME NEW r \in RealFds PROVE Counts(a, r)
    <3>1. Counts(s, r) /\ s.usage[r] \in Nat
      BY DEF Counted, States
    <3>2. Uses(a, r) = Uses(s, r) \cup (IF my = r THEN {x} ELSE {}) /\ x \notin Uses(s, r)
      BY <2>2, <2>3, SameUses
    <3>3. u[r] = s.usage[r] + (IF c = r THEN 1 ELSE 0)
      <4>1. n.usage \in [RealFds -> Nat]
        BY <2>1 DEF States
      <4> QED
        BY <2>1, <4>1, IncreasedCount DEF u
    <3>4. Cardinality(Uses(s, r)) \in Nat
      BY <3>1, FS_CardinalityType DEF Counts
    <3>5. CASE my = r
      <4>1. c = r /\ s.os[r] # Closed
        BY <3>5, SentinelAssumption
      <4>2. /\ IsFiniteSet(Uses(a, r))
            /\ Cardinality(Uses(a, r)) = Cardinality(Uses(s, r)) + 1
        BY <3>1, <3>2, <3>5, FS_AddElement DEF Counts
      <4> QED
        BY <2>3, <3>1, <3>3, <3>4, <4>1, <4>2 DEF Counts
    <3>6. CASE my # r
      <4>1. Uses(a, r) = Uses(s, r)
        BY <3>2, <3>6
      <4> QED
        BY <2>3, <3>1, <3>3, <3>4, <4>1 DEF Counts
    <3> QED
      BY <3>5, <3>6
  <2> QED
    BY <1>1, <1>4, <2>4 DEF Counted
<1> QED
  BY <1>2, <1>3, <1>4

LEMMA OpenedItemCounted ==
  ASSUME NEW s \in States, NEW t \in Pids, NEW fd \in Fds, NEW file \in Files \cup {Unknown},
         s.st = "run", Safe(s), Counted(s), FreeFds(s) # {}
  PROVE  OpenedItem(s, t, fd, file) \in States /\ Safe(OpenedItem(s, t, fd, file))
         /\ Counted(OpenedItem(s, t, fd, file))
<1> DEFINE r  == LowestFree(s)
           o  == [s.os EXCEPT ![r] = file]
           s1 == [s EXCEPT !.os = o]
<1>1. r \in RealFds /\ s.os[r] = Closed
  BY LowestFreeIsFree
<1>2. file # Closed
  BY NameAssumption
<1> HIDE DEF r
<1>3. o \in [RealFds -> Files \cup {Unknown, Closed}]
  BY DEF States
<1>4. o[r] = file /\ \A q \in RealFds : q # r => o[q] = s.os[q]
  BY <1>1 DEF States
<1> HIDE DEF o
<1>5. /\ s1 \in States /\ s1.ht = s.ht /\ s1.map = s.map /\ s1.st = s.st
      /\ s1.usage = s.usage /\ s1.os = o
  BY <1>3 DEF States
<1>6. OpenedItem(s, t, fd, file) = AddItem(s1, t, fd, r, r)
  BY DEF OpenedItem, r, o
<1> HIDE DEF s1
<1>7. Safe(s1)
  BY <1>5, SameLinks DEF Safe
<1>8. Counted(s1)
  BY <1>1, <1>4, <1>5, SameUses DEF Counted, Counts
<1> QED
  BY <1>1, <1>2, <1>4, <1>5, <1>6, <1>7, <1>8, AddItemType, AddItemSafe, AddItemCounted

(* replicate_close gives up one use and one count of the same descriptor,  *)
(* and closes it with the last of both: nothing else uses it then.         *)
LEMMA ClosedItemEffect ==
  ASSUME NEW s \in States, NEW t \in Pids, NEW fd \in Fds, s.ht[t][fd] # <<>>,
         Safe(s), Counted(s)
  PROVE  LET n  == ClosedItem(s, t, fd, FALSE)
             my == s.map[Head(s.ht[t][fd])].my
             x  == <<fd, Head(s.ht[t][fd])>>
         IN  /\ \A r \in RealFds :
                  /\ n.usage[r] = IF my = r THEN s.usage[r] - 1 ELSE s.usage[r]
                  /\ n.os[r] = IF my = r /\ s.usage[r] = 1 THEN Closed ELSE s.os[r]
             /\ x \in Uses(s, my) /\ OneUseGone(s, n, x)
             /\ \E p \in States : /\ p.proc = s.proc /\ p.ht = s.ht /\ p.map = s.map /\ p.st = s.st
                                 /\ Safe(p) /\ n = RemoveFdItem(p, t, fd)
<1> DEFINE id == Head(s.ht[t][fd])
           m  == s.map[id]
           u  == DecreaseFdUsage(s.usage, m.my)
           s1 == [s EXCEPT !.usage = u]
           o  == [s.os EXCEPT ![m.my] = Closed]
           s2 == [s1 EXCEPT !.os = o]
           x  == <<fd, id>>
           n  == ClosedItem(s, t, fd, FALSE)
           c  == s.usage[m.my]
           p  == IF ~SupportedType(m) THEN s ELSE IF ~LastUse(s.usage, m.my) THEN s1 ELSE s2
           a  == RemoveFdItem(p, t, fd)
<1>1. m \in FdMaps /\ m # Nil
  BY HeadLinked DEF Safe
<1>2. n = IF ~SupportedType(m) THEN RemoveFdItem(s, t, fd)
          ELSE IF s.usage[m.my] = 0 THEN Stop(s, "assert_usage")
          ELSE IF ~LastUse(s.usage, m.my) THEN RemoveFdItem(s1, t, fd)
          ELSE IF s.os[m.my] = Closed THEN s2
          ELSE RemoveFdItem(s2, t, fd)
  <2>1. n = IF ~SupportedType(m) THEN RemoveFdItem(s, t, fd)
            ELSE IF s.usage[m.my] = 0 THEN Stop(s, "assert_usage")
            ELSE IF ~LastUse(s.usage, m.my) THEN RemoveFdItem(s1, t, fd)
            ELSE IF FALSE \/ s.os[m.my] = Closed THEN [s1 EXCEPT !.os[m.my] = Closed]
            ELSE RemoveFdItem([s1 EXCEPT !.os[m.my] = Closed], t, fd)
    BY Zenon DEF ClosedItem
  <2>2. [s1 EXCEPT !.os[m.my] = Closed] = s2
    <3>1. s1.os = s.os
      BY DEF States
    <3> HIDE DEF s1, m
    <3> QED
      BY <3>1
  <2> HIDE DEF n, m, s1, s2
  <2> QED
    BY <2>1, <2>2
<1>3. x \in Uses(s, m.my)
  BY UsesRemoved
<1> HIDE DEF id, x
<1>4. SupportedType(m) => m.my \in RealFds /\ c \in Nat
  <2> HIDE DEF m
  <2> QED
    BY <1>1 DEF FdMaps, SupportedType, States
<1>5. SupportedType(m) => c # 0 /\ s.os[m.my] # Closed
  <2> SUFFICES ASSUME SupportedType(m) PROVE c # 0 /\ s.os[m.my] # Closed
    OBVIOUS
  <2> DEFINE U == Uses(s, m.my)
             k == Cardinality(U)
  <2>1. x \in U /\ IsFiniteSet(U) /\ k <= c /\ (s.os[m.my] = Closed => U = {})
    BY <1>3, <1>4 DEF Counted, Counts
  <2> HIDE DEF U
  <2>2. k \in Nat \ {0} /\ U # {}
    BY <2>1, OneLess
  <2> HIDE DEF k, c
  <2> QED
    BY <1>4, <2>1, <2>2
<1>6. SupportedType(m) =>
        /\ u \in [RealFds -> Nat]
        /\ u[m.my] = c - 1
        /\ \A r \in RealFds : r # m.my => u[r] = s.usage[r]
        /\ o \in [RealFds -> Files \cup {Unknown, Closed}]
        /\ o[m.my] = Closed
        /\ \A r \in RealFds : r # m.my => o[r] = s.os[r]
  <2> HIDE DEF m
  <2> QED
    BY <1>4, <1>5 DEF DecreaseFdUsage, States, c
<1> HIDE DEF u, o, m
<1>7. SupportedType(m) =>
        /\ s1 \in States /\ s1.ht = s.ht /\ s1.map = s.map /\ s1.st = s.st
        /\ s1.proc = s.proc /\ s1.usage = u /\ s1.os = s.os
        /\ s2 \in States /\ s2.ht = s.ht /\ s2.map = s.map /\ s2.st = s.st
        /\ s2.proc = s.proc /\ s2.usage = u /\ s2.os = o
  BY <1>6 DEF States
<1> HIDE DEF s1, s2
<1>8. /\ p \in States /\ p.proc = s.proc /\ p.ht = s.ht /\ p.map = s.map /\ p.st = s.st
      /\ p.usage = IF SupportedType(m) THEN u ELSE s.usage
      /\ p.os = IF SupportedType(m) /\ c = 1 THEN o ELSE s.os
  BY <1>7 DEF LastUse, c
<1>9. n = a
  BY <1>2, <1>5 DEF c
<1> HIDE DEF p, n
<1>10. Safe(p) /\ p.ht[t][fd] # <<>> /\ id = Head(p.ht[t][fd])
  BY <1>8, SameLinks DEF Safe, id
<1>11. a.usage = p.usage /\ a.os = p.os /\ OneUseGone(p, a, x)
  BY <1>8, <1>10, UsesRemoved DEF x
<1>12. OneUseGone(s, a, x)
  BY <1>8, <1>11, SameUses DEF OneUseGone
<1>13. SupportedType(m) \/ \A r \in RealFds : m.my # r
  BY SentinelAssumption DEF SupportedType
<1> HIDE DEF a
<1>14. ASSUME NEW r \in RealFds
       PROVE  /\ n.usage[r] = IF m.my = r THEN s.usage[r] - 1 ELSE s.usage[r]
              /\ n.os[r] = IF m.my = r /\ s.usage[r] = 1 THEN Closed ELSE s.os[r]
  BY <1>6, <1>8, <1>9, <1>11, <1>13 DEF c
<1>15. \E q \in States : /\ q.proc = s.proc /\ q.ht = s.ht /\ q.map = s.map /\ q.st = s.st /\ Safe(q)
                       /\ n = RemoveFdItem(q, t, fd)
  BY <1>8, <1>9, <1>10 DEF a
<1> QED
  BY <1>3, <1>9, <1>12, <1>14, <1>15 DEF m, id, x, n

LEMMA ClosedItemCounted ==
  ASSUME NEW s \in States, NEW t \in Pids, NEW fd \in Fds, s.ht[t][fd] # <<>>,
         Safe(s), Counted(s)
  PROVE  LET n == ClosedItem(s, t, fd, FALSE)
         IN  n \in States /\ Safe(n) /\ n.st = s.st /\ Counted(n)
<1> DEFINE m == s.map[Head(s.ht[t][fd])]
           x == <<fd, Head(s.ht[t][fd])>>
           n == ClosedItem(s, t, fd, FALSE)
<1>1. PICK p \in States : /\ p.ht = s.ht /\ p.map = s.map /\ p.st = s.st /\ Safe(p)
                         /\ n = RemoveFdItem(p, t, fd)
  BY ClosedItemEffect
<1>2. \A r \in RealFds : /\ n.usage[r] = IF m.my = r THEN s.usage[r] - 1 ELSE s.usage[r]
                         /\ n.os[r] = IF m.my = r /\ s.usage[r] = 1 THEN Closed ELSE s.os[r]
  BY ClosedItemEffect
<1>3. x \in Uses(s, m.my) /\ OneUseGone(s, n, x)
  BY ClosedItemEffect
<1>4. n \in States /\ Safe(n) /\ n.st = s.st
  <2>1. s.map[Head(s.ht[t][fd])] # Nil
    BY HeadLinked DEF Safe
  <2> HIDE DEF n
  <2>2. p.ht[t][fd] # <<>> /\ p.map[Head(p.ht[t][fd])] # Nil
    BY <1>1, <2>1
  <2> QED
    BY <1>1, <2>2, RemoveFdItemType, RemoveFdItemSafe, UsesRemoved
<1> HIDE DEF n, m, x
<1>5. ASSUME NEW r \in RealFds PROVE Counts(n, r)
  <2> DEFINE U == Uses(s, r)
             k == Cardinality(U)
             c == s.usage[r]
  <2>1. IsFiniteSet(U) /\ k <= c /\ c \in Nat /\ (s.os[r] = Closed => U = {})
    BY DEF Counted, Counts, States
  <2>2. Uses(n, r) = U \ {x}
    BY <1>3 DEF OneUseGone
  <2>3. CASE m.my = r
    <3>1. x \in U
      BY <1>3, <2>3
    <3> HIDE DEF U
    <3>2. /\ IsFiniteSet(U \ {x})
          /\ Cardinality(U \ {x}) = k - 1
          /\ k \in Nat \ {0}
          /\ k = 1 => U \ {x} = {}
      BY <2>1, <3>1, OneLess
    <3> HIDE DEF k, c
    <3>3. k - 1 <= c - 1 /\ (c = 1 => k = 1)
      BY <2>1, <3>2
    <3>4. n.os[r] = Closed => c = 1
      <4>1. s.os[r] # Closed
        BY <2>1, <3>1
      <4> QED
        BY <1>2, <2>3, <4>1 DEF c
    <3> QED
      BY <1>2, <2>2, <2>3, <3>2, <3>3, <3>4 DEF Counts, c
  <2>4. CASE m.my # r
    <3>1. x \notin U
      BY <2>4 DEF Uses, m, x
    <3>2. Uses(n, r) = Uses(s, r)
      BY <2>2, <3>1
    <3> QED
      BY <1>2, <2>4, <3>2 DEF Counted, Counts
  <2> QED
    BY <2>3, <2>4
<1> QED
  BY <1>4, <1>5 DEF Counted, n

LEMMA LinkedItemCounted ==
  ASSUME RoomForParents, NEW s \in States, NEW t \in Pids, NEW fd \in Fds, NEW new \in Fds,
         s.ht[t][fd] # <<>>, Safe(s), Counted(s)
  PROVE  Counted(LinkedItem(s, t, fd, new))
<1> DEFINE id == Head(s.ht[t][fd])
           m  == s.map[id]
           n  == LinkedItem(s, t, fd, new)
<1>1. CASE InsertParentAsserts(m.parents, new) \/ Len(s.ht[t][new]) >= MaxGens
  <2>1. n = Stop(s, "assert_parent") \/ n = Stop(s, "bound")
    BY <1>1 DEF LinkedItem
  <2> QED
    BY <2>1, CountedStop
<1>2. CASE ~(InsertParentAsserts(m.parents, new) \/ Len(s.ht[t][new]) >= MaxGens)
  <2>1. Len(s.ht[t][new]) < MaxGens
    <3>1. s.ht[t][new] \in Seq(MapIds)
      BY DEF States
    <3> QED
      BY <1>2, <3>1, BoundAssumption
  <2>2. /\ n.usage = IncreaseFdUsage(s.usage, m.my) /\ n.os = s.os
        /\ OneMoreUse(s, n, m.my)
    BY <1>2, <2>1, UsesLinked
  <2>3. <<fd, id>> \in Uses(s, m.my)
    BY UsesRemoved
  <2> HIDE DEF n, m, id
  <2>4. PICK x : \A r : /\ x \notin Uses(s, r)
                        /\ Uses(n, r) = Uses(s, r) \cup (IF m.my = r THEN {x} ELSE {})
    BY <2>2 DEF OneMoreUse
  <2>5. ASSUME NEW r \in RealFds PROVE Counts(n, r)
    <3>1. Counts(s, r) /\ s.usage[r] \in Nat /\ s.usage \in [RealFds -> Nat]
      BY DEF Counted, States
    <3>2. n.usage[r] = s.usage[r] + (IF m.my = r THEN 1 ELSE 0)
      BY <2>2, <3>1, IncreasedCount
    <3>3. Cardinality(Uses(s, r)) \in Nat
      BY <3>1, FS_CardinalityType DEF Counts
    <3>4. CASE m.my = r
      <4>1. s.os[r] # Closed
        BY <2>3, <3>1, <3>4 DEF Counts
      <4>2. /\ IsFiniteSet(Uses(n, r))
            /\ Cardinality(Uses(n, r)) = Cardinality(Uses(s, r)) + 1
        BY <2>4, <3>1, <3>4, FS_AddElement DEF Counts
      <4> QED
        BY <2>2, <3>1, <3>2, <3>3, <3>4, <4>1, <4>2 DEF Counts
    <3>5. CASE m.my # r
      <4>1. Uses(n, r) = Uses(s, r)
        BY <2>4, <3>5
      <4> QED
        BY <2>2, <3>1, <3>2, <3>5, <4>1 DEF Counts
    <3> QED
      BY <3>4, <3>5
  <2> QED
    BY <2>5 DEF Counted, n
<1> QED
  BY <1>1, <1>2

LEMMA CloneCounted ==
  ASSUME NEW s \in States, NEW parent \in Pids, NEW child \in Pids \cup {Failed},
         NEW share \in BOOLEAN, s.st = "run", Safe(s), Counted(s)
  PROVE  Counted(Clone(s, parent, child, share))
<1> DEFINE c == Clone(s, parent, child, share)
           p == s.proc[parent]
<1>1. CASE child = Failed
  BY <1>1, CountedStop DEF Clone
<1>2. CASE child # Failed /\ HasTable(s, child)
  BY <1>2 DEF Clone
<1>3. CASE child # Failed /\ ~HasTable(s, child) /\ share
  <2> DEFINE q == [s.proc EXCEPT ![child] = IF HasTable(s, parent) THEN s.proc[parent] ELSE Null]
             n == [s EXCEPT !.proc = q]
  <2>1. c = s \/ c = n
    BY <1>3 DEF Clone
  <2> HIDE DEF q, c
  <2>2. n.ht = s.ht /\ n.map = s.map /\ n.usage = s.usage /\ n.os = s.os
    BY DEF States
  <2> HIDE DEF n
  <2>3. Counted(n)
    BY <2>2, SameUses DEF Counted, Counts
  <2> QED
    BY <2>1, <2>3 DEF c
<1>4. CASE child # Failed /\ ~HasTable(s, child) /\ ~share /\ ~HasTable(s, parent)
  BY <1>4, CountedStop DEF Clone
<1>5. CASE child # Failed /\ ~HasTable(s, child) /\ ~share /\ HasTable(s, parent)
  <2>1. p \in Pids
    BY <1>5 DEF HasTable, GetProcessHt
  <2>2. CASE s.proc[child] = Null
    <3> DEFINE u == [r \in RealFds |-> s.usage[r] + Cardinality(UsersIn(s, p, r))]
               n == [s EXCEPT !.usage = u]
    <3>1. c = n
      BY <1>5, <2>2 DEF Clone
    <3>2. \A r \in RealFds : u[r] = s.usage[r] + Cardinality(UsersIn(s, p, r))
      OBVIOUS
    <3> HIDE DEF u, c
    <3>3. n.ht = s.ht /\ n.map = s.map /\ n.usage = u /\ n.os = s.os
      BY DEF States
    <3> HIDE DEF n
    <3>4. ASSUME NEW r \in RealFds PROVE Counts(n, r)
      <4>1. Counts(s, r) /\ s.usage[r] \in Nat /\ Uses(n, r) = Uses(s, r)
        BY <3>3, SameUses DEF Counted, States
      <4>2. u[r] >= s.usage[r]
        BY <3>2, <4>1, UsersCount
      <4>3. Cardinality(Uses(s, r)) \in Nat /\ u[r] \in Nat
        BY <3>2, <4>1, UsersCount, FS_CardinalityType DEF Counts
      <4> QED
        BY <3>3, <4>1, <4>2, <4>3 DEF Counts
    <3> QED
      BY <3>1, <3>4 DEF Counted, c
  <2>3. CASE s.proc[child] # Null
    <3> DEFINE n == DuplicateProcessHt(s, p, child)
    <3>1. c = n
      BY <1>5, <2>3 DEF Clone
    <3>2. n = Stop(s, "uaf") \/ n = Stop(s, "bound") \/ n.st = s.st
      BY DEF DuplicateProcessHt, States
    <3>3. CASE n.st = s.st
      <4>1. child \in Pids
        BY <1>5
      <4>2. ASSUME NEW r \in RealFds PROVE Counts(n, r)
        <5>1. Counts(s, r) /\ s.usage[r] \in Nat
          BY DEF Counted, States
        <5>2. /\ n.os = s.os
              /\ n.usage[r] = s.usage[r] + Cardinality(UsersIn(s, p, r))
              /\ IsFiniteSet(Uses(n, r))
              /\ Cardinality(Uses(n, r)) <= Cardinality(Uses(s, r)) + Cardinality(UsersIn(s, p, r))
              /\ Uses(s, r) = {} => Uses(n, r) = {}
          BY <2>1, <3>3, <4>1, <5>1, UsesCopied DEF Counts
        <5> HIDE DEF n, p
        <5>3. /\ Cardinality(Uses(s, r)) \in Nat /\ Cardinality(Uses(n, r)) \in Nat
              /\ Cardinality(UsersIn(s, p, r)) \in Nat
          BY <5>1, <5>2, UsersCount, FS_CardinalityType DEF Counts
        <5>4. Cardinality(Uses(n, r)) <= n.usage[r]
          BY <5>1, <5>2, <5>3 DEF Counts
        <5> QED
          BY <5>1, <5>2, <5>4 DEF Counts
      <4> HIDE DEF n
      <4> QED
        BY <3>1, <4>2 DEF Counted
    <3> QED
      BY <3>1, <3>2, <3>3, CountedStop
  <2> QED
    BY <2>2, <2>3
<1> QED
  BY <1>1, <1>2, <1>3, <1>4, <1>5

LEMMA CountedKept ==
  ASSUME RoomForParents, ~CloseMayFail, NEW pid \in Pids
  PROVE  KeptBy(pid, CountedStates)
<1> DEFINE G == CountedStates
<1>1. \A s \in G : s \in States /\ Safe(s) /\ Counted(s)
  BY DEF CountedStates
<1>2. \A s \in G : Stop(s, "assert_key") \in G
  BY StopType, StopSafe, CountedStop DEF CountedStates, Status
<1>3. ASSUME NEW s \in G, s.st = "run" PROVE Clone(s, Root, pid, TRUE) \in G
  <2>1. s \in States /\ Safe(s) /\ Counted(s)
    BY <1>1
  <2> QED
    BY <1>3, <2>1, RootAssumption, CloneType, CloneSafe, CloneCounted DEF CountedStates
<1>4. ASSUME NEW s \in G, NEW fd \in Fds, NEW c, Vacant(s, pid, fd)
      PROVE  AddItem(s, TableOf(s, pid), fd, Virtual, c) \in G
  <2>1. s \in States /\ Safe(s) /\ Counted(s) /\ s.st = "run" /\ TableOf(s, pid) \in Pids
    BY <1>1, <1>4 DEF Vacant, HasTable, TableOf
  <2> QED
    BY <2>1, AddItemType, AddItemSafe, AddItemCounted DEF CountedStates
<1>5. ASSUME NEW s \in G, NEW fd \in Fds, NEW file \in Files \cup {Unknown},
             Vacant(s, pid, fd), FreeFds(s) # {}
      PROVE  OpenedItem(s, TableOf(s, pid), fd, file) \in G
  <2>1. s \in States /\ Safe(s) /\ Counted(s) /\ s.st = "run" /\ TableOf(s, pid) \in Pids
    BY <1>1, <1>5 DEF Vacant, HasTable, TableOf
  <2> QED
    BY <1>5, <2>1, OpenedItemCounted DEF CountedStates
<1>6. ASSUME NEW s \in G, NEW fd \in Fds, NEW cf \in CloseResults, Found(s, pid, fd)
      PROVE  ClosedItem(s, TableOf(s, pid), fd, cf) \in G
  <2>1. /\ s \in States /\ Safe(s) /\ Counted(s) /\ TableOf(s, pid) \in Pids
        /\ s.ht[TableOf(s, pid)][fd] # <<>>
    BY <1>1, <1>6, FoundItem DEF TableOf
  <2>2. cf = FALSE
    BY DEF CloseResults
  <2> QED
    BY <2>1, <2>2, ClosedItemCounted DEF CountedStates
<1>7. ASSUME NEW r \in G, NEW fd \in Fds, NEW new \in Fds, Found(r, pid, fd)
      PROVE  LinkedItem(r, TableOf(r, pid), fd, new) \in G
  <2>1. /\ r \in States /\ Safe(r) /\ Counted(r) /\ TableOf(r, pid) \in Pids
        /\ r.ht[TableOf(r, pid)][fd] # <<>>
    BY <1>1, <1>7, FoundItem DEF TableOf
  <2> QED
    BY <2>1, LinkedItemSafe, LinkedItemCounted DEF CountedStates
<1> HIDE DEF G
<1> QED
  BY <1>1, <1>2, <1>3, <1>4, <1>5, <1>6, <1>7 DEF KeptBy, ItemsKept, G

LEMMA InitCounted == Init => Cur \in CountedStates
<1> SUFFICES ASSUME Init PROVE Cur \in CountedStates
  OBVIOUS
<1>1. Cur \in States /\ Safe(Cur)
  BY InitType, CurType, InitSafe
<1>2. ASSUME NEW r \in RealFds PROVE Uses(Cur, r) = {}
  <2>1. \A m \in MapIds : map[m] # Nil => map[m].my = Virtual
    BY DEF Init
  <2> QED
    BY <2>1, SentinelAssumption DEF Uses, Cur
<1>3. \A r \in RealFds : Cur.usage[r] = 0
  BY DEF Init, Cur
<1> QED
  BY <1>1, <1>2, <1>3, FS_EmptySet DEF CountedStates, Counted, Counts

LEMMA CountedStep ==
  ASSUME RoomForParents, ~DupSelf, ~CloseMayFail, Cur \in CountedStates, [Next]_vars
  PROVE  Cur' \in CountedStates
<1> DEFINE G == CountedStates
<1>1. \A pid \in Pids : KeptBy(pid, G)
  BY CountedKept
<1>2. ASSUME NEW s \in G, NEW pid \in Pids, NEW child \in Children, NEW share \in BOOLEAN,
             s.st = "run"
      PROVE  Clone(s, pid, child, share) \in G
  <2>1. s \in States /\ Safe(s) /\ Counted(s) /\ child \in Pids \cup {Failed}
    BY ArgumentTypes DEF CountedStates
  <2> QED
    BY <1>2, <2>1, CloneType, CloneSafe, CloneCounted DEF CountedStates
<1>3. Cur \in G
  OBVIOUS
<1> HIDE DEF G
<1>4. Cur' \in G
  BY <1>1, <1>2, <1>3, StepKept
<1> QED
  BY <1>4 DEF G

(* The users that a run counts, places of chains, are uses: two places     *)
(* never give the same use, because no chain has an fd_map twice.          *)
LEMMA UsersAreUses ==
  ASSUME Cur \in States, Safe(Cur), NEW r \in RealFds, IsFiniteSet(Uses(Cur, r))
  PROVE  IsFiniteSet(Users(r)) /\ Cardinality(Users(r)) <= Cardinality(Uses(Cur, r))
<1> DEFINE g == [x \in Users(r) |-> <<x[2], ht[x[1]][x[2]][x[3]]>>]
<1>1. Cur.ht = ht /\ Cur.map = map
  BY DEF Cur
<1>2. ASSUME NEW x \in Users(r)
      PROVE  /\ x = <<x[1], x[2], x[3]>>
             /\ x[1] \in Pids /\ x[2] \in Fds
             /\ x[3] \in 1..Len(ht[x[1]][x[2]])
             /\ g[x][1] = x[2]
             /\ g[x][2] = ht[x[1]][x[2]][x[3]]
             /\ g[x][2][1] = x[1]
             /\ g[x] \in Uses(Cur, r)
             /\ \A j \in 1..Len(ht[x[1]][x[2]]) : ht[x[1]][x[2]][j] = g[x][2] => j = x[3]
  <2>1. PICK t \in Pids, f \in Fds, i \in Gens : x = <<t, f, i>>
    BY DEF Users
  <2>2. /\ i <= Len(ht[t][f])
        /\ map[ht[t][f][i]].my = r
    BY <1>1, <2>1 DEF Users, UsersIn, Places, MapAt
  <2> DEFINE q == ht[t][f]
             m == q[i]
  <2>3. q \in Seq(MapIds) /\ ChainLinked(q, map, t, f)
    BY <1>1, LinksByChain DEF Safe, States
  <2> HIDE DEF q
  <2>4. i \in 1..Len(q)
    BY <2>2, <2>3 DEF Gens, q
  <2>5. m \in MapIds /\ m[1] = t /\ \A j \in 1..Len(q) : q[j] = m => j = i
    BY <2>3, <2>4 DEF ChainLinked
  <2>6. InChain(q, m)
    BY <2>4 DEF InChain
  <2>7. <<f, m>> \in Uses(Cur, r)
    BY <1>1, <2>2, <2>5, <2>6, UseOf DEF q
  <2>8. g[x] = <<f, m>>
    BY <2>1 DEF q
  <2> QED
    BY <2>1, <2>4, <2>5, <2>7, <2>8 DEF q
<1> HIDE DEF g
<1>3. ASSUME NEW x \in Users(r), NEW y \in Users(r), g[x] = g[y] PROVE x = y
  <2>1. x[1] = y[1] /\ x[2] = y[2]
    BY <1>2, <1>3
  <2>2. y[3] \in 1..Len(ht[x[1]][x[2]]) /\ ht[x[1]][x[2]][y[3]] = g[x][2]
    BY <1>2, <1>3, <2>1
  <2>3. y[3] = x[3]
    BY <1>2, <2>2
  <2> QED
    BY <1>2, <2>1, <2>3
<1>4. g \in [Users(r) -> Uses(Cur, r)]
  BY <1>2 DEF g
<1>5. g \in Injection(Users(r), Uses(Cur, r))
  BY <1>3, <1>4, Fun_IsInj
<1> QED
  BY <1>5, FS_Injection

LEMMA CountedMeans == Cur \in CountedStates => UsageCoversUsers /\ MappedFdsAreOpen
<1> SUFFICES ASSUME Cur \in CountedStates PROVE UsageCoversUsers /\ MappedFdsAreOpen
  OBVIOUS
<1>1. Cur \in States /\ Safe(Cur) /\ Cur.usage = usage /\ Cur.os = os
  BY DEF CountedStates, Cur
<1>2. ASSUME NEW r \in RealFds PROVE usage[r] >= Cardinality(Users(r))
  <2>1. Counts(Cur, r) /\ usage[r] \in Nat
    BY <1>1 DEF CountedStates, Counted, States
  <2>2. IsFiniteSet(Users(r)) /\ Cardinality(Users(r)) <= Cardinality(Uses(Cur, r))
    BY <1>1, <2>1, UsersAreUses DEF Counts
  <2>3. Cardinality(Users(r)) \in Nat /\ Cardinality(Uses(Cur, r)) \in Nat
    BY <2>1, <2>2, FS_CardinalityType DEF Counts
  <2> QED
    BY <1>1, <2>1, <2>2, <2>3 DEF Counts
<1>3. ASSUME NEW t \in Pids, NEW e \in Places(Cur, t),
             MapAt(Cur, t, e) # Nil, SupportedType(MapAt(Cur, t, e))
      PROVE  os[MapAt(Cur, t, e).my] # Closed
  <2> DEFINE f == e[1]
             i == e[2]
             q == Cur.ht[t][f]
             m == q[i]
             r == Cur.map[m].my
  <2>1. f \in Fds /\ i \in Gens /\ i <= Len(q)
    BY DEF Places
  <2>2. q \in Seq(MapIds)
    BY <1>1, <2>1 DEF States
  <2>3. MapAt(Cur, t, e) = Cur.map[m]
    BY DEF MapAt
  <2> HIDE DEF q, f, i
  <2>4. i \in 1..Len(q)
    BY <2>1, <2>2 DEF Gens
  <2>5. m \in MapIds /\ InChain(q, m)
    BY <2>2, <2>4 DEF InChain
  <2>6. m[1] = t /\ Cur.map[m] \in FdMaps
    BY <1>1, <2>1, <2>5, ItemMap DEF q
  <2>7. r \in RealFds
    BY <1>3, <2>3, <2>6 DEF FdMaps, SupportedType
  <2>8. <<f, m>> \in Uses(Cur, r)
    BY <1>1, <2>1, <2>5, <2>6, UseOf DEF q
  <2> HIDE DEF m, r
  <2>9. Counts(Cur, r)
    BY <2>7 DEF CountedStates, Counted
  <2>10. os[r] # Closed
    BY <1>1, <2>8, <2>9 DEF Counts
  <2> QED
    BY <2>3, <2>10 DEF r
<1> QED
  BY <1>2, <1>3 DEF UsageCoversUsers, MappedFdsAreOpen

(* usage_map counts at least the items that use a descriptor, after every  *)
(* trace that dups no descriptor onto itself and fits MAX_PARENT_IDS, as   *)
(* long as the closes of the replayer succeed: replicate_close never takes *)
(* the last use of a descriptor while a process, thread or duplicate still *)
(* needs it, however pipes and forks have inflated the counts.             *)
THEOREM UsageCovers ==
  (RoomForParents /\ ~DupSelf /\ ~CloseMayFail) => (Spec => []UsageCoversUsers)
<1> SUFFICES ASSUME RoomForParents, ~DupSelf, ~CloseMayFail
             PROVE  Spec => []UsageCoversUsers
  OBVIOUS
<1>1. Init => Cur \in CountedStates
  BY InitCounted
<1>2. Cur \in CountedStates /\ [Next]_vars => (Cur \in CountedStates)'
  BY CountedStep
<1>3. Cur \in CountedStates => UsageCoversUsers
  BY CountedMeans
<1> QED
  BY <1>1, <1>2, <1>3, PTL DEF Spec

(* Every recorded descriptor that is mapped to a real one is mapped to one *)
(* that the replayer still has open, whatever other processes closed.      *)
THEOREM MappedStayOpen ==
  (RoomForParents /\ ~DupSelf /\ ~CloseMayFail) => (Spec => []MappedFdsAreOpen)
<1> SUFFICES ASSUME RoomForParents, ~DupSelf, ~CloseMayFail
             PROVE  Spec => []MappedFdsAreOpen
  OBVIOUS
<1>1. Init => Cur \in CountedStates
  BY InitCounted
<1>2. Cur \in CountedStates /\ [Next]_vars => (Cur \in CountedStates)'
  BY CountedStep
<1>3. Cur \in CountedStates => MappedFdsAreOpen
  BY CountedMeans
<1> QED
  BY <1>1, <1>2, <1>3, PTL DEF Spec

-----------------------------------------------------------------------------
(* Without forks a table has at most one item for a descriptor, and every  *)
(* descriptor that a live fd_map lists as a parent has an item for it: the *)
(* converse of ParentFdsCoverItems, which a fork breaks.                   *)
Held(s) ==
  /\ \A t \in Pids, f \in Fds : Len(s.ht[t][f]) <= 1
  /\ \A m \in MapIds : s.map[m] # Nil =>
       s.map[m].parents # {} /\ \A f \in s.map[m].parents : InChain(s.ht[m[1]][f], m)

(* One item per descriptor at most, and no live fd_map without an item:    *)
(* what of it a fork leaves.                                               *)
Short(s) == \A t \in Pids, f \in Fds : Len(s.ht[t][f]) <= 1
Reached(s) == \A m \in MapIds : s.map[m] # Nil =>
                \E f \in Fds : InChain(s.ht[m[1]][f], m)

LEMMA HeldReached ==
  ASSUME NEW s \in States, Held(s)
  PROVE  Short(s) /\ Reached(s)
<1> SUFFICES ASSUME NEW m \in MapIds, s.map[m] # Nil
             PROVE  \E f \in Fds : InChain(s.ht[m[1]][f], m)
  BY DEF Held, Short, Reached
<1>1. PICK f \in s.map[m].parents : InChain(s.ht[m[1]][f], m)
  BY DEF Held
<1>2. s.map[m] \in FdMaps
  BY DEF States
<1> QED
  BY <1>1, <1>2 DEF FdMaps

(* The model's heap has room for one fd_map per descriptor.                *)
RoomForMaps == Cardinality(Fds) <= MaxGens

LEMMA SameHeld ==
  ASSUME NEW s, NEW r, Held(s), r.ht = s.ht, r.map = s.map
  PROVE  Held(r)
BY DEF Held

LEMMA ShortChain ==
  ASSUME NEW S, NEW q \in Seq(S), Len(q) <= 1, q # <<>>
  PROVE  /\ Len(q) = 1 /\ Head(q) = q[1] /\ Tail(q) = <<>>
         /\ \A m : InChain(q, m) <=> m = Head(q)
<1> DEFINE a == Tail(q)
<1>1. Len(q) \in Nat \ {0} /\ Head(q) = q[1] /\ a \in Seq(S) /\ Len(a) = Len(q) - 1
  OBVIOUS
<1> HIDE DEF a
<1>2. Len(q) = 1 /\ Len(a) = 0
  BY <1>1
<1>3. a = <<>>
  BY <1>1, <1>2
<1> QED
  BY <1>1, <1>2, <1>3 DEF InChain, a

LEMMA EmptyChain == \A m : ~InChain(<<>>, m)
BY DEF InChain

(* The live fd_maps that were made for fd are shared by other descriptors, *)
(* each by one of its own, so a slot is free for a new item of fd.         *)
LEMMA SlotFree ==
  ASSUME RoomForMaps, NEW s \in States, Short(s), Reached(s),
         NEW t \in Pids, NEW fd \in Fds, s.ht[t][fd] = <<>>
  PROVE  FreeGens(s, t, fd) # {}
<1> SUFFICES ASSUME FreeGens(s, t, fd) = {} PROVE FALSE
  OBVIOUS
<1> DEFINE m(g)  == <<t, fd, g>>
           other == Fds \ {fd}
           k == [g \in Gens |-> CHOOSE f \in other : InChain(s.ht[t][f], m(g))]
<1>1. ASSUME NEW g \in Gens PROVE \E f \in other : InChain(s.ht[t][f], m(g))
  <2>1. m(g) \in MapIds /\ s.map[m(g)] # Nil /\ m(g)[1] = t
    BY DEF FreeGens, MapIds
  <2>2. PICK f \in Fds : InChain(s.ht[t][f], m(g))
    BY <2>1 DEF Reached
  <2>3. f # fd
    BY <2>2, EmptyChain
  <2> QED
    BY <2>2, <2>3
<1>2. ASSUME NEW g \in Gens PROVE k[g] \in other /\ InChain(s.ht[t][k[g]], m(g))
  BY <1>1
<1>3. k \in [Gens -> other]
  BY <1>2
<1> HIDE DEF k
<1>4. ASSUME NEW g \in Gens, NEW i \in Gens, k[g] = k[i] PROVE g = i
  <2> DEFINE q == s.ht[t][k[g]]
  <2>1. InChain(q, m(g)) /\ InChain(q, m(i)) /\ k[g] \in Fds
    BY <1>2, <1>4
  <2>2. q \in Seq(MapIds) /\ Len(q) <= 1 /\ q # <<>>
    BY <2>1, EmptyChain DEF Short, States
  <2> HIDE DEF q
  <2>3. m(g) = m(i)
    BY <2>1, <2>2, ShortChain
  <2> QED
    BY <2>3
<1>5. IsFiniteSet(Gens) /\ Cardinality(Gens) = MaxGens
  BY FS_Interval, BoundAssumption DEF Gens
<1>6. IsFiniteSet(other) /\ Cardinality(other) = Cardinality(Fds) - 1
  BY FdAssumption, FS_RemoveElement
<1>7. Cardinality(other) < Cardinality(Gens)
  BY <1>5, <1>6, FdAssumption, FS_CardinalityType, BoundAssumption DEF RoomForMaps
<1> QED
  BY <1>3, <1>4, <1>5, <1>6, <1>7, FS_PigeonHole

LEMMA NewFdItemHeld ==
  ASSUME NEW s \in States, NEW t \in Pids, NEW fd \in Fds, NEW my \in RealFds \cup {Virtual},
         Held(s), s.ht[t][fd] = <<>>, FreeGens(s, t, fd) # {}
  PROVE  Held(NewFdItem(s, t, fd, my))
<1> DEFINE m == <<t, fd, CHOOSE g \in FreeGens(s, t, fd) : TRUE>>
           h == [s.ht EXCEPT ![t] = [s.ht[t] EXCEPT ![fd] = Append(s.ht[t][fd], m)]]
           v == [my |-> my, parents |-> {fd}]
           k == [s.map EXCEPT ![m] = v]
           n == NewFdItem(s, t, fd, my)
<1>1. n = [s EXCEPT !.ht = h, !.map = k]
  BY DEF NewFdItem
<1>2. m \in MapIds /\ m[1] = t
  BY DEF FreeGens, MapIds
<1>3. v.parents = {fd}
  OBVIOUS
<1> HIDE DEF m, v
<1>4. k[m] = v /\ \A y \in MapIds : y # m => k[y] = s.map[y]
  BY <1>2 DEF States
<1>5. h[t][fd] = <<m>> /\ \A u \in Pids, f \in Fds : (u # t \/ f # fd) => h[u][f] = s.ht[u][f]
  BY DEF States
<1> HIDE DEF n, h, k
<1>6. n.ht = h /\ n.map = k
  BY <1>1 DEF States
<1>7. Len(<<m>>) <= 1 /\ InChain(<<m>>, m)
  BY DEF InChain
<1>8. \A u \in Pids, f \in Fds : Len(h[u][f]) <= 1
  <2> SUFFICES ASSUME NEW u \in Pids, NEW f \in Fds PROVE Len(h[u][f]) <= 1
    OBVIOUS
  <2>1. Len(s.ht[u][f]) <= 1
    BY DEF Held
  <2>2. h[u][f] = <<m>> \/ h[u][f] = s.ht[u][f]
    BY <1>5
  <2> QED
    BY <1>7, <2>1, <2>2, Zenon
<1>9. ASSUME NEW y \in MapIds, k[y] # Nil
      PROVE  k[y].parents # {} /\ \A f \in k[y].parents : InChain(h[y[1]][f], y)
  <2>1. CASE y = m
    BY <1>2, <1>3, <1>4, <1>5, <1>7, <2>1
  <2>2. CASE y # m
    <3>1. /\ k[y] = s.map[y] /\ k[y].parents # {} /\ y[1] \in Pids
          /\ k[y] \in FdMaps
      BY <1>4, <1>9, <2>2 DEF Held, MapIds, States
    <3>2. ASSUME NEW f \in k[y].parents PROVE InChain(h[y[1]][f], y)
      <4>1. InChain(s.ht[y[1]][f], y) /\ f \in Fds
        BY <1>9, <3>1 DEF Held, FdMaps
      <4>2. y[1] # t \/ f # fd
        BY <4>1, EmptyChain
      <4> QED
        BY <1>5, <3>1, <4>1, <4>2
    <3> QED
      BY <3>1, <3>2
  <2> QED
    BY <2>1, <2>2
<1> QED
  BY <1>6, <1>8, <1>9 DEF Held, n

LEMMA RemoveFdItemHeld ==
  ASSUME NEW s \in States, NEW t \in Pids, NEW fd \in Fds, s.ht[t][fd] # <<>>, Safe(s), Held(s)
  PROVE  Held(RemoveFdItem(s, t, fd)) /\ RemoveFdItem(s, t, fd).ht[t][fd] = <<>>
<1> DEFINE m == Head(s.ht[t][fd])
           p == DeleteParentFd(s.map[m].parents, fd)
           h == [s.ht EXCEPT ![t][fd] = Tail(@)]
           c == IF p = {} \/ ~Referenced(h, m) THEN Nil ELSE [s.map[m] EXCEPT !.parents = p]
           k == [s.map EXCEPT ![m] = c]
           n == RemoveFdItem(s, t, fd)
<1>1. /\ m \in MapIds /\ m[1] = t
      /\ s.map[m] # Nil /\ s.map[m] \in FdMaps /\ fd \in s.map[m].parents
  BY HeadLinked DEF Safe
<1>2. n = [s EXCEPT !.ht = h, !.map = k]
  BY <1>1 DEF RemoveFdItem, DeleteParentAsserts
<1>3. h[t][fd] = Tail(s.ht[t][fd])
  BY DEF States
<1>4. \A u \in Pids, f \in Fds : (u # t \/ f # fd) => h[u][f] = s.ht[u][f]
  BY DEF States
<1>5. k[m] = c /\ \A y \in MapIds : y # m => k[y] = s.map[y]
  BY <1>1 DEF States
<1>6. c # Nil => c.parents = s.map[m].parents \ {fd} /\ c.parents # {}
  BY <1>1 DEF FdMaps, DeleteParentFd
<1>7. s.ht[t][fd] \in Seq(MapIds) /\ Len(s.ht[t][fd]) <= 1
  BY DEF Held, States
<1>8. Tail(s.ht[t][fd]) = <<>> /\ \A y : InChain(s.ht[t][fd], y) <=> y = m
  BY <1>7, ShortChain
<1> HIDE DEF n, h, k, m, c
<1>9. n.ht = h /\ n.map = k
  BY <1>2 DEF States
<1>10. \A u \in Pids, f \in Fds : Len(h[u][f]) <= 1
  <2>1. Len(<<>>) <= 1
    OBVIOUS
  <2> QED
    <3> SUFFICES ASSUME NEW u \in Pids, NEW f \in Fds PROVE Len(h[u][f]) <= 1
      OBVIOUS
    <3>1. Len(s.ht[u][f]) <= 1
      BY DEF Held
    <3>2. h[u][f] = <<>> \/ h[u][f] = s.ht[u][f]
      BY <1>3, <1>4, <1>8
    <3> QED
      BY <2>1, <3>1, <3>2, Zenon
<1>11. ASSUME NEW y \in MapIds, k[y] # Nil
       PROVE  k[y].parents # {} /\ \A f \in k[y].parents : InChain(h[y[1]][f], y)
  <2>1. s.map[y] # Nil /\ k[y].parents # {} /\ y[1] \in Pids
    BY <1>1, <1>5, <1>6, <1>11 DEF Held, MapIds
  <2>2. s.map[y] \in FdMaps
    BY <2>1 DEF States
  <2>3. ASSUME NEW f \in k[y].parents PROVE InChain(h[y[1]][f], y)
    <3>1. f \in s.map[y].parents /\ (y = m => f # fd)
      BY <1>5, <1>6, <1>11
    <3>2. InChain(s.ht[y[1]][f], y) /\ f \in Fds
      BY <2>1, <2>2, <3>1 DEF Held, FdMaps
    <3>3. y[1] # t \/ f # fd
      BY <1>8, <3>1, <3>2
    <3> QED
      BY <1>4, <2>1, <3>2, <3>3
  <2> QED
    BY <2>1, <2>3
<1> QED
  BY <1>3, <1>8, <1>9, <1>10, <1>11 DEF Held, n

LEMMA LinkedItemHeld ==
  ASSUME RoomForParents, NEW s \in States, NEW t \in Pids, NEW fd \in Fds, NEW new \in Fds,
         s.ht[t][fd] # <<>>, s.ht[t][new] = <<>>, Safe(s), Held(s)
  PROVE  /\ Held(LinkedItem(s, t, fd, new))
         /\ ~InsertParentAsserts(s.map[Head(s.ht[t][fd])].parents, new)
         /\ Len(s.ht[t][new]) < MaxGens
<1> DEFINE id == Head(s.ht[t][fd])
           m  == s.map[id]
           v  == [m EXCEPT !.parents = InsertParentFd(m.parents, new)]
           k  == [s.map EXCEPT ![id] = v]
           h  == [s.ht EXCEPT ![t] = [s.ht[t] EXCEPT ![new] = Append(s.ht[t][new], id)]]
           u  == IncreaseFdUsage(s.usage, m.my)
           n  == LinkedItem(s, t, fd, new)
<1>1. id \in MapIds /\ id[1] = t /\ m # Nil /\ m \in FdMaps
  BY HeadLinked DEF Safe
<1>2. Len(s.ht[t][new]) < MaxGens
  <2>1. Len(<<>>) = 0
    OBVIOUS
  <2> QED
    BY <2>1, BoundAssumption
<1>3. new \notin m.parents
  BY <1>1, EmptyChain DEF Held
<1>4. ~(Len(s.ht[t][new]) >= MaxGens)
  <2>1. Len(<<>>) = 0
    OBVIOUS
  <2> QED
    BY <2>1, BoundAssumption
<1>5. n = [s EXCEPT !.map = k, !.ht = h, !.usage = u]
  BY <1>3, <1>4 DEF LinkedItem, InsertParentAsserts
<1>6. InsertParentFd(m.parents, new) = m.parents \cup {new}
  BY <1>1, <1>3, ParentsHaveRoom DEF InsertParentFd, FdMaps
<1>7. v.parents = m.parents \cup {new}
  BY <1>1, <1>6 DEF FdMaps
<1> HIDE DEF v
<1>8. k[id] = v /\ \A x \in MapIds : x # id => k[x] = s.map[x]
  BY <1>1 DEF States
<1>9. h[t][new] = <<id>>
  BY DEF States
<1>10. \A w \in Pids, f \in Fds : (w # t \/ f # new) => h[w][f] = s.ht[w][f]
  BY DEF States
<1> HIDE DEF k, h, u, n, id
<1>11. n.ht = h /\ n.map = k
  BY <1>5 DEF States
<1>12. Len(<<id>>) <= 1 /\ InChain(<<id>>, id)
  BY DEF InChain
<1>13. \A w \in Pids, f \in Fds : Len(h[w][f]) <= 1
  <2> SUFFICES ASSUME NEW w \in Pids, NEW f \in Fds PROVE Len(h[w][f]) <= 1
    OBVIOUS
  <2>1. Len(s.ht[w][f]) <= 1
    BY DEF Held
  <2>2. h[w][f] = <<id>> \/ h[w][f] = s.ht[w][f]
    BY <1>9, <1>10
  <2> QED
    BY <1>12, <2>1, <2>2, Zenon
<1>14. ASSUME NEW y \in MapIds, k[y] # Nil
       PROVE  k[y].parents # {} /\ \A f \in k[y].parents : InChain(h[y[1]][f], y)
  <2>1. s.map[y] # Nil /\ y[1] \in Pids /\ (y # id => k[y] = s.map[y])
    BY <1>1, <1>8, <1>14 DEF MapIds
  <2>2. s.map[y] \in FdMaps /\ s.map[y].parents # {}
    BY <2>1 DEF States, Held
  <2>3. ASSUME NEW f \in s.map[y].parents PROVE InChain(h[y[1]][f], y)
    <3>1. InChain(s.ht[y[1]][f], y) /\ f \in Fds
      BY <2>1, <2>2 DEF Held, FdMaps
    <3>2. y[1] # t \/ f # new
      BY <3>1, EmptyChain
    <3> QED
      BY <1>10, <2>1, <3>1, <3>2
  <2>4. CASE y = id
    BY <1>1, <1>7, <1>8, <1>9, <1>12, <2>3, <2>4
  <2>5. CASE y # id
    BY <2>1, <2>2, <2>3, <2>5
  <2> QED
    BY <2>4, <2>5
<1>15. Held(n)
  BY <1>11, <1>13, <1>14 DEF Held
<1> QED
  BY <1>2, <1>3, <1>15 DEF InsertParentAsserts, n, id

-----------------------------------------------------------------------------
(* With threads but no forks: the replayer lives on in every handler.      *)
AliveStates == {s \in CountedStates : s.st = "run" /\ Held(s)}

LEMMA AliveIs ==
  ASSUME NEW s
  PROVE  s \in AliveStates <=> /\ s \in States /\ Safe(s) /\ Counted(s)
                               /\ s.st = "run" /\ Held(s)
BY DEF AliveStates, CountedStates

LEMMA CloneAlive ==
  ASSUME NEW s \in AliveStates, NEW parent \in Pids, NEW child \in Pids
  PROVE  LET n == Clone(s, parent, child, TRUE)
         IN  n \in AliveStates /\ n.ht = s.ht /\ n.map = s.map /\ n.usage = s.usage /\ n.os = s.os
<1> DEFINE q == [s.proc EXCEPT ![child] = IF HasTable(s, parent) THEN s.proc[parent] ELSE Null]
           p == [s EXCEPT !.proc = q]
           n == Clone(s, parent, child, TRUE)
<1>1. s \in States /\ Safe(s) /\ Counted(s) /\ s.st = "run" /\ Held(s) /\ child # Failed
  BY FailedAssumption, AliveIs
<1>2. n = s \/ n = p
  BY <1>1 DEF Clone
<1>3. n \in States /\ Safe(n) /\ Counted(n)
  BY <1>1, CloneType, CloneSafe, CloneCounted
<1> HIDE DEF q, n
<1>4. n.ht = s.ht /\ n.map = s.map /\ n.usage = s.usage /\ n.os = s.os /\ n.st = s.st
  BY <1>1, <1>2 DEF States
<1> QED
  BY <1>1, <1>3, <1>4, AliveIs, SameHeld DEF n

LEMMA AddItemAlive ==
  ASSUME RoomForMaps, NEW s \in AliveStates, NEW t \in Pids, NEW fd \in Fds,
         NEW my \in RealFds \cup {Virtual}, NEW c, my # Virtual => c = my /\ s.os[my] # Closed,
         s.ht[t][fd] = <<>>
  PROVE  LET n == AddItem(s, t, fd, my, c)
         IN  /\ n \in AliveStates
             /\ \A r \in RealFds : n.usage[r] = s.usage[r] + (IF c = r THEN 1 ELSE 0)
             /\ n.os = s.os
             /\ OneMoreUse(s, n, my)
<1> DEFINE p == NewFdItem(s, t, fd, my)
           u == IncreaseFdUsage(p.usage, c)
           a == [p EXCEPT !.usage = u]
           n == AddItem(s, t, fd, my, c)
<1>1. s \in States /\ Safe(s) /\ Counted(s) /\ s.st = "run" /\ Held(s)
  BY AliveIs
<1>2. FreeGens(s, t, fd) # {}
  BY <1>1, HeldReached, SlotFree
<1>3. /\ p.usage = s.usage /\ p.os = s.os /\ p.st = s.st /\ OneMoreUse(s, p, my)
      /\ p \in States /\ Safe(p)
  BY <1>1, <1>2, UsesAdded, NewFdItemType, NewFdItemSafe
<1>4. Held(p)
  BY <1>1, <1>2, NewFdItemHeld
<1>5. n = a
  BY <1>1, <1>3 DEF AddItem
<1>6. n \in States /\ Safe(n) /\ Counted(n)
  BY <1>1, AddItemType, AddItemSafe, AddItemCounted
<1> HIDE DEF p, u, n
<1>7. n.ht = p.ht /\ n.map = p.map /\ n.os = s.os /\ n.usage = u /\ n.st = "run"
  BY <1>1, <1>3, <1>5 DEF States
<1>8. OneMoreUse(s, n, my)
  BY <1>3, <1>7, SameUses DEF OneMoreUse
<1>9. s.usage \in [RealFds -> Nat]
  BY <1>1 DEF States
<1>10. \A r \in RealFds : u[r] = s.usage[r] + (IF c = r THEN 1 ELSE 0)
  BY <1>3, <1>9, IncreasedCount DEF u
<1>11. Held(n)
  BY <1>4, <1>7, SameHeld
<1> QED
  BY <1>6, <1>7, <1>8, <1>10, <1>11, AliveIs DEF n

LEMMA OpenedItemAlive ==
  ASSUME RoomForMaps, NEW s \in AliveStates, NEW t \in Pids, NEW fd \in Fds,
         NEW file \in Files \cup {Unknown}, FreeFds(s) # {}, s.ht[t][fd] = <<>>
  PROVE  LET n  == OpenedItem(s, t, fd, file)
             my == LowestFree(s)
         IN  /\ n \in AliveStates
             /\ my \in RealFds /\ s.os[my] = Closed /\ n.os[my] # Closed
             /\ \A r \in RealFds : /\ n.usage[r] = s.usage[r] + (IF my = r THEN 1 ELSE 0)
                                   /\ my # r => n.os[r] = s.os[r]
             /\ OneMoreUse(s, n, my)
<1> DEFINE my == LowestFree(s)
           o  == [s.os EXCEPT ![my] = file]
           s1 == [s EXCEPT !.os = o]
           n  == OpenedItem(s, t, fd, file)
<1>1. s \in States /\ Safe(s) /\ Counted(s) /\ s.st = "run" /\ Held(s)
  BY AliveIs
<1>2. my \in RealFds /\ s.os[my] = Closed /\ file # Closed
  BY <1>1, LowestFreeIsFree, NameAssumption
<1>3. n = AddItem(s1, t, fd, my, my)
  BY DEF OpenedItem
<1>4. n \in States /\ Safe(n) /\ Counted(n)
  BY <1>1, OpenedItemCounted
<1> HIDE DEF my, n
<1>5. o \in [RealFds -> Files \cup {Unknown, Closed}]
  BY <1>1 DEF States
<1>6. o[my] = file /\ \A r \in RealFds : r # my => o[r] = s.os[r]
  BY <1>1, <1>2 DEF States
<1> HIDE DEF o
<1>7. /\ s1 \in States /\ s1.ht = s.ht /\ s1.map = s.map /\ s1.st = s.st
      /\ s1.usage = s.usage /\ s1.os = o
  BY <1>1, <1>5 DEF States
<1> HIDE DEF s1
<1>8. Safe(s1) /\ Held(s1)
  BY <1>1, <1>7, SameLinks, SameHeld DEF Safe
<1>9. Counted(s1)
  BY <1>1, <1>2, <1>6, <1>7, SameUses DEF Counted, Counts
<1>10. s1 \in AliveStates
  BY <1>1, <1>7, <1>8, <1>9, AliveIs
<1>11. s1.os[my] # Closed /\ s1.ht[t][fd] = <<>>
  BY <1>2, <1>6, <1>7
<1>12. /\ n \in AliveStates
       /\ \A r \in RealFds : n.usage[r] = s1.usage[r] + (IF my = r THEN 1 ELSE 0)
       /\ n.os = s1.os
       /\ OneMoreUse(s1, n, my)
  BY <1>2, <1>3, <1>10, <1>11, AddItemAlive
<1>13. OneMoreUse(s, n, my)
  BY <1>7, <1>12, SameUses, SMTT(60) DEF OneMoreUse
<1> QED
  BY <1>2, <1>6, <1>7, <1>12, <1>13 DEF my, n

LEMMA ClosedItemAlive ==
  ASSUME NEW s \in AliveStates, NEW t \in Pids, NEW fd \in Fds, s.ht[t][fd] # <<>>
  PROVE  LET n == ClosedItem(s, t, fd, FALSE)
         IN  n \in AliveStates /\ n.ht[t][fd] = <<>>
<1> DEFINE n == ClosedItem(s, t, fd, FALSE)
<1>1. s \in States /\ Safe(s) /\ Counted(s) /\ s.st = "run" /\ Held(s)
  BY AliveIs
<1>2. PICK p \in States : /\ p.ht = s.ht /\ p.map = s.map /\ p.st = s.st /\ Safe(p)
                         /\ n = RemoveFdItem(p, t, fd)
  BY <1>1, ClosedItemEffect
<1>3. n \in States /\ Safe(n) /\ n.st = s.st /\ Counted(n)
  BY <1>1, ClosedItemCounted
<1> HIDE DEF n
<1>4. Held(p) /\ p.ht[t][fd] # <<>>
  BY <1>1, <1>2, SameHeld
<1>5. Held(n) /\ n.ht[t][fd] = <<>>
  BY <1>2, <1>4, RemoveFdItemHeld
<1> QED
  BY <1>1, <1>3, <1>5, AliveIs DEF n

LEMMA LinkedItemAlive ==
  ASSUME RoomForParents, NEW s \in AliveStates, NEW t \in Pids, NEW fd \in Fds, NEW new \in Fds,
         s.ht[t][fd] # <<>>, s.ht[t][new] = <<>>
  PROVE  LET n  == LinkedItem(s, t, fd, new)
             my == s.map[Head(s.ht[t][fd])].my
         IN  /\ n \in AliveStates
             /\ n.usage = IncreaseFdUsage(s.usage, my) /\ n.os = s.os
             /\ OneMoreUse(s, n, my)
             /\ <<fd, Head(s.ht[t][fd])>> \in Uses(s, my)
<1> DEFINE n  == LinkedItem(s, t, fd, new)
           my == s.map[Head(s.ht[t][fd])].my
<1>1. s \in States /\ Safe(s) /\ Counted(s) /\ s.st = "run" /\ Held(s)
  BY AliveIs
<1>2. n \in States /\ Safe(n) /\ Counted(n)
  BY <1>1, LinkedItemSafe, LinkedItemCounted
<1>3. /\ Held(n)
      /\ ~InsertParentAsserts(s.map[Head(s.ht[t][fd])].parents, new)
      /\ Len(s.ht[t][new]) < MaxGens
  BY <1>1, LinkedItemHeld
<1>4. /\ n.usage = IncreaseFdUsage(s.usage, my) /\ n.os = s.os /\ n.st = s.st
      /\ OneMoreUse(s, n, my)
  BY <1>1, <1>3, UsesLinked
<1>5. <<fd, Head(s.ht[t][fd])>> \in Uses(s, my)
  BY <1>1, UsesRemoved
<1> HIDE DEF n
<1>6. n \in AliveStates
  BY <1>1, <1>2, <1>3, <1>4, AliveIs
<1> QED
  BY <1>4, <1>5, <1>6 DEF n

(* replicate_dup has closed new before it files the duplicate, and nothing *)
(* is left under new.                                                      *)
LEMMA ClosedIsVacant ==
  ASSUME ~CloseMayFail, NEW pid \in Pids, NEW G, ItemsKept(pid, G), \A s \in G : s \in AliveStates,
         NEW s0 \in G, NEW new \in Fds, NEW fails, NEW cf \in CloseResults,
         HasTable(Close(s0, pid, new, fails, cf), pid)
  PROVE  LET n == Close(s0, pid, new, fails, cf)
         IN  n.ht[TableOf(n, pid)][new] = <<>>
<1> DEFINE n == Close(s0, pid, new, fails, cf)
           s == GetFdMap(s0, pid, new, fails)
           t == TableOf(s, pid)
<1>0. s0.st = "run"
  BY AliveIs
<1>1. new \in FdArgs /\ cf = FALSE
  BY DEF FdArgs, CloseResults
<1>2. s \in G /\ s.st = "run" /\ s \in AliveStates
  <2>1. s \in G
    BY <1>0, <1>1, GetFdMapKept
  <2> HIDE DEF s
  <2>2. s \in AliveStates
    BY <2>1
  <2> QED
    BY <2>1, <2>2, AliveIs
<1>3. n = IF Found(s, pid, new) THEN ClosedItem(s, t, new, FALSE) ELSE s
  <2>1. n = IF Found(s, pid, new) THEN ClosedItem(s, t, new, cf) ELSE s
    BY <1>0, <1>1, CloseKept
  <2> QED
    BY <1>1, <2>1
<1>4. s \in States
  BY <1>2, AliveIs
<1> HIDE DEF s, n
<1>5. CASE Found(s, pid, new)
  <2>1. t \in Pids /\ s.ht[t][new] # <<>>
    BY <1>4, <1>5, FoundItem DEF TableOf
  <2>2. n.ht[t][new] = <<>>
    BY <1>2, <1>3, <1>5, <2>1, ClosedItemAlive
  <2>3. TableOf(n, pid) = t
    <3>1. n.proc = s.proc
      <4>1. Safe(s) /\ Counted(s)
        BY <1>2, AliveIs
      <4>2. PICK p \in States : /\ p.ht = s.ht /\ p.proc = s.proc
                               /\ n = RemoveFdItem(p, t, new)
        BY <1>3, <1>4, <1>5, <2>1, <4>1, ClosedItemEffect
      <4> QED
        BY <2>1, <4>2, RemoveFdItemFrame DEF Frame
    <3> QED
      BY <3>1 DEF TableOf, GetProcessHt
  <2> QED
    BY <2>2, <2>3 DEF n
<1>6. CASE ~Found(s, pid, new)
  BY <1>2, <1>3, <1>6 DEF Found, Chain, TableOf, n
<1> QED
  BY <1>5, <1>6

LEMMA AliveKept ==
  ASSUME RoomForParents, RoomForMaps, ~CloseMayFail, ~MinusOne, NEW pid \in Pids
  PROVE  KeptBy(pid, AliveStates)
<1> DEFINE G == AliveStates
<1>1. \A s \in G : s \in States /\ Safe(s)
  BY AliveIs
<1>2. ASSUME NEW s \in G PROVE Clone(s, Root, pid, TRUE) \in G
  BY CloneAlive, RootAssumption
<1>3. ASSUME NEW s \in G, NEW fd \in Fds, NEW c, Vacant(s, pid, fd)
      PROVE  AddItem(s, TableOf(s, pid), fd, Virtual, c) \in G
  <2>1. TableOf(s, pid) \in Pids /\ s.ht[TableOf(s, pid)][fd] = <<>>
    BY <1>3 DEF Vacant, HasTable, Chain, TableOf
  <2> QED
    BY <2>1, AddItemAlive
<1>4. ASSUME NEW s \in G, NEW fd \in Fds, NEW file \in Files \cup {Unknown},
             Vacant(s, pid, fd), FreeFds(s) # {}
      PROVE  OpenedItem(s, TableOf(s, pid), fd, file) \in G
  <2>1. TableOf(s, pid) \in Pids /\ s.ht[TableOf(s, pid)][fd] = <<>>
    BY <1>4 DEF Vacant, HasTable, Chain, TableOf
  <2> QED
    BY <1>4, <2>1, OpenedItemAlive
<1>5. ASSUME NEW s \in G, NEW fd \in Fds, NEW cf \in CloseResults, Found(s, pid, fd)
      PROVE  ClosedItem(s, TableOf(s, pid), fd, cf) \in G
  <2>1. TableOf(s, pid) \in Pids /\ s.ht[TableOf(s, pid)][fd] # <<>> /\ cf = FALSE
    BY <1>1, <1>5, FoundItem DEF TableOf, CloseResults
  <2> QED
    BY <2>1, ClosedItemAlive
<1>6. ItemsKept(pid, G)
  <2> HIDE DEF G
  <2> QED
    BY <1>1, <1>2, <1>3, <1>4, <1>5 DEF ItemsKept
<1>7. ASSUME NEW s \in G, NEW fd \in Fds, NEW new \in Fds, NEW fails \in SUBSET Fds,
             NEW cf \in CloseResults, NEW r \in G,
             r = Close(s, pid, new, fails, cf), Found(r, pid, fd)
      PROVE  LinkedItem(r, TableOf(r, pid), fd, new) \in G
  <2>1. HasTable(r, pid) /\ TableOf(r, pid) \in Pids /\ r.ht[TableOf(r, pid)][fd] # <<>>
    BY <1>1, <1>7, FoundItem DEF TableOf, Found
  <2>2. r.ht[TableOf(r, pid)][new] = <<>>
    BY <1>6, <1>7, <2>1, ClosedIsVacant
  <2> QED
    BY <2>1, <2>2, LinkedItemAlive
<1> HIDE DEF G
<1> QED
  BY <1>6, <1>7 DEF KeptBy, G

LEMMA InitAlive == Init => Cur \in AliveStates
<1> SUFFICES ASSUME Init PROVE Cur \in AliveStates
  OBVIOUS
<1>1. Cur \in CountedStates /\ Cur.st = "run" /\ Cur.ht = ht /\ Cur.map = map
  BY InitCounted DEF Init, Cur
<1>2. ASSUME NEW t \in Pids, NEW f \in Fds
      PROVE  \/ ht[t][f] = <<>>
             \/ t = Root /\ f \in StdFds /\ ht[t][f] = <<<<t, f, 1>>>>
  BY DEF Init
<1>3. ASSUME NEW m \in MapIds, map[m] # Nil
      PROVE  m[1] = Root /\ m[2] \in StdFds /\ m[3] = 1 /\ map[m].parents = {m[2]}
  <2>1. /\ m[1] = Root /\ m[2] \in StdFds /\ m[3] = 1
        /\ map[m] = [my |-> Virtual, parents |-> {m[2]}]
    BY <1>3 DEF Init
  <2> QED
    BY <2>1
<1>4. ASSUME NEW m \in MapIds, map[m] # Nil, NEW f \in map[m].parents
      PROVE  InChain(ht[m[1]][f], m)
  <2>1. m = <<Root, m[2], 1>> /\ m[2] \in StdFds /\ f = m[2] /\ m[1] = Root
    <3>1. m[1] = Root /\ m[2] \in StdFds /\ m[3] = 1 /\ f = m[2]
      BY <1>3, <1>4
    <3> HIDE DEF StdFds
    <3> QED
      BY <3>1 DEF MapIds
  <2>2. m[2] \in Fds
    BY DEF MapIds
  <2>3. ht[Root][f] = <<m>>
    BY <2>1, <2>2, RootAssumption DEF Init
  <2> QED
    BY <2>1, <2>3 DEF InChain
<1>5. \A m \in MapIds : map[m] # Nil => map[m].parents # {}
  <2> SUFFICES ASSUME NEW m \in MapIds, map[m] # Nil PROVE map[m].parents # {}
    OBVIOUS
  <2>1. map[m].parents = {m[2]}
    BY <1>3
  <2> QED
    BY <2>1
<1>6. \A t \in Pids, f \in Fds : Len(ht[t][f]) <= 1
  <2>1. Len(<<>>) <= 1 /\ \A x : Len(<<x>>) <= 1
    OBVIOUS
  <2> QED
    BY <1>2, <2>1, Zenon
<1>7. Held(Cur)
  BY <1>1, <1>4, <1>5, <1>6 DEF Held
<1> QED
  BY <1>1, <1>7 DEF AliveStates

LEMMA AliveStep ==
  ASSUME RoomForParents, RoomForMaps, ~DupSelf, ~CloseMayFail, ~MinusOne, "fork" \notin Ops,
         Cur \in AliveStates, [Next]_vars
  PROVE  Cur' \in AliveStates
<1> DEFINE G == AliveStates
<1>1. \A pid \in Pids : KeptBy(pid, G)
  BY AliveKept
<1>2. ASSUME NEW s \in G, NEW pid \in Pids, NEW child \in Children, NEW share \in BOOLEAN,
             (IF share THEN "thread" ELSE "fork") \in Ops
      PROVE  Clone(s, pid, child, share) \in G
  <2>1. share = TRUE /\ child \in Pids
    BY <1>2 DEF Children
  <2> QED
    BY <2>1, CloneAlive
<1>3. Cur \in G
  OBVIOUS
<1> HIDE DEF G
<1>4. Cur' \in G
  BY <1>1, <1>2, <1>3, StepKept
<1> QED
  BY <1>4 DEF G

(* The replayer survives every trace without fork, calls on fd -1 and      *)
(* dup2 of a descriptor onto itself, whatever opens fail: no assertion of  *)
(* insert_parent_fd, delete_parent_fd, decrease_fd_usage or ht_hash_int    *)
(* fails and no freed fd_map is met.  MAX_PARENT_IDS must have room for    *)
(* all descriptors, the closes of the replayer must succeed, and the heap  *)
(* of the model is as large as the program could ever need.                *)
THEOREM ThreadsSurvive ==
  (/\ RoomForParents /\ RoomForMaps /\ ~DupSelf /\ ~CloseMayFail /\ ~MinusOne
   /\ "fork" \notin Ops) => (Spec => []NeverDies)
<1> SUFFICES ASSUME RoomForParents, RoomForMaps, ~DupSelf, ~CloseMayFail, ~MinusOne,
                    "fork" \notin Ops
             PROVE  Spec => []NeverDies
  OBVIOUS
<1>1. Init => Cur \in AliveStates
  BY InitAlive
<1>2. Cur \in AliveStates /\ [Next]_vars => (Cur \in AliveStates)'
  BY AliveStep
<1>3. Cur \in AliveStates => NeverDies
  BY AliveIs DEF NeverDies, Cur
<1> QED
  BY <1>1, <1>2, <1>3, PTL DEF Spec

-----------------------------------------------------------------------------
(* Without pipes as well, whose counts nobody gives up, the counts are     *)
(* exact and nothing stays open that is not used.                          *)
Exact(s, r) == /\ Cardinality(Uses(s, r)) = s.usage[r]
               /\ Uses(s, r) = {} => s.os[r] = Closed
ExactStates == {s \in AliveStates : \A r \in RealFds : Exact(s, r)}

LEMMA MoreExact ==
  ASSUME NEW s \in ExactStates, NEW n \in AliveStates, NEW my, OneMoreUse(s, n, my),
         \A r \in RealFds : /\ n.usage[r] = s.usage[r] + (IF my = r THEN 1 ELSE 0)
                            /\ my # r => n.os[r] = s.os[r]
  PROVE  n \in ExactStates
<1>1. PICK x : \A r : /\ x \notin Uses(s, r)
                      /\ Uses(n, r) = Uses(s, r) \cup (IF my = r THEN {x} ELSE {})
  BY DEF OneMoreUse
<1>2. ASSUME NEW r \in RealFds PROVE Exact(n, r)
  <2>1. Exact(s, r) /\ IsFiniteSet(Uses(s, r)) /\ s.usage[r] \in Nat
    BY AliveIs DEF ExactStates, Counted, Counts, States
  <2>2. CASE my = r
    <3>1. Uses(n, r) = Uses(s, r) \cup {x} /\ x \notin Uses(s, r)
      BY <1>1, <2>2
    <3>2. Cardinality(Uses(n, r)) = Cardinality(Uses(s, r)) + 1
      BY <2>1, <3>1, FS_AddElement
    <3>3. Uses(n, r) # {}
      BY <3>1
    <3> QED
      BY <2>1, <2>2, <3>2, <3>3 DEF Exact
  <2>3. CASE my # r
    <3>1. Uses(n, r) = Uses(s, r)
      BY <1>1, <2>3
    <3> QED
      BY <2>1, <2>3, <3>1 DEF Exact
  <2> QED
    BY <2>2, <2>3
<1> QED
  BY <1>2 DEF ExactStates

LEMMA ClosedItemExact ==
  ASSUME NEW s \in ExactStates, NEW t \in Pids, NEW fd \in Fds, s.ht[t][fd] # <<>>
  PROVE  ClosedItem(s, t, fd, FALSE) \in ExactStates
<1> DEFINE m == s.map[Head(s.ht[t][fd])]
           x == <<fd, Head(s.ht[t][fd])>>
           n == ClosedItem(s, t, fd, FALSE)
<1>1. s \in AliveStates /\ s \in States /\ Safe(s) /\ Counted(s)
  BY AliveIs DEF ExactStates
<1>2. n \in AliveStates
  BY <1>1, ClosedItemAlive
<1>3. \A r \in RealFds : /\ n.usage[r] = IF m.my = r THEN s.usage[r] - 1 ELSE s.usage[r]
                         /\ n.os[r] = IF m.my = r /\ s.usage[r] = 1 THEN Closed ELSE s.os[r]
  BY <1>1, ClosedItemEffect
<1>4. x \in Uses(s, m.my) /\ OneUseGone(s, n, x)
  BY <1>1, ClosedItemEffect
<1> HIDE DEF n
<1>5. ASSUME NEW r \in RealFds PROVE Exact(n, r)
  <2> DEFINE U == Uses(s, r)
  <2>1. /\ IsFiniteSet(U) /\ Cardinality(U) = s.usage[r] /\ s.usage[r] \in Nat
        /\ U = {} => s.os[r] = Closed
    BY <1>1 DEF ExactStates, Exact, Counted, Counts, States
  <2>2. Uses(n, r) = U \ {x}
    BY <1>4 DEF OneUseGone
  <2>3. CASE m.my = r
    <3>1. x \in U
      BY <1>4, <2>3
    <3> HIDE DEF U, x, m
    <3>2. IsFiniteSet(U \ {x}) /\ Cardinality(U \ {x}) = Cardinality(U) - 1
      BY <2>1, <3>1, OneLess
    <3>3. U \ {x} = {} => Cardinality(U \ {x}) = 0
      BY FS_EmptySet
    <3>4. U \ {x} = {} => s.usage[r] = 1
      BY <2>1, <3>2, <3>3
    <3> QED
      BY <1>3, <2>1, <2>2, <2>3, <3>2, <3>4 DEF Exact
  <2>4. CASE m.my # r
    <3>1. x \notin U
      BY <2>4 DEF Uses
    <3>2. Uses(n, r) = U
      BY <2>2, <3>1
    <3> HIDE DEF U, x, m
    <3> QED
      BY <1>3, <2>1, <2>4, <3>2 DEF Exact
  <2> QED
    BY <2>3, <2>4
<1> QED
  BY <1>2, <1>5 DEF ExactStates, n

LEMMA CloneExact ==
  ASSUME NEW s \in ExactStates, NEW parent \in Pids, NEW child \in Pids
  PROVE  Clone(s, parent, child, TRUE) \in ExactStates
<1> DEFINE n == Clone(s, parent, child, TRUE)
<1>1. s \in AliveStates
  BY DEF ExactStates
<1>2. n \in AliveStates /\ n.ht = s.ht /\ n.map = s.map /\ n.usage = s.usage /\ n.os = s.os
  BY <1>1, CloneAlive
<1> HIDE DEF n
<1>3. \A r \in RealFds : Exact(n, r)
  BY <1>2, SameUses DEF Exact, ExactStates
<1> QED
  BY <1>2, <1>3 DEF ExactStates, n

LEMMA ExactKept ==
  ASSUME RoomForParents, RoomForMaps, ~CloseMayFail, ~MinusOne, "pipe" \notin Ops, NEW pid \in Pids
  PROVE  KeptBy(pid, ExactStates)
<1> DEFINE G == ExactStates
<1>1. \A s \in G : s \in AliveStates /\ s \in States /\ Safe(s)
  BY AliveIs DEF ExactStates
<1>2. ASSUME NEW s \in G PROVE Clone(s, Root, pid, TRUE) \in G
  BY CloneExact, RootAssumption
<1>3. ASSUME NEW s \in G, NEW fd \in Fds, Vacant(s, pid, fd)
      PROVE  AddItem(s, TableOf(s, pid), fd, Virtual, Virtual) \in G
  <2> DEFINE n == AddItem(s, TableOf(s, pid), fd, Virtual, Virtual)
  <2>1. TableOf(s, pid) \in Pids /\ s.ht[TableOf(s, pid)][fd] = <<>>
    BY <1>3 DEF Vacant, HasTable, Chain, TableOf
  <2>2. /\ n \in AliveStates /\ n.os = s.os /\ OneMoreUse(s, n, Virtual)
        /\ \A r \in RealFds : n.usage[r] = s.usage[r] + (IF Virtual = r THEN 1 ELSE 0)
    BY <1>1, <2>1, AddItemAlive
  <2> HIDE DEF n
  <2>3. n \in G
    BY <2>2, MoreExact
  <2> QED
    BY <2>3 DEF n
<1>4. ASSUME NEW s \in G, NEW fd \in Fds, NEW file \in Files \cup {Unknown},
             Vacant(s, pid, fd), FreeFds(s) # {}
      PROVE  OpenedItem(s, TableOf(s, pid), fd, file) \in G
  <2> DEFINE n  == OpenedItem(s, TableOf(s, pid), fd, file)
             my == LowestFree(s)
  <2>1. TableOf(s, pid) \in Pids /\ s.ht[TableOf(s, pid)][fd] = <<>>
    BY <1>4 DEF Vacant, HasTable, Chain, TableOf
  <2>2. /\ n \in AliveStates /\ OneMoreUse(s, n, my)
        /\ \A r \in RealFds : /\ n.usage[r] = s.usage[r] + (IF my = r THEN 1 ELSE 0)
                              /\ my # r => n.os[r] = s.os[r]
    BY <1>1, <1>4, <2>1, OpenedItemAlive
  <2> HIDE DEF n, my
  <2>3. n \in G
    BY <2>2, MoreExact
  <2> QED
    BY <2>3 DEF n
<1>5. ASSUME NEW s \in G, NEW fd \in Fds, NEW cf \in CloseResults, Found(s, pid, fd)
      PROVE  ClosedItem(s, TableOf(s, pid), fd, cf) \in G
  <2>1. TableOf(s, pid) \in Pids /\ s.ht[TableOf(s, pid)][fd] # <<>> /\ cf = FALSE
    BY <1>1, <1>5, FoundItem DEF TableOf, CloseResults
  <2> QED
    BY <2>1, ClosedItemExact
<1>6. ItemsKept(pid, G)
  <2> HIDE DEF G
  <2> QED
    BY <1>1, <1>2, <1>3, <1>4, <1>5 DEF ItemsKept
<1>7. ASSUME NEW s \in G, NEW fd \in Fds, NEW new \in Fds, NEW fails \in SUBSET Fds,
             NEW cf \in CloseResults, NEW q \in G,
             q = Close(s, pid, new, fails, cf), Found(q, pid, fd)
      PROVE  LinkedItem(q, TableOf(q, pid), fd, new) \in G
  <2> DEFINE t  == TableOf(q, pid)
             n  == LinkedItem(q, t, fd, new)
             my == q.map[Head(q.ht[t][fd])].my
  <2>1. HasTable(q, pid) /\ t \in Pids /\ q.ht[t][fd] # <<>>
    BY <1>1, <1>7, FoundItem DEF TableOf, Found
  <2>2. q.ht[t][new] = <<>>
    BY <1>1, <1>6, <1>7, <2>1, ClosedIsVacant
  <2>3. /\ n \in AliveStates /\ OneMoreUse(q, n, my)
        /\ n.usage = IncreaseFdUsage(q.usage, my) /\ n.os = q.os
    <3>1. q \in AliveStates
      BY <1>1
    <3> HIDE DEF t
    <3> QED
      BY <2>1, <2>2, <3>1, LinkedItemAlive, ZenonT(60)
  <2>4. q.usage \in [RealFds -> Nat]
    BY <1>1 DEF States
  <2> HIDE DEF n, my
  <2>5. \A r \in RealFds : n.usage[r] = q.usage[r] + (IF my = r THEN 1 ELSE 0)
    BY <2>3, <2>4, IncreasedCount
  <2>6. n \in G
    BY <2>3, <2>5, MoreExact
  <2> QED
    BY <2>6 DEF n
<1> HIDE DEF G
<1> QED
  BY <1>6, <1>7 DEF KeptBy, G

LEMMA InitExact == Init => Cur \in ExactStates
<1> SUFFICES ASSUME Init PROVE Cur \in ExactStates
  OBVIOUS
<1>1. Cur \in AliveStates /\ Counted(Cur)
  BY InitAlive, AliveIs
<1>2. ASSUME NEW r \in RealFds PROVE Exact(Cur, r)
  <2>1. Cur.usage[r] = 0 /\ Cur.os[r] = Closed
    BY DEF Init, Cur
  <2>2. Uses(Cur, r) = {}
    BY <1>1, <2>1 DEF Counted, Counts
  <2> QED
    BY <2>1, <2>2, FS_EmptySet DEF Exact
<1> QED
  BY <1>1, <1>2 DEF ExactStates

LEMMA ExactStep ==
  ASSUME RoomForParents, RoomForMaps, ~DupSelf, ~CloseMayFail, ~MinusOne,
         "fork" \notin Ops, "pipe" \notin Ops, Cur \in ExactStates, [Next]_vars
  PROVE  Cur' \in ExactStates
<1> DEFINE G == ExactStates
<1>1. \A pid \in Pids : KeptBy(pid, G)
  BY ExactKept
<1>2. ASSUME NEW s \in G, NEW pid \in Pids, NEW child \in Children, NEW share \in BOOLEAN,
             (IF share THEN "thread" ELSE "fork") \in Ops
      PROVE  Clone(s, pid, child, share) \in G
  <2>1. share = TRUE /\ child \in Pids
    BY <1>2 DEF Children
  <2> QED
    BY <2>1, CloneExact
<1>3. Cur \in G
  OBVIOUS
<1> HIDE DEF G
<1>4. Cur' \in G
  BY <1>1, <1>2, <1>3, StepKept
<1> QED
  BY <1>4 DEF G

(* With one item in a chain, every use is a user that a run counts.        *)
LEMMA UsesAreUsers ==
  ASSUME Cur \in AliveStates, NEW r \in RealFds, IsFiniteSet(Users(r))
  PROVE  Cardinality(Uses(Cur, r)) <= Cardinality(Users(r))
<1> DEFINE g == [y \in Uses(Cur, r) |-> <<y[2][1], y[1], 1>>]
<1>1. Cur.ht = ht /\ Cur.map = map /\ Cur \in States /\ Safe(Cur) /\ Held(Cur)
  BY AliveIs DEF Cur
<1>2. ASSUME NEW y \in Uses(Cur, r)
      PROVE  /\ y = <<y[1], y[2]>>
             /\ g[y][2] = y[1]
             /\ g[y][1] = y[2][1]
             /\ ht[y[2][1]][y[1]][1] = y[2]
             /\ g[y] \in Users(r)
  <2>1. PICK f \in Fds, m \in MapIds : y = <<f, m>>
    BY DEF Uses
  <2>2. InChain(ht[m[1]][f], m) /\ map[m] # Nil /\ map[m].my = r
    BY <1>1, <2>1 DEF Uses
  <2> DEFINE q == ht[m[1]][f]
  <2>3. m[1] \in Pids
    BY DEF MapIds
  <2>4. q \in Seq(MapIds) /\ Len(q) <= 1
    BY <1>1, <2>3 DEF States, Held
  <2>5. q # <<>> /\ m = Head(q)
    BY <2>2, <2>4, EmptyChain, ShortChain
  <2>6. Len(q) = 1 /\ q[1] = m
    BY <2>4, <2>5, ShortChain
  <2> HIDE DEF q
  <2>7. 1 \in Gens
    BY BoundAssumption DEF Gens
  <2>8. <<f, 1>> \in UsersIn(Cur, m[1], r)
    BY <1>1, <2>2, <2>6, <2>7 DEF UsersIn, Places, MapAt, q
  <2>9. <<m[1], f, 1>> \in Users(r)
    BY <2>3, <2>7, <2>8 DEF Users
  <2>10. g[y] = <<m[1], f, 1>>
    BY <2>1
  <2> HIDE DEF g
  <2> QED
    BY <2>1, <2>6, <2>9, <2>10 DEF q
<1> HIDE DEF g
<1>3. ASSUME NEW x \in Uses(Cur, r), NEW y \in Uses(Cur, r), g[x] = g[y] PROVE x = y
  BY <1>2, <1>3
<1>4. g \in [Uses(Cur, r) -> Users(r)]
  BY <1>2 DEF g
<1>5. g \in Injection(Uses(Cur, r), Users(r))
  BY <1>3, <1>4, Fun_IsInj
<1> QED
  BY <1>5, FS_Injection

LEMMA ExactMeans == Cur \in ExactStates => UsageExact
<1> SUFFICES ASSUME Cur \in ExactStates, NEW r \in RealFds
             PROVE  usage[r] = Cardinality(Users(r)) /\ (os[r] = Closed <=> Users(r) = {})
  BY DEF UsageExact
<1> DEFINE U == Uses(Cur, r)
           W == Users(r)
<1>1. Cur \in AliveStates /\ Cur \in States /\ Safe(Cur) /\ Counts(Cur, r) /\ Exact(Cur, r)
  BY AliveIs DEF ExactStates, Counted
<1>2. Cur.usage = usage /\ Cur.os = os
  BY DEF Cur
<1>3. IsFiniteSet(U) /\ IsFiniteSet(W) /\ Cardinality(W) <= Cardinality(U)
  BY <1>1, UsersAreUses DEF Counts
<1>4. Cardinality(U) <= Cardinality(W)
  BY <1>1, <1>3, UsesAreUsers
<1>5. /\ Cardinality(U) \in Nat /\ Cardinality(W) \in Nat
      /\ Cardinality(U) = 0 <=> U = {}
      /\ Cardinality(W) = 0 <=> W = {}
  BY <1>3, FS_CardinalityType, FS_EmptySet
<1>6. usage[r] = Cardinality(U) /\ (os[r] = Closed <=> U = {})
  BY <1>1, <1>2 DEF Exact, Counts
<1> HIDE DEF U, W
<1>7. Cardinality(U) = Cardinality(W)
  BY <1>3, <1>4, <1>5
<1> QED
  BY <1>5, <1>6, <1>7 DEF W

(* With threads but neither forks nor pipes, usage_map counts exactly the  *)
(* items that use a real descriptor, and the replayer has a descriptor     *)
(* open if and only if a recorded one is mapped to it: replicate_close     *)
(* leaks none and closes none too early.                                   *)
THEOREM UsageIsExact ==
  (/\ RoomForParents /\ RoomForMaps /\ ~DupSelf /\ ~CloseMayFail /\ ~MinusOne
   /\ "fork" \notin Ops /\ "pipe" \notin Ops) => (Spec => []UsageExact)
<1> SUFFICES ASSUME RoomForParents, RoomForMaps, ~DupSelf, ~CloseMayFail, ~MinusOne,
                    "fork" \notin Ops, "pipe" \notin Ops
             PROVE  Spec => []UsageExact
  OBVIOUS
<1>1. Init => Cur \in ExactStates
  BY InitExact
<1>2. Cur \in ExactStates /\ [Next]_vars => (Cur \in ExactStates)'
  BY ExactStep
<1>3. Cur \in ExactStates => UsageExact
  BY ExactMeans
<1> QED
  BY <1>1, <1>2, <1>3, PTL DEF Spec

-----------------------------------------------------------------------------
(* A handler changes what descriptors refer to in one table only.          *)
ViewIn(s, w, fd) ==
  IF s.ht[w][fd] = <<>> THEN Closed
  ELSE LET m == s.map[Head(s.ht[w][fd])]
       IN  IF m = Nil THEN Nil ELSE IF SupportedType(m) THEN s.os[m.my] ELSE Virtual

(* A change of table t: the chains and fd_maps of the others stay, and     *)
(* what is open is not opened on something else.                           *)
Elsewhere(s, n, t) ==
  /\ \A w \in Pids : w # t => n.ht[w] = s.ht[w]
  /\ \A y \in MapIds : y[1] # t => n.map[y] = s.map[y]
  /\ \A r \in RealFds : s.os[r] # Closed /\ n.os[r] # Closed => n.os[r] = s.os[r]

(* The real descriptor of an item of another table is in use before and    *)
(* after, so that it is neither opened nor closed in between.              *)
LEMMA ViewsKept ==
  ASSUME NEW s \in CountedStates, NEW n \in CountedStates, NEW t, Elsewhere(s, n, t),
         NEW w \in Pids, w # t, NEW fd \in Fds
  PROVE  ViewIn(n, w, fd) = ViewIn(s, w, fd)
<1>1. s \in States /\ Safe(s) /\ Counted(s) /\ n \in States /\ Safe(n) /\ Counted(n)
  BY DEF CountedStates
<1>2. n.ht[w] = s.ht[w]
  BY DEF Elsewhere
<1>3. CASE s.ht[w][fd] = <<>>
  BY <1>2, <1>3 DEF ViewIn
<1>4. CASE s.ht[w][fd] # <<>>
  <2> DEFINE q == s.ht[w][fd]
             y == Head(q)
             m == s.map[y]
  <2>1. y \in MapIds /\ y[1] = w /\ m # Nil /\ m \in FdMaps
    BY <1>1, <1>4, HeadLinked DEF Safe
  <2>2. n.map[y] = m
    BY <2>1 DEF Elsewhere
  <2>3. q \in Seq(MapIds) /\ q # <<>>
    BY <1>1, <1>4 DEF States
  <2> HIDE DEF q
  <2>4. InChain(q, y)
    <3>1. q[1] = y /\ 1 \in 1..Len(q)
      BY <2>3
    <3> QED
      BY <3>1 DEF InChain
  <2>5. InChain(s.ht[y[1]][fd], y) /\ InChain(n.ht[y[1]][fd], y)
    BY <1>2, <2>1, <2>4 DEF q
  <2> HIDE DEF y
  <2>6. SupportedType(m) => m.my \in RealFds
    BY <2>1 DEF SupportedType, FdMaps
  <2> HIDE DEF m
  <2>7. <<fd, y>> \in Uses(s, m.my) /\ <<fd, y>> \in Uses(n, m.my)
    BY <1>1, <2>1, <2>2, <2>5, UseOf DEF m
  <2>8. SupportedType(m) => s.os[m.my] # Closed /\ n.os[m.my] # Closed
    BY <1>1, <2>6, <2>7 DEF Counted, Counts
  <2>9. SupportedType(m) => n.os[m.my] = s.os[m.my]
    BY <2>6, <2>8 DEF Elsewhere
  <2> QED
    BY <1>2, <1>4, <2>1, <2>2, <2>9 DEF ViewIn, m, y, q
<1> QED
  BY <1>3, <1>4

LEMMA SameElsewhere ==
  ASSUME NEW s, NEW n, n.ht = s.ht, n.map = s.map, n.os = s.os, NEW t
  PROVE  Elsewhere(s, n, t)
BY DEF Elsewhere

LEMMA AddItemElsewhere ==
  ASSUME NEW s \in States, NEW t \in Pids, NEW fd \in Fds, NEW my \in RealFds \cup {Virtual}, NEW c
  PROVE  LET n == AddItem(s, t, fd, my, c)
         IN  n.os = s.os /\ n.proc = s.proc /\ Elsewhere(s, n, t)
<1> DEFINE p == NewFdItem(s, t, fd, my)
           u == IncreaseFdUsage(p.usage, c)
           a == [p EXCEPT !.usage = u]
           n == AddItem(s, t, fd, my, c)
<1>1. p \in States /\ p.os = s.os /\ p.proc = s.proc /\ Elsewhere(s, p, t)
  <2>1. CASE FreeGens(s, t, fd) = {}
    BY <2>1, NewFdItemType DEF NewFdItem, Stop, States, Elsewhere
  <2>2. CASE FreeGens(s, t, fd) # {}
    <3> DEFINE m == <<t, fd, CHOOSE g \in FreeGens(s, t, fd) : TRUE>>
               h == [s.ht EXCEPT ![t] = [s.ht[t] EXCEPT ![fd] = Append(s.ht[t][fd], m)]]
               v == [my |-> my, parents |-> {fd}]
               k == [s.map EXCEPT ![m] = v]
    <3>1. p = [s EXCEPT !.ht = h, !.map = k]
      BY <2>2 DEF NewFdItem
    <3>2. m[1] = t
      OBVIOUS
    <3>3. p \in States
      BY NewFdItemType
    <3> HIDE DEF m, v, p
    <3>4. \A w \in Pids : w # t => h[w] = s.ht[w]
      BY DEF States
    <3>5. \A y \in MapIds : y[1] # t => k[y] = s.map[y]
      BY <3>2 DEF States
    <3> HIDE DEF h, k
    <3>6. p.ht = h /\ p.map = k /\ p.os = s.os /\ p.proc = s.proc
      BY <3>1 DEF States
    <3> QED
      BY <3>3, <3>4, <3>5, <3>6 DEF Elsewhere
  <2> QED
    BY <2>1, <2>2
<1>2. n = IF p.st # "run" THEN p ELSE a
  BY DEF AddItem
<1> HIDE DEF p, u, n
<1>3. a.ht = p.ht /\ a.map = p.map /\ a.os = p.os /\ a.proc = p.proc
  BY <1>1 DEF States
<1>4. Elsewhere(s, a, t)
  BY <1>1, <1>3 DEF Elsewhere
<1> QED
  BY <1>1, <1>2, <1>3, <1>4 DEF n

LEMMA OpenedItemElsewhere ==
  ASSUME NEW s \in States, NEW t \in Pids, NEW fd \in Fds, NEW file \in Files \cup {Unknown},
         FreeFds(s) # {}
  PROVE  LET n == OpenedItem(s, t, fd, file)
         IN  n.proc = s.proc /\ Elsewhere(s, n, t)
<1> DEFINE r  == LowestFree(s)
           o  == [s.os EXCEPT ![r] = file]
           s1 == [s EXCEPT !.os = o]
           n  == OpenedItem(s, t, fd, file)
<1>1. r \in RealFds /\ s.os[r] = Closed
  BY LowestFreeIsFree
<1>2. n = AddItem(s1, t, fd, r, r)
  BY DEF OpenedItem
<1> HIDE DEF r, n
<1>3. o \in [RealFds -> Files \cup {Unknown, Closed}]
  BY DEF States
<1>4. \A q \in RealFds : q # r => o[q] = s.os[q]
  BY <1>1 DEF States
<1> HIDE DEF o
<1>5. s1 \in States /\ s1.ht = s.ht /\ s1.map = s.map /\ s1.proc = s.proc /\ s1.os = o
  BY <1>3 DEF States
<1> HIDE DEF s1
<1>6. n.os = s1.os /\ n.proc = s1.proc /\ Elsewhere(s1, n, t)
  BY <1>1, <1>2, <1>5, AddItemElsewhere
<1>7. Elsewhere(s, n, t)
  BY <1>1, <1>4, <1>5, <1>6 DEF Elsewhere
<1> QED
  BY <1>5, <1>6, <1>7 DEF n

LEMMA ClosedItemElsewhere ==
  ASSUME NEW s \in States, NEW t \in Pids, NEW fd \in Fds, s.ht[t][fd] # <<>>,
         Safe(s), Counted(s)
  PROVE  LET n == ClosedItem(s, t, fd, FALSE)
         IN  n.proc = s.proc /\ Elsewhere(s, n, t)
<1> DEFINE n == ClosedItem(s, t, fd, FALSE)
<1>1. PICK p \in States : /\ p.proc = s.proc /\ p.ht = s.ht /\ p.map = s.map /\ p.st = s.st
                         /\ Safe(p) /\ n = RemoveFdItem(p, t, fd)
  BY ClosedItemEffect, ZenonT(60)
<1>2. \A r \in RealFds : n.os[r] # Closed => n.os[r] = s.os[r]
  <2>1. \A r \in RealFds :
          n.os[r] = IF s.map[Head(s.ht[t][fd])].my = r /\ s.usage[r] = 1 THEN Closed ELSE s.os[r]
    BY ClosedItemEffect, ZenonT(60)
  <2> HIDE DEF n
  <2> QED
    BY <2>1
<1> HIDE DEF n
<1> DEFINE m == Head(p.ht[t][fd])
           d == DeleteParentFd(p.map[m].parents, fd)
           h == [p.ht EXCEPT ![t] = [p.ht[t] EXCEPT ![fd] = Tail(p.ht[t][fd])]]
           v == IF d = {} \/ ~Referenced(h, m) THEN Nil ELSE [p.map[m] EXCEPT !.parents = d]
           k == [p.map EXCEPT ![m] = v]
<1>3. m \in MapIds /\ m[1] = t
  BY <1>1, HeadLinked DEF Safe
<1>4. n = Stop(p, "assert_parent") \/ n = [p EXCEPT !.ht = h, !.map = k]
  BY <1>1 DEF RemoveFdItem
<1> HIDE DEF m, v
<1>5. \A w \in Pids : w # t => h[w] = p.ht[w]
  BY DEF States
<1>6. \A y \in MapIds : y[1] # t => k[y] = p.map[y]
  BY <1>3 DEF States
<1> HIDE DEF h, k
<1>7. CASE n = Stop(p, "assert_parent")
  <2>1. n.ht = p.ht /\ n.map = p.map /\ n.proc = p.proc
    BY <1>7 DEF Stop, States
  <2> QED
    BY <1>1, <1>2, <2>1 DEF Elsewhere, n
<1>8. CASE n = [p EXCEPT !.ht = h, !.map = k]
  <2>1. n.ht = h /\ n.map = k /\ n.proc = p.proc
    BY <1>8 DEF States
  <2> QED
    BY <1>1, <1>2, <1>5, <1>6, <2>1 DEF Elsewhere, n
<1> QED
  BY <1>4, <1>7, <1>8

LEMMA LinkedItemElsewhere ==
  ASSUME NEW s \in States, NEW t \in Pids, NEW fd \in Fds, NEW new \in Fds,
         s.ht[t][fd] # <<>>, Safe(s)
  PROVE  LET n == LinkedItem(s, t, fd, new)
         IN  n.proc = s.proc /\ Elsewhere(s, n, t)
<1> DEFINE id == Head(s.ht[t][fd])
           m  == s.map[id]
           v  == [m EXCEPT !.parents = InsertParentFd(m.parents, new)]
           k  == [s.map EXCEPT ![id] = v]
           h  == [s.ht EXCEPT ![t] = [s.ht[t] EXCEPT ![new] = Append(s.ht[t][new], id)]]
           u  == IncreaseFdUsage(s.usage, m.my)
           n  == LinkedItem(s, t, fd, new)
<1>1. id \in MapIds /\ id[1] = t
  BY HeadLinked DEF Safe
<1>2. \/ n \in {Stop(s, "assert_parent"), Stop(s, "bound")}
      \/ n = [s EXCEPT !.map = k, !.ht = h, !.usage = u]
  BY DEF LinkedItem
<1> HIDE DEF id, v, u, n
<1>3. \A w \in Pids : w # t => h[w] = s.ht[w]
  BY DEF States
<1>4. \A y \in MapIds : y[1] # t => k[y] = s.map[y]
  BY <1>1 DEF States
<1> HIDE DEF h, k
<1>5. CASE n \in {Stop(s, "assert_parent"), Stop(s, "bound")}
  <2>1. n.ht = s.ht /\ n.map = s.map /\ n.os = s.os /\ n.proc = s.proc
    BY <1>5 DEF Stop, States
  <2> QED
    BY <2>1, SameElsewhere DEF n
<1>6. CASE n = [s EXCEPT !.map = k, !.ht = h, !.usage = u]
  <2>1. n.ht = h /\ n.map = k /\ n.os = s.os /\ n.proc = s.proc
    BY <1>6 DEF States
  <2> QED
    BY <1>3, <1>4, <2>1 DEF Elsewhere, n
<1> QED
  BY <1>2, <1>5, <1>6

(* A clone fills at most the table of the child, which had none.           *)
LEMMA CloneElsewhere ==
  ASSUME NEW s \in States, NEW parent \in Pids, NEW child \in Pids, NEW share \in BOOLEAN
  PROVE  LET n == Clone(s, parent, child, share)
         IN  IF HasTable(s, child) THEN n = s ELSE Elsewhere(s, n, child)
<1> DEFINE n == Clone(s, parent, child, share)
<1>0. child # Failed
  BY FailedAssumption
<1>1. CASE HasTable(s, child)
  BY <1>0, <1>1 DEF Clone
<1>2. CASE ~HasTable(s, child) /\ (share \/ ~HasTable(s, parent) \/ s.proc[child] = Null)
  <2>1. n.ht = s.ht /\ n.map = s.map /\ n.os = s.os
    BY <1>0, <1>2 DEF Clone, Stop, States
  <2> HIDE DEF n
  <2>2. Elsewhere(s, n, child)
    BY <2>1, SameElsewhere
  <2> QED
    BY <1>2, <2>2 DEF n
<1>3. CASE ~HasTable(s, child) /\ ~share /\ HasTable(s, parent) /\ s.proc[child] # Null
  <2> DEFINE src == s.proc[parent]
             pr == [s.proc EXCEPT ![child] = child]
             nt == [f \in Fds |-> [i \in 1..CopyLen(s, src, f) |-> <<child, f, i>>]]
             h  == [s.ht EXCEPT ![child] = nt]
             k  == [m \in MapIds |-> IF m[1] = child /\ m[3] <= CopyLen(s, src, m[2])
                                     THEN CopyOf(s, src, m[2], m[3]) ELSE s.map[m]]
             u  == [r \in RealFds |-> s.usage[r] + Cardinality(UsersIn(s, src, r))]
  <2>1. n = DuplicateProcessHt(s, src, child)
    BY <1>0, <1>3 DEF Clone
  <2>2. \/ n \in {Stop(s, "uaf"), Stop(s, "bound")}
        \/ n = [s EXCEPT !.proc = pr, !.ht = h, !.map = k, !.usage = u]
    BY <2>1 DEF DuplicateProcessHt
  <2> HIDE DEF n, pr, u, nt
  <2>3. \A w \in Pids : w # child => h[w] = s.ht[w]
    BY DEF States
  <2>4. \A y \in MapIds : y[1] # child => k[y] = s.map[y]
    OBVIOUS
  <2> HIDE DEF h, k
  <2>5. CASE n \in {Stop(s, "uaf"), Stop(s, "bound")}
    <3>1. n.ht = s.ht /\ n.map = s.map /\ n.os = s.os
      BY <2>5 DEF Stop, States
    <3>2. Elsewhere(s, n, child)
      BY <3>1, SameElsewhere
    <3> QED
      BY <1>3, <3>2 DEF n
  <2>6. CASE n = [s EXCEPT !.proc = pr, !.ht = h, !.map = k, !.usage = u]
    <3>1. n.ht = h /\ n.map = k /\ n.os = s.os
      BY <2>6 DEF States
    <3>2. Elsewhere(s, n, child)
      BY <2>3, <2>4, <3>1 DEF Elsewhere
    <3> QED
      BY <1>3, <3>2 DEF n
  <2> QED
    BY <2>2, <2>5, <2>6
<1> QED
  BY <1>1, <1>2, <1>3

(* The table that a handler for pid works on, an unknown pid being made a  *)
(* thread of the first process, and the states it can take c to.           *)
Intended(s, pid) == IF HasTable(s, pid) THEN TableOf(s, pid) ELSE TableOf(s, Root)
Apart(c, pid) ==
  {s \in CountedStates :
     /\ Intended(s, pid) \in Pids => Intended(s, pid) = Intended(c, pid)
     /\ \A w \in Pids, fd \in Fds :
          w # Intended(c, pid) => ViewIn(s, w, fd) = ViewIn(c, w, fd)}

LEMMA StillApart ==
  ASSUME NEW c, NEW pid \in Pids, NEW s \in Apart(c, pid), HasTable(s, pid),
         NEW n \in CountedStates, n.proc = s.proc, Elsewhere(s, n, TableOf(s, pid))
  PROVE  n \in Apart(c, pid)
<1>1. TableOf(s, pid) = Intended(c, pid)
  BY DEF Apart, Intended, HasTable, TableOf
<1>2. Intended(n, pid) = Intended(s, pid)
  BY DEF Intended, HasTable, TableOf, GetProcessHt
<1>3. \A w \in Pids, fd \in Fds : w # TableOf(s, pid) => ViewIn(n, w, fd) = ViewIn(s, w, fd)
  BY ViewsKept DEF Apart
<1> QED
  BY <1>1, <1>2, <1>3 DEF Apart

LEMMA ApartKept ==
  ASSUME RoomForParents, ~CloseMayFail, NEW c, NEW pid \in Pids
  PROVE  KeptBy(pid, Apart(c, pid))
<1> DEFINE G == Apart(c, pid)
<1>1. \A s \in G : s \in CountedStates /\ s \in States /\ Safe(s) /\ Counted(s)
  BY DEF Apart, CountedStates
<1>2. ItemsKept(pid, CountedStates)
  BY CountedKept DEF KeptBy
<1>3. ASSUME NEW s \in G PROVE Stop(s, "assert_key") \in G
  <2> DEFINE n == Stop(s, "assert_key")
  <2>1. n.ht = s.ht /\ n.map = s.map /\ n.os = s.os /\ n.proc = s.proc
    BY <1>1 DEF Stop, States
  <2>2. n \in CountedStates
    BY <1>1, StopType, StopSafe, CountedStop DEF CountedStates, Status
  <2> HIDE DEF n
  <2>3. Intended(n, pid) = Intended(s, pid)
    BY <2>1 DEF Intended, HasTable, TableOf, GetProcessHt
  <2>4. \A w, fd : ViewIn(n, w, fd) = ViewIn(s, w, fd)
    BY <2>1 DEF ViewIn
  <2> QED
    BY <2>2, <2>3, <2>4 DEF Apart, n
<1>4. ASSUME NEW s \in G, s.st = "run", ~HasTable(s, pid) PROVE Clone(s, Root, pid, TRUE) \in G
  <2> DEFINE q == [s.proc EXCEPT ![pid] = IF HasTable(s, Root) THEN s.proc[Root] ELSE Null]
             p == [s EXCEPT !.proc = q]
             n == Clone(s, Root, pid, TRUE)
  <2>1. n \in CountedStates
    BY <1>1, <1>2, <1>4 DEF ItemsKept
  <2>2. n = s \/ n = p
    BY FailedAssumption DEF Clone
  <2> HIDE DEF n
  <2>3. CASE n = p
    <3>1. p.ht = s.ht /\ p.map = s.map /\ p.os = s.os /\ p.proc = q
      BY <1>1 DEF States
    <3>2. \A w, fd : ViewIn(p, w, fd) = ViewIn(s, w, fd)
      BY <3>1 DEF ViewIn
    <3>3. /\ q[pid] = IF HasTable(s, Root) THEN s.proc[Root] ELSE Null
          /\ Root # pid => q[Root] = s.proc[Root]
      BY <1>1, RootAssumption DEF States
    <3> HIDE DEF p, q
    <3>4. Intended(p, pid) \in Pids => Intended(p, pid) = Intended(s, pid)
      BY <1>4, <3>1, <3>3, SentinelAssumption DEF Intended, HasTable, TableOf, GetProcessHt
    <3>5. p \in CountedStates
      BY <2>1, <2>3
    <3>6. p \in G
      BY <3>2, <3>4, <3>5 DEF Apart
    <3> QED
      BY <2>3, <3>6 DEF n
  <2> QED
    BY <2>2, <2>3 DEF n
<1>5. ASSUME NEW s \in G, NEW fd \in Fds, NEW v \in {Virtual} \cup Fds, Vacant(s, pid, fd),
             v = Virtual \/ "pipe" \in Ops
      PROVE  AddItem(s, TableOf(s, pid), fd, Virtual, v) \in G
  <2> DEFINE n == AddItem(s, TableOf(s, pid), fd, Virtual, v)
  <2>1. HasTable(s, pid) /\ TableOf(s, pid) \in Pids
    BY <1>5 DEF Vacant, HasTable, TableOf
  <2>2. n \in CountedStates
    BY <1>1, <1>2, <1>5 DEF ItemsKept
  <2>3. n.proc = s.proc /\ Elsewhere(s, n, TableOf(s, pid))
    BY <1>1, <2>1, AddItemElsewhere
  <2> HIDE DEF n
  <2> QED
    BY <2>1, <2>2, <2>3, StillApart DEF n
<1>6. ASSUME NEW s \in G, NEW fd \in Fds, NEW file \in Files \cup {Unknown},
             Vacant(s, pid, fd), FreeFds(s) # {}
      PROVE  OpenedItem(s, TableOf(s, pid), fd, file) \in G
  <2> DEFINE n == OpenedItem(s, TableOf(s, pid), fd, file)
  <2>1. HasTable(s, pid) /\ TableOf(s, pid) \in Pids
    BY <1>6 DEF Vacant, HasTable, TableOf
  <2>2. n \in CountedStates
    BY <1>1, <1>2, <1>6 DEF ItemsKept
  <2>3. n.proc = s.proc /\ Elsewhere(s, n, TableOf(s, pid))
    BY <1>1, <1>6, <2>1, OpenedItemElsewhere
  <2> HIDE DEF n
  <2> QED
    BY <2>1, <2>2, <2>3, StillApart DEF n
<1>7. ASSUME NEW s \in G, NEW fd \in Fds, NEW cf \in CloseResults, Found(s, pid, fd)
      PROVE  ClosedItem(s, TableOf(s, pid), fd, cf) \in G
  <2> DEFINE n == ClosedItem(s, TableOf(s, pid), fd, FALSE)
  <2>1. /\ HasTable(s, pid) /\ TableOf(s, pid) \in Pids
        /\ s.ht[TableOf(s, pid)][fd] # <<>> /\ cf = FALSE
    BY <1>1, <1>7, FoundItem DEF TableOf, Found, CloseResults
  <2>2. n \in CountedStates
    BY <1>1, <1>2, <1>7, <2>1 DEF ItemsKept
  <2>3. n.proc = s.proc /\ Elsewhere(s, n, TableOf(s, pid))
    BY <1>1, <2>1, ClosedItemElsewhere
  <2> HIDE DEF n
  <2> QED
    BY <2>1, <2>2, <2>3, StillApart DEF n
<1>8. ASSUME NEW r \in G, NEW fd \in Fds, NEW new \in Fds, Found(r, pid, fd)
      PROVE  LinkedItem(r, TableOf(r, pid), fd, new) \in G
  <2> DEFINE n == LinkedItem(r, TableOf(r, pid), fd, new)
  <2>1. /\ HasTable(r, pid) /\ TableOf(r, pid) \in Pids
        /\ r.ht[TableOf(r, pid)][fd] # <<>>
    BY <1>1, <1>8, FoundItem DEF TableOf, Found
  <2>2. n \in CountedStates
    BY <1>1, <2>1, LinkedItemSafe, LinkedItemCounted DEF CountedStates
  <2>3. n.proc = r.proc /\ Elsewhere(r, n, TableOf(r, pid))
    BY <1>1, <2>1, LinkedItemElsewhere
  <2> HIDE DEF n
  <2> QED
    BY <2>1, <2>2, <2>3, StillApart DEF n
<1> HIDE DEF G
<1>9. \A s \in G : s \in States /\ Safe(s)
  BY <1>1
<1> QED
  BY <1>3, <1>4, <1>5, <1>6, <1>7, <1>8, <1>9 DEF KeptBy, ItemsKept, G

(* What changes in a step is in one table, or in one that nobody had.      *)
LEMMA StepApart ==
  ASSUME RoomForParents, ~DupSelf, ~CloseMayFail, Cur \in CountedStates, Next
  PROVE  \E x : \A w \in Pids, fd \in Fds :
           w # x /\ proc[w] = w => ViewIn(Cur', w, fd) = ViewIn(Cur, w, fd)
<1>1. Cur \in States /\ Safe(Cur) /\ Counted(Cur) /\ Cur.proc = proc
  BY DEF CountedStates, Cur
<1>2. PICK r : st = "run" /\ Handled(Cur, r) /\ Become(r)
  BY <1>1, StepHandles
<1>3. Cur.st = "run"
  BY <1>2 DEF Cur
<1>4. r \in States
  BY <1>1, <1>2, <1>3, HandledType
<1>5. Cur' = r
  BY <1>2, <1>4, BecomeCur
<1> DEFINE G == [pid \in Pids |-> Apart(Cur, pid)]
           c == Cur
<1>6. \A pid \in Pids : KeptBy(pid, G[pid]) /\ c \in G[pid]
  <2> SUFFICES ASSUME NEW pid \in Pids PROVE KeptBy(pid, G[pid]) /\ Cur \in G[pid]
    OBVIOUS
  <2>1. Cur \in Apart(Cur, pid)
    BY DEF Apart
  <2>2. KeptBy(pid, Apart(Cur, pid))
    BY ApartKept
  <2>3. G[pid] = Apart(Cur, pid)
    OBVIOUS
  <2> HIDE DEF G
  <2> QED
    BY <2>1, <2>2, <2>3
<1>7. \A pid \in Pids : G[pid] = Apart(c, pid)
  OBVIOUS
<1>8. c \in CountedStates /\ c \in States /\ Safe(c) /\ Counted(c) /\ c.proc = proc
  BY <1>1
<1>9. c.st = "run" /\ Handled(c, r)
  BY <1>2, <1>3
<1> HIDE DEF G, c
<1>10. \/ \E pid \in Pids : r \in Apart(c, pid)
       \/ \E pid \in Pids, child \in Children, share \in BOOLEAN :
            (IF share THEN "thread" ELSE "fork") \in Ops /\ r = Clone(c, pid, child, share)
  BY <1>6, <1>7, <1>9, HandledKept
<1>11. CASE \E pid \in Pids : r \in Apart(c, pid)
  <2>1. PICK pid \in Pids : r \in Apart(c, pid)
    BY <1>11
  <2>2. \A w \in Pids, fd \in Fds : w # Intended(c, pid) => ViewIn(r, w, fd) = ViewIn(c, w, fd)
    BY <2>1 DEF Apart
  <2> QED
    BY <1>5, <2>2 DEF c
<1>12. ASSUME NEW pid \in Pids, NEW child \in Children, NEW share \in BOOLEAN,
              r = Clone(c, pid, child, share)
       PROVE  \A w \in Pids, fd \in Fds :
                w # child /\ c.proc[w] = w => ViewIn(r, w, fd) = ViewIn(c, w, fd)
  <2>1. child \in Pids \cup {Failed}
    BY ArgumentTypes
  <2>2. r \in CountedStates
    BY <1>8, <1>9, <1>12, <2>1, CloneType, CloneSafe, CloneCounted DEF CountedStates
  <2>3. r = c \/ Elsewhere(c, r, child)
    <3>1. CASE child = Failed
      <4>1. r = Stop(c, "assert_key")
        BY <1>12, <3>1 DEF Clone
      <4>2. r.ht = c.ht /\ r.map = c.map /\ r.os = c.os
        BY <1>8, <4>1 DEF Stop, States
      <4> QED
        BY <4>2, SameElsewhere
    <3>2. CASE child \in Pids
      BY <1>8, <1>12, <3>2, CloneElsewhere
    <3> QED
      BY <2>1, <3>1, <3>2
  <2> QED
    BY <1>8, <2>2, <2>3, ViewsKept
<1> QED
  BY <1>5, <1>8, <1>10, <1>11, <1>12 DEF c

(* One record changes what descriptors refer to in at most one table that  *)
(* existed: no close, dup, open or clone of a process disturbs another     *)
(* process that has a table of its own.                                    *)
THEOREM TablesAreApart ==
  (RoomForParents /\ ~DupSelf /\ ~CloseMayFail) => (Spec => OneTableChanges)
<1> DEFINE A == \A t, u \in Pids :
                  (t # u /\ proc[t] = t /\ proc[u] = u)
                    => \/ \A f \in Fds : View(t, f)' = View(t, f)
                       \/ \A f \in Fds : View(u, f)' = View(u, f)
<1> SUFFICES ASSUME RoomForParents, ~DupSelf, ~CloseMayFail
             PROVE  Spec => [][A]_vars
  BY DEF OneTableChanges
<1>1. Init => Cur \in CountedStates
  BY InitCounted
<1>2. Cur \in CountedStates /\ [Next]_vars => (Cur \in CountedStates)'
  BY CountedStep
<1>3. Cur \in CountedStates /\ [Next]_vars => [A]_vars
  <2> SUFFICES ASSUME Cur \in CountedStates, Next PROVE A
    OBVIOUS
  <2>1. PICK x : \A w \in Pids, fd \in Fds :
                   w # x /\ proc[w] = w => ViewIn(Cur', w, fd) = ViewIn(Cur, w, fd)
    BY StepApart
  <2>2. \A w, fd : View(w, fd) = ViewIn(Cur, w, fd) /\ View(w, fd)' = ViewIn(Cur', w, fd)
    BY DEF View, ViewIn, Cur
  <2> QED
    BY <2>1, <2>2
<1> QED
  BY <1>1, <1>2, <1>3, PTL DEF Spec
=============================================================================
