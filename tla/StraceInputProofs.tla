------------------------- MODULE StraceInputProofs --------------------------
(***************************************************************************)
(* Proofs about StraceInput for any number of processes and calls.         *)
(***************************************************************************)
EXTENDS StraceInput, TLAPS

CallOrNone == Calls \cup {Idle, Gone}
Tables == [Pids -> Stored \cup {NoLine}]

LEMMA StoredType ==
  ASSUME NEW h \in Tables, NEW c \in Calls, NEW m \in BOOLEAN
  PROVE  ReadUnfinished(h, c, m) \in Tables
BY DEF ReadUnfinished, Tables, Stored, Calls

LEMMA CutType ==
  ASSUME NEW h \in Tables, NEW p \in Pids
  PROVE  CutStored(h, p) \in Tables
BY DEF CutStored, Tables, Stored

LEMMA WholeType ==
  ASSUME NEW h \in Tables, NEW l \in Seq(Items), NEW c \in Calls, NEW res \in Nat,
         NEW rest, NEW valued
  PROVE  LET r == ProcessWhole(h, l, c, res, rest, valued)
         IN  r.ht \in Tables /\ r.list \in Seq(Items)
<1>1. [pid |-> c.pid, op |-> c.op, args |-> c.id, res |-> res] \in Items
  BY DEF Calls, Items
<1>2. Append(l, [pid |-> c.pid, op |-> c.op, args |-> c.id, res |-> res]) \in Seq(Items)
  BY <1>1
<1>3. c.pid \in Pids
  BY DEF Calls
<1> QED
  BY <1>2, <1>3, StoredType, CutType DEF ProcessWhole

(* A stored first half, without its mark, is a call.                       *)
LEMMA RestType ==
  ASSUME NEW h \in Tables, NEW l \in Seq(Items), NEW c \in Calls, NEW spaced, NEW valued
  PROVE  LET r == ProcessRest(h, l, c, spaced, valued)
         IN  r.ht \in Tables /\ r.list \in Seq(Items)
<1> DEFINE d == h[c.pid]
           k == [h EXCEPT ![c.pid] = NoLine]
           u == ProcessWhole(k, l, d, c.id, c.op, valued)
<1>1. c.pid \in Pids /\ c.id \in Nat
  BY DEF Calls
<1>2. k \in Tables
  BY DEF Tables
<1>3. CASE d = NoLine
  BY <1>3 DEF ProcessRest
<1>4. CASE d # NoLine
  <2>1. d \in Stored
    BY <1>1, <1>4 DEF Tables
  <2>2. d.pid \in Pids /\ d.op \in Ops /\ d.id \in Nat
    BY <2>1 DEF Stored
  <2>3. [pid |-> d.pid, op |-> d.op, args |-> d.id, res |-> c.id] \in Items
    BY <1>1, <2>2 DEF Items
  <2>4. Append(l, [pid |-> d.pid, op |-> d.op, args |-> d.id, res |-> c.id]) \in Seq(Items)
    BY <2>3
  <2>5. ReadUnfinished(k, d, FALSE) \in Tables
    BY <1>2, <2>1 DEF ReadUnfinished, Tables, Stored
  <2>6. CutStored(k, d.pid) \in Tables /\ CutStored(h, c.pid) \in Tables
    BY <1>1, <1>2, <2>2, CutType
  <2> HIDE DEF k, d
  <2>7. u.ht \in Tables /\ u.list \in Seq(Items)
    BY <1>2, <2>4, <2>5, <2>6 DEF ProcessWhole
  <2> HIDE DEF u
  <2>8. ProcessRest(h, l, c, spaced, valued) =
          IF ~Known(c.op) \/ d = NoLine THEN [ht |-> h, list |-> l]
          ELSE IF ~d.marked THEN [ht |-> h, list |-> l]
          ELSE IF ~spaced THEN [ht |-> CutStored(h, c.pid), list |-> l]
          ELSE u
    BY DEF ProcessRest, u, d, k
  <2> QED
    BY <2>6, <2>7, <2>8
<1> QED
  BY <1>3, <1>4

LEMMA NewCallType ==
  ASSUME next \in Nat, NEW p \in Pids, NEW op \in Ops, NEW word \in NameWords(op)
  PROVE  NewCall(p, op, word) \in Calls
BY DEF NewCall, Calls, NameWords

LEMMA PrintType ==
  ASSUME done \in Seq(Items), NEW c \in Calls, NEW valued
  PROVE  MayPrint(c, valued) \in Seq(Items)
<1>1. [pid |-> c.pid, op |-> c.op, args |-> c.id, res |-> c.id] \in Items
  BY DEF Calls, Items
<1> QED
  BY <1>1 DEF MayPrint

LEMMA InitType == Init => TypeOK
<1> SUFFICES ASSUME Init PROVE TypeOK
  OBVIOUS
<1>1. [pid : Pids, op : Ops, word : {"none"}, id : {0}] \subseteq Calls
  BY DEF Calls
<1>2. cur \in [Pids -> Calls \cup {Idle, Gone}]
  BY <1>1 DEF Init
<1> QED
  BY <1>2 DEF Init, TypeOK

LEMMA StepType == TypeOK /\ [Next]_vars => TypeOK'
<1> SUFFICES ASSUME TypeOK, [Next]_vars PROVE TypeOK'
  OBVIOUS
<1> USE DEF TypeOK
<1>0. ht \in Tables /\ next \in Nat
  BY DEF Tables
<1>1. ASSUME NEW p \in Pids, WholeLine(p)
      PROVE  TypeOK'
  <2>1. PICK op \in Ops, valued \in BOOLEAN : \E word \in NameWords(op) :
          LET c == NewCall(p, op, word)
              r == ProcessWhole(ht, list, c, c.id, c.op, valued)
          IN  /\ ht' = r.ht /\ list' = r.list
              /\ done' = MayPrint(c, valued)
              /\ next' = next + 1 /\ plain' \in BOOLEAN
              /\ cur' = [cur EXCEPT ![p] = Idle]
    BY <1>1 DEF WholeLine
  <2>2. PICK word \in NameWords(op) :
          LET c == NewCall(p, op, word)
              r == ProcessWhole(ht, list, c, c.id, c.op, valued)
          IN  /\ ht' = r.ht /\ list' = r.list
              /\ done' = MayPrint(c, valued)
              /\ next' = next + 1 /\ plain' \in BOOLEAN
              /\ cur' = [cur EXCEPT ![p] = Idle]
    BY <2>1
  <2> DEFINE c == NewCall(p, op, word)
  <2>3. c \in Calls
    BY <1>0, NewCallType
  <2>4. c.id \in Nat
    BY <2>3 DEF Calls
  <2> HIDE DEF c
  <2>5. ht' \in Tables /\ list' \in Seq(Items)
    BY <1>0, <2>2, <2>3, <2>4, WholeType DEF c
  <2>6. done' \in Seq(Items)
    BY <2>2, <2>3, PrintType DEF c
  <2> QED
    BY <2>2, <2>5, <2>6 DEF Tables
<1>2. ASSUME NEW p \in Pids, FirstHalf(p)
      PROVE  TypeOK'
  <2>1. PICK op \in Ops : \E word \in NameWords(op) :
          /\ ht' = ProcessFirst(ht, NewCall(p, op, word))
          /\ cur' = [cur EXCEPT ![p] = NewCall(p, op, word)]
          /\ next' = next + 1 /\ plain' \in BOOLEAN
          /\ UNCHANGED <<done, list>>
    BY <1>2 DEF FirstHalf
  <2>2. PICK word \in NameWords(op) :
          /\ ht' = ProcessFirst(ht, NewCall(p, op, word))
          /\ cur' = [cur EXCEPT ![p] = NewCall(p, op, word)]
          /\ next' = next + 1 /\ plain' \in BOOLEAN
          /\ UNCHANGED <<done, list>>
    BY <2>1
  <2>3. NewCall(p, op, word) \in Calls
    BY <1>0, NewCallType
  <2>4. ht' \in Tables
    BY <1>0, <2>2, <2>3, StoredType DEF ProcessFirst
  <2> DEFINE c == NewCall(p, op, word)
  <2> HIDE DEF c
  <2>5. /\ c \in Calls /\ ht' \in Tables
        /\ cur' = [cur EXCEPT ![p] = c] /\ next' = next + 1
        /\ done' = done /\ list' = list /\ plain' \in BOOLEAN
    BY <2>2, <2>3, <2>4 DEF c
  <2> QED
    BY <2>5 DEF Tables
<1>3. ASSUME NEW p \in Pids, SecondHalf(p)
      PROVE  TypeOK'
  <2>1. PICK valued \in BOOLEAN, spaced \in Spacings :
          LET r == ProcessRest(ht, list, cur[p], spaced, valued)
          IN  /\ cur[p] \notin {Idle, Gone}
              /\ ht' = r.ht /\ list' = r.list
              /\ done' = IF cur[p].id = 0 THEN done ELSE MayPrint(cur[p], valued)
              /\ cur' = [cur EXCEPT ![p] = Idle]
              /\ UNCHANGED next /\ plain' \in BOOLEAN
    BY <1>3 DEF SecondHalf
  <2>2. cur[p] \in Calls
    BY <2>1
  <2>3. ht' \in Tables /\ list' \in Seq(Items)
    BY <1>0, <2>1, <2>2, RestType
  <2>4. done' \in Seq(Items)
    BY <2>1, <2>2, PrintType
  <2> QED
    BY <2>1, <2>3, <2>4 DEF Tables
<1>4. ASSUME NEW p \in Pids, Vanish(p)
      PROVE  TypeOK'
  BY <1>4 DEF Vanish
<1>5. CASE UNCHANGED vars
  BY <1>5 DEF vars
<1> QED
  BY <1>1, <1>2, <1>3, <1>4, <1>5 DEF Next

(* Type correctness of the reader.                                         *)
THEOREM InputTypeCorrect == Spec => []TypeOK
BY InitType, StepType, PTL DEF Spec

-----------------------------------------------------------------------------
(* No mixed calls, while pids are not used again.  A half that is still    *)
(* marked belongs to the call its process is in, or its process is gone    *)
(* for good.                                                               *)
HalfOfCall(h, u, p) ==
  (h[p] # NoLine /\ h[p].marked) =>
    \/ u[p] = Gone
    \/ u[p] # Idle /\ Known(u[p].op) /\ u[p].id = h[p].id
Halves == \A p \in Pids : HalfOfCall(ht, cur, p)
OwnPid == \A p \in Pids : cur[p] \in Calls => cur[p].pid = p
Unmixed(l) == \A i \in 1..Len(l) : l[i].args = l[i].res
MixInv == Halves /\ OwnPid /\ Unmixed(list)

Unmarked(h, p) == h[p] # NoLine => ~h[p].marked

LEMMA UnmixedAppend ==
  ASSUME NEW l \in Seq(Items), Unmixed(l), NEW x \in Items, x.args = x.res
  PROVE  Unmixed(Append(l, x))
<1> DEFINE m == Append(l, x)
<1>1. Len(m) = Len(l) + 1 /\ m[Len(l) + 1] = x /\ Len(l) \in Nat
  OBVIOUS
<1>2. \A i \in 1..Len(l) : m[i] = l[i]
  OBVIOUS
<1> HIDE DEF m
<1>3. ASSUME NEW i \in 1..Len(m)
      PROVE  m[i].args = m[i].res
  <2>1. i \in 1..Len(l) \/ i = Len(l) + 1
    BY <1>1
  <2> QED
    BY <1>1, <1>2, <2>1 DEF Unmixed
<1> QED
  BY <1>3 DEF Unmixed, m

(* A line that names a call in full adds no marked half to the table.      *)
LEMMA WholeUnmixed ==
  ASSUME NEW h \in Tables, NEW l \in Seq(Items), Unmixed(l),
         NEW c, c.pid \in Pids, c.op \in Ops, c.id \in Nat, NEW rest, NEW valued
  PROVE  LET r == ProcessWhole(h, l, c, c.id, rest, valued)
         IN  /\ Unmixed(r.list)
             /\ \A p \in Pids : r.ht[p] = h[p] \/ Unmarked(r.ht, p)
<1> DEFINE x == [pid |-> c.pid, op |-> c.op, args |-> c.id, res |-> c.id]
<1>1. Unmixed(Append(l, x))
  <2>1. x \in Items
    BY DEF Items
  <2> QED
    BY <2>1, UnmixedAppend
<1>2. \A p \in Pids : LET g == ReadUnfinished(h, c, FALSE)
                     IN  g[p] = h[p] \/ Unmarked(g, p)
  BY DEF ReadUnfinished, Tables, Unmarked
<1>3. \A p \in Pids : LET g == CutStored(h, c.pid)
                     IN  g[p] = h[p] \/ Unmarked(g, p)
  BY DEF CutStored, Tables, Stored, Unmarked
<1> HIDE DEF x
<1> QED
  BY <1>1, <1>2, <1>3 DEF ProcessWhole, x

(* The second half of a call joins its own first half, and leaves no       *)
(* marked half of its process behind.                                      *)
LEMMA RestUnmixed ==
  ASSUME NEW h \in Tables, NEW l \in Seq(Items), Unmixed(l), NEW c \in Calls,
         (h[c.pid] # NoLine /\ h[c.pid].marked) => Known(c.op) /\ c.id = h[c.pid].id,
         NEW spaced, NEW valued
  PROVE  LET r == ProcessRest(h, l, c, spaced, valued)
         IN  /\ Unmixed(r.list)
             /\ \A p \in Pids : (p # c.pid /\ r.ht[p] = h[p]) \/ Unmarked(r.ht, p)
<1> DEFINE d == h[c.pid]
           k == [h EXCEPT ![c.pid] = NoLine]
           u == ProcessWhole(k, l, d, c.id, c.op, valued)
           r == ProcessRest(h, l, c, spaced, valued)
<1>1. c.pid \in Pids /\ c.id \in Nat
  BY DEF Calls
<1>2. r = IF ~Known(c.op) \/ d = NoLine THEN [ht |-> h, list |-> l]
          ELSE IF ~d.marked THEN [ht |-> h, list |-> l]
          ELSE IF ~spaced THEN [ht |-> CutStored(h, c.pid), list |-> l]
          ELSE u
  BY DEF ProcessRest
<1>3. k \in Tables /\ k[c.pid] = NoLine /\ \A p \in Pids : p # c.pid => k[p] = h[p]
  BY <1>1 DEF Tables
<1> HIDE DEF r, k
<1>4. CASE d = NoLine
  <2>1. r = [ht |-> h, list |-> l]
    BY <1>2, <1>4
  <2> QED
    BY <1>4, <2>1 DEF r, d, Unmarked
<1>5. CASE d # NoLine /\ ~d.marked
  <2>1. r = [ht |-> h, list |-> l]
    BY <1>2, <1>5
  <2> QED
    BY <1>5, <2>1 DEF r, d, Unmarked
<1>6. CASE d # NoLine /\ d.marked
  <2>1. d \in Stored
    BY <1>1, <1>6 DEF Tables
  <2>2. d.pid \in Pids /\ d.op \in Ops /\ d.id \in Nat /\ c.id = d.id /\ Known(c.op)
    BY <1>6, <2>1 DEF Stored
  <2>3. u = ProcessWhole(k, l, d, d.id, c.op, valued)
    BY <2>2
  <2> HIDE DEF u, d
  <2>4. /\ Unmixed(u.list)
        /\ \A p \in Pids : u.ht[p] = k[p] \/ Unmarked(u.ht, p)
    BY <1>3, <2>2, <2>3, WholeUnmixed
  <2>5. \A p \in Pids : LET g == CutStored(h, c.pid)
                       IN  (p # c.pid /\ g[p] = h[p]) \/ Unmarked(g, p)
    BY <1>1, <1>6, <2>1 DEF CutStored, Tables, Stored, Unmarked, d
  <2>6. r = IF ~spaced THEN [ht |-> CutStored(h, c.pid), list |-> l] ELSE u
    BY <1>2, <1>6, <2>2
  <2> QED
    BY <1>3, <2>4, <2>5, <2>6 DEF r, Unmarked
<1> QED
  BY <1>4, <1>5, <1>6

LEMMA MixInit == Init => MixInv
BY SentinelAssumption DEF Init, MixInv, Halves, HalfOfCall, OwnPid, Unmixed

LEMMA MixStep == ~ReusePids /\ TypeOK /\ MixInv /\ [Next]_vars => MixInv'
<1> SUFFICES ASSUME ~ReusePids, TypeOK, MixInv, [Next]_vars PROVE MixInv'
  OBVIOUS
<1>1. /\ ht \in Tables /\ list \in Seq(Items) /\ next \in Nat
      /\ cur \in [Pids -> Calls \cup {Idle, Gone}]
  BY DEF TypeOK, Tables
<1>2. Unmixed(list) /\ OwnPid /\ Halves
  BY DEF MixInv
(* Another process keeps its half, or loses its mark, and its call.        *)
<1>3. ASSUME NEW q \in Pids, cur'[q] = cur[q], ht'[q] = ht[q] \/ Unmarked(ht', q)
      PROVE  HalfOfCall(ht', cur', q)
  BY <1>2, <1>3 DEF Halves, HalfOfCall, Unmarked
<1>4. ASSUME NEW p \in Pids, WholeLine(p)
      PROVE  MixInv'
  <2>1. PICK op \in Ops, valued \in BOOLEAN : \E word \in NameWords(op) :
          LET c == NewCall(p, op, word)
              r == ProcessWhole(ht, list, c, c.id, c.op, valued)
          IN  /\ MayStart(p)
              /\ ht' = r.ht /\ list' = r.list
              /\ cur' = [cur EXCEPT ![p] = Idle]
    BY <1>4 DEF WholeLine
  <2>2. PICK word \in NameWords(op) :
          LET c == NewCall(p, op, word)
              r == ProcessWhole(ht, list, c, c.id, c.op, valued)
          IN  /\ MayStart(p)
              /\ ht' = r.ht /\ list' = r.list
              /\ cur' = [cur EXCEPT ![p] = Idle]
    BY <2>1
  <2> DEFINE c == NewCall(p, op, word)
  <2>3. c \in Calls
    BY <1>1, NewCallType
  <2>4. c.pid \in Pids /\ c.op \in Ops /\ c.id \in Nat
    BY <2>3 DEF Calls
  <2> HIDE DEF c
  <2>5. Unmixed(list') /\ \A q \in Pids : ht'[q] = ht[q] \/ Unmarked(ht', q)
    BY <1>1, <1>2, <2>2, <2>4, WholeUnmixed DEF c
  <2>6. cur' = cur
    BY <1>1, <2>2 DEF MayStart
  <2> QED
    BY <1>2, <1>3, <2>5, <2>6 DEF MixInv, Halves, OwnPid
<1>5. ASSUME NEW p \in Pids, FirstHalf(p)
      PROVE  MixInv'
  <2>1. PICK op \in Ops : \E word \in NameWords(op) :
          /\ MayStart(p)
          /\ ht' = ProcessFirst(ht, NewCall(p, op, word))
          /\ cur' = [cur EXCEPT ![p] = NewCall(p, op, word)]
          /\ UNCHANGED list
    BY <1>5 DEF FirstHalf
  <2>2. PICK word \in NameWords(op) :
          /\ MayStart(p)
          /\ ht' = ProcessFirst(ht, NewCall(p, op, word))
          /\ cur' = [cur EXCEPT ![p] = NewCall(p, op, word)]
          /\ UNCHANGED list
    BY <2>1
  <2> DEFINE c == NewCall(p, op, word)
  <2>3. c \in Calls /\ c.pid = p /\ c.op = op
    BY <1>1, NewCallType DEF NewCall
  <2> HIDE DEF c
  <2>4. /\ ht' = ProcessFirst(ht, c) /\ list' = list
        /\ cur' = [cur EXCEPT ![p] = c] /\ cur[p] = Idle
    BY <2>2 DEF c, MayStart
  <2>5. \A q \in Pids : q # p => ht'[q] = ht[q] /\ cur'[q] = cur[q]
    BY <1>1, <2>3, <2>4 DEF ProcessFirst, ReadUnfinished, Tables
  <2>6. HalfOfCall(ht', cur', p)
    <3>1. Unmarked(ht, p)
      BY <1>2, <2>4, SentinelAssumption DEF Halves, HalfOfCall, Unmarked
    <3>2. cur'[p] = c /\ c # Idle
      BY <1>1, <2>3, <2>4, SentinelAssumption
    <3>3. CASE ht'[p] = ht[p]
      BY <3>1, <3>3 DEF HalfOfCall, Unmarked
    <3>4. CASE ht'[p] # ht[p]
      <4>1. Known(c.op) /\ ht'[p].id = c.id
        BY <1>1, <2>3, <2>4, <3>4 DEF ProcessFirst, ReadUnfinished, Tables
      <4> QED
        BY <3>2, <4>1 DEF HalfOfCall
    <3> QED
      BY <3>3, <3>4
  <2>7. Halves'
    BY <1>3, <2>5, <2>6 DEF Halves
  <2>8. OwnPid'
    BY <1>1, <1>2, <2>3, <2>4 DEF OwnPid
  <2> QED
    BY <1>2, <2>4, <2>7, <2>8 DEF MixInv
<1>6. ASSUME NEW p \in Pids, SecondHalf(p)
      PROVE  MixInv'
  <2>1. PICK valued \in BOOLEAN, spaced \in Spacings :
          LET r == ProcessRest(ht, list, cur[p], spaced, valued)
          IN  /\ cur[p] \notin {Idle, Gone}
              /\ ht' = r.ht /\ list' = r.list
              /\ cur' = [cur EXCEPT ![p] = Idle]
    BY <1>6 DEF SecondHalf
  <2>2. cur[p] \in Calls /\ cur[p].pid = p
    BY <1>1, <1>2, <2>1 DEF OwnPid
  <2>3. ht[p] # NoLine /\ ht[p].marked => Known(cur[p].op) /\ cur[p].id = ht[p].id
    BY <1>2, <2>1 DEF Halves, HalfOfCall
  <2>4. /\ Unmixed(list')
        /\ \A q \in Pids : (q # p /\ ht'[q] = ht[q]) \/ Unmarked(ht', q)
    BY <1>1, <1>2, <2>1, <2>2, <2>3, RestUnmixed
  <2>5. \A q \in Pids : q # p => cur'[q] = cur[q]
    BY <1>1, <2>1
  <2>6. HalfOfCall(ht', cur', p)
    BY <2>4 DEF HalfOfCall, Unmarked
  <2>7. Halves'
    BY <1>3, <2>4, <2>5, <2>6 DEF Halves
  <2>8. OwnPid'
    BY <1>1, <1>2, <2>1, SentinelAssumption DEF OwnPid
  <2> QED
    BY <2>4, <2>7, <2>8 DEF MixInv
<1>7. ASSUME NEW p \in Pids, Vanish(p)
      PROVE  MixInv'
  <2>1. ht' = ht /\ list' = list /\ cur' = [cur EXCEPT ![p] = Gone]
    BY <1>7 DEF Vanish
  <2>2. HalfOfCall(ht', cur', p)
    BY <1>1, <2>1 DEF HalfOfCall
  <2>3. Halves'
    BY <1>1, <1>3, <2>1, <2>2 DEF Halves
  <2>4. OwnPid'
    BY <1>1, <1>2, <2>1, SentinelAssumption DEF OwnPid
  <2> QED
    BY <1>2, <2>1, <2>3, <2>4 DEF MixInv
<1>8. CASE UNCHANGED vars
  BY <1>8 DEF vars, MixInv, Halves, HalfOfCall, OwnPid, Unmixed
<1> QED
  BY <1>4, <1>5, <1>6, <1>7, <1>8 DEF Next

(* While pids are not used again no call in the list has the arguments of  *)
(* one call and the result of another (strace_read_resumed joins each half *)
(* with its own).                                                          *)
THEOREM NoMixing == ~ReusePids => (Spec => []NoMixedCall)
<1> SUFFICES ASSUME ~ReusePids PROVE Spec => []NoMixedCall
  OBVIOUS
<1>1. Init => TypeOK /\ MixInv
  BY InitType, MixInit
<1>2. TypeOK /\ MixInv /\ [Next]_vars => (TypeOK /\ MixInv)'
  BY StepType, MixStep
<1>3. MixInv => NoMixedCall
  BY DEF MixInv, Unmixed, NoMixedCall
<1> QED
  BY <1>1, <1>2, <1>3, PTL DEF Spec

(* Nor is a marked half ever kept for a process that is in no call.        *)
THEOREM HalvesAreUsed == ~ReusePids => (Spec => []NothingStale)
<1> SUFFICES ASSUME ~ReusePids PROVE Spec => []NothingStale
  OBVIOUS
<1>1. Init => TypeOK /\ MixInv
  BY InitType, MixInit
<1>2. TypeOK /\ MixInv /\ [Next]_vars => (TypeOK /\ MixInv)'
  BY StepType, MixStep
<1>3. MixInv => NothingStale
  BY SentinelAssumption DEF MixInv, Halves, HalfOfCall, NothingStale
<1> QED
  BY <1>1, <1>2, <1>3, PTL DEF Spec

-----------------------------------------------------------------------------
(* The list is complete, as long as strace writes "resumed> " with its     *)
(* space and no file name holds a mark, when no pid is used again: the     *)
(* table then holds the first half of exactly the known calls that are     *)
(* under way.                                                              *)
Half(c) == [pid |-> c.pid, op |-> c.op, word |-> c.word, id |-> c.id, marked |-> TRUE]
WaitingFor(c) == IF Known(c.op) /\ c.id # 0 THEN Half(c) ELSE NoLine
InStep(h, u, p) ==
  /\ u[p] = Idle => h[p] = NoLine
  /\ u[p] \in Calls => u[p].pid = p /\ u[p].word = "none" /\ h[p] = WaitingFor(u[p])
Exact == list = done /\ \A p \in Pids : InStep(ht, cur, p)
ExactInv == plain => Exact

Item(c) == [pid |-> c.pid, op |-> c.op, args |-> c.id, res |-> c.id]

LEMMA ExactInit == Init => ExactInv
<1> SUFFICES ASSUME Init PROVE ExactInv
  OBVIOUS
<1>1. ASSUME NEW p \in Pids
      PROVE  InStep(ht, cur, p)
  <2>1. ht[p] = NoLine
    BY DEF Init
  <2>2. cur[p] # Idle => cur[p].pid = p /\ cur[p].id = 0 /\ cur[p].word = "none"
    BY DEF Init
  <2> QED
    BY <2>1, <2>2, SentinelAssumption DEF InStep, WaitingFor
<1> QED
  BY <1>1 DEF ExactInv, Exact, Init

(* A call without a word in its names, printed or joined, is appended when *)
(* it is known and has a value, and the table stays.                       *)
LEMMA WholeExact ==
  ASSUME NEW h, NEW l, NEW c, c.word = "none", NEW valued \in BOOLEAN
  PROVE  ProcessWhole(h, l, c, c.id, c.op, valued) =
           [ht |-> h, list |-> IF valued /\ Known(c.op) THEN Append(l, Item(c)) ELSE l]
BY DEF ProcessWhole, Parses, Item

LEMMA RestExact ==
  ASSUME NEW h \in Tables, NEW l, NEW c \in Calls, c.word = "none",
         h[c.pid] = WaitingFor(c), NEW valued \in BOOLEAN
  PROVE  ProcessRest(h, l, c, TRUE, valued) =
           [ht   |-> [h EXCEPT ![c.pid] = NoLine],
            list |-> IF valued /\ Known(c.op) /\ c.id # 0 THEN Append(l, Item(c)) ELSE l]
<1>1. c.pid \in Pids /\ c.op \in Ops /\ c.id \in Nat
  BY DEF Calls
<1>2. CASE Known(c.op) /\ c.id # 0
  <2> DEFINE k == [h EXCEPT ![c.pid] = NoLine]
             d == Half(c)
  <2>1. d.pid = c.pid /\ d.op = c.op /\ d.id = c.id /\ d.word = "none" /\ d.marked
    BY DEF Half
  <2>2. d # NoLine /\ h[c.pid] = d
    <3>1. d \in Stored
      BY <1>1 DEF Half, Stored
    <3> QED
      BY <1>2, <3>1, NoLineAssumption DEF WaitingFor
  <2>3. ProcessRest(h, l, c, TRUE, valued) = ProcessWhole(k, l, d, c.id, c.op, valued)
    BY <1>2, <2>1, <2>2 DEF ProcessRest
  <2>4. Item(d) = Item(c)
    BY <2>1 DEF Item
  <2> HIDE DEF k, d
  <2>5. ProcessWhole(k, l, d, d.id, d.op, valued) =
          [ht |-> k, list |-> IF valued /\ Known(d.op) THEN Append(l, Item(d)) ELSE l]
    BY <2>1, WholeExact
  <2>6. ProcessRest(h, l, c, TRUE, valued) =
          [ht |-> k, list |-> IF valued /\ Known(c.op) THEN Append(l, Item(c)) ELSE l]
    BY <2>1, <2>3, <2>4, <2>5
  <2> QED
    BY <1>2, <2>6 DEF k
<1>3. CASE ~(Known(c.op) /\ c.id # 0)
  <2>1. h[c.pid] = NoLine
    BY <1>3 DEF WaitingFor
  <2>2. h = [h EXCEPT ![c.pid] = NoLine]
    BY <1>1, <2>1 DEF Tables
  <2>3. ProcessRest(h, l, c, TRUE, valued) = [ht |-> h, list |-> l]
    BY <2>1 DEF ProcessRest
  <2> QED
    BY <1>3, <2>2, <2>3
<1> QED
  BY <1>2, <1>3

LEMMA ExactStep ==
  ~ReusePids /\ TypeOK /\ ExactInv /\ [Next]_vars => ExactInv'
<1> SUFFICES ASSUME ~ReusePids, TypeOK, plain => Exact, [Next]_vars, plain'
             PROVE  Exact'
  BY DEF ExactInv
<1>1. /\ ht \in Tables /\ list \in Seq(Items) /\ next \in Nat \ {0}
      /\ cur \in [Pids -> Calls \cup {Idle, Gone}]
  BY DEF TypeOK, Tables
<1>2. plain => list = done /\ \A p \in Pids : InStep(ht, cur, p)
  BY DEF Exact
<1>4. ASSUME NEW p \in Pids, WholeLine(p)
      PROVE  Exact'
  <2>1. PICK op \in Ops, valued \in BOOLEAN :
          LET c == NewCall(p, op, "none")
              r == ProcessWhole(ht, list, c, c.id, c.op, valued)
          IN  /\ MayStart(p)
              /\ ht' = r.ht /\ list' = r.list
              /\ done' = MayPrint(c, valued)
              /\ cur' = [cur EXCEPT ![p] = Idle]
              /\ plain
    BY <1>4 DEF WholeLine
  <2> DEFINE c == NewCall(p, op, "none")
  <2>2. c.word = "none"
    BY DEF NewCall
  <2> HIDE DEF c
  <2>3. ht' = ht /\ list' = IF valued /\ Known(c.op) THEN Append(list, Item(c)) ELSE list
    <3>1. c.op = op
      BY DEF c, NewCall
    <3> DEFINE r == ProcessWhole(ht, list, c, c.id, c.op, valued)
    <3>2. ht' = r.ht /\ list' = r.list
      BY <2>1, <3>1 DEF c
    <3>3. r = [ht |-> ht,
               list |-> IF valued /\ Known(c.op) THEN Append(list, Item(c)) ELSE list]
      BY <2>2, WholeExact
    <3> HIDE DEF r
    <3> QED
      BY <3>2, <3>3
  <2>4. done' = MayPrint(c, valued) /\ cur' = cur
    BY <1>1, <2>1 DEF c, MayStart
  <2> QED
    BY <1>2, <2>1, <2>3, <2>4 DEF Exact, MayPrint, Item
<1>5. ASSUME NEW p \in Pids, FirstHalf(p)
      PROVE  Exact'
  <2>1. PICK op \in Ops :
          /\ MayStart(p)
          /\ ht' = ProcessFirst(ht, NewCall(p, op, "none"))
          /\ cur' = [cur EXCEPT ![p] = NewCall(p, op, "none")]
          /\ UNCHANGED <<done, list>>
          /\ plain
    BY <1>5 DEF FirstHalf
  <2> DEFINE c == NewCall(p, op, "none")
  <2>2. c \in Calls /\ c.pid = p /\ c.op = op /\ c.id # 0 /\ c.word = "none"
    BY <1>1 DEF NewCall, Calls
  <2> HIDE DEF c
  <2>3. /\ ht' = ProcessFirst(ht, c) /\ list' = list /\ done' = done
        /\ cur' = [cur EXCEPT ![p] = c] /\ cur[p] = Idle
    BY <2>1 DEF c, MayStart
  <2>4. ht[p] = NoLine
    BY <1>2, <2>1, <2>3 DEF InStep
  <2>5. ASSUME NEW q \in Pids, q # p
        PROVE  InStep(ht', cur', q)
    <3>1. ht'[q] = ht[q] /\ cur'[q] = cur[q]
      BY <1>1, <2>2, <2>3, <2>5 DEF ProcessFirst, ReadUnfinished, Tables
    <3> QED
      BY <1>2, <2>1, <3>1 DEF InStep
  <2>6. InStep(ht', cur', p)
    <3>1. cur'[p] = c /\ c # Idle
      BY <1>1, <2>2, <2>3, SentinelAssumption
    <3>2. ht'[p] = WaitingFor(c)
      BY <1>1, <2>2, <2>3, <2>4 DEF ProcessFirst, ReadUnfinished, Tables, WaitingFor, Half
    <3> QED
      BY <2>2, <3>1, <3>2 DEF InStep
  <2> QED
    BY <1>2, <2>1, <2>3, <2>5, <2>6 DEF Exact
<1>6. ASSUME NEW p \in Pids, SecondHalf(p)
      PROVE  Exact'
  <2>1. PICK valued \in BOOLEAN, spaced \in Spacings :
          LET r == ProcessRest(ht, list, cur[p], spaced, valued)
          IN  /\ cur[p] \notin {Idle, Gone}
              /\ ht' = r.ht /\ list' = r.list
              /\ done' = IF cur[p].id = 0 THEN done ELSE MayPrint(cur[p], valued)
              /\ cur' = [cur EXCEPT ![p] = Idle]
              /\ plain /\ spaced
    BY <1>6 DEF SecondHalf
  <2> DEFINE c == cur[p]
  <2>2. c \in Calls /\ spaced = TRUE
    BY <1>1, <2>1
  <2>3. c.pid = p /\ c.word = "none" /\ ht[c.pid] = WaitingFor(c)
    BY <1>2, <2>1, <2>2 DEF InStep
  <2>4. /\ ht' = ProcessRest(ht, list, c, TRUE, valued).ht
        /\ list' = ProcessRest(ht, list, c, TRUE, valued).list
        /\ done' = IF c.id = 0 THEN done ELSE MayPrint(c, valued)
        /\ cur' = [cur EXCEPT ![p] = Idle]
    BY <2>1, <2>2
  <2> HIDE DEF c
  <2>5. /\ ht' = [ht EXCEPT ![p] = NoLine]
        /\ list' = IF valued /\ Known(c.op) /\ c.id # 0 THEN Append(list, Item(c)) ELSE list
    <3> DEFINE r == ProcessRest(ht, list, c, TRUE, valued)
    <3>1. r = [ht   |-> [ht EXCEPT ![c.pid] = NoLine],
               list |-> IF valued /\ Known(c.op) /\ c.id # 0
                        THEN Append(list, Item(c)) ELSE list]
      <4>1. ht \in Tables /\ c \in Calls /\ c.word = "none" /\ ht[c.pid] = WaitingFor(c)
        BY <1>1, <2>2, <2>3
      <4> HIDE DEF r
      <4>2. ProcessRest(ht, list, c, TRUE, valued) =
              [ht   |-> [ht EXCEPT ![c.pid] = NoLine],
               list |-> IF valued /\ Known(c.op) /\ c.id # 0
                        THEN Append(list, Item(c)) ELSE list]
        BY <4>1, RestExact, ZenonT(60)
      <4> QED
        BY <4>2 DEF r
    <3> HIDE DEF r
    <3>2. ht' = r.ht /\ list' = r.list
      BY <2>4 DEF r
    <3> QED
      BY <2>3, <3>1, <3>2
  <2>6. list' = done'
    BY <1>2, <2>1, <2>4, <2>5 DEF MayPrint, Item
  <2>7. ASSUME NEW q \in Pids
        PROVE  InStep(ht', cur', q)
    <3>1. CASE q = p
      BY <1>1, <2>4, <2>5, <3>1, SentinelAssumption DEF InStep, Tables
    <3>2. CASE q # p
      <4>1. ht'[q] = ht[q] /\ cur'[q] = cur[q]
        BY <1>1, <2>4, <2>5, <3>2 DEF Tables
      <4> QED
        BY <1>2, <2>1, <4>1 DEF InStep
    <3> QED
      BY <3>1, <3>2
  <2> QED
    BY <2>6, <2>7 DEF Exact
<1>7. ASSUME NEW p \in Pids, Vanish(p)
      PROVE  Exact'
  <2>1. /\ ht' = ht /\ list' = list /\ done' = done /\ plain
        /\ cur' = [cur EXCEPT ![p] = Gone]
    BY <1>7 DEF Vanish
  <2>2. ASSUME NEW q \in Pids
        PROVE  InStep(ht', cur', q)
    BY <1>1, <1>2, <2>1, SentinelAssumption DEF InStep
  <2> QED
    BY <1>2, <2>1, <2>2 DEF Exact
<1>8. CASE UNCHANGED vars
  BY <1>8 DEF vars, Exact, InStep
<1> QED
  BY <1>4, <1>5, <1>6, <1>7, <1>8 DEF Next

(* strace_get_items returns exactly the known calls with a value, in the   *)
(* order in which they ended, for any number of processes and of calls, up *)
(* to the first line that can be taken for another.                        *)
THEOREM ListExact == ~ReusePids => (Spec => []ListIsDone)
<1> SUFFICES ASSUME ~ReusePids PROVE Spec => []ListIsDone
  OBVIOUS
<1>1. Init => TypeOK /\ ExactInv
  BY InitType, ExactInit
<1>2. TypeOK /\ ExactInv /\ [Next]_vars => (TypeOK /\ ExactInv)'
  BY StepType, ExactStep
<1>3. ExactInv => ListIsDone
  BY DEF ExactInv, Exact, ListIsDone
<1> QED
  BY <1>1, <1>2, <1>3, PTL DEF Spec
=============================================================================
