--------------------------- MODULE PositionsProofs ---------------------------
(***************************************************************************)
(* Positions are the kernel's offsets, for any number of processes,        *)
(* descriptors, files and positions.                                       *)
(***************************************************************************)
EXTENDS Positions, FiniteSetTheorems, TLAPS

(* fd_maps and descriptions come and go together, a process that was not   *)
(* forked has none, and what nothing points to is at the start.            *)
Kept ==
  /\ \A s \in Slots : item[s] = None <=> desc[s] = None
  /\ \A s \in Slots : s[1] \notin born => item[s] = None
  /\ \A m \in Slots : ~Used(item, m) => cur_pos[m] = 0
  /\ \A d \in Descs : ~Used(desc, d) => offset[d] = 0

(* An fd_map stands for one description.                                   *)
Together ==
  \A s, q \in Slots : item[s] # None /\ item[s] = item[q] => desc[s] = desc[q]

(* It is at the offset of that description, unless it is skewed.           *)
Follow ==
  \A s \in Slots :
    desc[s] # None /\ item[s] \notin skewed /\ file[desc[s]] # Other
      => cur_pos[item[s]] = offset[desc[s]]

IInv == TypeOK /\ Kept /\ Together /\ (st = "run" => Follow)

-----------------------------------------------------------------------------
LEMMA SlotFacts ==
  /\ IsFiniteSet(Slots) /\ None \notin Slots /\ None \notin Descs
  /\ \A s \in Slots : s[1] \in Tables /\ s[2] \in Fds /\ s = <<s[1], s[2]>>
  /\ \A t \in Tables, fd \in Fds : <<t, fd>> \in Slots
BY TableAssumption DEF Slots

(* A table has a free fd_map for its free descriptor s: the fd_maps of the *)
(* table are used by its own descriptors, and s uses none.                 *)
LEMMA FreeOne ==
  ASSUME IInv, NEW s \in Slots, item[s] = None
  PROVE  FreeMap(s[1]) \in {s[1]} \X Fds /\ ~Used(item, FreeMap(s[1]))
<1> DEFINE A == {s[1]} \X Fds
<1>0. s \in A /\ A \in SUBSET Slots /\ \A q \in Slots : item[q] \in A => q \in A
  BY SlotFacts DEF IInv, TypeOK
<1> HIDE DEF A
<1> DEFINE user == [i \in A |-> CHOOSE q \in Slots : item[q] = i]
<1>1. IsFiniteSet(A) /\ IsFiniteSet(A \ {s}) /\ Cardinality(A \ {s}) = Cardinality(A) - 1
      /\ Cardinality(A) \in Nat
  BY <1>0, SlotFacts, FS_Subset, FS_RemoveElement, FS_CardinalityType
<1>2. SUFFICES ASSUME \A i \in A : \E q \in Slots : item[q] = i
               PROVE  FALSE
  BY DEF FreeMap, Used, A
<1>3. \A i \in A : user[i] \in Slots /\ item[user[i]] = i
  BY <1>2
<1>4. user \in [A -> A \ {s}]
  <2>1. \A i \in A : user[i] \in A /\ user[i] # s
    BY <1>0, <1>3, SlotFacts
  <2> QED
    BY <2>1
<1>5. \E i, j \in A : i # j /\ user[i] = user[j]
  <2>1. Cardinality(A \ {s}) < Cardinality(A)
    BY <1>1
  <2> HIDE DEF user
  <2> QED
    BY <1>1, <1>4, <2>1, FS_PigeonHole
<1> QED
  BY <1>3, <1>5

-----------------------------------------------------------------------------
LEMMA Starts == Init => IInv
<1> SUFFICES ASSUME Init PROVE IInv
  OBVIOUS
<1> USE SlotFacts, TableAssumption DEF Init
<1>1. TypeOK
  BY DEF TypeOK
<1>2. Kept /\ Together /\ Follow
  BY DEF Kept, Together, Follow
<1> QED
  BY <1>1, <1>2 DEF IInv

(* What the invariant says of an open slot.                                *)
LEMMA OpenFacts ==
  ASSUME IInv, NEW s \in Slots, IsOpen(s)
  PROVE  /\ item[s] \in Slots /\ desc[s] \in Descs /\ item[s][1] = s[1]
         /\ \A q \in Slots : item[q] = item[s] => desc[q] = desc[s]
BY SlotFacts DEF IInv, TypeOK, Kept, Together, IsOpen

LEMMA OpenStep ==
  ASSUME IInv, st = "run", NEW s \in Slots, NEW f \in Files \cup {Other},
         NEW atEnd \in BOOLEAN, OpenAs(s, f, atEnd)
  PROVE  IInv'
<1> DEFINE m == FreeMap(s[1])
<1>1. m \in {s[1]} \X Fds /\ \A q \in Slots : item[q] # m
  BY FreeOne DEF OpenAs, IsOpen, IInv, Kept, Used
<1>2. PICK d \in Descs : /\ \A q \in Slots : desc[q] # d
                         /\ desc' = [desc EXCEPT ![s] = d]
                         /\ file' = [file EXCEPT ![d] = f]
                         /\ append' = IF atEnd THEN append \cup {d} ELSE append
  BY DEF OpenAs, Used
<1>3. m \in Slots /\ m[1] = s[1]
  BY <1>1, SlotFacts
<1>4. /\ s[1] \in born /\ desc[s] = None /\ item[s] = None
      /\ item' = [item EXCEPT ![s] = m] /\ exact' \in BOOLEAN
      /\ UNCHANGED <<cur_pos, offset, skewed, born, st>>
  BY DEF OpenAs, IsOpen, Lists, IInv, Kept
<1> HIDE DEF m
<1> USE <1>1, <1>2, <1>3, <1>4, SlotFacts
<1>5. TypeOK'
  BY DEF IInv, TypeOK
<1>6. Kept' /\ Together'
  BY DEF IInv, TypeOK, Kept, Together, Used
<1>7. cur_pos[m] = 0 /\ offset[d] = 0
  BY DEF IInv, Kept, Used
<1>8. Follow'
  <2> SUFFICES ASSUME NEW q \in Slots, desc'[q] # None, item'[q] \notin skewed', file'[desc'[q]] # Other
               PROVE  cur_pos'[item'[q]] = offset'[desc'[q]]
    BY DEF Follow
  <2>1. CASE q = s
    BY <1>7, <2>1 DEF IInv, TypeOK
  <2>2. CASE q # s
    <3>1. desc'[q] = desc[q] /\ item'[q] = item[q] /\ file'[desc[q]] = file[desc[q]]
      BY <2>2 DEF IInv, TypeOK
    <3> QED
      BY <3>1 DEF IInv, Follow
  <2> QED
    BY <2>1, <2>2
<1> QED
  BY <1>5, <1>6, <1>8 DEF IInv

(* What Close and Dup have in common: pointers go to what is there, and    *)
(* what nothing points to any more is released.                            *)
LEMMA ReleaseStep ==
  ASSUME IInv, st = "run", Release, UNCHANGED <<born, st>>, exact' \in BOOLEAN,
         item' \in [Slots -> Slots \cup {None}], desc' \in [Slots -> Descs \cup {None}],
         \A s \in Slots :
           \/ item'[s] = None /\ desc'[s] = None
           \/ \E q \in Slots : q[1] = s[1] /\ q[1] \in born /\ item'[s] = item[q] /\ desc'[s] = desc[q]
  PROVE  IInv'
<1>1. /\ cur_pos' = [m \in Slots |-> IF \E s \in Slots : item'[s] = m THEN cur_pos[m] ELSE 0]
      /\ skewed' = {m \in skewed : \E s \in Slots : item'[s] = m}
      /\ offset' = [d \in Descs |-> IF \E s \in Slots : desc'[s] = d THEN offset[d] ELSE 0]
      /\ file' = [d \in Descs |-> IF \E s \in Slots : desc'[s] = d THEN file[d] ELSE Other]
      /\ append' = {d \in append : \E s \in Slots : desc'[s] = d}
  BY DEF Release, Used
<1>2. TypeOK'
  BY <1>1, SlotFacts DEF IInv, TypeOK
<1>3. Kept'
  BY <1>1, SlotFacts DEF IInv, TypeOK, Kept, Used
<1>4. Together'
  BY SlotFacts DEF IInv, Together, Kept
<1>5. Follow'
  <2> SUFFICES ASSUME NEW s \in Slots, desc'[s] # None, item'[s] \notin skewed', file'[desc'[s]] # Other
               PROVE  cur_pos'[item'[s]] = offset'[desc'[s]]
    BY DEF Follow
  <2>1. PICK q \in Slots : item'[s] = item[q] /\ desc'[s] = desc[q]
    OBVIOUS
  <2>2. desc[q] \in Descs /\ item[q] \in Slots
    BY <2>1 DEF IInv, TypeOK, Kept
  <2>3. file'[desc'[s]] = file[desc[q]] /\ offset'[desc'[s]] = offset[desc[q]]
        /\ cur_pos'[item'[s]] = cur_pos[item[q]] /\ item[q] \notin skewed
    BY <1>1, <2>1, <2>2
  <2> QED
    BY <2>1, <2>2, <2>3 DEF IInv, Follow
<1> QED
  BY <1>2, <1>3, <1>4, <1>5 DEF IInv

LEMMA CloseStep ==
  ASSUME IInv, st = "run", NEW s \in Slots, Close(s)
  PROVE  IInv'
<1>1. /\ item' = [item EXCEPT ![s] = None] /\ desc' = [desc EXCEPT ![s] = None]
      /\ Release /\ UNCHANGED <<born, st>> /\ exact' \in BOOLEAN
  BY DEF Close, Lists
<1>2. /\ item' \in [Slots -> Slots \cup {None}] /\ desc' \in [Slots -> Descs \cup {None}]
      /\ \A q \in Slots :
           \/ item'[q] = None /\ desc'[q] = None
           \/ \E r \in Slots : r[1] = q[1] /\ r[1] \in born /\ item'[q] = item[r] /\ desc'[q] = desc[r]
  BY <1>1 DEF IInv, TypeOK, Kept
<1> QED
  BY <1>1, <1>2, ReleaseStep

LEMMA DupStep ==
  ASSUME IInv, st = "run", NEW s \in Slots, NEW new \in Slots, Dup(s, new)
  PROVE  IInv'
<1>1. /\ item' = [item EXCEPT ![new] = item[s]] /\ desc' = [desc EXCEPT ![new] = desc[s]]
      /\ new[1] = s[1] /\ IsOpen(s)
      /\ Release /\ UNCHANGED <<born, st>> /\ exact' \in BOOLEAN
  BY DEF Dup, Lists
<1>2. /\ item' \in [Slots -> Slots \cup {None}] /\ desc' \in [Slots -> Descs \cup {None}]
      /\ \A q \in Slots :
           \/ item'[q] = None /\ desc'[q] = None
           \/ \E r \in Slots : r[1] = q[1] /\ r[1] \in born /\ item'[q] = item[r] /\ desc'[q] = desc[r]
  BY <1>1 DEF IInv, TypeOK, Kept, IsOpen
<1> QED
  BY <1>1, <1>2, ReleaseStep

LEMMA ForkStep ==
  ASSUME IInv, st = "run", NEW t \in Tables, NEW u \in Tables, Fork(t, u)
  PROVE  IInv'
<1> DEFINE from(s) == <<t, s[2]>>
           copied(s) == s[1] = u /\ item[from(s)] # None
<1>1. /\ t \in born /\ u \notin born /\ born' = born \cup {u} /\ exact' \in BOOLEAN
      /\ desc' = [s \in Slots |-> IF s[1] = u THEN desc[from(s)] ELSE desc[s]]
      /\ item' = [s \in Slots |-> IF copied(s) THEN s ELSE item[s]]
      /\ cur_pos' = [s \in Slots |-> IF copied(s) THEN cur_pos[item[from(s)]] ELSE cur_pos[s]]
      /\ skewed' = {s \in Slots : IF copied(s) THEN item[from(s)] \in skewed ELSE s \in skewed}
      /\ UNCHANGED <<offset, file, append, st>>
  BY DEF Fork, Lists, CopiedMap
<1>2. \A s \in Slots : from(s) \in Slots /\ from(s)[1] = t
  BY SlotFacts
<1>3. \A s \in Slots : s[1] = u => item[s] = None /\ desc[s] = None
  BY <1>1 DEF IInv, Kept
<1>4. \A s, q \in Slots : item[q] = s => q[1] = s[1]
  BY SlotFacts DEF IInv, TypeOK
<1>5. \A s \in Slots : copied(s) => item[from(s)] \in Slots /\ item[from(s)][1] = t /\ desc[from(s)] # None
  BY <1>2, SlotFacts DEF IInv, TypeOK, Kept
<1> HIDE DEF from
<1>6. TypeOK'
  BY <1>1, <1>2, <1>5, SlotFacts DEF IInv, TypeOK
<1>7. Kept'
  <2>1. \A s \in Slots : item'[s] = None <=> desc'[s] = None
    BY <1>1, <1>2, <1>3, SlotFacts DEF IInv, Kept
  <2>2. \A s \in Slots : s[1] \notin born' => item'[s] = None
    BY <1>1 DEF IInv, Kept
  <2>3. ASSUME NEW m \in Slots, \A s \in Slots : item'[s] # m
        PROVE  cur_pos'[m] = 0
    <3>1. ~copied(m)
      BY <1>1, <2>3
    <3>2. \A s \in Slots : item[s] # m
      <4> SUFFICES ASSUME NEW s \in Slots, item[s] = m PROVE FALSE
        OBVIOUS
      <4>1. item[s] # None
        BY SlotFacts
      <4>2. s[1] # u
        BY <1>3, <4>1
      <4> QED
        BY <1>1, <2>3, <4>2
    <3> QED
      BY <1>1, <3>1, <3>2 DEF IInv, Kept, Used
  <2>4. ASSUME NEW d \in Descs, \A s \in Slots : desc'[s] # d
        PROVE  offset'[d] = 0
    <3>1. \A s \in Slots : desc[s] # d
      BY <1>1, <1>3, <2>4, SlotFacts
    <3> QED
      BY <1>1, <3>1 DEF IInv, Kept, Used
  <2> QED
    BY <2>1, <2>2, <2>3, <2>4 DEF Kept, Used
<1>8. Together'
  <2> SUFFICES ASSUME NEW s \in Slots, NEW q \in Slots, item'[s] # None, item'[s] = item'[q]
               PROVE  desc'[s] = desc'[q]
    BY DEF Together
  <2>1. CASE copied(s) \/ copied(q)
    <3>1. \A r \in Slots : copied(r) => item'[r] = r /\ r[1] = u
      BY <1>1
    <3>2. \A r \in Slots : ~copied(r) => item'[r] = item[r] /\ (item[r] \in Slots => item[r][1] # u)
      BY <1>1, <1>3, <1>4, SlotFacts
    <3> QED
      BY <2>1, <3>1, <3>2
  <2>2. CASE ~copied(s) /\ ~copied(q)
    <3>1. item[s] = item[q] /\ item[s] # None
      BY <1>1, <2>2
    <3>2. s[1] # u /\ q[1] # u
      BY <1>3, <3>1
    <3>3. desc'[s] = desc[s] /\ desc'[q] = desc[q]
      BY <1>1, <3>2
    <3> QED
      BY <3>1, <3>3 DEF IInv, Together
  <2> QED
    BY <2>1, <2>2
<1>9. Follow'
  <2> SUFFICES ASSUME NEW s \in Slots, desc'[s] # None, item'[s] \notin skewed', file'[desc'[s]] # Other
               PROVE  cur_pos'[item'[s]] = offset'[desc'[s]]
    BY DEF Follow
  <2>1. CASE copied(s)
    <3>1. item'[s] = s /\ desc'[s] = desc[from(s)] /\ cur_pos'[s] = cur_pos[item[from(s)]]
          /\ item[from(s)] \notin skewed
      BY <1>1, <2>1
    <3> QED
      BY <1>1, <1>2, <1>5, <2>1, <3>1 DEF IInv, Follow
  <2>2. CASE ~copied(s)
    <3>1. s[1] # u
      BY <1>1, <1>2, <2>2 DEF IInv, Kept
    <3>2. item'[s] = item[s] /\ desc'[s] = desc[s] /\ item[s] \in Slots /\ item[s][1] = s[1]
      BY <1>1, <2>2, <3>1 DEF IInv, Kept, TypeOK
    <3>3. cur_pos'[item[s]] = cur_pos[item[s]] /\ item[s] \notin skewed
      BY <1>1, <3>1, <3>2
    <3> QED
      BY <1>1, <3>2, <3>3 DEF IInv, Follow
  <2> QED
    BY <2>1, <2>2
<1> QED
  BY <1>6, <1>7, <1>8, <1>9 DEF IInv

-----------------------------------------------------------------------------
(* A call moves the position of s and the offset of its description by the *)
(* same, or s is skewed; the others on that description are skewed.        *)
LEMMA MoveStep ==
  ASSUME IInv, st = "run", NEW s \in Slots, IsOpen(s),
         UNCHANGED <<born, item, desc, file, append, st>>, exact' \in BOOLEAN,
         NEW p \in Int, cur_pos' = [cur_pos EXCEPT ![item[s]] = p],
         NEW o \in Nat, offset' = [offset EXCEPT ![desc[s]] = o],
         skewed' \in SUBSET Slots,
         item[s] \in skewed' \/ p = o,
         \A m \in Slots \ {item[s]} : m \notin skewed' => m \notin skewed,
         o # offset[desc[s]] => Sharers(s) \subseteq skewed'
  PROVE  IInv'
<1>1. /\ item[s] \in Slots /\ desc[s] \in Descs
      /\ \A q \in Slots : item[q] = item[s] => desc[q] = desc[s]
  BY OpenFacts
<1>2. TypeOK'
  BY <1>1 DEF IInv, TypeOK
<1>3. Kept' /\ Together'
  BY <1>1 DEF IInv, TypeOK, Kept, Together, Used
<1>4. Follow'
  <2> SUFFICES ASSUME NEW q \in Slots, desc[q] # None, item[q] \notin skewed', file[desc[q]] # Other
               PROVE  cur_pos'[item[q]] = offset'[desc[q]]
    BY DEF Follow
  <2>1. item[q] \in Slots /\ desc[q] \in Descs
    BY DEF IInv, TypeOK, Kept
  <2>2. CASE item[q] = item[s]
    BY <1>1, <2>1, <2>2 DEF IInv, TypeOK
  <2>3. CASE item[q] # item[s]
    <3>1. cur_pos'[item[q]] = cur_pos[item[q]] /\ item[q] \notin skewed
      BY <2>1, <2>3 DEF IInv, TypeOK
    <3>2. cur_pos[item[q]] = offset[desc[q]]
      BY <3>1 DEF IInv, Follow
    <3>3. offset'[desc[q]] = offset[desc[q]]
      <4>1. CASE desc[q] = desc[s]
        <5>1. item[q] \in Sharers(s)
          BY <2>3, <4>1 DEF Sharers
        <5> QED
          BY <1>1, <4>1, <5>1 DEF IInv, TypeOK
      <4>2. CASE desc[q] # desc[s]
        BY <1>1, <2>1, <4>2 DEF IInv, TypeOK
      <4> QED
        BY <4>1, <4>2
    <3> QED
      BY <3>1, <3>2, <3>3
  <2> QED
    BY <2>2, <2>3
<1> QED
  BY <1>2, <1>3, <1>4 DEF IInv

LEMMA SharersType ==
  ASSUME IInv, NEW s \in Slots, IsOpen(s)
  PROVE  Sharers(s) \subseteq Slots \ {item[s]}
BY OpenFacts DEF IInv, TypeOK, Kept, Sharers, IsOpen

LEMMA UseStep ==
  ASSUME IInv, st = "run", NEW s \in Slots, NEW kind, NEW n \in Counts, NEW off \in Nat,
         Use(kind, s, n, off)
  PROVE  IInv'
<1>1. n \in Int /\ (n # -1 => n \in Nat)
  BY PosAssumption DEF Counts
<1>2. /\ IsOpen(s) /\ SupportedType(s) /\ exact' \in BOOLEAN
      /\ cur_pos' = [cur_pos EXCEPT ![item[s]] = cur_pos[item[s]] + n]
      /\ offset' = IF n = -1 THEN offset ELSE [offset EXCEPT ![desc[s]] = off + n]
      /\ skewed' = skewed \cup (IF n = -1 \/ off # offset[desc[s]] THEN {item[s]} ELSE {})
                          \cup (IF n = -1 \/ off + n = offset[desc[s]] THEN {} ELSE Sharers(s))
      /\ UNCHANGED <<born, item, desc, file, append, st>>
  BY DEF Use, Moved, Lists
<1>3. item[s] \in Slots /\ desc[s] \in Descs
  BY <1>2, OpenFacts
<1>4. cur_pos[item[s]] + n \in Int
  BY <1>1, <1>3 DEF IInv, TypeOK
<1> DEFINE o == IF n = -1 THEN offset[desc[s]] ELSE off + n
<1>5. o \in Nat /\ offset' = [offset EXCEPT ![desc[s]] = o]
  <2>1. offset \in [Descs -> Nat] /\ offset[desc[s]] \in Nat
    BY <1>3 DEF IInv, TypeOK
  <2>2. CASE n = -1
    BY <1>2, <2>1, <2>2
  <2>3. CASE n # -1
    BY <1>1, <1>2, <2>1, <2>3
  <2> QED
    BY <2>2, <2>3
<1>6. item[s] \in skewed' \/ cur_pos[item[s]] + n = o
  <2>1. CASE item[s] \notin skewed /\ n # -1 /\ off = offset[desc[s]]
    <3>1. cur_pos[item[s]] = offset[desc[s]]
      BY <1>2, <2>1 DEF IInv, Follow, IsOpen, SupportedType, Name
    <3> QED
      BY <2>1, <3>1
  <2> QED
    BY <1>2, <2>1
<1>7. skewed' \in SUBSET Slots
  BY <1>2, <1>3, SharersType DEF IInv, TypeOK
<1>8. o # offset[desc[s]] => Sharers(s) \subseteq skewed'
  BY <1>2
<1> HIDE DEF o
<1> QED
  BY <1>2, <1>4, <1>5, <1>6, <1>7, <1>8, MoveStep

LEMMA LseekStep ==
  ASSUME IInv, st = "run", NEW s \in Slots, Lseek(s)
  PROVE  IInv'
<1>1. PICK to \in -1..MaxPos :
        /\ cur_pos' = [cur_pos EXCEPT ![item[s]] = to]
        /\ offset' = IF to = -1 THEN offset ELSE [offset EXCEPT ![desc[s]] = to]
        /\ skewed' = IF to = -1 THEN skewed \cup {item[s]} ELSE (skewed \ {item[s]}) \cup Sharers(s)
  BY DEF Lseek
<1>2. IsOpen(s) /\ exact' \in BOOLEAN /\ UNCHANGED <<born, item, desc, file, append, st>>
  BY DEF Lseek, Lists
<1>3. item[s] \in Slots /\ desc[s] \in Descs /\ to \in Int /\ (to # -1 => to \in Nat)
  BY <1>2, OpenFacts, PosAssumption
<1> DEFINE o == IF to = -1 THEN offset[desc[s]] ELSE to
<1>4. o \in Nat /\ offset' = [offset EXCEPT ![desc[s]] = o]
  BY <1>1, <1>3 DEF IInv, TypeOK
<1>5. skewed' \in SUBSET Slots
  BY <1>1, <1>2, <1>3, SharersType DEF IInv, TypeOK
<1>6. item[s] \in skewed' \/ to = o
  BY <1>1
<1>7. o # offset[desc[s]] => Sharers(s) \subseteq skewed'
  BY <1>1
<1>8. \A m \in Slots \ {item[s]} : m \notin skewed' => m \notin skewed
  BY <1>1
<1> HIDE DEF o
<1> QED
  BY <1>1, <1>2, <1>3, <1>4, <1>5, <1>6, <1>7, <1>8, MoveStep

LEMMA UseAtStep ==
  ASSUME IInv, NEW s \in Slots, NEW kind, NEW n, NEW off, NEW at, UseAt(kind, s, n, off, at)
  PROVE  IInv'
<1>1. UNCHANGED <<born, item, cur_pos, desc, offset, file, append, skewed, st>> /\ exact' \in BOOLEAN
  BY DEF UseAt, Lists
<1> QED
  BY <1>1 DEF IInv, TypeOK, Kept, Together, Follow, Used

LEMMA SendfileStep ==
  ASSUME IInv, st = "run", NEW in \in Slots, NEW out \in Slots, Sendfile(in, out)
  PROVE  IInv'
<1>1. PICK at \in (0..MaxPos) \cup {None}, size \in 1..MaxCount, n \in -1..MaxCount :
        LET own == at = None
            sent == IF n = -1 THEN 0 ELSE n
        IN  /\ \/ st' = "segv" /\ cur_pos' = cur_pos
               \/ /\ cur_pos' = [m \in Slots |->
                         IF m = item[in] /\ own /\ SupportedType(in) THEN MovedBySize(in, size)
                         ELSE IF m = item[out] /\ SupportedType(out) THEN Moved(out, n)
                         ELSE cur_pos[m]]
                  /\ st' = st
            /\ offset' = [d \in Descs |->
                 IF \/ d = desc[in] /\ own /\ SupportedType(in)
                    \/ d = desc[out] /\ SupportedType(out)
                 THEN offset[d] + sent ELSE offset[d]]
            /\ skewed' = skewed \cup (IF own /\ n # size THEN {item[in]} ELSE {})
                                \cup (IF n = -1 THEN {item[out]} ELSE {})
                                \cup (IF own /\ sent # 0 THEN Sharers(in) ELSE {})
                                \cup (IF sent # 0 THEN Sharers(out) ELSE {})
  BY SMTT(60) DEF Sendfile
<1> DEFINE own == at = None
           sent == IF n = -1 THEN 0 ELSE n
<1>2. /\ IsOpen(in) /\ IsOpen(out) /\ desc[in] # desc[out]
      /\ UNCHANGED <<born, item, desc, file, append>> /\ exact' \in BOOLEAN
  BY ZenonT(60) DEF Sendfile, Lists, IInv, TypeOK
<1>3. /\ item[in] \in Slots /\ desc[in] \in Descs /\ item[out] \in Slots /\ desc[out] \in Descs
      /\ \A q \in Slots : item[q] = item[in] => desc[q] = desc[in]
      /\ \A q \in Slots : item[q] = item[out] => desc[q] = desc[out]
  BY <1>2, OpenFacts
<1>4. size \in Nat /\ size # 0 /\ n \in Int /\ sent \in Nat /\ (n # -1 => sent = n)
  BY PosAssumption
<1>5. TypeOK'
  <2>1. offset' \in [Descs -> Nat]
    BY <1>1, <1>4 DEF IInv, TypeOK
  <2>2. cur_pos' \in [Slots -> Int] /\ exact' \in BOOLEAN /\ st' \in {"run", "segv"}
    BY <1>1, <1>2, <1>3, <1>4 DEF IInv, TypeOK, Moved, MovedBySize
  <2>3. skewed' \in SUBSET Slots
    BY <1>1, <1>2, <1>3, SharersType DEF IInv, TypeOK
  <2> QED
    BY <1>2, <2>1, <2>2, <2>3 DEF IInv, TypeOK
<1>6. Kept' /\ Together'
  <2>1. \A m \in Slots : m # item[in] /\ m # item[out] => cur_pos'[m] = cur_pos[m]
    BY <1>1 DEF IInv, TypeOK
  <2>2. \A d \in Descs : d # desc[in] /\ d # desc[out] => offset'[d] = offset[d]
    BY <1>1 DEF IInv, TypeOK
  <2> QED
    BY <1>2, <1>3, <2>1, <2>2 DEF IInv, Kept, Together, Used
<1>7. ASSUME st' = "run" PROVE Follow'
  <2> SUFFICES ASSUME NEW q \in Slots, desc[q] # None, item[q] \notin skewed', file[desc[q]] # Other
               PROVE  cur_pos'[item[q]] = offset'[desc[q]]
    BY <1>2 DEF Follow
  <2>1. item[q] \in Slots /\ desc[q] \in Descs
    BY DEF IInv, TypeOK, Kept
  <2>2. cur_pos[item[q]] = offset[desc[q]] /\ offset[desc[q]] \in Nat
    BY <1>1, <2>1 DEF IInv, Follow, TypeOK
  <2>3. cur_pos'[item[q]] =
          IF item[q] = item[in] /\ own /\ SupportedType(in) THEN cur_pos[item[in]] + size
          ELSE IF item[q] = item[out] /\ SupportedType(out) THEN cur_pos[item[out]] + n
          ELSE cur_pos[item[q]]
    BY <1>1, <1>7, <2>1 DEF Moved, MovedBySize
  <2>4. offset'[desc[q]] =
          IF \/ desc[q] = desc[in] /\ own /\ SupportedType(in)
             \/ desc[q] = desc[out] /\ SupportedType(out)
          THEN offset[desc[q]] + sent ELSE offset[desc[q]]
    BY <1>1, <2>1
  <2>5. /\ own /\ n # size => item[q] # item[in]
        /\ n = -1 => item[q] # item[out]
        /\ own /\ sent # 0 => item[q] \notin Sharers(in)
        /\ sent # 0 => item[q] \notin Sharers(out)
    BY <1>1
  <2> HIDE DEF own, sent
  <2>6. CASE item[q] = item[in]
    <3>1. desc[q] = desc[in] /\ item[q] # item[out]
      BY <1>2, <1>3, <2>6
    <3>2. SupportedType(in)
      BY <3>1 DEF SupportedType, Name
    <3>3. CASE own
      <4>1. n = size /\ n # -1 /\ sent = n
        BY <1>4, <2>5, <2>6, <3>3
      <4> QED
        BY <2>2, <2>3, <2>4, <2>6, <3>1, <3>2, <3>3, <4>1
    <3>4. CASE ~own
      BY <1>2, <2>2, <2>3, <2>4, <3>1, <3>4
    <3> QED
      BY <3>3, <3>4
  <2>7. CASE item[q] = item[out]
    <3>1. desc[q] = desc[out] /\ item[q] # item[in]
      BY <1>2, <1>3, <2>7
    <3>2. SupportedType(out) /\ n # -1 /\ sent = n
      BY <1>4, <2>5, <2>7, <3>1 DEF SupportedType, Name
    <3> QED
      BY <1>2, <2>2, <2>3, <2>4, <2>7, <3>1, <3>2
  <2>8. CASE item[q] # item[in] /\ item[q] # item[out]
    <3>1. cur_pos'[item[q]] = cur_pos[item[q]]
      BY <2>3, <2>8
    <3>2. offset'[desc[q]] # offset[desc[q]] => sent # 0
      BY <2>2, <2>4
    <3>3. /\ desc[q] = desc[in] => item[q] \in Sharers(in)
          /\ desc[q] = desc[out] => item[q] \in Sharers(out)
      BY <2>8 DEF Sharers
    <3>4. offset'[desc[q]] = offset[desc[q]]
      BY <2>4, <2>5, <3>2, <3>3
    <3> QED
      BY <2>2, <3>1, <3>4
  <2> QED
    BY <2>6, <2>7, <2>8
<1> QED
  BY <1>5, <1>6, <1>7 DEF IInv

LEMMA Keeps == IInv /\ [Next]_vars => IInv'
<1> SUFFICES ASSUME IInv, [Next]_vars PROVE IInv'
  OBVIOUS
<1>1. CASE UNCHANGED vars
  BY <1>1 DEF vars, IInv, TypeOK, Kept, Together, Follow, Used
<1>2. CASE Next
  <2>1. st = "run"
    BY <1>2 DEF Next
  <2>2. ASSUME NEW s \in Slots, Open(s) \/ Socket(s) PROVE IInv'
    BY <2>1, <2>2, OpenStep DEF Open, Socket
  <2>3. ASSUME NEW s \in Slots, Close(s) PROVE IInv'
    BY <2>1, <2>3, CloseStep
  <2>4. ASSUME NEW s \in Slots, Read(s) \/ Write(s) \/ WriteAtEnd(s) PROVE IInv'
    <3>1. CASE Read(s) \/ Write(s)
      <4>1. PICK kind \in {"read", "write"}, n \in Counts : Use(kind, s, n, offset[desc[s]])
        BY <3>1 DEF Read, Write
      <4>2. offset[desc[s]] \in Nat
        BY <4>1, OpenFacts DEF Use, IInv, TypeOK
      <4> QED
        BY <2>1, <4>1, <4>2, UseStep
    <3>2. CASE WriteAtEnd(s)
      <4>1. PICK n \in 1..MaxCount, end \in 0..MaxPos : Use("write", s, n, end)
        BY <3>2 DEF WriteAtEnd
      <4>2. n \in Counts /\ end \in Nat
        BY PosAssumption DEF Counts
      <4> QED
        BY <2>1, <4>1, <4>2, UseStep
    <3> QED
      BY <2>4, <3>1, <3>2
  <2>5. ASSUME NEW s \in Slots, Pread(s) \/ Pwrite(s) \/ PwriteAtEnd(s) PROVE IInv'
    BY <2>5, UseAtStep DEF Pread, Pwrite, PwriteAtEnd
  <2>6. ASSUME NEW s \in Slots, Lseek(s) PROVE IInv'
    BY <2>1, <2>6, LseekStep
  <2>7. ASSUME NEW s \in Slots, NEW q \in Slots, Dup(s, q) \/ Sendfile(s, q) PROVE IInv'
    BY <2>1, <2>7, DupStep, SendfileStep
  <2>8. ASSUME NEW t \in Tables, NEW u \in Tables, Fork(t, u) PROVE IInv'
    BY <2>1, <2>8, ForkStep
  <2> QED
    BY <1>2, <2>2, <2>3, <2>4, <2>5, <2>6, <2>7, <2>8 DEF Next
<1> QED
  BY <1>1, <1>2

LEMMA Implied == IInv => PositionsExact
<1> SUFFICES ASSUME IInv, st = "run", NEW s \in Slots, IsOpen(s)
             PROVE  /\ item[s] \notin skewed /\ SupportedType(s) => cur_pos[item[s]] = offset[desc[s]]
                    /\ \A fd \in Fds : item[<<s[1], fd>>] = item[s] => desc[<<s[1], fd>>] = desc[s]
  BY DEF PositionsExact
<1>1. item[s] \notin skewed /\ SupportedType(s) => cur_pos[item[s]] = offset[desc[s]]
  BY DEF IInv, Follow, IsOpen, SupportedType, Name
<1>2. \A fd \in Fds : item[<<s[1], fd>>] = item[s] => desc[<<s[1], fd>>] = desc[s]
  BY OpenFacts, SlotFacts
<1> QED
  BY <1>1, <1>2

-----------------------------------------------------------------------------
(* Whatever the recorded program did, the fd_maps, positions and open      *)
(* descriptions that simulate.c and its callers keep stay of their types:  *)
(* an fd_map belongs to the table of the descriptor that points to it.     *)
THEOREM TypeCorrect == Spec => []TypeOK
<1>1. IInv => TypeOK
  BY DEF IInv
<1> QED
  BY <1>1, Starts, Keeps, PTL DEF Spec

(* However reads, writes, seeks, dups, closes, forks and sendfiles follow  *)
(* each other, cur_pos is the offset that the kernel had, except where a   *)
(* failed or short call, a write that O_APPEND took to the end of the file *)
(* or another process's call skewed it, and all descriptors of an fd_map   *)
(* share one open description.                                             *)
THEOREM PositionsAreExact == Spec => []PositionsExact
<1> QED
  BY Starts, Keeps, Implied, PTL DEF Spec

-----------------------------------------------------------------------------
(* Nothing is skewed: a listed transfer is at the kernel's offset.         *)
LEMMA SameOffset ==
  ASSUME IInv, st = "run", skewed = {}, NEW s \in Slots, IsOpen(s), SupportedType(s)
  PROVE  cur_pos[item[s]] = offset[desc[s]]
BY DEF IInv, Follow, IsOpen, SupportedType, Name

LEMMA UseLists ==
  ASSUME IInv, st = "run", skewed = {}, NEW s \in Slots, NEW kind, NEW n \in Counts,
         Use(kind, s, n, offset[desc[s]])
  PROVE  exact'
<1>1. cur_pos[item[s]] = offset[desc[s]]
  BY SameOffset DEF Use
<1> QED
  BY <1>1 DEF Use, Lists

LEMMA UseAtLists ==
  ASSUME NEW s \in Slots, NEW kind, NEW n, NEW off, UseAt(kind, s, n, off, off)
  PROVE  exact'
BY DEF UseAt, Lists, ListedAt

LEMMA SendfileLists ==
  ASSUME IInv, st = "run", skewed = {}, NEW in \in Slots, NEW out \in Slots,
         Sendfile(in, out), st' = "run"
  PROVE  exact'
<1>1. SupportedType(in) => cur_pos[item[in]] = offset[desc[in]]
  BY SameOffset DEF Sendfile
<1>2. SupportedType(out) => cur_pos[item[out]] = offset[desc[out]]
  BY SameOffset DEF Sendfile
<1> DEFINE listed(at, n, inPos, outPos) ==
             IF n = -1 THEN {}
             ELSE (IF SupportedType(in) THEN {Transfer("read", in, IF at = None THEN inPos ELSE at, n)} ELSE {})
                  \cup (IF SupportedType(out) THEN {Transfer("write", out, outPos, n)} ELSE {})
<1>3. st' # "segv"
  OBVIOUS
<1>4. \E at \in (0..MaxPos) \cup {None}, n \in -1..MaxCount :
        Lists(listed(at, n, cur_pos[item[in]], cur_pos[item[out]]),
              listed(at, n, offset[desc[in]], offset[desc[out]]))
  BY <1>3, ZenonT(60) DEF Sendfile
<1>5. \A at, n : listed(at, n, cur_pos[item[in]], cur_pos[item[out]])
                  = listed(at, n, offset[desc[in]], offset[desc[out]])
  BY <1>1, <1>2
<1> HIDE DEF listed
<1> QED
  BY <1>4, <1>5 DEF Lists

LEMMA NextLists ==
  IInv /\ Next /\ skewed = {} /\ st' = "run" => exact' \/ \E s \in Slots : Appends(s)
<1> SUFFICES ASSUME IInv, Next, st = "run", skewed = {}, st' = "run", \A s \in Slots : ~Appends(s)
             PROVE  exact'
  BY DEF Next
<1>1. ASSUME NEW s \in Slots, Open(s) \/ Socket(s) \/ Close(s) \/ Lseek(s) PROVE exact'
  BY <1>1 DEF Open, Socket, OpenAs, Close, Lseek, Lists
<1>2. ASSUME NEW s \in Slots, Read(s) \/ Write(s) PROVE exact'
  BY <1>2, UseLists DEF Read, Write
<1>3. ASSUME NEW s \in Slots, Pread(s) \/ Pwrite(s) PROVE exact'
  BY <1>3, UseAtLists DEF Pread, Pwrite
<1>4. ASSUME NEW s \in Slots, NEW q \in Slots, Dup(s, q) \/ Sendfile(s, q) PROVE exact'
  BY <1>4, SendfileLists DEF Dup, Lists
<1>5. ASSUME NEW t \in Tables, NEW u \in Tables, Fork(t, u) PROVE exact'
  BY <1>5 DEF Fork, Lists
<1> QED
  BY <1>1, <1>2, <1>3, <1>4, <1>5 DEF Next, Appends

(* As long as nothing is skewed, what simulate_append_rw lists of a call   *)
(* are the transfers that the kernel made for it, at the same offsets and  *)
(* of the same sizes, and no others; a write that O_APPEND takes to the    *)
(* end of its file is the one call this is not claimed of.                 *)
THEOREM TransfersAreExact == Spec => TransfersExact
<1>1. IInv /\ [Next]_vars
        => [skewed = {} /\ st' = "run" => exact' \/ \E s \in Slots : Appends(s)]_vars
  BY NextLists
<1> QED
  BY <1>1, Starts, Keeps, PTL DEF Spec, TransfersExact
=============================================================================
