---------------------------- MODULE SimFsProofs ----------------------------
(***************************************************************************)
(* That the simulated file system agrees with the disk after any trace,    *)
(* and that its complaints are exactly the calls that would end otherwise. *)
(* The argument: while nothing was removed or denied, the paths that are   *)
(* on the disk or have a node are those of the repaired file system `own', *)
(* and the virtual ones among them exist in the recorded file system too,  *)
(* so that no complaint ever deletes one.                                  *)
(* The last section is about the names that the tree is searched for       *)
(* (module AbsoluteName): every foreseen name of a place is cut to the     *)
(* string of that place, however many parts it has.                        *)
(***************************************************************************)
EXTENDS SimNames, SequenceTheorems, WellFoundedInduction, TLAPS

LEMMA AboveFacts ==
  /\ Top \in Paths
  /\ \A p \in Paths : Above[p] \subseteq Paths /\ p \in Above[p] /\ Top \in Above[p]
  /\ \A p, q \in Paths : q \in Above[p] => Above[q] \subseteq Above[p]
  /\ \A p \in Names : p \in Paths /\ Parent[p] \in Paths /\ p # Top
                      /\ Above[p] = {p} \cup Above[Parent[p]] /\ p \notin Above[Parent[p]]
<1>1. \A p \in Paths : p \in Above[p]
  BY TreeAssumption DEF Names
<1>2. \A p \in Paths : Above[p] \subseteq Paths
  BY TreeAssumption
<1>. QED  BY <1>1, <1>2, TreeAssumption DEF Names

-----------------------------------------------------------------------------
(* Trees, for any content d of the disk.                                   *)
Tree(t) == /\ t \in [Paths -> NodeKinds]
           /\ t[Top] = "phys"
           /\ \A p \in Paths : Has(t, p) => \A q \in Above[p] : Has(t, q)
           /\ \A p \in Paths : Has(t, p) => (t[p] = "phys" <=> p \in disk)

(* What simfs knows to exist: nodes, and what the disk would give it.      *)
Known(t) == disk \cup {p \in Paths : Has(t, p)}

(* Populating finds just what is on the disk of a path.                    *)
LEMMA PopulateTree ==
  ASSUME disk \in FileSystems, NEW t, Tree(t), NEW p \in Names
  PROVE  /\ Tree(Populate(t, p))
         /\ Known(Populate(t, p)) = Known(t)
         /\ \A q \in Above[p] : Has(Populate(t, p), q) <=> q \in Known(t)
         /\ \A q \in Paths : Has(t, q) => Populate(t, p)[q] = t[q]
         /\ \A q \in Paths : Has(Populate(t, p), q) /\ q \notin disk => Has(t, q)
<1>. DEFINE u == Populate(t, p)
<1>0. \A q \in Paths : u[q] = IF t[q] = "none" /\ q \in Above[p] /\ q \in disk THEN "phys" ELSE t[q]
  BY DEF Populate
<1>1. u \in [Paths -> NodeKinds]
  BY DEF Populate, Tree, NodeKinds
<1>2. u[Top] = "phys"
  BY <1>0, AboveFacts DEF Tree
<1>3. \A q \in Paths : Has(u, q) <=> Has(t, q) \/ (q \in Above[p] /\ q \in disk)
  BY <1>0 DEF Has
<1>4. \A q \in Paths : Has(u, q) => \A r \in Above[q] : Has(u, r)
  <2>. SUFFICES ASSUME NEW q \in Paths, Has(u, q), NEW r \in Above[q] PROVE Has(u, r)
    OBVIOUS
  <2>1. r \in Paths
    BY AboveFacts
  <2>2. CASE Has(t, q)
    BY <1>3, <2>1, <2>2 DEF Tree
  <2>3. CASE q \in Above[p] /\ q \in disk
    BY <1>3, <2>1, <2>3, AboveFacts DEF FileSystems, Names
  <2>. QED  BY <1>3, <2>2, <2>3
<1>5. \A q \in Paths : Has(u, q) => (u[q] = "phys" <=> q \in disk)
  BY <1>0, <1>3 DEF Tree, Has
<1>6. disk \subseteq Paths
  BY DEF FileSystems
<1>7. Known(u) = Known(t)
  BY <1>3, <1>6 DEF Known
<1>8. \A q \in Above[p] : Has(u, q) <=> q \in Known(t)
  BY <1>3, AboveFacts DEF Known
<1>. QED
  BY <1>0, <1>1, <1>2, <1>3, <1>4, <1>5, <1>7, <1>8 DEF Tree, Has

(* Inserting a path below what is known of it.                             *)
LEMMA InsertTree ==
  ASSUME disk \in FileSystems, NEW u, Tree(u), NEW p \in Names,
         NEW kind \in {"virt", "made"},
         \A q \in Above[p] : q \in disk => Has(u, q)
  PROVE  /\ Tree(Insert(u, p, kind))
         /\ Known(Insert(u, p, kind)) = Known(u) \cup Above[p]
         /\ \A q \in Paths : Has(u, q) => Insert(u, p, kind)[q] = u[q]
         /\ \A q \in Paths : Has(Insert(u, p, kind), q) => Has(u, q) \/ q \in Above[p]
<1>. DEFINE v == Insert(u, p, kind)
<1>0. \A q \in Paths : v[q] = IF u[q] # "none" THEN u[q]
                              ELSE IF q = p THEN kind
                              ELSE IF q \in Above[p] THEN "virt" ELSE "none"
  BY DEF Insert
<1>1. v \in [Paths -> NodeKinds]
  BY DEF Insert, Tree, NodeKinds
<1>2. v[Top] = "phys"
  BY <1>0, AboveFacts DEF Tree
<1>3. \A q \in Paths : Has(v, q) <=> Has(u, q) \/ q \in Above[p]
  BY <1>0, AboveFacts DEF Has
<1>4. \A q \in Paths : Has(v, q) => \A r \in Above[q] : Has(v, r)
  <2>. SUFFICES ASSUME NEW q \in Paths, Has(v, q), NEW r \in Above[q] PROVE Has(v, r)
    OBVIOUS
  <2>1. r \in Paths
    BY AboveFacts
  <2>2. CASE Has(u, q)
    BY <1>3, <2>1, <2>2 DEF Tree
  <2>3. CASE q \in Above[p]
    BY <1>3, <2>1, <2>3, AboveFacts DEF Names
  <2>. QED  BY <1>3, <2>2, <2>3
<1>5. \A q \in Paths : Has(v, q) => (v[q] = "phys" <=> q \in disk)
  <2>. SUFFICES ASSUME NEW q \in Paths, Has(v, q) PROVE v[q] = "phys" <=> q \in disk
    OBVIOUS
  <2>1. CASE Has(u, q)
    BY <1>0, <2>1 DEF Tree, Has
  <2>2. CASE ~Has(u, q)
    BY <1>0, <1>3, <2>2 DEF Has
  <2>. QED  BY <2>1, <2>2
<1>6. Known(v) = Known(u) \cup Above[p]
  BY <1>3, AboveFacts DEF Known, Names
<1>. QED
  BY <1>0, <1>1, <1>2, <1>3, <1>4, <1>5, <1>6 DEF Tree, Has

(* Deleting a path and what is below it.                                   *)
LEMMA DeleteTree ==
  ASSUME NEW u, Tree(u), NEW p \in Names
  PROVE  /\ Tree(Delete(u, p))
         /\ \A q \in Paths : Has(Delete(u, p), q) => Has(u, q)
         /\ \A q \in Paths : p \notin Above[q] => Delete(u, p)[q] = u[q]
<1>. DEFINE v == Delete(u, p)
<1>0. \A q \in Paths : v[q] = IF p \in Above[q] THEN "none" ELSE u[q]
  BY DEF Delete
<1>1. v \in [Paths -> NodeKinds]
  BY DEF Delete, Tree, NodeKinds
<1>2. v[Top] = "phys"
  BY <1>0, AboveFacts, TreeAssumption DEF Tree
<1>3. \A q \in Paths : Has(v, q) => \A r \in Above[q] : Has(v, r)
  <2>. SUFFICES ASSUME NEW q \in Paths, Has(v, q), NEW r \in Above[q] PROVE Has(v, r)
    OBVIOUS
  <2>1. r \in Paths /\ Above[r] \subseteq Above[q]
    BY AboveFacts
  <2>2. p \notin Above[q] /\ Has(u, q)
    BY <1>0 DEF Has
  <2>. QED  BY <1>0, <2>1, <2>2 DEF Tree, Has
<1>. QED
  BY <1>0, <1>1, <1>2, <1>3 DEF Tree, Has

-----------------------------------------------------------------------------
(* Every handler keeps a tree a tree.                                      *)
Calls == {"access", "stat", "open", "creat", "excl", "mkdir", "unlink"}
Sayings == {"ok", "missing", "unwanted"}

LEMMA LookupTree ==
  ASSUME disk \in FileSystems, NEW t, Tree(t), NEW p \in Names, NEW ok \in BOOLEAN
  PROVE  Tree(Lookup(t, p, ok).trie) /\ Lookup(t, p, ok).said \in Sayings
<1>. DEFINE u == Populate(t, p)
<1>1. Tree(u) /\ \A q \in Above[p] : q \in disk => Has(u, q)
  BY PopulateTree DEF Known
<1>2. Tree(Insert(u, p, "virt"))
  BY <1>1, InsertTree
<1>3. Tree(Delete(u, p))
  BY <1>1, DeleteTree
<1>. HIDE DEF u
<1>. QED  BY <1>1, <1>2, <1>3 DEF Lookup, Answer, Sayings, u

LEMMA MkdirTree ==
  ASSUME disk \in FileSystems, NEW t, Tree(t), NEW p \in Names, NEW ok \in BOOLEAN
  PROVE  Tree(Mkdir(t, p, ok).trie) /\ Mkdir(t, p, ok).said \in Sayings
<1>. DEFINE u == Populate(t, p)
<1>1. Tree(u) /\ \A q \in Above[p] : q \in disk => Has(u, q)
  BY PopulateTree DEF Known
<1>2. Tree(Insert(u, p, "made"))
  BY <1>1, InsertTree
<1>. HIDE DEF u
<1>. QED  BY <1>1, <1>2 DEF Mkdir, Answer, Sayings, u

LEMMA UnlinkTree ==
  ASSUME disk \in FileSystems, NEW t, Tree(t), NEW p \in Names, NEW ok \in BOOLEAN
  PROVE  Tree(Unlink(t, p, ok).trie) /\ Unlink(t, p, ok).said \in Sayings
<1>. DEFINE u == Populate(t, p)
<1>1. Tree(u) /\ \A q \in Above[p] : q \in disk => Has(u, q)
  BY PopulateTree DEF Known
<1>2. Tree(Insert(u, p, "virt"))
  BY <1>1, InsertTree
<1>3. Tree(Delete(u, p)) /\ Tree(Delete(t, p)) /\ Tree(Delete(Insert(u, p, "virt"), p))
  BY <1>1, <1>2, DeleteTree
<1>. HIDE DEF u
<1>. QED  BY <1>1, <1>3 DEF Unlink, Answer, Sayings, u

LEMMA CreatTree ==
  ASSUME disk \in FileSystems, NEW t, Tree(t), NEW p \in Names, NEW ok \in BOOLEAN, NEW flags
  PROVE  Tree(Creat(t, p, ok, flags).trie) /\ Creat(t, p, ok, flags).said \in Sayings
<1>. DEFINE u == Populate(t, p)
<1>1. Tree(u) /\ \A q \in Above[p] : q \in disk => Has(u, q)
  BY PopulateTree DEF Known
<1>2. Tree(Insert(u, p, "virt"))
  BY <1>1, InsertTree
<1>3. Tree(Delete(u, p))
  BY <1>1, DeleteTree
<1>4. Tree(Mkdir(t, p, ok).trie) /\ Mkdir(t, p, ok).said \in Sayings
  BY MkdirTree
<1>. HIDE DEF u
<1>. QED  BY <1>1, <1>2, <1>3, <1>4 DEF Creat, Answer, Sayings, u

LEMMA SimulateTree ==
  ASSUME disk \in FileSystems, NEW t, Tree(t), NEW p \in Names, NEW ok \in BOOLEAN, NEW op
  PROVE  Tree(Simulate(t, op, p, ok).trie) /\ Simulate(t, op, p, ok).said \in Sayings
BY LookupTree, MkdirTree, UnlinkTree, CreatTree DEF Simulate

-----------------------------------------------------------------------------
(* The invariant.  VirtualIsRecorded is why a complaint about a file that  *)
(* should not be there never deletes a virtual node with it.               *)
VirtualIsRecorded(t, fs) == \A q \in Paths : Has(t, q) /\ q \notin disk => q \in fs
IInv ==
  /\ TypeOK
  /\ Tree(node)
  /\ clean => rec \in FileSystems /\ own = Known(node) /\ VirtualIsRecorded(node, rec)
  /\ AlarmExact

LEMMA DeleteKnown ==
  ASSUME disk \in FileSystems, NEW u, Tree(u), NEW p \in Names,
         NEW fs \in FileSystems, VirtualIsRecorded(u, fs), p \notin fs
  PROVE  Known(Delete(u, p)) = Known(u) /\ VirtualIsRecorded(Delete(u, p), fs)
<1>1. \A q \in Paths : Has(Delete(u, p), q) => Has(u, q)
  BY DeleteTree
<1>2. \A q \in Paths : Has(u, q) => q \in disk \/ Has(Delete(u, p), q)
  <2>. SUFFICES ASSUME NEW q \in Paths, Has(u, q), q \notin disk PROVE Has(Delete(u, p), q)
    OBVIOUS
  <2>1. Above[q] \subseteq fs
    BY DEF VirtualIsRecorded, FileSystems
  <2>. QED  BY <2>1, DeleteTree DEF Has
<1>. QED  BY <1>1, <1>2 DEF Known, VirtualIsRecorded

(* What a call that was neither a removal nor denied does to what is known *)
(* and to what is recorded, and what is said to it.                        *)
Agrees(op, p, ok, a) ==
  /\ Known(a.trie) = (IF ok THEN Repaired(op, p) ELSE own)
  /\ VirtualIsRecorded(a.trie, IF ok THEN After(rec, op, p) ELSE rec)
  /\ ~(op = "creat" /\ ~ok) => (a.said # "ok" <=> ok # Succeeds(own, op, p))

LEMMA OwnFacts ==
  ASSUME TypeOK, Tree(node), own = Known(node), NEW p \in own
  PROVE  p \in Paths /\ Above[p] \subseteq own
BY AboveFacts DEF Known, Tree, TypeOK, FileSystems

LEMMA RecFacts ==
  ASSUME rec \in FileSystems, NEW op \in Calls \ Removals, NEW p \in Names, Succeeds(rec, op, p)
  PROVE  After(rec, op, p) \in FileSystems /\ Above[p] \subseteq After(rec, op, p)
         /\ rec \subseteq After(rec, op, p)
<1>1. CASE op \in Lookups
  BY <1>1 DEF After, Succeeds, FileSystems, Lookups
<1>2. CASE op \notin Lookups
  <2>1. Parent[p] \in rec
    BY <1>2 DEF Succeeds, Calls, Removals, Lookups
  <2>2. Above[p] \subseteq rec \cup {p}
    BY <2>1, AboveFacts DEF FileSystems
  <2>3. After(rec, op, p) = rec \cup {p}
    BY <1>2 DEF After, Removals
  <2>4. rec \cup {p} \in FileSystems
    BY <2>2, AboveFacts DEF FileSystems
  <2>. QED  BY <2>2, <2>3, <2>4
<1>. QED  BY <1>1, <1>2

(* A call that neither removes nor was denied, and the facts of IInv.      *)
Meets(op, p, ok) ==
  /\ TypeOK /\ Tree(node) /\ rec \in FileSystems
  /\ own = Known(node) /\ VirtualIsRecorded(node, rec)
  /\ op \in Calls \ Removals /\ p \in Names /\ ok = Succeeds(rec, op, p)

LEMMA RepairedIs ==
  ASSUME NEW op \in Calls \ Removals, NEW p \in Names
  PROVE  Repaired(op, p) = own \cup Above[p]
BY AboveFacts DEF Repaired, After, Removals

(* The three things a handler does with the populated tree.                *)
LEMMA PopulateAgrees ==
  ASSUME NEW op, NEW p, NEW ok, Meets(op, p, ok)
  PROVE  LET u == Populate(node, p)
         IN  /\ Tree(u) /\ Known(u) = own /\ VirtualIsRecorded(u, rec)
             /\ Has(u, p) <=> p \in own
             /\ Has(u, Parent[p]) <=> Parent[p] \in own
             /\ p \in own => Above[p] \subseteq own /\ Parent[p] \in own
             /\ \A q \in Above[p] : q \in disk => Has(u, q)
<1>. USE DEF Meets
<1>1. disk \in FileSystems
  BY DEF TypeOK
<1>2. p \in Above[p] /\ Parent[p] \in Above[p] /\ Parent[p] \in Above[Parent[p]]
  BY AboveFacts
<1>3. p \in own => Above[p] \subseteq own
  BY OwnFacts
<1>. DEFINE u == Populate(node, p)
<1>4. /\ Tree(u) /\ Known(u) = own
      /\ \A q \in Above[p] : Has(u, q) <=> q \in own
      /\ \A q \in Paths : Has(u, q) /\ q \notin disk => Has(node, q)
  BY <1>1, PopulateTree
<1>5. \A q \in Above[p] : q \in disk => Has(u, q)
  BY <1>4 DEF Known
<1>. HIDE DEF u
<1>. QED  BY <1>2, <1>3, <1>4, <1>5 DEF VirtualIsRecorded, u

LEMMA InsertAgrees ==
  ASSUME NEW op, NEW p, NEW ok, Meets(op, p, ok), ok, NEW kind \in {"virt", "made"}
  PROVE  LET v == Insert(Populate(node, p), p, kind)
         IN  Known(v) = Repaired(op, p) /\ VirtualIsRecorded(v, After(rec, op, p))
<1>. USE DEF Meets
<1>. DEFINE u == Populate(node, p)
<1>1. disk \in FileSystems
  BY DEF TypeOK
<1>2. /\ Tree(u) /\ Known(u) = own /\ VirtualIsRecorded(u, rec)
      /\ \A q \in Above[p] : q \in disk => Has(u, q)
  BY PopulateAgrees
<1>3. Above[p] \subseteq After(rec, op, p) /\ rec \subseteq After(rec, op, p)
  BY RecFacts
<1>. HIDE DEF u
<1>4. /\ Known(Insert(u, p, kind)) = own \cup Above[p]
      /\ \A q \in Paths : Has(Insert(u, p, kind), q) => Has(u, q) \/ q \in Above[p]
  BY <1>1, <1>2, InsertTree
<1>5. VirtualIsRecorded(Insert(u, p, kind), After(rec, op, p))
  BY <1>2, <1>3, <1>4 DEF VirtualIsRecorded
<1>. QED  BY <1>4, <1>5, RepairedIs DEF u

LEMMA DeleteAgrees ==
  ASSUME NEW op, NEW p, NEW ok, Meets(op, p, ok), ~ok, op \in Lookups
  PROVE  LET v == Delete(Populate(node, p), p)
         IN  Known(v) = own /\ VirtualIsRecorded(v, rec)
<1>. USE DEF Meets
<1>1. disk \in FileSystems /\ p \notin rec
  BY DEF TypeOK, Succeeds
<1>. QED  BY <1>1, PopulateAgrees, DeleteKnown

-----------------------------------------------------------------------------
(* Every handler agrees.                                                   *)
LEMMA BooleansDiffer ==
  ASSUME NEW a \in BOOLEAN, NEW b \in BOOLEAN
  PROVE  (a # b) <=> ~(a <=> b)
OBVIOUS

LEMMA AnswerAgrees ==
  ASSUME NEW op, NEW p, NEW ok \in BOOLEAN, NEW t, NEW said,
         ok => Known(t) = Repaired(op, p) /\ VirtualIsRecorded(t, After(rec, op, p)),
         ~ok => Known(t) = own /\ VirtualIsRecorded(t, rec),
         ~(op = "creat" /\ ~ok) => (said = "ok" <=> (ok <=> Succeeds(own, op, p)))
  PROVE  Agrees(op, p, ok, Answer(t, said))
<1>. DEFINE a == Answer(t, said)
<1>1. a.trie = t /\ a.said = said
  BY DEF Answer
<1>2. Succeeds(own, op, p) \in BOOLEAN
  BY Zenon DEF Succeeds
<1>3. (ok # Succeeds(own, op, p)) <=> ~(ok <=> Succeeds(own, op, p))
  BY <1>2, BooleansDiffer
<1>. HIDE DEF a
<1>4. Agrees(op, p, ok, a)
  BY <1>1, <1>3, Zenon DEF Agrees
<1>. QED  BY <1>4 DEF a

LEMMA LookupAgrees ==
  ASSUME NEW op \in {"access", "stat"}, NEW p, NEW ok \in BOOLEAN, Meets(op, p, ok)
  PROVE  Agrees(op, p, ok, Lookup(node, p, ok))
<1>. DEFINE u == Populate(node, p)
<1>. DEFINE v == Insert(u, p, "virt")
<1>. DEFINE w == Delete(u, p)
<1>1. Succeeds(own, op, p) <=> p \in own
  BY DEF Succeeds, Lookups, Removals
<1>2. After(rec, op, p) = rec
  BY DEF After, Lookups
<1>3. /\ Known(u) = own /\ VirtualIsRecorded(u, rec) /\ (Has(u, p) <=> p \in own)
      /\ p \in own => Above[p] \subseteq own
  BY PopulateAgrees
<1>4. ok => Known(v) = Repaired(op, p) /\ VirtualIsRecorded(v, rec)
  BY <1>2, InsertAgrees
<1>5. ~ok => Known(w) = own /\ VirtualIsRecorded(w, rec)
  BY DeleteAgrees DEF Lookups
<1>6. p \in own => Repaired(op, p) = own
  BY <1>3, RepairedIs DEF Meets
<1>7. CASE ok <=> Has(u, p)
  <2>1. Lookup(node, p, ok) = Answer(u, "ok")
    BY <1>7 DEF Lookup, Has
  <2>. HIDE DEF u, v, w
  <2>. QED  BY <1>1, <1>2, <1>3, <1>6, <1>7, <2>1, AnswerAgrees
<1>8. CASE ok /\ ~Has(u, p)
  <2>1. Lookup(node, p, ok) = Answer(v, "missing")
    BY <1>8 DEF Lookup
  <2>. HIDE DEF u, v, w
  <2>. QED  BY <1>1, <1>2, <1>3, <1>4, <1>8, <2>1, AnswerAgrees
<1>9. CASE ~ok /\ Has(u, p)
  <2>1. \/ Lookup(node, p, ok) = Answer(w, "unwanted")
        \/ Lookup(node, p, ok) = Answer(u, "unwanted")
    BY <1>9 DEF Lookup
  <2>. HIDE DEF u, v, w
  <2>. QED  BY <1>1, <1>3, <1>5, <1>9, <2>1, AnswerAgrees
<1>. QED  BY <1>7, <1>8, <1>9

(* simfs_mkdir, which is also called for an open that creates: with        *)
(* O_CREAT alone only when there is nothing at the path.                   *)
LEMMA MkdirAgrees ==
  ASSUME NEW op \in {"mkdir", "creat", "excl"}, NEW p, NEW ok \in BOOLEAN, Meets(op, p, ok),
         op = "creat" => p \notin own
  PROVE  Agrees(op, p, ok, Mkdir(node, p, ok))
<1>. DEFINE u == Populate(node, p)
<1>. DEFINE v == Insert(u, p, "made")
<1>1. Succeeds(own, op, p) <=> p \notin own /\ Parent[p] \in own
  BY DEF Succeeds, Lookups, Removals
<1>2. rec \subseteq After(rec, op, p)
  BY DEF After, Lookups, Removals
<1>3. /\ Known(u) = own /\ VirtualIsRecorded(u, rec) /\ (Has(u, p) <=> p \in own)
      /\ Has(u, Parent[p]) <=> Parent[p] \in own
      /\ p \in own => Above[p] \subseteq own
  BY PopulateAgrees
<1>4. ok => Known(v) = Repaired(op, p) /\ VirtualIsRecorded(v, After(rec, op, p))
  BY InsertAgrees
<1>5. p \in own => Repaired(op, p) = own
  BY <1>3, RepairedIs DEF Meets
<1>6. VirtualIsRecorded(u, After(rec, op, p))
  BY <1>2, <1>3 DEF VirtualIsRecorded
<1>7. CASE Has(u, p)
  <2>1. Mkdir(node, p, ok) = Answer(u, IF ok THEN "unwanted" ELSE "ok")
    BY <1>7 DEF Mkdir
  <2>. HIDE DEF u, v
  <2>. QED  BY <1>1, <1>3, <1>5, <1>6, <1>7, <2>1, AnswerAgrees
<1>8. CASE ok /\ ~Has(u, p)
  <2>1. Mkdir(node, p, ok) = Answer(v, IF Has(u, Parent[p]) THEN "ok" ELSE "missing")
    BY <1>8 DEF Mkdir
  <2>. HIDE DEF u, v
  <2>. QED  BY <1>1, <1>3, <1>4, <1>8, <2>1, AnswerAgrees
<1>9. CASE ~ok /\ ~Has(u, p)
  <2>1. Mkdir(node, p, ok) = Answer(u, IF Has(u, Parent[p]) THEN "unwanted" ELSE "ok")
    BY <1>9 DEF Mkdir
  <2>. HIDE DEF u, v
  <2>. QED  BY <1>1, <1>3, <1>9, <2>1, AnswerAgrees
<1>. QED  BY <1>7, <1>8, <1>9

LEMMA CreatAgrees ==
  ASSUME NEW op \in {"open", "creat", "excl"}, NEW p, NEW ok \in BOOLEAN, Meets(op, p, ok)
  PROVE  Agrees(op, p, ok, Creat(node, p, ok, op))
<1>. DEFINE u == Populate(node, p)
<1>. DEFINE v == Insert(u, p, "virt")
<1>. DEFINE w == Delete(u, p)
<1>1. /\ Known(u) = own /\ VirtualIsRecorded(u, rec) /\ (Has(u, p) <=> p \in own)
      /\ p \in own => Above[p] \subseteq own /\ Parent[p] \in own
  BY PopulateAgrees
<1>2. p \in own => Repaired(op, p) = own
  BY <1>1, RepairedIs DEF Meets
<1>3. ok => Known(v) = Repaired(op, p) /\ VirtualIsRecorded(v, After(rec, op, p))
  BY InsertAgrees
<1>4. op = "open" /\ ~ok => Known(w) = own /\ VirtualIsRecorded(w, rec)
  BY DeleteAgrees DEF Lookups
<1>5. rec \subseteq After(rec, op, p)
  BY DEF After, Lookups, Removals
<1>6. VirtualIsRecorded(u, After(rec, op, p))
  BY <1>1, <1>5 DEF VirtualIsRecorded
<1>7. p \notin own /\ op # "open" => Agrees(op, p, ok, Mkdir(node, p, ok))
  BY MkdirAgrees
<1>8. op = "open" => (Succeeds(own, op, p) <=> p \in own)
  BY DEF Succeeds, Lookups, Removals
<1>9. op # "open" /\ p \in own => (Succeeds(own, op, p) <=> op = "creat")
  BY <1>1 DEF Succeeds, Lookups, Removals
<1>10. CASE ~Has(u, p) /\ op # "open"
  <2>1. Creat(node, p, ok, op) = Mkdir(node, p, ok)
    BY <1>10 DEF Creat
  <2>. QED  BY <1>1, <1>7, <1>10, <2>1
<1>11. CASE ~Has(u, p) /\ op = "open"
  <2>1. Creat(node, p, ok, op) = IF ok THEN Answer(v, "missing") ELSE Answer(u, "ok")
    BY <1>11 DEF Creat
  <2>. HIDE DEF u, v, w
  <2>. QED  BY <1>1, <1>3, <1>8, <1>11, <2>1, AnswerAgrees
<1>12. CASE Has(u, p) /\ op # "open"
  <2>1. Creat(node, p, ok, op) = Answer(u, IF op = "excl" /\ ok THEN "unwanted" ELSE "ok")
    BY <1>12 DEF Creat
  <2>. HIDE DEF u, v, w
  <2>. QED  BY <1>1, <1>2, <1>6, <1>9, <1>12, <2>1, AnswerAgrees
<1>13. CASE Has(u, p) /\ op = "open"
  <2>1. Creat(node, p, ok, op) = IF ok THEN Answer(u, "ok") ELSE Answer(w, "unwanted")
    BY <1>13 DEF Creat
  <2>. HIDE DEF u, v, w
  <2>. QED  BY <1>1, <1>2, <1>4, <1>6, <1>8, <1>13, <2>1, AnswerAgrees
<1>. QED  BY <1>10, <1>11, <1>12, <1>13

LEMMA SimulateAgrees ==
  ASSUME NEW op, NEW p, NEW ok \in BOOLEAN, Meets(op, p, ok)
  PROVE  Agrees(op, p, ok, Simulate(node, op, p, ok))
<1>1. op \in {"access", "stat", "mkdir", "open", "creat", "excl"}
  BY DEF Meets, Calls, Removals
<1>2. CASE op \in {"access", "stat"}
  BY <1>2, LookupAgrees DEF Simulate
<1>3. CASE op = "mkdir"
  BY <1>3, MkdirAgrees DEF Simulate
<1>4. CASE op \in {"open", "creat", "excl"}
  BY <1>4, CreatAgrees DEF Simulate
<1>. QED  BY <1>1, <1>2, <1>3, <1>4
-----------------------------------------------------------------------------
(* A step is a call.                                                       *)
LEMMA HandleTypes ==
  ASSUME IInv, NEW p \in Names, NEW ok \in BOOLEAN, NEW op \in Calls, Handle(op, p, ok)
  PROVE  TypeOK' /\ Tree(node)'
<1>. DEFINE a == Simulate(node, op, p, ok)
<1>1. disk \in FileSystems /\ disk' = disk /\ TypeOK /\ Tree(node)
  BY DEF IInv, TypeOK, Handle
<1>2. Tree(a.trie) /\ a.said \in Sayings
  BY <1>1, SimulateTree
<1>3. node' = a.trie /\ last' = [said |-> a.said, differs |-> ok # Succeeds(own, op, p),
                                 creatFailed |-> op = "creat" /\ ~ok]
  BY DEF Handle
<1>. HIDE DEF a
<1>4. Tree(node)'
  BY <1>1, <1>2, <1>3 DEF Tree
<1>5. node' \in [Paths -> NodeKinds]
  BY <1>4 DEF Tree
<1>6. last' \in [said : {"ok", "missing", "unwanted"}, differs : BOOLEAN, creatFailed : BOOLEAN]
  BY <1>2, <1>3 DEF Sayings
<1>7. rec' \in SUBSET Paths /\ own' \in SUBSET Paths
  <2>1. p \in Paths /\ Above[Parent[p]] \subseteq Paths
    BY AboveFacts
  <2>2. After(rec, op, p) \subseteq rec \cup {p}
    BY DEF After
  <2>3. Repaired(op, p) \subseteq own \cup Above[Parent[p]] \cup {p}
    BY DEF Repaired, After
  <2>. QED  BY <1>1, <2>1, <2>2, <2>3 DEF Handle, TypeOK
<1>8. first' \in [Paths -> {"none", "found", "made"}]
  BY <1>1 DEF Handle, TypeOK, FirstUse
<1>9. clean' \in BOOLEAN
  BY DEF Handle
<1>. QED  BY <1>1, <1>4, <1>5, <1>6, <1>7, <1>8, <1>9 DEF TypeOK

LEMMA HandleAgrees ==
  ASSUME IInv, NEW p \in Names, NEW ok \in BOOLEAN, NEW op \in Calls, Handle(op, p, ok), clean'
  PROVE  /\ rec' \in FileSystems /\ own' = Known(node)' /\ VirtualIsRecorded(node, rec)'
         /\ AlarmExact'
<1>. DEFINE a == Simulate(node, op, p, ok)
<1>1. clean /\ op \notin Removals /\ ok = Succeeds(rec, op, p)
  BY DEF Handle
<1>2. Meets(op, p, ok)
  BY <1>1 DEF IInv, Meets
<1>3. Agrees(op, p, ok, a)
  BY <1>2, SimulateAgrees
<1>4. /\ node' = a.trie /\ disk' = disk
      /\ last' = [said |-> a.said, differs |-> ok # Succeeds(own, op, p),
                  creatFailed |-> op = "creat" /\ ~ok]
      /\ rec' = (IF ok THEN After(rec, op, p) ELSE rec)
      /\ own' = (IF ok THEN Repaired(op, p) ELSE own)
  BY DEF Handle
<1>5. rec' \in FileSystems
  BY <1>1, <1>2, <1>4, RecFacts DEF Meets
<1>. HIDE DEF a
<1>6. own' = Known(node)'
  BY <1>3, <1>4 DEF Agrees, Known
<1>7. VirtualIsRecorded(node, rec)'
  BY <1>3, <1>4 DEF Agrees, VirtualIsRecorded
<1>8. AlarmExact'
  <2>1. /\ last'.said = a.said /\ last'.differs = (ok # Succeeds(own, op, p))
        /\ last'.creatFailed = (op = "creat" /\ ~ok)
    BY <1>4
  <2>. QED  BY <1>3, <2>1, Zenon DEF Agrees, AlarmExact
<1>. QED  BY <1>5, <1>6, <1>7, <1>8

LEMMA InitIInv == Init => IInv
<1>. SUFFICES ASSUME Init PROVE IInv
  OBVIOUS
<1>1. TypeOK
  BY AboveFacts DEF Init, TypeOK, FileSystems, NodeKinds
<1>2. \A p \in Paths : Has(node, p) <=> p = Top
  BY DEF Init, Has
<1>3. Top \in disk /\ disk \subseteq Paths
  BY DEF Init, FileSystems
<1>4. Tree(node)
  BY <1>1, <1>2, <1>3, AboveFacts, TreeAssumption DEF Tree, Init, TypeOK
<1>5. rec \in FileSystems /\ own = Known(node) /\ VirtualIsRecorded(node, rec)
  BY <1>2, <1>3 DEF Init, Known, VirtualIsRecorded
<1>6. AlarmExact
  BY DEF Init, AlarmExact
<1>. QED  BY <1>1, <1>4, <1>5, <1>6 DEF IInv

LEMMA NextIInv == IInv /\ [Next]_vars => IInv'
<1>. SUFFICES ASSUME IInv, [Next]_vars PROVE IInv'
  OBVIOUS
<1>1. ASSUME NEW p \in Names, NEW ok \in BOOLEAN, NEW op \in Calls, Handle(op, p, ok)
      PROVE  IInv'
  <2>1. TypeOK' /\ Tree(node)'
    BY <1>1, HandleTypes
  <2>2. clean' => /\ rec' \in FileSystems /\ own' = Known(node)' /\ VirtualIsRecorded(node, rec)'
                  /\ AlarmExact'
    BY <1>1, HandleAgrees
  <2>3. ~clean' => AlarmExact'
    BY DEF AlarmExact
  <2>. QED  BY <2>1, <2>2, <2>3 DEF IInv
<1>2. CASE Next
  <2>1. PICK p \in Names :
          \/ Access(p) \/ Stat(p) \/ Open(p) \/ OpenCreating(p)
          \/ MakeDirectory(p) \/ RemoveDirectory(p) \/ RemoveFile(p)
    BY <1>2 DEF Next
  <2>2. CASE RemoveDirectory(p)
    <3>1. /\ ~clean' /\ clean' \in BOOLEAN /\ rec' \in SUBSET Paths
          /\ UNCHANGED <<disk, node, own, first, last>>
      BY <2>2 DEF RemoveDirectory, After, Lookups, Removals, IInv, TypeOK
    <3>. QED  BY <3>1 DEF IInv, TypeOK, Tree, AlarmExact, Has
  <2>3. CASE ~RemoveDirectory(p)
    <3>1. \E ok \in BOOLEAN, op \in Calls : Handle(op, p, ok)
      BY <2>1, <2>3 DEF Access, Stat, Open, OpenCreating, MakeDirectory, RemoveFile, Calls
    <3>. QED  BY <1>1, <3>1
  <2>. QED  BY <2>2, <2>3
<1>3. CASE UNCHANGED vars
  BY <1>3 DEF vars, IInv, TypeOK, Tree, Known, VirtualIsRecorded, AlarmExact, Has
<1>. QED  BY <1>2, <1>3

-----------------------------------------------------------------------------
(* The variables keep their types: whatever simfs_access, _stat, _mkdir,   *)
(* _unlink and _creat insert and mark, a node of the trie is physical,     *)
(* created or neither, and never both.                                     *)
THEOREM TypeCorrect == Spec => []TypeOK
<1>1. IInv => TypeOK
  BY DEF IInv
<1>. QED  BY <1>1, InitIInv, NextIInv, PTL DEF Spec

(* After any calls, with any results, on any tree of names: the trie has   *)
(* no node without the ones above it, and its physical nodes are those of  *)
(* paths on the disk.                                                      *)
THEOREM TrieAgrees == Spec => []TrieFollowsDisk
<1>1. IInv => TrieFollowsDisk
  BY DEF IInv, Tree, TrieFollowsDisk
<1>. QED  BY <1>1, InitIInv, NextIInv, PTL DEF Spec

(* Until a path is removed or a call fails for a reason of its own, and    *)
(* for names that do not end with a slash, simulate_access to              *)
(* simulate_creat complain of exactly the calls that would end otherwise   *)
(* on the disk with what earlier calls made and what was missing for them. *)
(* Files that a complaint asks to delete are still on that disk.           *)
THEOREM AlarmsAreExact == Spec => []AlarmExact
<1>1. IInv => AlarmExact
  BY DEF IInv
<1>. QED  BY <1>1, InitIInv, NextIInv, PTL DEF Spec

-----------------------------------------------------------------------------
(* The final report.  Off the disk the trie only grows, while nothing is   *)
(* removed or denied: by the path of a call that succeeded, virtual or     *)
(* made by it, and by the directories above it.                            *)
GrownBy(op, p, ok, t) ==
  \A q \in Paths \ disk :
    t[q] = IF node[q] # "none" THEN node[q]
           ELSE IF ok /\ q = p THEN (IF op \in Lookups THEN "virt" ELSE "made")
           ELSE IF ok /\ q \in Above[p] THEN "virt" ELSE "none"

LEMMA PopulateGrows ==
  ASSUME NEW op, NEW p, NEW ok, Meets(op, p, ok), ok => Has(Populate(node, p), p)
  PROVE  GrownBy(op, p, ok, Populate(node, p))
<1>. DEFINE u == Populate(node, p)
<1>1. Tree(u)
  BY PopulateAgrees
<1>2. \A q \in Paths \ disk : u[q] = node[q]
  BY DEF Populate
<1>3. \A q \in Above[p] : q \in Paths
  BY AboveFacts DEF Meets, Names
<1>4. p \in Paths /\ p \in Above[p]
  BY AboveFacts DEF Meets, Names
<1>. HIDE DEF u
<1>5. ok => \A q \in Above[p] : Has(u, q)
  BY <1>1, <1>4 DEF Tree, u
<1>. QED  BY <1>2, <1>3, <1>4, <1>5 DEF GrownBy, Has, u

LEMMA InsertGrows ==
  ASSUME NEW op, NEW p, NEW ok, Meets(op, p, ok), ok
  PROVE  GrownBy(op, p, ok, Insert(Populate(node, p), p, IF op \in Lookups THEN "virt" ELSE "made"))
<1>. DEFINE u == Populate(node, p)
            kind == IF op \in Lookups THEN "virt" ELSE "made"
            v == Insert(u, p, kind)
<1>1. \A q \in Paths \ disk : u[q] = node[q]
  BY DEF Populate
<1>2. \A q \in Paths : v[q] = IF u[q] # "none" THEN u[q]
                              ELSE IF q = p THEN kind
                              ELSE IF q \in Above[p] THEN "virt" ELSE "none"
  BY DEF Insert
<1>. HIDE DEF u, v
<1>. QED  BY <1>1, <1>2 DEF GrownBy, v, u

(* What a complaint deletes is on the disk.                                *)
LEMMA DeleteGrows ==
  ASSUME NEW op, NEW p, NEW ok, Meets(op, p, ok), ~ok, op \in Lookups
  PROVE  GrownBy(op, p, ok, Delete(Populate(node, p), p))
<1>. DEFINE u == Populate(node, p)
            v == Delete(u, p)
<1>1. \A q \in Paths \ disk : u[q] = node[q]
  BY DEF Populate
<1>2. \A q \in Paths : v[q] = IF p \in Above[q] THEN "none" ELSE u[q]
  BY DEF Delete
<1>3. p \notin rec
  BY DEF Succeeds, Meets
<1>4. \A q \in Paths \ disk : p \in Above[q] => node[q] = "none"
  BY <1>3 DEF Meets, VirtualIsRecorded, FileSystems, Has
<1>. HIDE DEF u, v
<1>. QED  BY <1>1, <1>2, <1>4 DEF GrownBy, v, u

LEMMA SimulateGrows ==
  ASSUME NEW op, NEW p, NEW ok \in BOOLEAN, Meets(op, p, ok)
  PROVE  GrownBy(op, p, ok, Simulate(node, op, p, ok).trie)
<1>. DEFINE u == Populate(node, p)
            kind == IF op \in Lookups THEN "virt" ELSE "made"
            v == Insert(u, p, kind)
            w == Delete(u, p)
            a == Simulate(node, op, p, ok)
<1>1. (ok => Has(u, p)) => GrownBy(op, p, ok, u)
  BY PopulateGrows
<1>2. ok => GrownBy(op, p, ok, v)
  BY InsertGrows
<1>3. ~ok /\ op \in Lookups => GrownBy(op, p, ok, w)
  BY DeleteGrows
<1>4. /\ op \in {"access", "stat", "mkdir", "open", "creat", "excl"}
      /\ op \in Lookups <=> op \in {"access", "stat", "open"}
  BY DEF Meets, Calls, Removals, Lookups
<1>5. \/ (ok => Has(u, p)) /\ a.trie = u
      \/ ok /\ a.trie = v
      \/ ~ok /\ op \in Lookups /\ a.trie = w
  <2>1. CASE op \in {"access", "stat"}
    <3>1. a = Lookup(node, p, ok) /\ op \in Lookups
      BY <1>4, <2>1 DEF Simulate
    <3>. QED  BY <3>1 DEF Lookup, Answer
  <2>2. ASSUME op \notin Lookups
        PROVE  \/ (ok => Has(u, p)) /\ Mkdir(node, p, ok).trie = u
               \/ ok /\ Mkdir(node, p, ok).trie = v
    <3>1. kind = "made"
      BY <2>2
    <3>2. Mkdir(node, p, ok).trie = IF ~Has(u, p) /\ ok THEN Insert(u, p, "made") ELSE u
      BY DEF Mkdir, Answer
    <3>. HIDE DEF u, kind
    <3>. QED  BY <3>1, <3>2
  <2>3. CASE op = "mkdir"
    <3>1. a = Mkdir(node, p, ok) /\ op \notin Lookups
      BY <1>4, <2>3 DEF Simulate
    <3>. QED  BY <2>2, <3>1
  <2>4. CASE op = "open"
    <3>1. a = Creat(node, p, ok, op) /\ op \in Lookups
      BY <1>4, <2>4 DEF Simulate
    <3>. QED  BY <2>4, <3>1 DEF Creat, Answer
  <2>5. CASE op \in {"creat", "excl"}
    <3>1. a = Creat(node, p, ok, op) /\ op \notin Lookups
      BY <1>4, <2>5 DEF Simulate
    <3>2. ~Has(u, p) => a = Mkdir(node, p, ok)
      BY <2>5, <3>1 DEF Creat
    <3>3. Has(u, p) => a.trie = u
      BY <2>5, <3>1 DEF Creat, Answer
    <3>. HIDE DEF a, u, v
    <3>. QED  BY <2>2, <3>1, <3>2, <3>3
  <2>. QED  BY <1>4, <2>1, <2>3, <2>4, <2>5
<1>. HIDE DEF a, u, v, w
<1>. QED  BY <1>1, <1>2, <1>3, <1>5 DEF a

(* What the nodes off the disk say about the names the program used.       *)
HasEntry(t, q) == \E c \in Names : Parent[c] = q /\ Has(t, c)
Listed ==
  \A q \in Paths \ disk :
    /\ node[q] = "virt" => first[q] = "found" \/ HasEntry(node, q)
    /\ first[q] = "found" => node[q] = "virt"
    /\ node[q] = "made" => first[q] = "made"
    /\ first[q] = "made" => Has(node, q)

LEMMA HandleLists ==
  ASSUME IInv, clean => Listed, NEW p \in Names, NEW ok \in BOOLEAN, NEW op \in Calls,
         Handle(op, p, ok), clean'
  PROVE  Listed'
<1>1. clean /\ op \notin Removals /\ ok = Succeeds(rec, op, p) /\ disk' = disk
  BY DEF Handle
<1>2. Meets(op, p, ok) /\ Listed
  BY <1>1 DEF IInv, Meets
<1>3. GrownBy(op, p, ok, node')
  BY <1>2, SimulateGrows DEF Handle
<1>4. first \in [Paths -> {"none", "found", "made"}] /\ disk \in FileSystems /\ Tree(node)
  BY DEF IInv, TypeOK
<1>5. /\ p \in Paths /\ \A q \in Above[p] : q \in Paths
      /\ \A c \in Names : c \in Paths /\ Parent[c] \in Above[c]
  BY AboveFacts DEF Names
<1>6. \A q \in Paths :
        first'[q] = IF ok /\ q = p /\ first[p] = "none"
                    THEN (IF op \in Lookups THEN "found" ELSE "made") ELSE first[q]
  BY <1>1, <1>4, <1>5 DEF Handle, FirstUse
<1>7. \A c \in Names : Parent[c] \notin disk => c \notin disk
  BY <1>4, <1>5 DEF FileSystems
<1>8. SUFFICES ASSUME NEW q \in Paths \ disk
               PROVE  /\ node'[q] = "virt" => first'[q] = "found" \/ HasEntry(node', q)
                      /\ first'[q] = "found" => node'[q] = "virt"
                      /\ node'[q] = "made" => first'[q] = "made"
                      /\ first'[q] = "made" => Has(node', q)
  BY <1>1 DEF Listed, HasEntry
<1>9. node'[q] = IF node[q] # "none" THEN node[q]
                 ELSE IF ok /\ q = p THEN (IF op \in Lookups THEN "virt" ELSE "made")
                 ELSE IF ok /\ q \in Above[p] THEN "virt" ELSE "none"
  BY <1>3 DEF GrownBy
<1>10. /\ node[q] = "virt" => first[q] = "found" \/ HasEntry(node, q)
       /\ first[q] = "found" => node[q] = "virt"
       /\ node[q] = "made" => first[q] = "made"
       /\ first[q] = "made" => Has(node, q)
  BY <1>2 DEF Listed
<1>11. HasEntry(node, q) => HasEntry(node', q)
  <2>. SUFFICES ASSUME NEW c \in Names, Parent[c] = q, Has(node, c) PROVE Has(node', c)
    BY DEF HasEntry
  <2>1. c \in Paths \ disk
    BY <1>5, <1>7
  <2>. QED  BY <1>3, <2>1 DEF GrownBy, Has
<1>12. ok /\ q \in Above[p] /\ q # p => HasEntry(node', q)
  <2>. SUFFICES ASSUME ok, q \in Above[p], q # p PROVE HasEntry(node', q)
    OBVIOUS
  <2>1. PICK c \in Above[p] \cap Names : Parent[c] = q
    BY BranchAssumption
  <2>2. c \in Paths \ disk
    BY <1>5, <1>7, <2>1
  <2>3. Has(node', c)
    BY <1>3, <2>1, <2>2 DEF GrownBy, Has
  <2>. QED  BY <2>1, <2>3 DEF HasEntry
<1>13. node[q] \in {"none", "virt", "made"} /\ first[q] \in {"none", "found", "made"}
  BY <1>4 DEF Tree, Has, NodeKinds
<1>14. first'[q] = IF ok /\ q = p /\ first[p] = "none"
                   THEN (IF op \in Lookups THEN "found" ELSE "made") ELSE first[q]
  BY <1>6
<1>15. node'[q] = "virt" => first'[q] = "found" \/ HasEntry(node', q)
  <2>1. CASE node[q] = "virt"
    BY <1>10, <1>11, <1>14, <2>1
  <2>2. CASE node[q] # "virt" /\ ok /\ q = p
    BY <1>9, <1>10, <1>13, <1>14, <2>2 DEF Has
  <2>3. CASE node[q] # "virt" /\ ~(ok /\ q = p)
    BY <1>9, <1>12, <2>3
  <2>. QED  BY <2>1, <2>2, <2>3
<1>16. first'[q] = "found" => node'[q] = "virt"
  BY <1>9, <1>10, <1>13, <1>14 DEF Has
<1>17. node'[q] = "made" => first'[q] = "made"
  BY <1>9, <1>10, <1>13, <1>14 DEF Has
<1>18. first'[q] = "made" => Has(node', q)
  BY <1>9, <1>10, <1>13, <1>14 DEF Has
<1>. QED  BY <1>15, <1>16, <1>17, <1>18

RInv == IInv /\ (clean => Listed)

LEMMA InitRInv == Init => RInv
<1>. SUFFICES ASSUME Init PROVE RInv
  OBVIOUS
<1>1. IInv
  BY InitIInv
<1>2. \A q \in Paths \ disk : node[q] = "none" /\ first[q] = "none"
  BY DEF Init, FileSystems
<1>. QED  BY <1>1, <1>2 DEF RInv, Listed

LEMMA NextRInv == RInv /\ [Next]_vars => RInv'
<1>. SUFFICES ASSUME RInv, [Next]_vars PROVE RInv'
  OBVIOUS
<1>1. IInv /\ IInv' /\ (clean => Listed)
  BY NextIInv DEF RInv
<1>2. CASE Next
  <2>1. PICK p \in Names :
          \/ Access(p) \/ Stat(p) \/ Open(p) \/ OpenCreating(p)
          \/ MakeDirectory(p) \/ RemoveDirectory(p) \/ RemoveFile(p)
    BY <1>2 DEF Next
  <2>2. CASE RemoveDirectory(p)
    BY <1>1, <2>2 DEF RemoveDirectory, RInv
  <2>3. CASE ~RemoveDirectory(p)
    <3>1. \E ok \in BOOLEAN, op \in Calls : Handle(op, p, ok)
      BY <2>1, <2>3 DEF Access, Stat, Open, OpenCreating, MakeDirectory, RemoveFile, Calls
    <3>. QED  BY <1>1, <3>1, HandleLists DEF RInv
  <2>. QED  BY <2>2, <2>3
<1>3. CASE UNCHANGED vars
  BY <1>1, <1>3 DEF vars, RInv, Listed, HasEntry, Has
<1>. QED  BY <1>2, <1>3

(* Until a path is removed or a call is denied, the files that             *)
(* simulate_check_files says to create are exactly the names that the      *)
(* program found, and had not made itself, that the disk does not have and *)
(* that have no entries of their own in the tree.                          *)
THEOREM ReportIsExact == Spec => []ReportExact
<1>1. RInv => ReportExact
  <2>. SUFFICES ASSUME RInv, clean PROVE ReportExact
    BY DEF ReportExact
  <2>1. Listed /\ Tree(node) /\ disk \in FileSystems
    BY DEF RInv, IInv, TypeOK
  <2>2. \A p \in Paths : node[p] = "virt" => p \in Names \ disk
    BY <2>1, TreeAssumption DEF Tree, Names, Has
  <2>3. ASSUME NEW p \in Paths, \A q \in Names : Parent[q] = p => ~Has(node, q)
        PROVE  node[p] = "virt" <=> p \in Names \ disk /\ first[p] = "found"
    BY <2>1, <2>2, <2>3 DEF Listed, HasEntry, Names
  <2>. QED  BY <2>3 DEF ReportExact, Report, Names
<1>. QED  BY <1>1, InitRInv, NextRInv, PTL DEF Spec

-----------------------------------------------------------------------------
(***************************************************************************)
(* That simfs_absolute_name finds the place a name means, for names of any *)
(* length.  The functions of AbsoluteName are recursive: that they exist,  *)
(* and so do what their bodies say, is shown once for every function that  *)
(* calls itself on a smaller argument.  Then, along the parts of a name:   *)
(* the first "/.." of the string is the first part "..", the cut takes it  *)
(* with the part before, and the place stays the same; and so for "/.".    *)
(***************************************************************************)

LEMMA LeastNat ==
  ASSUME NEW T \in SUBSET Nat, T # {}
  PROVE  \E x \in T : \A y \in T : x <= y
<1>1. PICK x \in T : \A y \in T : ~ (<<y, x>> \in OpToRel(<, Nat))
  BY WFMin, NatLessThanWellFounded
<1>2. \A y \in T : ~ (y < x)
  BY <1>1 DEF OpToRel
<1> QED
  BY <1>2

(* Induction, of a set of numbers.                                         *)
LEMMA Induction ==
  ASSUME NEW P \in SUBSET Nat, 0 \in P, \A n \in P : n + 1 \in P
  PROVE  P = Nat
<1> DEFINE Q == Nat \ P
<1> SUFFICES ASSUME Q # {} PROVE FALSE
  OBVIOUS
<1>1. PICK x \in Q : \A y \in Q : x <= y
  BY LeastNat
<1>2. x \in Nat /\ x # 0 /\ x \notin P
  OBVIOUS
<1>3. x - 1 \in Nat /\ x - 1 \notin Q
  BY <1>1, <1>2
<1>4. (x - 1) + 1 \in P
  BY <1>3
<1> QED
  BY <1>2, <1>4

(* A function that calls itself on an argument of a smaller size exists.   *)
Shrinks(T, V, size, Done, base, next, step) ==
  /\ size \in [T -> Nat] /\ base \in [T -> V]
  /\ next \in [T -> T] /\ step \in [T \X V -> V]
  /\ \A s \in T \ Done : size[next[s]] < size[s]
Upto(T, size, n) == {s \in T : size[s] < n}
Solves(f, D, Done, base, next, step) ==
  \A s \in D : f[s] = IF s \in Done THEN base[s] ELSE step[<<s, f[next[s]]>>]

(* Two solutions agree as far as both go.                                  *)
LEMMA SameSolution ==
  ASSUME NEW T, NEW V, NEW size, NEW Done, NEW base, NEW next, NEW step,
         Shrinks(T, V, size, Done, base, next, step),
         NEW m \in Nat, NEW n \in Nat, NEW f, NEW g,
         Solves(f, Upto(T, size, m), Done, base, next, step),
         Solves(g, Upto(T, size, n), Done, base, next, step)
  PROVE  \A s \in T : size[s] < m /\ size[s] < n => f[s] = g[s]
<1>  /\ size \in [T -> Nat] /\ base \in [T -> V]
      /\ next \in [T -> T] /\ step \in [T \X V -> V]
      /\ \A s \in T \ Done : size[next[s]] < size[s]
  BY DEF Shrinks
<1> DEFINE Same(k) == \A s \in T : size[s] < m /\ size[s] < n /\ size[s] < k => f[s] = g[s]
           P == {k \in Nat : Same(k)}
<1>1. 0 \in P
  OBVIOUS
<1>2. ASSUME NEW k \in P PROVE k + 1 \in P
  <2>1. ASSUME NEW s \in T, size[s] < m /\ size[s] < n /\ size[s] < k + 1 PROVE f[s] = g[s]
    <3>1. /\ f[s] = IF s \in Done THEN base[s] ELSE step[<<s, f[next[s]]>>]
          /\ g[s] = IF s \in Done THEN base[s] ELSE step[<<s, g[next[s]]>>]
      BY <2>1 DEF Solves, Upto
    <3>2. CASE s \in Done
      BY <3>1, <3>2
    <3>3. CASE s \notin Done
      <4>1. next[s] \in T /\ size[next[s]] < size[s] /\ size[s] \in Nat /\ size[next[s]] \in Nat
        BY <3>3
      <4>2. size[next[s]] < m /\ size[next[s]] < n /\ size[next[s]] < k
        BY <4>1, <2>1
      <4>3. f[next[s]] = g[next[s]]
        BY <4>1, <4>2, <1>2
      <4> QED
        BY <3>1, <3>3, <4>3
    <3> QED
      BY <3>2, <3>3
  <2>2. Same(k + 1)
    BY <2>1
  <2> QED
    BY <2>2, k + 1 \in Nat
<1>3. P = Nat
  <2> HIDE DEF P
  <2>1. P \in SUBSET Nat
    BY DEF P
  <2> QED
    BY <1>1, <1>2, <2>1, Induction
<1>4. Same(m)
  BY <1>3
<1> QED
  BY <1>4

LEMMA RecursionExists ==
  ASSUME NEW T, NEW V, NEW size, NEW Done, NEW base, NEW next, NEW step,
         Shrinks(T, V, size, Done, base, next, step)
  PROVE  \E f \in [T -> V] : Solves(f, T, Done, base, next, step)
<1>  /\ size \in [T -> Nat] /\ base \in [T -> V]
      /\ next \in [T -> T] /\ step \in [T \X V -> V]
      /\ \A s \in T \ Done : size[next[s]] < size[s]
  BY DEF Shrinks
<1> DEFINE U(n) == Upto(T, size, n)
           Sol(n, f) == Solves(f, U(n), Done, base, next, step)
           P == {n \in Nat : \E f \in [U(n) -> V] : Sol(n, f)}
<1>0. \A n : \A s : s \in U(n) <=> s \in T /\ size[s] < n
  BY DEF Upto
<1>1. 0 \in P
  <2>1. U(0) = {}
    BY DEF Upto
  <2>2. [s \in U(0) |-> base[s]] \in [U(0) -> V]
    BY <2>1
  <2>3. Sol(0, [s \in U(0) |-> base[s]])
    BY <2>1 DEF Solves
  <2> QED
    BY <2>2, <2>3
<1>2. ASSUME NEW n \in P PROVE n + 1 \in P
  <2>1. PICK f \in [U(n) -> V] : Sol(n, f)
    OBVIOUS
  <2>2. n \in Nat /\ n + 1 \in Nat
    OBVIOUS
  <2> HIDE DEF P
  <2> DEFINE g == [s \in U(n + 1) |-> IF s \in Done THEN base[s] ELSE step[<<s, f[next[s]]>>]]
  <2>3. \A s \in U(n + 1) \ Done : next[s] \in U(n)
    <3> SUFFICES ASSUME NEW s \in U(n + 1) \ Done PROVE next[s] \in U(n)
      OBVIOUS
    <3>1. s \in T /\ size[s] < n + 1 /\ size[s] \in Nat
      BY <1>0
    <3>2. next[s] \in T /\ size[next[s]] < size[s] /\ size[next[s]] \in Nat
      BY <3>1
    <3>3. size[next[s]] < n
      BY <3>1, <3>2, <2>2
    <3> QED
      BY <3>2, <3>3, <1>0
  <2>4. \A s \in U(n + 1) : s \in T
    BY <1>0
  <2>5. g \in [U(n + 1) -> V]
    <3> SUFFICES ASSUME NEW s \in U(n + 1), s \notin Done PROVE step[<<s, f[next[s]]>>] \in V
      BY <2>4
    <3>1. f[next[s]] \in V /\ s \in T
      BY <2>3, <2>4
    <3> QED
      BY <3>1
  <2>6. \A s \in U(n) : g[s] = f[s]
    <3> SUFFICES ASSUME NEW s \in U(n) PROVE g[s] = f[s]
      OBVIOUS
    <3>1. s \in U(n + 1)
      <4>1. s \in T /\ size[s] < n
        BY <1>0
      <4>2. size[s] \in Nat
        BY <4>1
      <4>3. size[s] < n + 1
        BY <4>1, <4>2, <2>2
      <4> QED
        BY <4>1, <4>3, <1>0
    <3>2. f[s] = IF s \in Done THEN base[s] ELSE step[<<s, f[next[s]]>>]
      BY <2>1 DEF Solves
    <3> QED
      BY <3>1, <3>2
  <2>7. Sol(n + 1, g)
    <3> SUFFICES ASSUME NEW s \in U(n + 1)
                 PROVE  g[s] = IF s \in Done THEN base[s] ELSE step[<<s, g[next[s]]>>]
      BY DEF Solves
    <3>1. CASE s \in Done
      BY <3>1
    <3>2. CASE s \notin Done
      <4>1. g[next[s]] = f[next[s]]
        BY <2>3, <2>6, <3>2
      <4> QED
        BY <4>1, <3>2
    <3> QED
      BY <3>1, <3>2
  <2> HIDE DEF g, Sol, U
  <2> QED
    BY <2>2, <2>5, <2>7 DEF P
<1>3. P = Nat
  <2> HIDE DEF P
  <2>1. P \in SUBSET Nat
    BY DEF P
  <2> QED
    BY <1>1, <1>2, <2>1, Induction
<1> DEFINE One(n) == CHOOSE f : f \in [U(n) -> V] /\ Sol(n, f)
           F == [s \in T |-> One(size[s] + 1)[s]]
<1>4. \A n \in Nat : One(n) \in [U(n) -> V] /\ Sol(n, One(n))
  <2> SUFFICES ASSUME NEW n \in Nat PROVE One(n) \in [U(n) -> V] /\ Sol(n, One(n))
    OBVIOUS
  <2>1. \E f : f \in [U(n) -> V] /\ Sol(n, f)
    BY <1>3
  <2> HIDE DEF Sol, U
  <2> QED
    BY <2>1
<1>5. \A s \in T : size[s] + 1 \in Nat /\ size[s] < size[s] + 1 /\ s \in U(size[s] + 1)
  <2> SUFFICES ASSUME NEW s \in T PROVE size[s] + 1 \in Nat /\ size[s] < size[s] + 1 /\ s \in U(size[s] + 1)
    OBVIOUS
  <2>1. size[s] \in Nat
    OBVIOUS
  <2>2. size[s] + 1 \in Nat /\ size[s] < size[s] + 1
    BY <2>1
  <2> QED
    BY <1>0, <2>2
<1> HIDE DEF P, One
<1>8. \A s \in T : F[s] = One(size[s] + 1)[s]
  OBVIOUS
<1>6. F \in [T -> V]
  <2> SUFFICES ASSUME NEW s \in T PROVE One(size[s] + 1)[s] \in V
    OBVIOUS
  <2>1. size[s] + 1 \in Nat /\ s \in U(size[s] + 1)
    BY <1>5
  <2>2. One(size[s] + 1) \in [U(size[s] + 1) -> V]
    BY <1>4, <2>1
  <2> HIDE DEF U
  <2> QED
    BY <2>1, <2>2
<1>7. \A s \in T : F[s] = IF s \in Done THEN base[s] ELSE step[<<s, F[next[s]]>>]
  <2> SUFFICES ASSUME NEW s \in T
               PROVE  F[s] = IF s \in Done THEN base[s] ELSE step[<<s, F[next[s]]>>]
    OBVIOUS
  <2> DEFINE h == One(size[s] + 1)
  <2>1. size[s] + 1 \in Nat /\ s \in U(size[s] + 1) /\ Sol(size[s] + 1, h)
    BY <1>4, <1>5
  <2>2. h[s] = IF s \in Done THEN base[s] ELSE step[<<s, h[next[s]]>>]
    BY <2>1 DEF Solves
  <2>3. CASE s \in Done
    BY <2>2, <2>3
  <2>4. CASE s \notin Done
    <3>1. next[s] \in T /\ size[next[s]] < size[s] /\ size[s] \in Nat /\ size[next[s]] \in Nat
      BY <2>4
    <3> DEFINE k == One(size[next[s]] + 1)
    <3>2. Sol(size[next[s]] + 1, k) /\ size[next[s]] + 1 \in Nat
      BY <3>1, <1>4
    <3>3. size[next[s]] < size[s] + 1 /\ size[next[s]] < size[next[s]] + 1
      BY <3>1
    <3> HIDE DEF h, k
    <3>4. h[next[s]] = k[next[s]]
      <4> DEFINE m == size[s] + 1
                 n == size[next[s]] + 1
      <4>1. m \in Nat /\ n \in Nat /\ Sol(m, h) /\ Sol(n, k) /\ size[next[s]] < m /\ size[next[s]] < n
        BY <2>1, <3>2, <3>3
      <4> HIDE DEF m, n
      <4>2. \A x \in T : size[x] < m /\ size[x] < n => h[x] = k[x]
        <5>1. Solves(h, Upto(T, size, m), Done, base, next, step)
          BY <4>1
        <5>2. Solves(k, Upto(T, size, n), Done, base, next, step)
          BY <4>1
        <5>3. m \in Nat /\ n \in Nat
          BY <4>1
        <5> HIDE DEF F
        <5> QED
          BY <5>1, <5>2, <5>3, SameSolution
      <4> QED
        BY <4>1, <4>2, <3>1
    <3>5. F[next[s]] = k[next[s]]
      BY <3>1, <1>8 DEF k
    <3> QED
      BY <2>2, <2>4, <3>4, <3>5 DEF h
  <2> QED
    BY <2>3, <2>4
<1> HIDE DEF F
<1> QED
  BY <1>6, <1>7 DEF Solves

LEMMA CharFacts ==
  /\ "/" \in Chars /\ "." \in Chars
  /\ \A p \in AllParts : p \in Seq(Chars) /\ p # <<>> /\ \A i \in 1..Len(p) : p[i] # "/"
  /\ Cwd \in Seq(AllParts) /\ Cwd # <<>>
  /\ Aborted \in Strings
<1>1. \A p \in AllParts : p \in Seq(Chars)
  <2> SUFFICES ASSUME NEW p \in AllParts PROVE p \in Seq(Chars)
    OBVIOUS
  <2>1. p \in Seq(Range(p)) /\ Range(p) \subseteq Chars
    BY PartsAssumption DEF Chars
  <2> QED
    BY <2>1, SeqMonotonic
<1>2. \A p \in AllParts : \A i \in 1..Len(p) : p[i] # "/"
  <2> SUFFICES ASSUME NEW p \in AllParts, NEW i \in 1..Len(p) PROVE p[i] # "/"
    OBVIOUS
  <2>1. p \in Seq(Range(p)) /\ "/" \notin Range(p)
    BY PartsAssumption
  <2>2. DOMAIN p = 1..Len(p)
    BY <2>1, LenProperties
  <2> QED
    BY <2>1, <2>2 DEF Range
<1>3. Cwd \in Seq(AllParts)
  <2>1. Range(Cwd) \subseteq AllParts
    BY DEF AllParts
  <2> QED
    BY <2>1, PartsAssumption, SeqMonotonic
<1>4. Aborted \in Strings
  <2>1. "abort" \in Chars
    <3>1. 1 \in DOMAIN Aborted /\ Aborted[1] = "abort"
      BY DEF Aborted
    <3>2. Aborted[1] \in Range(Aborted)
      BY <3>1 DEF Range
    <3> QED
      BY <3>1, <3>2 DEF Chars
  <2> QED
    BY <2>1 DEF Aborted, Strings
<1> QED
  BY <1>1, <1>2, <1>3, <1>4, PartsAssumption DEF Chars

(* strstr gives the first place of the pattern.                            *)
Up3(s, i) == i + 2 <= Len(s) /\ s[i] = "/" /\ s[i + 1] = "." /\ s[i + 2] = "."
Here2(s, i) == i + 1 <= Len(s) /\ s[i] = "/" /\ s[i + 1] = "."

(* What SubSeq, strstr and rindex give, character by character.            *)
LEMMA RestIs ==
  ASSUME NEW s \in Strings, NEW i \in 1..(Len(s) + 1)
  PROVE  /\ Rest(s, i) \in Strings /\ Len(Rest(s, i)) = Len(s) - i + 1
         /\ \A j \in 1..(Len(s) - i + 1) : Rest(s, i)[j] = s[i + j - 1]
<1>1. Len(s) \in Nat /\ \A j \in i..Len(s) : s[j] \in Chars
  BY DEF Strings
<1> QED
  BY <1>1, SubSeqProperties DEF Rest, Strings

LEMMA HeadIs ==
  ASSUME NEW s \in Strings, NEW i \in 0..Len(s)
  PROVE  /\ SubSeq(s, 1, i) \in Strings /\ Len(SubSeq(s, 1, i)) = i
         /\ \A j \in 1..i : SubSeq(s, 1, i)[j] = s[j]
<1>1. Len(s) \in Nat /\ \A j \in 1..i : s[j] \in Chars
  BY DEF Strings
<1> QED
  BY <1>1, SubSeqProperties DEF Strings

LEMMA PlacesUp ==
  ASSUME NEW s \in Strings, NEW i
  PROVE  i \in Places(s, <<"/", ".", ".">>) <=> i \in 1..Len(s) /\ Up3(s, i)
<1> DEFINE pat == <<"/", ".", ".">>
<1>1. Len(s) \in Nat
  BY DEF Strings
<1>2. Len(pat) = 3 /\ pat[1] = "/" /\ pat[2] = "." /\ pat[3] = "."
  OBVIOUS
<1> SUFFICES ASSUME i \in 1..Len(s) PROVE IsPrefix(pat, SubSeq(s, i, Len(s))) <=> Up3(s, i)
  BY DEF Places
<1> DEFINE t == Rest(s, i)
<1>3. /\ t \in Strings /\ Len(t) = Len(s) - i + 1
      /\ \A j \in 1..(Len(s) - i + 1) : t[j] = s[i + j - 1]
  BY RestIs
<1>4. ASSUME Len(t) >= 3
      PROVE  /\ SubSeq(t, 1, 3) \in Seq(Chars) /\ Len(SubSeq(t, 1, 3)) = 3
             /\ \A j \in 1..3 : SubSeq(t, 1, 3)[j] = t[j]
  BY <1>3, <1>4, HeadIs DEF Strings
<1>5. SubSeq(pat, 1, 3) = pat
  <2>1. pat \in Seq({"/", "."})
    OBVIOUS
  <2> QED
    BY <2>1, <1>2, SubSeqFull
<1> HIDE DEF t, pat
<1>6. IsPrefix(pat, t) <=> Len(t) >= 3 /\ t[1] = "/" /\ t[2] = "." /\ t[3] = "."
  <2>1. CASE Len(t) >= 3
    <3>1. SubSeq(t, 1, 3) = pat <=> t[1] = "/" /\ t[2] = "." /\ t[3] = "."
      <4>1. ASSUME t[1] = "/" /\ t[2] = "." /\ t[3] = "." PROVE SubSeq(t, 1, 3) = pat
        <5>1. pat \in Seq(Chars)
          BY CharFacts DEF pat
        <5>2. \A j \in 1..3 : SubSeq(t, 1, 3)[j] = pat[j]
          BY <4>1, <2>1, <1>4, <1>2
        <5> QED
          BY <5>1, <5>2, <2>1, <1>2, <1>4, SeqEqual
      <4> QED
        BY <2>1, <4>1, <1>2, <1>4
    <3> QED
      BY <3>1, <2>1, <1>2, <1>5 DEF IsPrefix
  <2>2. CASE ~ (Len(t) >= 3)
    BY <2>2, <1>2 DEF IsPrefix
  <2> QED
    BY <2>1, <2>2
<1>7. Len(t) >= 3 => t[1] = s[i] /\ t[2] = s[i + 1] /\ t[3] = s[i + 2]
  BY <1>1, <1>3
<1> QED
  BY <1>1, <1>3, <1>6, <1>7 DEF Up3, t, pat, Rest

LEMMA PlacesHere ==
  ASSUME NEW s \in Strings, NEW i
  PROVE  i \in Places(s, <<"/", ".">>) <=> i \in 1..Len(s) /\ Here2(s, i)
<1> DEFINE pat == <<"/", ".">>
<1>1. Len(s) \in Nat
  BY DEF Strings
<1>2. Len(pat) = 2 /\ pat[1] = "/" /\ pat[2] = "."
  OBVIOUS
<1> SUFFICES ASSUME i \in 1..Len(s) PROVE IsPrefix(pat, SubSeq(s, i, Len(s))) <=> Here2(s, i)
  BY DEF Places
<1> DEFINE t == Rest(s, i)
<1>3. /\ t \in Strings /\ Len(t) = Len(s) - i + 1
      /\ \A j \in 1..(Len(s) - i + 1) : t[j] = s[i + j - 1]
  BY RestIs
<1>4. ASSUME Len(t) >= 2
      PROVE  /\ SubSeq(t, 1, 2) \in Seq(Chars) /\ Len(SubSeq(t, 1, 2)) = 2
             /\ \A j \in 1..2 : SubSeq(t, 1, 2)[j] = t[j]
  BY <1>3, <1>4, HeadIs DEF Strings
<1>5. SubSeq(pat, 1, 2) = pat
  <2>1. pat \in Seq({"/", "."})
    OBVIOUS
  <2> QED
    BY <2>1, <1>2, SubSeqFull
<1> HIDE DEF t, pat
<1>6. IsPrefix(pat, t) <=> Len(t) >= 2 /\ t[1] = "/" /\ t[2] = "."
  <2>1. CASE Len(t) >= 2
    <3>1. SubSeq(t, 1, 2) = pat <=> t[1] = "/" /\ t[2] = "."
      <4>1. ASSUME t[1] = "/" /\ t[2] = "." PROVE SubSeq(t, 1, 2) = pat
        <5>1. pat \in Seq(Chars)
          BY CharFacts DEF pat
        <5>2. \A j \in 1..2 : SubSeq(t, 1, 2)[j] = pat[j]
          BY <4>1, <2>1, <1>4, <1>2
        <5> QED
          BY <5>1, <5>2, <2>1, <1>2, <1>4, SeqEqual
      <4> QED
        BY <2>1, <4>1, <1>2, <1>4
    <3> QED
      BY <3>1, <2>1, <1>2, <1>5 DEF IsPrefix
  <2>2. CASE ~ (Len(t) >= 2)
    BY <2>2, <1>2 DEF IsPrefix
  <2> QED
    BY <2>1, <2>2
<1>7. Len(t) >= 2 => t[1] = s[i] /\ t[2] = s[i + 1]
  BY <1>1, <1>3
<1> QED
  BY <1>1, <1>3, <1>6, <1>7 DEF Here2, t, pat, Rest

LEMMA StrstrIs ==
  ASSUME NEW s \in Strings, NEW pat
  PROVE  \/ Strstr(s, pat) = 0 /\ \A i : i \notin Places(s, pat)
         \/ /\ Strstr(s, pat) \in Places(s, pat) /\ Strstr(s, pat) \in 1..Len(s)
            /\ \A i \in Places(s, pat) : Strstr(s, pat) <= i
<1>1. CASE Places(s, pat) = {}
  BY <1>1 DEF Strstr
<1>2. CASE Places(s, pat) # {}
  <2>1. Places(s, pat) \subseteq 1..Len(s) /\ Len(s) \in Nat
    BY DEF Places, Strings
  <2>2. Places(s, pat) \in SUBSET Nat
    BY <2>1
  <2>3. \E x \in Places(s, pat) : \A y \in Places(s, pat) : x <= y
    BY <1>2, <2>2, LeastNat
  <2>4. /\ Min(Places(s, pat)) \in Places(s, pat)
        /\ \A y \in Places(s, pat) : Min(Places(s, pat)) <= y
    BY <2>3 DEF Min
  <2> QED
    BY <1>2, <2>1, <2>4 DEF Strstr
<1> QED
  BY <1>1, <1>2

LEMMA GreatestNat ==
  ASSUME NEW n \in Nat, NEW T \in SUBSET (0..n), T # {}
  PROVE  \E x \in T : \A y \in T : x >= y
<1> DEFINE U == {m \in 0..n : n - m \in T}
<1>1. PICK x \in T : TRUE
  OBVIOUS
<1>2. n - x \in U
  <2>1. x \in 0..n /\ n - x \in 0..n /\ n - (n - x) = x
    OBVIOUS
  <2> QED
    BY <2>1
<1>3. U \in SUBSET Nat /\ U # {}
  <2>1. \A m \in U : m \in Nat
    OBVIOUS
  <2> HIDE DEF U
  <2> QED
    BY <1>2, <2>1
<1>4. PICK u \in U : \A m \in U : u <= m
  <2> HIDE DEF U
  <2> QED
    BY <1>3, LeastNat
<1>5. \A y \in T : n - u >= y
  <2> SUFFICES ASSUME NEW y \in T PROVE n - u >= y
    OBVIOUS
  <2>1. y \in 0..n /\ n - y \in 0..n /\ n - (n - y) = y
    OBVIOUS
  <2>2. n - y \in U
    BY <2>1
  <2>3. u <= n - y
    BY <1>4, <2>2
  <2> QED
    BY <2>1, <2>3, u \in 0..n
<1> QED
  BY <1>4, <1>5

LEMMA PlacesSlash ==
  ASSUME NEW s \in Strings, NEW i
  PROVE  i \in Places(s, <<"/">>) <=> i \in 1..Len(s) /\ s[i] = "/"
<1> DEFINE pat == <<"/">>
<1>1. Len(s) \in Nat
  BY DEF Strings
<1>2. Len(pat) = 1 /\ pat[1] = "/"
  OBVIOUS
<1> SUFFICES ASSUME i \in 1..Len(s) PROVE IsPrefix(pat, SubSeq(s, i, Len(s))) <=> s[i] = "/"
  BY DEF Places
<1> DEFINE t == Rest(s, i)
<1>3. t \in Strings /\ Len(t) = Len(s) - i + 1 /\ t[1] = s[i]
  <2>1. i \in 1..(Len(s) + 1) /\ 1 \in 1..(Len(s) - i + 1) /\ i + 1 - 1 = i
    BY <1>1
  <2> QED
    BY <2>1, RestIs
<1>4. SubSeq(t, 1, 1) \in Seq(Chars) /\ Len(SubSeq(t, 1, 1)) = 1 /\ SubSeq(t, 1, 1)[1] = t[1]
  <2>1. 1 \in 0..Len(t) /\ 1 \in 1..1
    BY <1>1, <1>3
  <2> QED
    BY <1>3, <2>1, HeadIs DEF Strings
<1>5. SubSeq(pat, 1, 1) = pat
  <2>1. pat \in Seq({"/", "."})
    OBVIOUS
  <2> QED
    BY <2>1, <1>2, SubSeqFull
<1>6. Len(t) >= 1
  BY <1>1, <1>3
<1>7. pat \in Seq(Chars)
  BY CharFacts
<1> HIDE DEF t, pat
<1>8. SubSeq(t, 1, 1) = pat <=> t[1] = "/"
  <2>1. ASSUME t[1] = "/" PROVE SubSeq(t, 1, 1) = pat
    BY <2>1, <1>2, <1>4, <1>7, SeqEqual
  <2> QED
    BY <2>1, <1>2, <1>4
<1> QED
  BY <1>2, <1>3, <1>5, <1>6, <1>8 DEF IsPrefix, t, pat, Rest

LEMMA RindexIs ==
  ASSUME NEW s \in Strings
  PROVE  /\ Rindex(s) \in 0..Len(s)
         /\ Rindex(s) # 0 => s[Rindex(s)] = "/"
         /\ \A i \in 1..Len(s) : s[i] = "/" => i <= Rindex(s)
<1> DEFINE T == Places(s, <<"/">>) \cup {0}
<1>1. Len(s) \in Nat
  BY DEF Strings
<1>2. T \in SUBSET (0..Len(s)) /\ T # {}
  BY <1>1, PlacesSlash
<1>3. \E x \in T : \A y \in T : x >= y
  <2> HIDE DEF T
  <2> QED
    BY <1>1, <1>2, GreatestNat
<1>4. Rindex(s) \in T /\ \A y \in T : Rindex(s) >= y
  <2> HIDE DEF T
  <2>1. Max(T) \in T /\ \A y \in T : Max(T) >= y
    BY <1>3 DEF Max
  <2> QED
    BY <2>1 DEF Rindex, T
<1> QED
  BY <1>1, <1>2, <1>4, PlacesSlash

LEMMA ConcatIs ==
  ASSUME NEW s \in Strings, NEW t \in Strings
  PROVE  s \o t \in Strings /\ Len(s \o t) = Len(s) + Len(t)
BY ConcatProperties DEF Strings

(* Every cut makes the string shorter, so both loops end.                  *)
LEMMA CutUpShrinks ==
  ASSUME NEW s \in Strings, NEW at \in 1..Len(s), Up3(s, at)
  PROVE  CutUp(s, at) \in Strings /\ Len(CutUp(s, at)) < Len(s)
<1>1. Len(s) \in Nat /\ at + 2 <= Len(s) /\ at \in Nat /\ at >= 1
  BY DEF Strings, Up3
<1>2. at + 3 \in 1..(Len(s) + 1)
  BY <1>1
<1>3. Rest(s, at + 3) \in Strings /\ Len(Rest(s, at + 3)) = Len(s) - at - 2
  <2>1. Len(s) - (at + 3) + 1 = Len(s) - at - 2
    BY <1>1
  <2> QED
    BY <1>2, <2>1, RestIs
<1>4. CASE at = 1
  BY <1>1, <1>3, <1>4 DEF CutUp
<1>5. CASE at # 1
  <2> DEFINE head == SubSeq(s, 1, at - 1)
             above == Rindex(head)
  <2>1. head \in Strings /\ Len(head) = at - 1
    <3>1. at - 1 \in 0..Len(s)
      BY <1>1
    <3> QED
      BY <3>1, HeadIs
  <2>2. above \in 0..(at - 1)
    BY <2>1, RindexIs
  <2>3. CASE above = 0
    <3>1. Len(Aborted) = 1
      BY DEF Aborted
    <3>2. CutUp(s, at) = Aborted
      BY <1>5, <2>3 DEF CutUp, CutAbove
    <3>3. Aborted \in Strings
      BY CharFacts
    <3>4. 1 < Len(s)
      BY <1>1
    <3> QED
      BY <3>1, <3>2, <3>3, <3>4
  <2>4. CASE above # 0
    <3>1. above - 1 \in 0..Len(s) /\ above \in Nat
      BY <1>1, <2>2, <2>4
    <3>2. SubSeq(s, 1, above - 1) \in Strings /\ Len(SubSeq(s, 1, above - 1)) = above - 1
      BY <3>1, HeadIs
    <3>3. CutUp(s, at) = SubSeq(s, 1, above - 1) \o Rest(s, at + 3)
      BY <1>5, <2>4 DEF CutUp, CutAbove
    <3>4. CutUp(s, at) \in Strings /\ Len(CutUp(s, at)) = (above - 1) + (Len(s) - at - 2)
      <4> HIDE DEF above
      <4> QED
        BY <1>3, <3>2, <3>3, ConcatIs
    <3> QED
      BY <1>1, <2>2, <2>4, <3>4
  <2> QED
    BY <2>3, <2>4
<1> QED
  BY <1>4, <1>5

LEMMA CutHereShrinks ==
  ASSUME NEW s \in Strings, NEW at \in 1..Len(s), Here2(s, at)
  PROVE  CutHere(s, at) \in Strings /\ Len(CutHere(s, at)) < Len(s)
<1>1. Len(s) \in Nat /\ at + 1 <= Len(s) /\ at \in Nat /\ at >= 1
  BY DEF Strings, Here2
<1>2. CASE at = 1 /\ Len(s) = 2
  <2>1. <<"/">> \in Strings /\ Len(<<"/">>) = 1
    BY CharFacts DEF Strings
  <2> QED
    BY <1>2, <2>1 DEF CutHere
<1>3. CASE ~ (at = 1 /\ Len(s) = 2)
  <2>1. at + 2 \in 1..(Len(s) + 1) /\ Len(s) - (at + 2) + 1 = Len(s) - at - 1 /\ at - 1 \in 0..Len(s)
    BY <1>1
  <2>2. Rest(s, at + 2) \in Strings /\ Len(Rest(s, at + 2)) = Len(s) - at - 1
    BY <2>1, RestIs
  <2>3. SubSeq(s, 1, at - 1) \in Strings /\ Len(SubSeq(s, 1, at - 1)) = at - 1
    BY <2>1, HeadIs
  <2>4. CutHere(s, at) = SubSeq(s, 1, at - 1) \o Rest(s, at + 2)
    BY <1>3 DEF CutHere
  <2>5. CutHere(s, at) \in Strings /\ Len(CutHere(s, at)) = (at - 1) + (Len(s) - at - 1)
    BY <2>2, <2>3, <2>4, ConcatIs
  <2> QED
    BY <1>1, <2>5
<1> QED
  BY <1>2, <1>3

(* The two loops end, and do what their bodies say.                        *)
LEMMA DropUpsIs ==
  ASSUME NEW s \in Strings
  PROVE  LET at == Strstr(s, <<"/", ".", ".">>)
         IN  DropUps[s] = IF at = 0 THEN s ELSE DropUps[CutUp(s, at)]
<1> DEFINE At(x) == Strstr(x, <<"/", ".", ".">>)
           size == [x \in Strings |-> Len(x)]
           Done == {x \in Strings : At(x) = 0}
           base == [x \in Strings |-> x]
           next == [x \in Strings |-> IF At(x) = 0 THEN x ELSE CutUp(x, At(x))]
           step == [x \in Strings \X Strings |-> x[2]]
<1>1. \A x \in Strings : At(x) # 0 => CutUp(x, At(x)) \in Strings /\ Len(CutUp(x, At(x))) < Len(x)
  BY StrstrIs, PlacesUp, CutUpShrinks
<1> HIDE DEF At
<1>2. Shrinks(Strings, Strings, size, Done, base, next, step)
  <2>1. size \in [Strings -> Nat]
    BY DEF Strings
  <2>2. next \in [Strings -> Strings]
    BY <1>1
  <2>3. \A x \in Strings \ Done : size[next[x]] < size[x]
    BY <1>1
  <2>4. base \in [Strings -> Strings] /\ step \in [Strings \X Strings -> Strings]
    OBVIOUS
  <2> HIDE DEF size, Done, base, next, step
  <2> QED
    BY <2>1, <2>2, <2>3, <2>4 DEF Shrinks
<1>3. PICK f \in [Strings -> Strings] : Solves(f, Strings, Done, base, next, step)
  <2> HIDE DEF size, Done, base, next, step
  <2> QED
    BY <1>2, RecursionExists
<1>4. \A x \in Strings : f[x] = IF At(x) = 0 THEN x ELSE f[CutUp(x, At(x))]
  <2> SUFFICES ASSUME NEW x \in Strings PROVE f[x] = IF At(x) = 0 THEN x ELSE f[CutUp(x, At(x))]
    OBVIOUS
  <2>1. f[x] = IF x \in Done THEN base[x] ELSE step[<<x, f[next[x]]>>]
    BY <1>3 DEF Solves
  <2>2. CASE At(x) = 0
    BY <2>1, <2>2
  <2>3. CASE At(x) # 0
    <3>1. next[x] = CutUp(x, At(x)) /\ f[next[x]] \in Strings
      BY <1>1, <2>3
    <3> QED
      BY <2>1, <2>3, <3>1
  <2> QED
    BY <2>2, <2>3
<1>5. f = [x \in Strings |-> IF At(x) = 0 THEN x ELSE f[CutUp(x, At(x))]]
  <2> HIDE DEF size, Done, base, next, step
  <2> QED
    BY <1>4
<1>6. DropUps = [x \in Strings |-> IF At(x) = 0 THEN x ELSE DropUps[CutUp(x, At(x))]]
  BY <1>5 DEF DropUps, At
<1> QED
  BY <1>6 DEF At

LEMMA DropHeresIs ==
  ASSUME NEW s \in Strings
  PROVE  LET at == Strstr(s, <<"/", ".">>)
         IN  DropHeres[s] = IF at = 0 THEN s ELSE DropHeres[CutHere(s, at)]
<1> DEFINE At(x) == Strstr(x, <<"/", ".">>)
           size == [x \in Strings |-> Len(x)]
           Done == {x \in Strings : At(x) = 0}
           base == [x \in Strings |-> x]
           next == [x \in Strings |-> IF At(x) = 0 THEN x ELSE CutHere(x, At(x))]
           step == [x \in Strings \X Strings |-> x[2]]
<1>1. \A x \in Strings : At(x) # 0 => CutHere(x, At(x)) \in Strings /\ Len(CutHere(x, At(x))) < Len(x)
  BY StrstrIs, PlacesHere, CutHereShrinks
<1> HIDE DEF At
<1>2. Shrinks(Strings, Strings, size, Done, base, next, step)
  <2>1. size \in [Strings -> Nat]
    BY DEF Strings
  <2>2. next \in [Strings -> Strings]
    BY <1>1
  <2>3. \A x \in Strings \ Done : size[next[x]] < size[x]
    BY <1>1
  <2>4. base \in [Strings -> Strings] /\ step \in [Strings \X Strings -> Strings]
    OBVIOUS
  <2> HIDE DEF size, Done, base, next, step
  <2> QED
    BY <2>1, <2>2, <2>3, <2>4 DEF Shrinks
<1>3. PICK f \in [Strings -> Strings] : Solves(f, Strings, Done, base, next, step)
  <2> HIDE DEF size, Done, base, next, step
  <2> QED
    BY <1>2, RecursionExists
<1>4. \A x \in Strings : f[x] = IF At(x) = 0 THEN x ELSE f[CutHere(x, At(x))]
  <2> SUFFICES ASSUME NEW x \in Strings PROVE f[x] = IF At(x) = 0 THEN x ELSE f[CutHere(x, At(x))]
    OBVIOUS
  <2>1. f[x] = IF x \in Done THEN base[x] ELSE step[<<x, f[next[x]]>>]
    BY <1>3 DEF Solves
  <2>2. CASE At(x) = 0
    BY <2>1, <2>2
  <2>3. CASE At(x) # 0
    <3>1. next[x] = CutHere(x, At(x)) /\ f[next[x]] \in Strings
      BY <1>1, <2>3
    <3> QED
      BY <2>1, <2>3, <3>1
  <2> QED
    BY <2>2, <2>3
<1>5. f = [x \in Strings |-> IF At(x) = 0 THEN x ELSE f[CutHere(x, At(x))]]
  <2> HIDE DEF size, Done, base, next, step
  <2> QED
    BY <1>4
<1>6. DropHeres = [x \in Strings |-> IF At(x) = 0 THEN x ELSE DropHeres[CutHere(x, At(x))]]
  BY <1>5 DEF DropHeres, At
<1> QED
  BY <1>6 DEF At

-----------------------------------------------------------------------------
LEMMA FrontLast ==
  ASSUME NEW S, NEW s \in Seq(S), s # <<>>
  PROVE  /\ Front(s) \in Seq(S) /\ Last(s) \in S /\ Len(Front(s)) = Len(s) - 1
         /\ \A i \in 1..(Len(s) - 1) : Front(s)[i] = s[i]
         /\ s = Append(Front(s), Last(s))
<1>1. Len(s) \in Nat /\ Len(s) >= 1 /\ \A i \in 1..Len(s) : s[i] \in S
  BY EmptySeq
<1>2. /\ Front(s) \in Seq(S) /\ Len(Front(s)) = Len(s) - 1
      /\ \A i \in 1..(Len(s) - 1) : Front(s)[i] = s[i]
  <2> DEFINE n == Len(s) - 1
             t == SubSeq(s, 1, n)
  <2>1. n \in Nat /\ \A i \in 1..n : s[i] \in S
    BY <1>1
  <2> HIDE DEF n
  <2>2. /\ t \in Seq(S)
        /\ Len(t) = IF 1 <= n THEN n - 1 + 1 ELSE 0
        /\ \A i \in 1..(n - 1 + 1) : t[i] = s[1 + i - 1]
    <3>1. 1 \in Int /\ n \in Int
      BY <2>1
    <3> QED
      BY <2>1, <3>1, SubSeqProperties
  <2> HIDE DEF t
  <2>3. t \in Seq(S) /\ Len(t) = n /\ \A i \in 1..n : t[i] = s[i]
    BY <2>1, <2>2
  <2>4. t = Front(s)
    BY DEF t, n, Front
  <2> QED
    BY <2>3, <2>4 DEF n
<1>3. Last(s) = s[Len(s)] /\ Last(s) \in S
  BY <1>1 DEF Last
<1>4. s = Append(Front(s), Last(s))
  <2> DEFINE t == Append(Front(s), Last(s))
  <2>1. t \in Seq(S) /\ Len(t) = Len(s)
    BY <1>1, <1>2, <1>3
  <2>2. \A i \in 1..Len(s) : t[i] = s[i]
    BY <1>1, <1>2, <1>3
  <2> HIDE DEF t
  <2>3. s = t
    <3>1. Len(s) = Len(t)
      BY <2>1
    <3> QED
      BY <3>1, <2>1, <2>2, SeqEqual
  <2> QED
    BY <2>3 DEF t
<1> QED
  BY <1>2, <1>3, <1>4

LEMMA EnterType ==
  ASSUME NEW place \in Seq(AllParts), NEW part \in AllParts
  PROVE  Enter(place, part) \in Seq(AllParts)
<1>1. CASE part = <<".">>
  BY <1>1 DEF Enter
<1>2. CASE part # <<".">> /\ part = <<".", ".">>
  BY <1>2, FrontLast DEF Enter
<1>3. CASE part # <<".">> /\ part # <<".", ".">>
  BY <1>3 DEF Enter
<1> QED
  BY <1>1, <1>2, <1>3

(* A name's string and its place, part by part from the end.               *)
LEMMA RenderIs ==
  ASSUME NEW ps \in Seq(AllParts)
  PROVE  /\ Render[ps] \in Strings
         /\ Render[ps] = IF ps = <<>> THEN <<>> ELSE Render[Front(ps)] \o <<"/">> \o Last(ps)
<1> DEFINE T == Seq(AllParts)
           size == [x \in T |-> Len(x)]
           base == [x \in T |-> <<>>]
           next == [x \in T |-> IF x = <<>> THEN x ELSE Front(x)]
           step == [x \in T \X Strings |-> IF x[1] = <<>> THEN <<>> ELSE x[2] \o <<"/">> \o Last(x[1])]
<1>0. \A x \in T : x # <<>> => Front(x) \in T /\ Len(Front(x)) < Len(x) /\ Last(x) \in Strings
  <2> SUFFICES ASSUME NEW x \in T, x # <<>>
               PROVE  Front(x) \in T /\ Len(Front(x)) < Len(x) /\ Last(x) \in Strings
    OBVIOUS
  <2>1. Front(x) \in T /\ Last(x) \in AllParts /\ Len(Front(x)) = Len(x) - 1 /\ Len(x) \in Nat
    BY FrontLast
  <2> QED
    BY <2>1, CharFacts DEF Strings
<1>1. \A x \in T : \A r \in Strings : x # <<>> => r \o <<"/">> \o Last(x) \in Strings
  <2>1. <<"/">> \in Strings
    BY CharFacts DEF Strings
  <2> QED
    BY <1>0, <2>1, ConcatIs
<1>2. Shrinks(T, Strings, size, {<<>>}, base, next, step)
  <2>1. size \in [T -> Nat]
    OBVIOUS
  <2>2. next \in [T -> T]
    BY <1>0
  <2>3. \A x \in T \ {<<>>} : size[next[x]] < size[x]
    BY <1>0
  <2>4. <<>> \in Strings
    BY DEF Strings
  <2>5. base \in [T -> Strings]
    BY <2>4
  <2>6. step \in [T \X Strings -> Strings]
    BY <1>1, <2>4
  <2> HIDE DEF T, size, base, next, step
  <2> QED
    BY <2>1, <2>2, <2>3, <2>5, <2>6 DEF Shrinks
<1>3. PICK f \in [T -> Strings] : Solves(f, T, {<<>>}, base, next, step)
  <2> HIDE DEF T, size, base, next, step
  <2> QED
    BY <1>2, RecursionExists
<1>4. \A x \in T : f[x] = IF x = <<>> THEN <<>> ELSE f[Front(x)] \o <<"/">> \o Last(x)
  <2> SUFFICES ASSUME NEW x \in T
               PROVE  f[x] = IF x = <<>> THEN <<>> ELSE f[Front(x)] \o <<"/">> \o Last(x)
    OBVIOUS
  <2>1. f[x] = IF x \in {<<>>} THEN base[x] ELSE step[<<x, f[next[x]]>>]
    BY <1>3 DEF Solves
  <2>2. CASE x = <<>>
    BY <2>1, <2>2
  <2>3. CASE x # <<>>
    <3>1. next[x] = Front(x) /\ f[next[x]] \in Strings
      BY <1>0, <2>3
    <3>2. step[<<x, f[next[x]]>>] = f[next[x]] \o <<"/">> \o Last(x)
      BY <2>3, <3>1
    <3> QED
      BY <2>1, <2>3, <3>1, <3>2
  <2> QED
    BY <2>2, <2>3
<1>5. f = [x \in T |-> IF x = <<>> THEN <<>> ELSE f[Front(x)] \o <<"/">> \o Last(x)]
  <2> HIDE DEF T, size, base, next, step
  <2> QED
    BY <1>4
<1>6. \E g : /\ g = [x \in T |-> IF x = <<>> THEN <<>> ELSE g[Front(x)] \o <<"/">> \o Last(x)]
  BY <1>5
<1>7. Render = [x \in T |-> IF x = <<>> THEN <<>> ELSE Render[Front(x)] \o <<"/">> \o Last(x)]
  BY <1>6 DEF Render
<1>8. \A n \in Nat : \A x \in T : Len(x) <= n => Render[x] \in Strings
  <2> DEFINE P == {n \in Nat : \A x \in T : Len(x) <= n => Render[x] \in Strings}
  <2>1. 0 \in P
    <3>1. \A x \in T : Len(x) <= 0 => x = <<>>
      BY EmptySeq
    <3> QED
      BY <3>1, <1>7 DEF Strings
  <2>2. ASSUME NEW n \in P PROVE n + 1 \in P
    <3>1. ASSUME NEW x \in T, Len(x) <= n + 1 PROVE Render[x] \in Strings
      <4>1. CASE x = <<>>
        BY <4>1, <1>7 DEF Strings
      <4>2. CASE x # <<>>
        <5>1. Front(x) \in T /\ Len(Front(x)) < Len(x) /\ Len(x) \in Nat /\ Len(Front(x)) \in Nat /\ n \in Nat
          BY <1>0, <4>2
        <5>2. Len(Front(x)) <= n
          BY <5>1, <3>1
        <5>3. Render[Front(x)] \in Strings
          BY <2>2, <5>1, <5>2
        <5>4. Render[x] = Render[Front(x)] \o <<"/">> \o Last(x)
          BY <1>7, <4>2
        <5> QED
          BY <1>1, <4>2, <5>3, <5>4
      <4> QED
        BY <4>1, <4>2
    <3>2. n \in Nat /\ n + 1 \in Nat
      OBVIOUS
    <3> HIDE DEF T
    <3> QED
      BY <3>1, <3>2
  <2>3. P \in SUBSET Nat
    OBVIOUS
  <2>4. P = Nat
    <3> HIDE DEF P
    <3> QED
      BY <2>1, <2>2, <2>3, Induction
  <2> QED
    BY <2>4
<1>9. Len(ps) \in Nat /\ Len(ps) <= Len(ps)
  OBVIOUS
<1>10. Render[ps] \in Strings
  BY <1>8, <1>9
<1>11. ps \in T
  OBVIOUS
<1> HIDE DEF T
<1>12. Render[ps] = IF ps = <<>> THEN <<>> ELSE Render[Front(ps)] \o <<"/">> \o Last(ps)
  BY <1>7, <1>11
<1> QED
  BY <1>10, <1>12

LEMMA PlaceOfIs ==
  ASSUME NEW ps \in Seq(AllParts)
  PROVE  /\ PlaceOf[ps] \in Seq(AllParts)
         /\ PlaceOf[ps] = IF ps = <<>> THEN <<>> ELSE Enter(PlaceOf[Front(ps)], Last(ps))
<1> DEFINE T == Seq(AllParts)
           size == [x \in T |-> Len(x)]
           base == [x \in T |-> <<>>]
           next == [x \in T |-> IF x = <<>> THEN x ELSE Front(x)]
           step == [x \in T \X T |-> IF x[1] = <<>> THEN <<>> ELSE Enter(x[2], Last(x[1]))]
<1>0. \A x \in T : x # <<>> => Front(x) \in T /\ Len(Front(x)) < Len(x) /\ Last(x) \in AllParts
  <2> SUFFICES ASSUME NEW x \in T, x # <<>>
               PROVE  Front(x) \in T /\ Len(Front(x)) < Len(x) /\ Last(x) \in AllParts
    OBVIOUS
  <2>1. Front(x) \in T /\ Last(x) \in AllParts /\ Len(Front(x)) = Len(x) - 1 /\ Len(x) \in Nat
    BY FrontLast
  <2> QED
    BY <2>1
<1>1. \A x \in T : \A r \in T : x # <<>> => Enter(r, Last(x)) \in T
  BY <1>0, EnterType
<1>4. <<>> \in T
  OBVIOUS
<1>2. Shrinks(T, T, size, {<<>>}, base, next, step)
  <2>1. size \in [T -> Nat]
    OBVIOUS
  <2> HIDE DEF T
  <2>2. next \in [T -> T]
    BY <1>0
  <2>3. \A x \in T \ {<<>>} : size[next[x]] < size[x]
    BY <1>0
  <2>5. base \in [T -> T]
    BY <1>4
  <2>6. step \in [T \X T -> T]
    BY <1>1, <1>4
  <2> HIDE DEF size, base, next, step
  <2> QED
    BY <2>1, <2>2, <2>3, <2>5, <2>6 DEF Shrinks
<1> HIDE DEF T
<1>3. PICK f \in [T -> T] : Solves(f, T, {<<>>}, base, next, step)
  <2> HIDE DEF size, base, next, step
  <2> QED
    BY <1>2, RecursionExists
<1>5. \A x \in T : f[x] = IF x = <<>> THEN <<>> ELSE Enter(f[Front(x)], Last(x))
  <2> SUFFICES ASSUME NEW x \in T
               PROVE  f[x] = IF x = <<>> THEN <<>> ELSE Enter(f[Front(x)], Last(x))
    OBVIOUS
  <2>1. f[x] = IF x \in {<<>>} THEN base[x] ELSE step[<<x, f[next[x]]>>]
    BY <1>3 DEF Solves
  <2>2. CASE x = <<>>
    BY <2>1, <2>2
  <2>3. CASE x # <<>>
    <3>1. next[x] = Front(x) /\ f[next[x]] \in T
      BY <1>0, <2>3
    <3>2. step[<<x, f[next[x]]>>] = Enter(f[next[x]], Last(x))
      BY <2>3, <3>1
    <3> QED
      BY <2>1, <2>3, <3>1, <3>2
  <2> QED
    BY <2>2, <2>3
<1>6. f = [x \in T |-> IF x = <<>> THEN <<>> ELSE Enter(f[Front(x)], Last(x))]
  <2> HIDE DEF size, base, next, step
  <2> QED
    BY <1>5
<1>7. PlaceOf = [x \in T |-> IF x = <<>> THEN <<>> ELSE Enter(PlaceOf[Front(x)], Last(x))]
  BY <1>6 DEF PlaceOf, T
<1>8. \A n \in Nat : \A x \in T : Len(x) <= n => PlaceOf[x] \in T
  <2> DEFINE P == {n \in Nat : \A x \in T : Len(x) <= n => PlaceOf[x] \in T}
  <2>1. 0 \in P
    <3>1. \A x \in T : Len(x) <= 0 => x = <<>>
      BY EmptySeq DEF T
    <3> QED
      BY <3>1, <1>7, <1>4
  <2>2. ASSUME NEW n \in P PROVE n + 1 \in P
    <3>1. ASSUME NEW x \in T, Len(x) <= n + 1 PROVE PlaceOf[x] \in T
      <4>1. CASE x = <<>>
        BY <4>1, <1>7, <1>4
      <4>2. CASE x # <<>>
        <5>0. Front(x) \in T /\ Len(x) \in Nat /\ Len(Front(x)) \in Nat
          BY <1>0, <4>2 DEF T
        <5>1. Len(Front(x)) < Len(x) /\ n \in Nat
          BY <1>0, <4>2
        <5>2. Len(Front(x)) <= n
          BY <5>0, <5>1, <3>1
        <5>3. PlaceOf[Front(x)] \in T
          BY <2>2, <5>0, <5>2
        <5>4. PlaceOf[x] = Enter(PlaceOf[Front(x)], Last(x))
          BY <1>7, <4>2
        <5> QED
          BY <1>1, <4>2, <5>3, <5>4
      <4> QED
        BY <4>1, <4>2
    <3>2. n \in Nat /\ n + 1 \in Nat
      OBVIOUS
    <3> QED
      BY <3>1, <3>2
  <2>3. P \in SUBSET Nat
    OBVIOUS
  <2>4. P = Nat
    <3> HIDE DEF P
    <3> QED
      BY <2>1, <2>2, <2>3, Induction
  <2> QED
    BY <2>4
<1>9. Len(ps) \in Nat /\ Len(ps) <= Len(ps)
  OBVIOUS
<1>11. ps \in T
  BY DEF T
<1>10. PlaceOf[ps] \in T
  BY <1>8, <1>9, <1>11
<1>12. PlaceOf[ps] = IF ps = <<>> THEN <<>> ELSE Enter(PlaceOf[Front(ps)], Last(ps))
  BY <1>7, <1>11
<1> QED
  BY <1>10, <1>12 DEF T

LEMMA AppendFrontLast ==
  ASSUME NEW S, NEW s \in Seq(S), NEW e \in S
  PROVE  Append(s, e) # <<>> /\ Front(Append(s, e)) = s /\ Last(Append(s, e)) = e
<1> DEFINE t == Append(s, e)
<1>1. t \in Seq(S) /\ t # <<>> /\ Len(t) = Len(s) + 1 /\ Len(s) \in Nat /\ t[Len(s) + 1] = e
      /\ \A i \in 1..Len(s) : t[i] = s[i]
  OBVIOUS
<1> HIDE DEF t
<1>2. Front(t) \in Seq(S) /\ Len(Front(t)) = Len(t) - 1
      /\ \A i \in 1..(Len(t) - 1) : Front(t)[i] = t[i]
  BY <1>1, FrontLast
<1>3. Front(t) = s
  <2>1. Len(Front(t)) = Len(s)
    BY <1>1, <1>2
  <2>2. \A i \in 1..Len(s) : Front(t)[i] = s[i]
    BY <1>1, <1>2
  <2> QED
    BY <1>2, <2>1, <2>2, SeqEqual
<1>4. Last(t) = e
  BY <1>1 DEF Last
<1> QED
  BY <1>1, <1>3, <1>4 DEF t

(* Parts put at the end and in the middle of a name.                       *)
LEMMA RenderAppend ==
  ASSUME NEW ps \in Seq(AllParts), NEW p \in AllParts
  PROVE  Render[Append(ps, p)] = Render[ps] \o <<"/">> \o p
<1>1. Append(ps, p) \in Seq(AllParts)
  OBVIOUS
<1> QED
  BY <1>1, RenderIs, AppendFrontLast

LEMMA PlaceAppend ==
  ASSUME NEW ps \in Seq(AllParts), NEW p \in AllParts
  PROVE  PlaceOf[Append(ps, p)] = Enter(PlaceOf[ps], p)
<1>1. Append(ps, p) \in Seq(AllParts)
  OBVIOUS
<1> QED
  BY <1>1, PlaceOfIs, AppendFrontLast

LEMMA ConcatAppend ==
  ASSUME NEW S, NEW a \in Seq(S), NEW b \in Seq(S), NEW e \in S
  PROVE  a \o Append(b, e) = Append(a \o b, e)
<1> DEFINE s == a \o Append(b, e)
           t == Append(a \o b, e)
<1>1. s \in Seq(S) /\ t \in Seq(S) /\ Len(s) = Len(t)
  OBVIOUS
<1>2. \A i \in 1..Len(s) : s[i] = t[i]
  OBVIOUS
<1> HIDE DEF s, t
<1>3. s = t
  BY <1>1, <1>2, SeqEqual
<1> QED
  BY <1>3 DEF s, t

Joined(s, t) == s \o t

LEMMA JoinedIs ==
  ASSUME NEW s \in Strings, NEW t \in Strings
  PROVE  /\ Joined(s, t) \in Strings /\ Len(Joined(s, t)) = Len(s) + Len(t)
         /\ Len(s) \in Nat /\ Len(t) \in Nat
         /\ \A i \in 1..(Len(s) + Len(t)) :
              Joined(s, t)[i] = IF i <= Len(s) THEN s[i] ELSE t[i - Len(s)]
BY ConcatProperties, LenProperties DEF Strings, Joined

LEMMA Regrouped ==
  ASSUME NEW s \in Strings, NEW t \in Strings, NEW u \in Strings
  PROVE  Joined(Joined(s, t), u) = Joined(s, Joined(t, u))
<1> DEFINE st == Joined(s, t)
           tu == Joined(t, u)
           x == Joined(st, u)
           y == Joined(s, tu)
<1>1. /\ st \in Strings /\ Len(st) = Len(s) + Len(t) /\ Len(s) \in Nat /\ Len(t) \in Nat
      /\ \A i \in 1..(Len(s) + Len(t)) : st[i] = IF i <= Len(s) THEN s[i] ELSE t[i - Len(s)]
  BY JoinedIs
<1>2. /\ tu \in Strings /\ Len(tu) = Len(t) + Len(u) /\ Len(u) \in Nat
      /\ \A i \in 1..(Len(t) + Len(u)) : tu[i] = IF i <= Len(t) THEN t[i] ELSE u[i - Len(t)]
  BY JoinedIs
<1> HIDE DEF st, tu
<1>3. /\ x \in Strings /\ Len(x) = Len(st) + Len(u)
      /\ \A i \in 1..(Len(st) + Len(u)) : x[i] = IF i <= Len(st) THEN st[i] ELSE u[i - Len(st)]
  BY <1>1, JoinedIs
<1>4. /\ y \in Strings /\ Len(y) = Len(s) + Len(tu)
      /\ \A i \in 1..(Len(s) + Len(tu)) : y[i] = IF i <= Len(s) THEN s[i] ELSE tu[i - Len(s)]
  BY <1>2, JoinedIs
<1> HIDE DEF x, y
<1>5. Len(x) = Len(y) /\ Len(x) = Len(s) + Len(t) + Len(u)
  BY <1>1, <1>2, <1>3, <1>4
<1>6. \A i \in 1..Len(x) : x[i] = y[i]
  <2> SUFFICES ASSUME NEW i \in 1..Len(x) PROVE x[i] = y[i]
    OBVIOUS
  <2>1. /\ x[i] = IF i <= Len(st) THEN st[i] ELSE u[i - Len(st)]
        /\ y[i] = IF i <= Len(s) THEN s[i] ELSE tu[i - Len(s)]
    BY <1>3, <1>4, <1>5
  <2>2. CASE i <= Len(s)
    BY <1>1, <2>1, <2>2
  <2>3. CASE ~ (i <= Len(s)) /\ i <= Len(st)
    <3>1. i - Len(s) \in 1..(Len(t) + Len(u)) /\ i - Len(s) <= Len(t) /\ i \in 1..(Len(s) + Len(t))
      BY <1>1, <1>2, <2>3
    <3> QED
      BY <1>1, <1>2, <2>1, <2>3, <3>1
  <2>4. CASE ~ (i <= Len(s)) /\ ~ (i <= Len(st))
    <3>1. /\ i - Len(s) \in 1..(Len(t) + Len(u)) /\ ~ (i - Len(s) <= Len(t))
          /\ i - Len(s) - Len(t) = i - Len(st)
      BY <1>1, <1>2, <1>5, <2>4
    <3> QED
      BY <1>2, <2>1, <2>4, <3>1
  <2> QED
    BY <2>2, <2>3, <2>4
<1>7. x = y
  BY <1>3, <1>4, <1>5, <1>6, SeqEqual DEF Strings
<1> QED
  BY <1>7 DEF x, y, st, tu

LEMMA RenderLonger ==
  ASSUME NEW a \in Seq(AllParts), NEW b \in Seq(AllParts), NEW p \in AllParts,
         Render[a \o b] = Render[a] \o Render[b]
  PROVE  Render[a \o Append(b, p)] = Render[a] \o Render[Append(b, p)]
<1> DEFINE ra == Render[a]
           rb == Render[b]
           slash == <<"/">>
<1>1. a \o Append(b, p) = Append(a \o b, p) /\ a \o b \in Seq(AllParts)
  BY ConcatAppend
<1>2. Render[a \o Append(b, p)] = Joined(Joined(Joined(ra, rb), slash), p)
  BY <1>1, RenderAppend DEF Joined
<1>3. Render[Append(b, p)] = Joined(Joined(rb, slash), p)
  BY RenderAppend DEF Joined
<1>4. ra \in Strings /\ rb \in Strings /\ p \in Strings /\ slash \in Strings
  BY RenderIs, CharFacts DEF Strings
<1> HIDE DEF ra, rb, slash
<1>5. Joined(rb, slash) \in Strings
  BY <1>4, JoinedIs
<1>6. Joined(Joined(ra, rb), slash) = Joined(ra, Joined(rb, slash))
  BY <1>4, Regrouped
<1>7. Joined(Joined(ra, Joined(rb, slash)), p) = Joined(ra, Joined(Joined(rb, slash), p))
  BY <1>4, <1>5, Regrouped
<1>8. Render[a \o Append(b, p)] = Joined(ra, Render[Append(b, p)])
  BY <1>2, <1>3, <1>6, <1>7, Zenon
<1> QED
  BY <1>8 DEF Joined, ra

LEMMA RenderConcat ==
  ASSUME NEW a \in Seq(AllParts), NEW b \in Seq(AllParts)
  PROVE  Render[a \o b] = Render[a] \o Render[b]
<1> DEFINE T == Seq(AllParts)
           P == {n \in Nat : \A x \in T : Len(x) = n => Render[a \o x] = Render[a] \o Render[x]}
<1>1. 0 \in P
  <2>1. \A x \in T : Len(x) = 0 => x = <<>>
    BY EmptySeq
  <2>2. a \o <<>> = a /\ Render[a] \in Seq(Chars) /\ Render[<<>>] = <<>>
    <3>1. <<>> \in T
      OBVIOUS
    <3> QED
      BY <3>1, RenderIs, ConcatEmptySeq DEF Strings
  <2>3. Render[a] \o <<>> = Render[a]
    BY <2>2, ConcatEmptySeq
  <2> QED
    BY <2>1, <2>2, <2>3
<1>2. ASSUME NEW n \in P PROVE n + 1 \in P
  <2>1. ASSUME NEW x \in T, Len(x) = n + 1 PROVE Render[a \o x] = Render[a] \o Render[x]
    <3>0. n \in Nat /\ x # <<>>
      BY <2>1
    <3> DEFINE y == Front(x)
               p == Last(x)
    <3>1. y \in T /\ p \in AllParts /\ Len(y) = n /\ x = Append(y, p)
      <4>1. Front(x) \in T /\ Last(x) \in AllParts /\ Len(Front(x)) = Len(x) - 1 /\ x = Append(Front(x), Last(x))
        BY <3>0, FrontLast
      <4> QED
        BY <4>1, <2>1, <3>0
    <3> HIDE DEF y, p
    <3>2. Render[a \o y] = Render[a] \o Render[y]
      BY <1>2, <3>1
    <3> QED
      BY <3>1, <3>2, RenderLonger
  <2>2. n + 1 \in Nat
    OBVIOUS
  <2> HIDE DEF T
  <2> QED
    BY <2>1, <2>2
<1>3. P = Nat
  <2>1. P \in SUBSET Nat
    OBVIOUS
  <2> HIDE DEF P
  <2> QED
    BY <1>1, <1>2, <2>1, Induction
<1>4. Len(b) \in Nat
  OBVIOUS
<1> QED
  BY <1>3, <1>4

LEMMA PlaceConcat ==
  ASSUME NEW a \in Seq(AllParts), NEW c \in Seq(AllParts), NEW b \in Seq(AllParts),
         PlaceOf[a] = PlaceOf[c]
  PROVE  PlaceOf[a \o b] = PlaceOf[c \o b]
<1> DEFINE T == Seq(AllParts)
           P == {n \in Nat : \A x \in T : Len(x) = n => PlaceOf[a \o x] = PlaceOf[c \o x]}
<1>1. 0 \in P
  <2>1. \A x \in T : Len(x) = 0 => x = <<>>
    BY EmptySeq
  <2>2. a \o <<>> = a /\ c \o <<>> = c
    BY ConcatEmptySeq
  <2> QED
    BY <2>1, <2>2
<1>2. ASSUME NEW n \in P PROVE n + 1 \in P
  <2>1. ASSUME NEW x \in T, Len(x) = n + 1 PROVE PlaceOf[a \o x] = PlaceOf[c \o x]
    <3>0. n \in Nat /\ x # <<>>
      BY <2>1
    <3> DEFINE y == Front(x)
               p == Last(x)
    <3>1. y \in T /\ p \in AllParts /\ Len(y) = n /\ x = Append(y, p)
      <4>1. Front(x) \in T /\ Last(x) \in AllParts /\ Len(Front(x)) = Len(x) - 1 /\ x = Append(Front(x), Last(x))
        BY <3>0, FrontLast
      <4> QED
        BY <4>1, <2>1, <3>0
    <3> HIDE DEF y, p
    <3>2. PlaceOf[a \o y] = PlaceOf[c \o y]
      BY <1>2, <3>1
    <3>3. a \o x = Append(a \o y, p) /\ c \o x = Append(c \o y, p)
      <4>1. a \o x = Append(a \o y, p)
        BY <3>1, ConcatAppend
      <4>2. c \o x = Append(c \o y, p)
        BY <3>1, ConcatAppend
      <4> QED
        BY <4>1, <4>2
    <3>4. a \o y \in T /\ c \o y \in T
      BY <3>1
    <3>5. /\ PlaceOf[Append(a \o y, p)] = Enter(PlaceOf[a \o y], p)
          /\ PlaceOf[Append(c \o y, p)] = Enter(PlaceOf[c \o y], p)
      BY <3>1, <3>4, PlaceAppend
    <3> QED
      BY <3>2, <3>3, <3>5
  <2>2. n + 1 \in Nat
    OBVIOUS
  <2> HIDE DEF T
  <2> QED
    BY <2>1, <2>2
<1>3. P = Nat
  <2>1. P \in SUBSET Nat
    OBVIOUS
  <2> HIDE DEF P
  <2> QED
    BY <1>1, <1>2, <2>1, Induction
<1>4. Len(b) \in Nat
  OBVIOUS
<1> QED
  BY <1>3, <1>4

(* Parts that name a place below: not "." and not "..".                    *)
Plain(ps) == \A i \in 1..Len(ps) : ps[i][1] # "."
DotsOnly(ps) == \A i \in 1..Len(ps) : ps[i][1] = "." => ps[i] \in {<<".">>, <<".", ".">>}
NoUps(ps) == \A i \in 1..Len(ps) : ps[i] # <<".", ".">>
UpsFirst(ps) == \A i, j \in 1..Len(ps) : ps[i] = <<".">> /\ ps[j] = <<".", ".">> => j < i

(* No slash of a string has a dot after it, or no two.                     *)
NoDot(s) == \A i \in 1..Len(s) : s[i] = "/" => i < Len(s) /\ s[i + 1] # "."
NoDots(s) == \A i \in 1..Len(s) : s[i] = "/" =>
               i < Len(s) /\ (s[i + 1] = "." => i + 1 = Len(s) \/ s[i + 2] = "/")

LEMMA RenderedIs ==
  ASSUME NEW ps \in Seq(AllParts), NEW p \in AllParts
  PROVE  LET r == Render[ps]
             s == Render[Append(ps, p)]
         IN  /\ r \in Strings /\ s \in Strings /\ Len(r) \in Nat /\ Len(p) \in Nat /\ Len(p) >= 1
             /\ Len(s) = Len(r) + 1 + Len(p)
             /\ \A i \in 1..Len(r) : s[i] = r[i]
             /\ s[Len(r) + 1] = "/"
             /\ \A i \in 1..Len(p) : s[Len(r) + 1 + i] = p[i] /\ p[i] # "/"
<1> DEFINE r == Render[ps]
           s == Render[Append(ps, p)]
           t == r \o <<"/">>
<1>1. r \in Strings /\ s \in Strings
  <2>1. Append(ps, p) \in Seq(AllParts)
    OBVIOUS
  <2> QED
    BY <2>1, RenderIs
<1>2. p \in Seq(Chars) /\ p # <<>> /\ \A i \in 1..Len(p) : p[i] # "/"
  BY CharFacts
<1>3. <<"/">> \in Seq(Chars) /\ Len(<<"/">>) = 1 /\ <<"/">>[1] = "/"
  BY CharFacts
<1>4. s = t \o p
  BY RenderAppend
<1>5. Len(p) \in Nat /\ Len(p) >= 1 /\ Len(r) \in Nat
  BY <1>1, <1>2, EmptySeq DEF Strings
<1> HIDE DEF r, s
<1>6. /\ t \in Seq(Chars) /\ Len(t) = Len(r) + 1
      /\ \A i \in 1..(Len(r) + 1) : t[i] = IF i <= Len(r) THEN r[i] ELSE <<"/">>[i - Len(r)]
  BY <1>1, <1>3, ConcatProperties DEF Strings
<1> HIDE DEF t
<1>7. /\ Len(s) = Len(t) + Len(p)
      /\ \A i \in 1..(Len(t) + Len(p)) : s[i] = IF i <= Len(t) THEN t[i] ELSE p[i - Len(t)]
  BY <1>2, <1>4, <1>6, ConcatProperties
<1>8. \A i \in 1..Len(r) : s[i] = r[i]
  BY <1>5, <1>6, <1>7
<1>9. s[Len(r) + 1] = "/"
  BY <1>3, <1>5, <1>6, <1>7
<1>10. \A i \in 1..Len(p) : s[Len(r) + 1 + i] = p[i]
  <2> SUFFICES ASSUME NEW i \in 1..Len(p) PROVE s[Len(r) + 1 + i] = p[i]
    OBVIOUS
  <2> DEFINE k == Len(r) + 1 + i
  <2>1. k \in 1..(Len(t) + Len(p)) /\ ~ (k <= Len(t)) /\ k - Len(t) = i
    BY <1>5, <1>6
  <2> HIDE DEF k
  <2>2. s[k] = p[k - Len(t)]
    BY <1>7, <2>1
  <2> QED
    BY <2>1, <2>2 DEF k
<1>11. Len(s) = Len(r) + 1 + Len(p)
  BY <1>6, <1>7
<1> QED
  BY <1>1, <1>2, <1>5, <1>8, <1>9, <1>10, <1>11 DEF r, s

LEMMA NoDotAppend ==
  ASSUME NEW ps \in Seq(AllParts), NEW p \in AllParts, NoDot(Render[ps]), p[1] # "."
  PROVE  NoDot(Render[Append(ps, p)])
<1> DEFINE r == Render[ps]
           s == Render[Append(ps, p)]
<1>1. /\ Len(r) \in Nat /\ Len(p) \in Nat /\ Len(p) >= 1
      /\ Len(s) = Len(r) + 1 + Len(p)
      /\ \A i \in 1..Len(r) : s[i] = r[i]
      /\ s[Len(r) + 1] = "/"
      /\ \A i \in 1..Len(p) : s[Len(r) + 1 + i] = p[i] /\ p[i] # "/"
  BY RenderedIs
<1> HIDE DEF r, s
<1> SUFFICES ASSUME NEW i \in 1..Len(s), s[i] = "/" PROVE i < Len(s) /\ s[i + 1] # "."
  BY DEF NoDot, s
<1>2. CASE i <= Len(r)
  <2>1. i \in 1..Len(r) /\ r[i] = "/"
    BY <1>1, <1>2
  <2>2. i < Len(r) /\ r[i + 1] # "."
    BY <2>1 DEF NoDot, r
  <2>3. i + 1 \in 1..Len(r)
    BY <1>1, <2>1, <2>2
  <2> QED
    BY <1>1, <2>2, <2>3
<1>3. CASE i = Len(r) + 1
  <2>1. 1 \in 1..Len(p)
    BY <1>1
  <2>2. s[Len(r) + 1 + 1] = p[1]
    BY <1>1, <2>1
  <2>3. i < Len(s) /\ i + 1 = Len(r) + 1 + 1
    BY <1>1, <1>3
  <2> QED
    BY <2>2, <2>3
<1>4. CASE i > Len(r) + 1
  <2>1. i - Len(r) - 1 \in 1..Len(p) /\ Len(r) + 1 + (i - Len(r) - 1) = i
    BY <1>1, <1>4
  <2> QED
    BY <1>1, <2>1
<1> QED
  BY <1>1, <1>2, <1>3, <1>4

LEMMA NoDotsAppend ==
  ASSUME NEW ps \in Seq(AllParts), NEW p \in AllParts, NoDots(Render[ps]), p[1] # "." \/ p = <<".">>
  PROVE  NoDots(Render[Append(ps, p)])
<1> DEFINE r == Render[ps]
           s == Render[Append(ps, p)]
<1>1. /\ Len(r) \in Nat /\ Len(p) \in Nat /\ Len(p) >= 1
      /\ Len(s) = Len(r) + 1 + Len(p)
      /\ \A i \in 1..Len(r) : s[i] = r[i]
      /\ s[Len(r) + 1] = "/"
      /\ \A i \in 1..Len(p) : s[Len(r) + 1 + i] = p[i] /\ p[i] # "/"
  BY RenderedIs
<1> HIDE DEF r, s
<1> SUFFICES ASSUME NEW i \in 1..Len(s), s[i] = "/"
             PROVE  i < Len(s) /\ (s[i + 1] = "." => i + 1 = Len(s) \/ s[i + 2] = "/")
  BY DEF NoDots, s
<1>2. CASE i <= Len(r)
  <2>1. i \in 1..Len(r) /\ r[i] = "/"
    BY <1>1, <1>2
  <2>2. i < Len(r) /\ (r[i + 1] = "." => i + 1 = Len(r) \/ r[i + 2] = "/")
    BY <2>1 DEF NoDots, r
  <2>3. i + 1 \in 1..Len(r) /\ i < Len(s)
    BY <1>1, <2>1, <2>2
  <2>4. CASE i + 1 = Len(r)
    <3>1. i + 2 = Len(r) + 1
      BY <1>1, <2>1, <2>4
    <3> QED
      BY <1>1, <2>3, <3>1
  <2>5. CASE i + 1 # Len(r)
    <3>1. i + 2 \in 1..Len(r)
      BY <1>1, <2>1, <2>2, <2>5
    <3> QED
      BY <1>1, <2>2, <2>3, <2>5, <3>1
  <2> QED
    BY <2>4, <2>5
<1>3. CASE i = Len(r) + 1
  <2>1. 1 \in 1..Len(p)
    BY <1>1
  <2>2. s[Len(r) + 1 + 1] = p[1]
    BY <1>1, <2>1
  <2>3. i < Len(s) /\ i + 1 = Len(r) + 1 + 1
    BY <1>1, <1>3
  <2>4. p = <<".">> => i + 1 = Len(s)
    BY <1>1, <1>3
  <2> QED
    BY <2>2, <2>3, <2>4
<1>4. CASE i > Len(r) + 1
  <2>1. i - Len(r) - 1 \in 1..Len(p) /\ Len(r) + 1 + (i - Len(r) - 1) = i
    BY <1>1, <1>4
  <2> QED
    BY <1>1, <2>1
<1> QED
  BY <1>1, <1>2, <1>3, <1>4

(* Induction along a list of parts whose every part is in a set.           *)
LEMMA AlongParts ==
  ASSUME NEW G \in SUBSET AllParts, NEW H \in SUBSET Seq(AllParts), <<>> \in H,
         \A ps \in H : \A p \in G : Append(ps, p) \in H
  PROVE  \A ps \in Seq(AllParts) : (\A i \in 1..Len(ps) : ps[i] \in G) => ps \in H
<1> DEFINE T == Seq(AllParts)
           In(ps) == \A i \in 1..Len(ps) : ps[i] \in G
           P == {n \in Nat : \A ps \in T : Len(ps) = n /\ In(ps) => ps \in H}
<1>1. 0 \in P
  <2>1. \A ps \in T : Len(ps) = 0 => ps = <<>>
    BY EmptySeq
  <2> QED
    BY <2>1
<1>2. ASSUME NEW n \in P PROVE n + 1 \in P
  <2>1. ASSUME NEW ps \in T, Len(ps) = n + 1, In(ps) PROVE ps \in H
    <3>1. n \in Nat /\ ps # <<>>
      BY <2>1
    <3>2. /\ Front(ps) \in T /\ Last(ps) \in AllParts /\ Len(Front(ps)) = Len(ps) - 1
          /\ \A i \in 1..(Len(ps) - 1) : Front(ps)[i] = ps[i]
          /\ ps = Append(Front(ps), Last(ps))
      BY <3>1, FrontLast
    <3>3. Last(ps) \in G
      <4>1. Len(ps) \in 1..Len(ps)
        BY <2>1, <3>1
      <4> QED
        BY <2>1, <4>1 DEF Last
    <3>4. Len(Front(ps)) = n /\ In(Front(ps))
      <4>1. Len(Front(ps)) = n
        BY <2>1, <3>1, <3>2
      <4>2. \A i \in 1..n : Front(ps)[i] = ps[i] /\ i \in 1..Len(ps)
        BY <2>1, <3>1, <3>2
      <4> QED
        BY <2>1, <4>1, <4>2
    <3>5. Front(ps) \in H
      BY <1>2, <3>2, <3>4
    <3> HIDE DEF T, In
    <3> QED
      BY <3>2, <3>3, <3>5
  <2>2. n + 1 \in Nat
    OBVIOUS
  <2> HIDE DEF T, In
  <2> QED
    BY <2>1, <2>2
<1>3. P = Nat
  <2>1. P \in SUBSET Nat
    OBVIOUS
  <2> HIDE DEF P
  <2> QED
    BY <1>1, <1>2, <2>1, Induction
<1>4. \A ps \in T : Len(ps) \in Nat
  OBVIOUS
<1> QED
  BY <1>3, <1>4

(* Parts without dots: the string has no "/.", the place is the name.      *)
LEMMA PlainRender ==
  ASSUME NEW ps \in Seq(AllParts), Plain(ps)
  PROVE  NoDot(Render[ps]) /\ PlaceOf[ps] = ps
<1> DEFINE G == {p \in AllParts : p[1] # "."}
           H == {x \in Seq(AllParts) : NoDot(Render[x]) /\ PlaceOf[x] = x}
<1>1. <<>> \in H
  <2>1. <<>> \in Seq(AllParts)
    OBVIOUS
  <2>2. Render[<<>>] = <<>> /\ PlaceOf[<<>>] = <<>>
    BY <2>1, RenderIs, PlaceOfIs
  <2>3. NoDot(<<>>)
    BY DEF NoDot
  <2> QED
    BY <2>1, <2>2, <2>3
<1>2. \A x \in H : \A p \in G : Append(x, p) \in H
  <2> SUFFICES ASSUME NEW x \in H, NEW p \in G PROVE Append(x, p) \in H
    OBVIOUS
  <2>1. x \in Seq(AllParts) /\ p \in AllParts /\ p[1] # "."
    OBVIOUS
  <2>2. NoDot(Render[Append(x, p)])
    BY <2>1, NoDotAppend
  <2>3. PlaceOf[Append(x, p)] = Append(x, p)
    <3>1. PlaceOf[Append(x, p)] = Enter(x, p)
      BY <2>1, PlaceAppend
    <3>2. p # <<".">> /\ p # <<".", ".">>
      BY <2>1
    <3> QED
      BY <3>1, <3>2 DEF Enter
  <2>4. Append(x, p) \in Seq(AllParts)
    BY <2>1
  <2> QED
    BY <2>2, <2>3, <2>4
<1>3. \A i \in 1..Len(ps) : ps[i] \in G
  BY ElementOfSeq DEF Plain
<1>4. G \in SUBSET AllParts /\ H \in SUBSET Seq(AllParts)
  OBVIOUS
<1> HIDE DEF G, H
<1>5. ps \in H
  BY <1>1, <1>2, <1>3, <1>4, AlongParts
<1> QED
  BY <1>5 DEF H

LEMMA NoUpsRender ==
  ASSUME NEW ps \in Seq(AllParts), DotsOnly(ps), NoUps(ps)
  PROVE  NoDots(Render[ps])
<1> DEFINE G == {p \in AllParts : p[1] # "." \/ p = <<".">>}
           H == {x \in Seq(AllParts) : NoDots(Render[x])}
<1>1. <<>> \in H
  <2>1. <<>> \in Seq(AllParts)
    OBVIOUS
  <2>2. Render[<<>>] = <<>>
    BY <2>1, RenderIs
  <2>3. NoDots(<<>>)
    BY DEF NoDots
  <2> QED
    BY <2>1, <2>2, <2>3
<1>2. \A x \in H : \A p \in G : Append(x, p) \in H
  <2> SUFFICES ASSUME NEW x \in H, NEW p \in G PROVE Append(x, p) \in H
    OBVIOUS
  <2>1. x \in Seq(AllParts) /\ p \in AllParts /\ (p[1] # "." \/ p = <<".">>)
    OBVIOUS
  <2>2. NoDots(Render[Append(x, p)])
    BY <2>1, NoDotsAppend
  <2>3. Append(x, p) \in Seq(AllParts)
    BY <2>1
  <2> QED
    BY <2>2, <2>3
<1>3. \A i \in 1..Len(ps) : ps[i] \in G
  BY ElementOfSeq DEF DotsOnly, NoUps
<1>4. G \in SUBSET AllParts /\ H \in SUBSET Seq(AllParts)
  OBVIOUS
<1> HIDE DEF G, H
<1>5. ps \in H
  BY <1>1, <1>2, <1>3, <1>4, AlongParts
<1> QED
  BY <1>5 DEF H

LEMMA SubSeqIs ==
  ASSUME NEW S, NEW s \in Seq(S), NEW m \in Nat, NEW n \in Nat, m + n <= Len(s)
  PROVE  /\ SubSeq(s, m + 1, m + n) \in Seq(S) /\ Len(SubSeq(s, m + 1, m + n)) = n
         /\ \A i \in 1..n : SubSeq(s, m + 1, m + n)[i] = s[m + i]
<1> DEFINE a == m + 1
           z == m + n
           t == SubSeq(s, a, z)
<1>1. a \in Int /\ z \in Int /\ \A i \in a..z : s[i] \in S
  <2>1. Len(s) \in Nat /\ \A i \in 1..Len(s) : s[i] \in S
    BY LenProperties, ElementOfSeq
  <2>2. \A i \in a..z : i \in 1..Len(s)
    BY <2>1
  <2> QED
    BY <2>1, <2>2
<1>2. (IF a <= z THEN z - a + 1 ELSE 0) = n /\ z - a + 1 = n
  OBVIOUS
<1>3. \A i \in 1..n : a + i - 1 = m + i
  OBVIOUS
<1> HIDE DEF a, z
<1>4. /\ t \in Seq(S) /\ Len(t) = IF a <= z THEN z - a + 1 ELSE 0
      /\ \A i \in 1..(z - a + 1) : t[i] = s[a + i - 1]
  BY <1>1, SubSeqProperties
<1> HIDE DEF t
<1>5. t \in Seq(S) /\ Len(t) = n /\ \A i \in 1..n : t[i] = s[m + i]
  BY <1>2, <1>3, <1>4
<1> QED
  BY <1>5 DEF t, a, z

LEMMA SplitAt ==
  ASSUME NEW S, NEW ps \in Seq(S), NEW k \in 1..Len(ps)
  PROVE  LET a == SubSeq(ps, 1, k - 1)
             b == SubSeq(ps, k + 1, Len(ps))
         IN  /\ a \in Seq(S) /\ b \in Seq(S) /\ Len(a) = k - 1 /\ Len(b) = Len(ps) - k
             /\ \A i \in 1..(k - 1) : a[i] = ps[i]
             /\ \A i \in 1..(Len(ps) - k) : b[i] = ps[k + i]
             /\ ps[k] \in S /\ ps = Append(a, ps[k]) \o b
<1> DEFINE a == SubSeq(ps, 1, k - 1)
           b == SubSeq(ps, k + 1, Len(ps))
<1>1. Len(ps) \in Nat /\ k \in Nat /\ k - 1 \in Nat /\ Len(ps) - k \in Nat
  BY LenProperties
<1>2. a \in Seq(S) /\ Len(a) = k - 1 /\ \A i \in 1..(k - 1) : a[i] = ps[i]
  <2>1. 0 + (k - 1) <= Len(ps) /\ 0 + 1 = 1 /\ 0 + (k - 1) = k - 1 /\ 0 \in Nat
    BY <1>1
  <2>2. /\ SubSeq(ps, 0 + 1, 0 + (k - 1)) \in Seq(S) /\ Len(SubSeq(ps, 0 + 1, 0 + (k - 1))) = k - 1
        /\ \A i \in 1..(k - 1) : SubSeq(ps, 0 + 1, 0 + (k - 1))[i] = ps[0 + i]
    BY <1>1, <2>1, SubSeqIs
  <2>3. \A i \in 1..(k - 1) : 0 + i = i
    BY <1>1
  <2>4. a = SubSeq(ps, 0 + 1, 0 + (k - 1))
    BY <2>1
  <2> HIDE DEF a
  <2> QED
    BY <2>2, <2>3, <2>4
<1>3. b \in Seq(S) /\ Len(b) = Len(ps) - k /\ \A i \in 1..(Len(ps) - k) : b[i] = ps[k + i]
  <2>1. k + (Len(ps) - k) <= Len(ps) /\ k + (Len(ps) - k) = Len(ps)
    BY <1>1
  <2> DEFINE z == Len(ps) - k
  <2>2. z \in Nat /\ k + z <= Len(ps) /\ k + z = Len(ps)
    BY <1>1, <2>1
  <2> HIDE DEF z
  <2>3. /\ SubSeq(ps, k + 1, k + z) \in Seq(S) /\ Len(SubSeq(ps, k + 1, k + z)) = z
        /\ \A i \in 1..z : SubSeq(ps, k + 1, k + z)[i] = ps[k + i]
    BY <1>1, <2>2, SubSeqIs
  <2>4. b = SubSeq(ps, k + 1, k + z)
    BY <2>2
  <2> HIDE DEF b
  <2> QED
    BY <2>3, <2>4 DEF z
<1>4. ps[k] \in S
  BY ElementOfSeq
<1> HIDE DEF a, b
<1> DEFINE c == Append(a, ps[k])
<1>5. /\ c \in Seq(S) /\ Len(c) = k /\ c[k] = ps[k] /\ \A i \in 1..(k - 1) : c[i] = ps[i]
  BY <1>1, <1>2, <1>4
<1> HIDE DEF c
<1>6. ps = c \o b
  <2>1. /\ c \o b \in Seq(S) /\ Len(c \o b) = Len(c) + Len(b)
        /\ \A i \in 1..(Len(c) + Len(b)) : (c \o b)[i] = IF i <= Len(c) THEN c[i] ELSE b[i - Len(c)]
    BY <1>3, <1>5, ConcatProperties
  <2>4. Len(c) + Len(b) = Len(ps)
    BY <1>1, <1>3, <1>5
  <2>2. Len(ps) = Len(c \o b)
    BY <2>1, <2>4
  <2>3. \A i \in 1..Len(ps) : ps[i] = (c \o b)[i]
    <3> SUFFICES ASSUME NEW i \in 1..Len(ps) PROVE ps[i] = (c \o b)[i]
      OBVIOUS
    <3>2. (c \o b)[i] = IF i <= k THEN c[i] ELSE b[i - k]
      BY <1>5, <2>1, <2>4
    <3>3. CASE i < k
      <4>1. i \in 1..(k - 1) /\ i <= k
        BY <1>1, <3>3
      <4> QED
        BY <1>5, <3>2, <4>1
    <3>4. CASE i = k
      <4>1. i <= k /\ c[i] = ps[i]
        BY <1>1, <1>5, <3>4
      <4> QED
        BY <3>2, <4>1
    <3>5. CASE i > k
      <4>1. i - k \in 1..(Len(ps) - k) /\ k + (i - k) = i /\ ~ (i <= k)
        BY <1>1, <3>5
      <4> QED
        BY <1>3, <3>2, <4>1
    <3>6. i < k \/ i = k \/ i > k
      BY <1>1
    <3> QED
      BY <3>3, <3>4, <3>5, <3>6, Zenon
  <2> QED
    BY <2>1, <2>2, <2>3, SeqEqual
<1> QED
  BY <1>2, <1>3, <1>4, <1>6 DEF a, b, c

(* Where the part p stands in the string of a, p and b.                    *)
LEMMA RenderSplit ==
  ASSUME NEW a \in Seq(AllParts), NEW b \in Seq(AllParts), NEW p \in AllParts
  PROVE  LET r == Render[a]
             u == Render[b]
             s == Render[Append(a, p) \o b]
             n == Len(r) + 1 + Len(p)
         IN  /\ r \in Strings /\ u \in Strings /\ s \in Strings
             /\ Len(r) \in Nat /\ Len(u) \in Nat /\ Len(p) \in Nat /\ Len(s) = n + Len(u)
             /\ \A i \in 1..Len(r) : s[i] = r[i]
             /\ s[Len(r) + 1] = "/"
             /\ \A i \in 1..Len(p) : s[Len(r) + 1 + i] = p[i]
             /\ \A i \in 1..Len(u) : s[n + i] = u[i]
<1> DEFINE r == Render[a]
           u == Render[b]
           q == Render[Append(a, p)]
           s == Render[Append(a, p) \o b]
           n == Len(r) + 1 + Len(p)
<1>1. Append(a, p) \in Seq(AllParts) /\ Append(a, p) \o b \in Seq(AllParts)
  OBVIOUS
<1>2. s = q \o u /\ q \in Seq(Chars) /\ u \in Seq(Chars) /\ s \in Strings /\ u \in Strings
  BY <1>1, RenderConcat, RenderIs DEF Strings
<1>3. /\ r \in Strings /\ Len(r) \in Nat /\ Len(p) \in Nat /\ Len(q) = n
      /\ \A i \in 1..Len(r) : q[i] = r[i]
      /\ q[Len(r) + 1] = "/"
      /\ \A i \in 1..Len(p) : q[Len(r) + 1 + i] = p[i]
  BY RenderedIs
<1> HIDE DEF r, u, q, s
<1>4. /\ Len(s) = Len(q) + Len(u)
      /\ \A i \in 1..(Len(q) + Len(u)) : s[i] = IF i <= Len(q) THEN q[i] ELSE u[i - Len(q)]
  BY <1>2, ConcatProperties
<1>5. Len(u) \in Nat
  BY <1>2, LenProperties
<1>6. \A i \in 1..Len(q) : s[i] = q[i]
  BY <1>3, <1>4, <1>5
<1>7. \A i \in 1..Len(u) : s[n + i] = u[i]
  <2> SUFFICES ASSUME NEW i \in 1..Len(u) PROVE s[n + i] = u[i]
    OBVIOUS
  <2> DEFINE k == n + i
  <2>1. k \in 1..(Len(q) + Len(u)) /\ ~ (k <= Len(q)) /\ k - Len(q) = i
    BY <1>3, <1>5
  <2> HIDE DEF k
  <2>2. s[k] = u[k - Len(q)]
    BY <1>4, <2>1
  <2> QED
    BY <2>1, <2>2 DEF k
<1>8. \A i \in 1..Len(r) : s[i] = r[i]
  <2>1. \A i \in 1..Len(r) : i \in 1..Len(q)
    BY <1>3
  <2> QED
    BY <2>1, <1>3, <1>6
<1>9. s[Len(r) + 1] = "/"
  <2>1. Len(r) + 1 \in 1..Len(q)
    BY <1>3
  <2> QED
    BY <2>1, <1>3, <1>6
<1>10. \A i \in 1..Len(p) : s[Len(r) + 1 + i] = p[i]
  <2>1. \A i \in 1..Len(p) : Len(r) + 1 + i \in 1..Len(q)
    BY <1>3
  <2> QED
    BY <2>1, <1>3, <1>6
<1>11. Len(s) = n + Len(u)
  BY <1>3, <1>4
<1> HIDE DEF n
<1> QED
  BY <1>2, <1>3, <1>5, <1>7, <1>8, <1>9, <1>10, <1>11 DEF r, u, s, n

(* The first dot after a slash, when a string begins with one that has none. *)
LEMMA FirstUp ==
  ASSUME NEW s \in Strings, NEW r \in Strings, NoDot(r), Len(s) >= Len(r) + 3,
         \A i \in 1..Len(r) : s[i] = r[i],
         s[Len(r) + 1] = "/", s[Len(r) + 2] = ".", s[Len(r) + 3] = "."
  PROVE  Strstr(s, <<"/", ".", ".">>) = Len(r) + 1
<1> DEFINE at == Strstr(s, <<"/", ".", ".">>)
<1>1. Len(r) \in Nat /\ Len(s) \in Nat
  BY DEF Strings
<1>2. Len(r) + 1 \in Places(s, <<"/", ".", ".">>)
  <2>1. Len(r) + 1 \in 1..Len(s) /\ Len(r) + 1 + 1 = Len(r) + 2 /\ Len(r) + 1 + 2 = Len(r) + 3
    BY <1>1
  <2>2. Up3(s, Len(r) + 1)
    BY <1>1, <2>1 DEF Up3
  <2> QED
    BY <2>1, <2>2, PlacesUp
<1>3. at \in Places(s, <<"/", ".", ".">>) /\ at <= Len(r) + 1
  BY <1>2, StrstrIs
<1>4. at \in 1..Len(s) /\ s[at] = "/" /\ s[at + 1] = "."
  BY <1>3, PlacesUp DEF Up3
<1> HIDE DEF at
<1>5. ~ (at <= Len(r))
  <2> SUFFICES ASSUME at <= Len(r) PROVE FALSE
    OBVIOUS
  <2>1. at \in 1..Len(r) /\ r[at] = "/"
    BY <1>1, <1>4
  <2>2. at < Len(r) /\ r[at + 1] # "."
    BY <2>1 DEF NoDot
  <2>3. at + 1 \in 1..Len(r)
    BY <1>1, <2>1, <2>2
  <2> QED
    BY <1>4, <2>2, <2>3
<1> QED
  BY <1>1, <1>3, <1>4, <1>5 DEF at

LEMMA FirstHere ==
  ASSUME NEW s \in Strings, NEW r \in Strings, NoDot(r), Len(s) >= Len(r) + 2,
         \A i \in 1..Len(r) : s[i] = r[i],
         s[Len(r) + 1] = "/", s[Len(r) + 2] = "."
  PROVE  Strstr(s, <<"/", ".">>) = Len(r) + 1
<1> DEFINE at == Strstr(s, <<"/", ".">>)
<1>1. Len(r) \in Nat /\ Len(s) \in Nat
  BY DEF Strings
<1>2. Len(r) + 1 \in Places(s, <<"/", ".">>)
  <2>1. Len(r) + 1 \in 1..Len(s) /\ Len(r) + 1 + 1 = Len(r) + 2
    BY <1>1
  <2>2. Here2(s, Len(r) + 1)
    BY <1>1, <2>1 DEF Here2
  <2> QED
    BY <2>1, <2>2, PlacesHere
<1>3. at \in Places(s, <<"/", ".">>) /\ at <= Len(r) + 1
  BY <1>2, StrstrIs
<1>4. at \in 1..Len(s) /\ s[at] = "/" /\ s[at + 1] = "."
  BY <1>3, PlacesHere DEF Here2
<1> HIDE DEF at
<1>5. ~ (at <= Len(r))
  <2> SUFFICES ASSUME at <= Len(r) PROVE FALSE
    OBVIOUS
  <2>1. at \in 1..Len(r) /\ r[at] = "/"
    BY <1>1, <1>4
  <2>2. at < Len(r) /\ r[at + 1] # "."
    BY <2>1 DEF NoDot
  <2>3. at + 1 \in 1..Len(r)
    BY <1>1, <2>1, <2>2
  <2> QED
    BY <1>4, <2>2, <2>3
<1> QED
  BY <1>1, <1>3, <1>4, <1>5 DEF at

LEMMA HeadEqual ==
  ASSUME NEW s \in Strings, NEW r \in Strings, Len(r) <= Len(s), \A i \in 1..Len(r) : s[i] = r[i]
  PROVE  SubSeq(s, 1, Len(r)) = r
<1>1. Len(r) \in Nat /\ Len(s) \in Nat /\ Len(r) \in 0..Len(s)
  BY DEF Strings
<1> DEFINE t == SubSeq(s, 1, Len(r))
<1>2. t \in Strings /\ Len(t) = Len(r) /\ \A j \in 1..Len(r) : t[j] = s[j]
  BY <1>1, HeadIs
<1> HIDE DEF t
<1>3. t = r
  <2>1. \A i \in 1..Len(t) : t[i] = r[i]
    BY <1>2
  <2> QED
    BY <1>2, <2>1, SeqEqual DEF Strings
<1> QED
  BY <1>3 DEF t

LEMMA RestEqual ==
  ASSUME NEW s \in Strings, NEW u \in Strings, NEW n \in Nat, Len(s) = n + Len(u),
         \A i \in 1..Len(u) : s[n + i] = u[i]
  PROVE  Rest(s, n + 1) = u
<1>1. Len(u) \in Nat /\ Len(s) \in Nat
  BY DEF Strings
<1>2. n + 1 \in 1..(Len(s) + 1) /\ Len(s) - (n + 1) + 1 = Len(u)
      /\ \A j \in 1..Len(u) : n + 1 + j - 1 = n + j
  BY <1>1
<1> DEFINE t == Rest(s, n + 1)
           m == n + 1
<1>3. t \in Strings /\ Len(t) = Len(u) /\ \A j \in 1..Len(u) : t[j] = s[n + j]
  <2> HIDE DEF m
  <2>1. m \in 1..(Len(s) + 1)
    BY <1>2 DEF m
  <2>2. /\ Rest(s, m) \in Strings /\ Len(Rest(s, m)) = Len(s) - m + 1
        /\ \A j \in 1..(Len(s) - m + 1) : Rest(s, m)[j] = s[m + j - 1]
    BY <2>1, RestIs
  <2> QED
    BY <1>2, <2>2 DEF m
<1> HIDE DEF t
<1>4. t = u
  <2>1. \A i \in 1..Len(t) : t[i] = u[i]
    BY <1>3
  <2> QED
    BY <1>3, <2>1, SeqEqual DEF Strings
<1> QED
  BY <1>4 DEF t

(* A "..", after parts that name places below, goes with the part before.  *)
LEMMA UpGoes ==
  ASSUME NEW a \in Seq(AllParts), Plain(a), NEW b \in Seq(AllParts), NEW p \in AllParts,
         p = <<".", ".">>
  PROVE  LET c == IF a = <<>> THEN <<>> ELSE Front(a)
         IN  /\ DropUps[Render[Append(a, p) \o b]] = DropUps[Render[c \o b]]
             /\ PlaceOf[Append(a, p) \o b] = PlaceOf[c \o b]
<1> DEFINE c == IF a = <<>> THEN <<>> ELSE Front(a)
           r == Render[a]
           u == Render[b]
           s == Render[Append(a, p) \o b]
           n == Len(r) + 3
<1>1. c \in Seq(AllParts) /\ Append(a, p) \in Seq(AllParts)
  BY FrontLast
<1>2. NoDot(r) /\ PlaceOf[a] = a
  BY PlainRender
<1>3. PlaceOf[Append(a, p) \o b] = PlaceOf[c \o b]
  <2>1. PlaceOf[c] = c
    <3>1. Plain(c)
      <4>1. CASE a = <<>>
        BY <4>1 DEF Plain
      <4>2. CASE a # <<>>
        <5>1. c = Front(a) /\ Len(a) \in Nat
          BY <4>2
        <5>2. Len(Front(a)) = Len(a) - 1 /\ \A i \in 1..(Len(a) - 1) : Front(a)[i] = a[i]
          BY <4>2, FrontLast
        <5>3. \A i \in 1..Len(Front(a)) : Front(a)[i] = a[i] /\ i \in 1..Len(a)
          BY <5>1, <5>2
        <5> QED
          BY <5>1, <5>3 DEF Plain
      <4> QED
        BY <4>1, <4>2
    <3> QED
      BY <1>1, <3>1, PlainRender
  <2>2. PlaceOf[Append(a, p)] = Enter(a, p)
    BY <1>2, PlaceAppend
  <2>3. Enter(a, p) = c
    BY DEF Enter
  <2> HIDE DEF c
  <2>4. PlaceOf[Append(a, p)] = PlaceOf[c]
    BY <2>1, <2>2, <2>3
  <2> DEFINE q == Append(a, p)
  <2> HIDE DEF q
  <2>5. q \in Seq(AllParts) /\ PlaceOf[q] = PlaceOf[c]
    BY <1>1, <2>4 DEF q
  <2>6. PlaceOf[q \o b] = PlaceOf[c \o b]
    BY <1>1, <2>5, PlaceConcat
  <2> QED
    BY <2>6 DEF q
<1>4. Len(p) = 3 - 1 /\ p[1] = "." /\ p[2] = "."
  OBVIOUS
<1>5. /\ r \in Strings /\ u \in Strings /\ s \in Strings
      /\ Len(r) \in Nat /\ Len(u) \in Nat /\ Len(s) = n + Len(u)
      /\ \A i \in 1..Len(r) : s[i] = r[i]
      /\ s[Len(r) + 1] = "/" /\ s[Len(r) + 2] = "." /\ s[Len(r) + 3] = "."
      /\ \A i \in 1..Len(u) : s[n + i] = u[i]
  <2>1. /\ r \in Strings /\ u \in Strings /\ s \in Strings
        /\ Len(r) \in Nat /\ Len(u) \in Nat /\ Len(p) \in Nat /\ Len(s) = Len(r) + 1 + Len(p) + Len(u)
        /\ \A i \in 1..Len(r) : s[i] = r[i]
        /\ s[Len(r) + 1] = "/"
        /\ \A i \in 1..Len(p) : s[Len(r) + 1 + i] = p[i]
        /\ \A i \in 1..Len(u) : s[Len(r) + 1 + Len(p) + i] = u[i]
    BY RenderSplit
  <2> HIDE DEF r, u, s
  <2>2. Len(r) + 1 + Len(p) = n
    BY <1>4, <2>1
  <2>3. s[Len(r) + 2] = "." /\ s[Len(r) + 3] = "."
    <3>1. Len(r) + 1 + 1 = Len(r) + 2 /\ Len(r) + 1 + 2 = Len(r) + 3 /\ 1 \in 1..Len(p) /\ 2 \in 1..Len(p)
      BY <1>4, <2>1
    <3>2. s[Len(r) + 1 + 1] = "." /\ s[Len(r) + 1 + 2] = "."
      BY <1>4, <2>1, <3>1
    <3> QED
      BY <3>1, <3>2
  <2> QED
    BY <2>1, <2>2, <2>3
<1> HIDE DEF c, r, u, s
<1>6. Strstr(s, <<"/", ".", ".">>) = Len(r) + 1
  <2>1. Len(s) >= Len(r) + 3
    BY <1>5
  <2> QED
    BY <1>2, <1>5, <2>1, FirstUp
<1>7. Rest(s, n + 1) = u
  <2> HIDE DEF n
  <2>1. n \in Nat
    BY <1>5 DEF n
  <2> QED
    BY <1>5, <2>1, RestEqual
<1>8. CutUp(s, Len(r) + 1) = Render[c \o b]
  <2>1. CASE a = <<>>
    <3>1. r = <<>> /\ c = <<>> /\ c \o b = b
      BY <2>1, RenderIs, ConcatEmptySeq DEF r, c
    <3>2. Len(r) + 1 = 1 /\ n + 1 = 4
      BY <3>1
    <3> QED
      BY <1>7, <3>1, <3>2 DEF CutUp, u
  <2>2. CASE a # <<>>
    <3> DEFINE x == Last(a)
               v == Render[c]
    <3>1. c \in Seq(AllParts) /\ x \in AllParts /\ a = Append(c, x)
      BY <2>2, FrontLast DEF c
    <3> HIDE DEF x
    <3>2. /\ v \in Strings /\ Len(v) \in Nat /\ Len(x) \in Nat /\ Len(x) >= 1
          /\ Len(r) = Len(v) + 1 + Len(x)
          /\ \A i \in 1..Len(v) : r[i] = v[i]
          /\ r[Len(v) + 1] = "/"
          /\ \A i \in 1..Len(x) : r[Len(v) + 1 + i] = x[i] /\ x[i] # "/"
      BY <3>1, RenderedIs DEF r
    <3> HIDE DEF v
    <3>3. Rindex(r) = Len(v) + 1
      <4>1. /\ Rindex(r) \in 0..Len(r) /\ (Rindex(r) # 0 => r[Rindex(r)] = "/")
            /\ \A i \in 1..Len(r) : r[i] = "/" => i <= Rindex(r)
        BY <1>5, RindexIs
      <4>2. Len(v) + 1 \in 1..Len(r)
        BY <3>2
      <4>3. Len(v) + 1 <= Rindex(r)
        BY <3>2, <4>1, <4>2
      <4>4. ~ (Rindex(r) > Len(v) + 1)
        <5> SUFFICES ASSUME Rindex(r) > Len(v) + 1 PROVE FALSE
          OBVIOUS
        <5> DEFINE g == Rindex(r)
                   i == g - Len(v) - 1
        <5>0. g \in 0..Len(r) /\ g > Len(v) + 1 /\ (g # 0 => r[g] = "/")
          BY <4>1
        <5> HIDE DEF g
        <5>1. i \in 1..Len(x) /\ Len(v) + 1 + i = g /\ g # 0
          BY <3>2, <5>0
        <5> HIDE DEF i
        <5>2. r[Len(v) + 1 + i] # "/"
          BY <3>2, <5>1
        <5> QED
          BY <5>0, <5>1, <5>2
      <4> QED
        BY <3>2, <4>1, <4>3, <4>4
    <3>4. SubSeq(s, 1, Len(r)) = r
      <4>1. Len(r) <= Len(s)
        BY <1>5
      <4> QED
        BY <1>5, <4>1, HeadEqual
    <3>5. SubSeq(s, 1, Len(v)) = v
      <4>1. Len(v) <= Len(s)
        BY <1>5, <3>2
      <4>2. \A i \in 1..Len(v) : s[i] = v[i]
        <5>1. \A i \in 1..Len(v) : i \in 1..Len(r)
          BY <3>2
        <5> QED
          BY <1>5, <3>2, <5>1
      <4> QED
        BY <1>5, <3>2, <4>1, <4>2, HeadEqual
    <3>6. CutUp(s, Len(r) + 1) = v \o u
      <4> DEFINE at == Len(r) + 1
                 above == Len(v) + 1
      <4>1. at # 1 /\ at - 1 = Len(r) /\ at + 3 = n + 1 /\ above # 0 /\ above - 1 = Len(v)
        BY <1>5, <3>2
      <4>2. SubSeq(s, 1, at - 1) = r
        BY <3>4, <4>1
      <4>3. Rindex(SubSeq(s, 1, at - 1)) = above
        BY <3>3, <4>2
      <4>4. SubSeq(s, 1, above - 1) = v /\ Rest(s, at + 3) = u
        BY <1>7, <3>5, <4>1
      <4> HIDE DEF at, above
      <4>5. CutAbove(s, at) = v \o u
        BY <4>1, <4>3, <4>4 DEF CutAbove
      <4>6. CutUp(s, at) = v \o u
        BY <4>1, <4>5 DEF CutUp
      <4> QED
        BY <4>6 DEF at
    <3>7. Render[c \o b] = v \o u
      BY <3>1, RenderConcat DEF v, u
    <3> QED
      BY <3>6, <3>7
  <2> QED
    BY <2>1, <2>2
<1>9. DropUps[s] = DropUps[Render[c \o b]]
  <2>1. Len(r) + 1 # 0
    BY <1>5
  <2> QED
    BY <1>5, <1>6, <1>8, <2>1, DropUpsIs
<1> QED
  BY <1>3, <1>9 DEF s, c

(* A ".", after parts that name places below, goes alone.                  *)
LEMMA HereGoes ==
  ASSUME NEW a \in Seq(AllParts), Plain(a), NEW b \in Seq(AllParts), NEW p \in AllParts,
         p = <<".">>, a # <<>> \/ b # <<>>
  PROVE  /\ DropHeres[Render[Append(a, p) \o b]] = DropHeres[Render[a \o b]]
         /\ PlaceOf[Append(a, p) \o b] = PlaceOf[a \o b]
<1> DEFINE r == Render[a]
           u == Render[b]
           s == Render[Append(a, p) \o b]
           n == Len(r) + 2
<1>1. Append(a, p) \in Seq(AllParts)
  OBVIOUS
<1>2. NoDot(r) /\ PlaceOf[a] = a
  BY PlainRender
<1>3. PlaceOf[Append(a, p) \o b] = PlaceOf[a \o b]
  <2>1. PlaceOf[Append(a, p)] = Enter(a, p)
    BY <1>2, PlaceAppend
  <2>2. Enter(a, p) = a
    BY DEF Enter
  <2>3. PlaceOf[Append(a, p)] = PlaceOf[a]
    BY <1>2, <2>1, <2>2
  <2> DEFINE q == Append(a, p)
  <2> HIDE DEF q
  <2>4. q \in Seq(AllParts) /\ PlaceOf[q] = PlaceOf[a]
    BY <1>1, <2>3 DEF q
  <2>5. PlaceOf[q \o b] = PlaceOf[a \o b]
    BY <2>4, PlaceConcat
  <2> QED
    BY <2>5 DEF q
<1>4. Len(p) = 1 /\ p[1] = "."
  OBVIOUS
<1>5. /\ r \in Strings /\ u \in Strings /\ s \in Strings
      /\ Len(r) \in Nat /\ Len(u) \in Nat /\ Len(s) = n + Len(u)
      /\ \A i \in 1..Len(r) : s[i] = r[i]
      /\ s[Len(r) + 1] = "/" /\ s[Len(r) + 2] = "."
      /\ \A i \in 1..Len(u) : s[n + i] = u[i]
  <2>1. /\ r \in Strings /\ u \in Strings /\ s \in Strings
        /\ Len(r) \in Nat /\ Len(u) \in Nat /\ Len(p) \in Nat /\ Len(s) = Len(r) + 1 + Len(p) + Len(u)
        /\ \A i \in 1..Len(r) : s[i] = r[i]
        /\ s[Len(r) + 1] = "/"
        /\ \A i \in 1..Len(p) : s[Len(r) + 1 + i] = p[i]
        /\ \A i \in 1..Len(u) : s[Len(r) + 1 + Len(p) + i] = u[i]
    BY RenderSplit
  <2> HIDE DEF r, u, s
  <2>2. Len(r) + 1 + Len(p) = n
    BY <1>4, <2>1
  <2>3. s[Len(r) + 2] = "."
    <3>1. Len(r) + 1 + 1 = Len(r) + 2 /\ 1 \in 1..Len(p)
      BY <1>4, <2>1
    <3>2. s[Len(r) + 1 + 1] = "."
      BY <1>4, <2>1, <3>1
    <3> QED
      BY <3>1, <3>2
  <2> QED
    BY <2>1, <2>2, <2>3
<1>6. Len(r) # 0 \/ Len(u) # 0
  <2>1. ASSUME NEW x \in Seq(AllParts), x # <<>> PROVE Len(Render[x]) # 0
    <3>1. Front(x) \in Seq(AllParts) /\ Last(x) \in AllParts /\ x = Append(Front(x), Last(x))
      BY <2>1, FrontLast
    <3> DEFINE y == Front(x)
               z == Last(x)
    <3> HIDE DEF y, z
    <3>2. y \in Seq(AllParts) /\ z \in AllParts /\ x = Append(y, z)
      BY <3>1 DEF y, z
    <3>3. Len(Render[y]) \in Nat /\ Len(z) \in Nat /\ Len(Render[Append(y, z)]) = Len(Render[y]) + 1 + Len(z)
      BY <3>2, RenderedIs
    <3> QED
      BY <3>2, <3>3
  <2> QED
    BY <2>1
<1> HIDE DEF r, u, s
<1>7. Strstr(s, <<"/", ".">>) = Len(r) + 1
  <2>1. Len(s) >= Len(r) + 2
    BY <1>5
  <2> QED
    BY <1>2, <1>5, <2>1, FirstHere
<1>8. Rest(s, n + 1) = u
  <2> HIDE DEF n
  <2>1. n \in Nat
    BY <1>5 DEF n
  <2> QED
    BY <1>5, <2>1, RestEqual
<1>9. SubSeq(s, 1, Len(r)) = r
  <2>1. Len(r) <= Len(s)
    BY <1>5
  <2> QED
    BY <1>5, <2>1, HeadEqual
<1> DEFINE at == Len(r) + 1
<1>10. CutHere(s, at) = r \o u
  <2>1. at - 1 = Len(r) /\ at + 2 = n + 1 /\ ~ (at = 1 /\ Len(s) = 2)
    BY <1>5, <1>6
  <2>2. SubSeq(s, 1, at - 1) = r /\ Rest(s, at + 2) = u
    BY <1>8, <1>9, <2>1
  <2> HIDE DEF at
  <2> QED
    BY <2>1, <2>2 DEF CutHere
<1>11. Render[a \o b] = r \o u
  BY RenderConcat DEF r, u
<1>12. DropHeres[s] = DropHeres[Render[a \o b]]
  <2>1. at # 0
    BY <1>5
  <2> QED
    BY <1>5, <1>7, <1>10, <1>11, <2>1, DropHeresIs
<1> QED
  BY <1>3, <1>12 DEF s

LEMMA Thinned ==
  ASSUME NEW S, NEW ps \in Seq(S), NEW qs \in Seq(S), NEW m \in Nat, NEW d \in Nat,
         Len(qs) + d = Len(ps), \A i \in 1..Len(qs) : qs[i] = ps[IF i <= m THEN i ELSE i + d],
         DotsOnly(ps)
  PROVE  DotsOnly(qs) /\ (UpsFirst(ps) => UpsFirst(qs)) /\ (NoUps(ps) => NoUps(qs))
<1> DEFINE h(i) == IF i <= m THEN i ELSE i + d
<1>1. Len(ps) \in Nat /\ Len(qs) \in Nat
  BY LenProperties
<1>2. \A i \in 1..Len(qs) : h(i) \in 1..Len(ps) /\ qs[i] = ps[h(i)]
  BY <1>1
<1>3. \A i, j \in 1..Len(qs) : h(j) < h(i) => j < i
  BY <1>1
<1> HIDE DEF h
<1>4. DotsOnly(qs)
  BY <1>2 DEF DotsOnly
<1>5. UpsFirst(ps) => UpsFirst(qs)
  BY <1>2, <1>3 DEF UpsFirst
<1>6. NoUps(ps) => NoUps(qs)
  BY <1>2 DEF NoUps
<1> QED
  BY <1>4, <1>5, <1>6

LEMMA ConcatThins ==
  ASSUME NEW S, NEW ps \in Seq(S), NEW c \in Seq(S), NEW b \in Seq(S), NEW k \in 1..Len(ps),
         Len(c) < k, Len(b) = Len(ps) - k,
         \A i \in 1..Len(c) : c[i] = ps[i], \A i \in 1..(Len(ps) - k) : b[i] = ps[k + i],
         DotsOnly(ps)
  PROVE  LET qs == c \o b
         IN  /\ qs \in Seq(S) /\ Len(qs) \in Nat /\ Len(qs) < Len(ps)
             /\ DotsOnly(qs) /\ (UpsFirst(ps) => UpsFirst(qs)) /\ (NoUps(ps) => NoUps(qs))
<1> DEFINE qs == c \o b
           m == Len(c)
           d == k - m
<1>1. Len(ps) \in Nat /\ Len(c) \in Nat /\ Len(b) \in Nat /\ k \in Nat
  BY LenProperties
<1>2. /\ qs \in Seq(S) /\ Len(qs) = Len(c) + Len(b)
      /\ \A i \in 1..(Len(c) + Len(b)) : qs[i] = IF i <= Len(c) THEN c[i] ELSE b[i - Len(c)]
  BY ConcatProperties
<1> HIDE DEF qs
<1>3. d \in Nat /\ m \in Nat /\ Len(qs) + d = Len(ps) /\ d # 0
  BY <1>1, <1>2
<1>4. \A i \in 1..Len(qs) : qs[i] = ps[IF i <= m THEN i ELSE i + d]
  <2> SUFFICES ASSUME NEW i \in 1..Len(qs) PROVE qs[i] = ps[IF i <= m THEN i ELSE i + d]
    OBVIOUS
  <2>1. CASE i <= m
    <3>1. i \in 1..Len(c)
      BY <1>1, <2>1
    <3> QED
      BY <1>2, <2>1, <3>1
  <2>2. CASE ~ (i <= m)
    <3> DEFINE j == i - m
    <3>1. j \in 1..(Len(ps) - k) /\ k + j = i + d
      BY <1>1, <1>2, <2>2
    <3>2. qs[i] = b[j]
      BY <1>2, <2>2
    <3> HIDE DEF j
    <3>3. b[j] = ps[k + j]
      BY <3>1
    <3> QED
      BY <2>2, <3>1, <3>2, <3>3
  <2> QED
    BY <2>1, <2>2
<1> HIDE DEF m, d
<1>5. DotsOnly(qs) /\ (UpsFirst(ps) => UpsFirst(qs)) /\ (NoUps(ps) => NoUps(qs))
  BY <1>2, <1>3, <1>4, Thinned
<1>6. Len(qs) \in Nat /\ Len(qs) < Len(ps)
  BY <1>1, <1>2, <1>3
<1> QED
  BY <1>2, <1>5, <1>6 DEF qs

(* The first loop takes every ".." with the part it leaves, and keeps the  *)
(* place of the name.                                                      *)
Upless(ps, qs) ==
  /\ DotsOnly(qs) /\ NoUps(qs)
  /\ DropUps[Render[ps]] = Render[qs] /\ PlaceOf[qs] = PlaceOf[ps]

(* One round of the first loop, up to its last one.                        *)
LEMMA UpsStep ==
  ASSUME NEW ps \in Seq(AllParts), DotsOnly(ps), UpsFirst(ps)
  PROVE  \/ Upless(ps, ps)
         \/ \E qs \in Seq(AllParts) :
              /\ Len(qs) \in Nat /\ Len(qs) < Len(ps) /\ DotsOnly(qs) /\ UpsFirst(qs)
              /\ DropUps[Render[ps]] = DropUps[Render[qs]] /\ PlaceOf[qs] = PlaceOf[ps]
<1> DEFINE s == Render[ps]
           K == {k \in 1..Len(ps) : ps[k] = <<".", ".">>}
<1>0. s \in Strings
  BY RenderIs
<1>1. CASE K = {}
  <2>1. NoUps(ps)
    BY <1>1 DEF NoUps
  <2>2. NoDots(s)
    BY <2>1, NoUpsRender
  <2> HIDE DEF s
  <2>3. \A i \in 1..Len(s) : ~ Up3(s, i)
    <3> SUFFICES ASSUME NEW i \in 1..Len(s), Up3(s, i) PROVE FALSE
      OBVIOUS
    <3>1. i + 2 <= Len(s) /\ s[i] = "/" /\ s[i + 1] = "." /\ s[i + 2] = "." /\ Len(s) \in Nat
      BY <1>0 DEF Up3, Strings
    <3>2. i + 1 = Len(s) \/ s[i + 2] = "/"
      BY <2>2, <3>1 DEF NoDots
    <3> QED
      BY <3>1, <3>2
  <2>4. Strstr(s, <<"/", ".", ".">>) = 0
    BY <1>0, <2>3, StrstrIs, PlacesUp
  <2>5. DropUps[s] = s
    BY <1>0, <2>4, DropUpsIs
  <2> QED
    BY <2>1, <2>5 DEF Upless, s
<1>2. CASE K # {}
  <2>1. PICK k \in K : \A j \in K : k <= j
    <3>1. K \in SUBSET Nat
      OBVIOUS
    <3> HIDE DEF K
    <3> QED
      BY <1>2, <3>1, LeastNat
  <2>2. k \in 1..Len(ps) /\ ps[k] = <<".", ".">> /\ \A i \in 1..(k - 1) : ps[i] # <<".", ".">>
    BY <2>1
  <2> DEFINE a == SubSeq(ps, 1, k - 1)
             b == SubSeq(ps, k + 1, Len(ps))
             p == ps[k]
             c == IF a = <<>> THEN <<>> ELSE Front(a)
  <2>3. /\ a \in Seq(AllParts) /\ b \in Seq(AllParts) /\ Len(a) = k - 1 /\ Len(b) = Len(ps) - k
        /\ \A i \in 1..(k - 1) : a[i] = ps[i]
        /\ \A i \in 1..(Len(ps) - k) : b[i] = ps[k + i]
        /\ p \in AllParts /\ ps = Append(a, p) \o b
    BY <2>2, SplitAt
  <2> HIDE DEF a, b, K
  <2>4. Plain(a)
    <3> SUFFICES ASSUME NEW i \in 1..(k - 1) PROVE ps[i][1] # "."
      BY <2>3 DEF Plain
    <3>1. i \in 1..Len(ps) /\ ~ (k < i)
      BY <2>2
    <3>2. ps[i] # <<".">>
      BY <2>2, <3>1 DEF UpsFirst
    <3> QED
      BY <2>2, <3>1, <3>2 DEF DotsOnly
  <2>5. /\ DropUps[Render[Append(a, p) \o b]] = DropUps[Render[c \o b]]
        /\ PlaceOf[Append(a, p) \o b] = PlaceOf[c \o b]
    <3> HIDE DEF p
    <3>1. p = <<".", ".">>
      BY <2>2 DEF p
    <3> QED
      BY <2>3, <2>4, <3>1, UpGoes
  <2>6. c \in Seq(AllParts) /\ Len(c) < k /\ \A i \in 1..Len(c) : c[i] = ps[i]
    <3>1. CASE a = <<>>
      BY <2>2, <3>1
    <3>2. CASE a # <<>>
      <4>1. Front(a) \in Seq(AllParts) /\ Len(Front(a)) = Len(a) - 1
            /\ \A i \in 1..(Len(a) - 1) : Front(a)[i] = a[i]
        BY <2>3, <3>2, FrontLast
      <4>2. \A i \in 1..(Len(a) - 1) : i \in 1..(k - 1)
        BY <2>2, <2>3
      <4>3. Len(a) - 1 < k
        BY <2>2, <2>3
      <4>4. c = Front(a)
        BY <3>2
      <4> HIDE DEF c
      <4> QED
        BY <2>3, <4>1, <4>2, <4>3, <4>4
    <3> QED
      BY <3>1, <3>2
  <2> DEFINE qs == c \o b
  <2> HIDE DEF c, p
  <2>7. qs \in Seq(AllParts) /\ Len(qs) \in Nat /\ Len(qs) < Len(ps) /\ DotsOnly(qs) /\ UpsFirst(qs)
    BY <2>2, <2>3, <2>6, ConcatThins
  <2>8. DropUps[Render[ps]] = DropUps[Render[qs]] /\ PlaceOf[qs] = PlaceOf[ps]
    BY <2>3, <2>5
  <2> QED
    BY <2>7, <2>8
<1> QED
  BY <1>1, <1>2

(* The first loop leaves no ".." and the same place.                       *)
LEMMA UpsGone ==
  ASSUME NEW ps \in Seq(AllParts), DotsOnly(ps), UpsFirst(ps)
  PROVE  \E qs \in Seq(AllParts) : Upless(ps, qs)
<1> DEFINE T == Seq(AllParts)
           Goal(x) == DotsOnly(x) /\ UpsFirst(x) => \E qs \in T : Upless(x, qs)
           P == {n \in Nat : \A x \in T : Len(x) < n => Goal(x)}
<1>1. 0 \in P
  <2>1. \A x \in T : ~ (Len(x) < 0)
    BY LenProperties
  <2> QED
    BY <2>1
<1>2. ASSUME NEW n \in P PROVE n + 1 \in P
  <2>1. ASSUME NEW x \in T, Len(x) < n + 1, DotsOnly(x), UpsFirst(x)
        PROVE  \E qs \in T : Upless(x, qs)
    <3>1. CASE Upless(x, x)
      BY <3>1
    <3>2. ASSUME NEW y \in T, Len(y) \in Nat, Len(y) < Len(x), DotsOnly(y), UpsFirst(y),
                 DropUps[Render[x]] = DropUps[Render[y]], PlaceOf[y] = PlaceOf[x]
          PROVE  \E qs \in T : Upless(x, qs)
      <4>1. Len(y) < n
        <5>1. n \in Nat /\ Len(x) \in Nat
          BY LenProperties
        <5> QED
          BY <2>1, <3>2, <5>1
      <4>2. PICK qs \in T : Upless(y, qs)
        BY <1>2, <3>2, <4>1
      <4>3. Upless(x, qs)
        BY <3>2, <4>2 DEF Upless
      <4> QED
        BY <4>3
    <3> QED
      BY <2>1, <3>1, <3>2, UpsStep
  <2>2. n + 1 \in Nat
    OBVIOUS
  <2> HIDE DEF T
  <2> QED
    BY <2>1, <2>2
<1>3. P = Nat
  <2>1. P \in SUBSET Nat
    OBVIOUS
  <2> HIDE DEF P
  <2> QED
    BY <1>1, <1>2, <2>1, Induction
<1>4. Len(ps) + 1 \in Nat /\ Len(ps) < Len(ps) + 1
  BY LenProperties
<1> QED
  BY <1>3, <1>4

(* The second loop takes every ".", unless the name is that of the root.   *)
Hereless(ps) == DropHeres[Render[ps]] = Render[PlaceOf[ps]]

(* One round of the second loop, up to its last one.                       *)
LEMMA HeresStep ==
  ASSUME NEW ps \in Seq(AllParts), DotsOnly(ps), NoUps(ps), PlaceOf[ps] # <<>>
  PROVE  \/ Hereless(ps)
         \/ \E qs \in Seq(AllParts) :
              /\ Len(qs) \in Nat /\ Len(qs) < Len(ps) /\ DotsOnly(qs) /\ NoUps(qs)
              /\ DropHeres[Render[ps]] = DropHeres[Render[qs]] /\ PlaceOf[qs] = PlaceOf[ps]
<1> DEFINE s == Render[ps]
           K == {k \in 1..Len(ps) : ps[k] = <<".">>}
<1>0. s \in Strings
  BY RenderIs
<1>1. CASE K = {}
  <2>1. Plain(ps)
    BY <1>1 DEF Plain, DotsOnly, NoUps
  <2>2. NoDot(s) /\ PlaceOf[ps] = ps
    BY <2>1, PlainRender
  <2> HIDE DEF s
  <2>3. \A i \in 1..Len(s) : ~ Here2(s, i)
    BY <2>2 DEF Here2, NoDot
  <2>4. Strstr(s, <<"/", ".">>) = 0
    BY <1>0, <2>3, StrstrIs, PlacesHere
  <2>5. DropHeres[s] = s
    BY <1>0, <2>4, DropHeresIs
  <2> QED
    BY <2>2, <2>5 DEF Hereless, s
<1>2. CASE K # {}
  <2>1. PICK k \in K : \A j \in K : k <= j
    <3>1. K \in SUBSET Nat
      OBVIOUS
    <3> HIDE DEF K
    <3> QED
      BY <1>2, <3>1, LeastNat
  <2>2. k \in 1..Len(ps) /\ ps[k] = <<".">> /\ \A i \in 1..(k - 1) : ps[i] # <<".">>
    BY <2>1
  <2> DEFINE a == SubSeq(ps, 1, k - 1)
             b == SubSeq(ps, k + 1, Len(ps))
             p == ps[k]
  <2>3. /\ a \in Seq(AllParts) /\ b \in Seq(AllParts) /\ Len(a) = k - 1 /\ Len(b) = Len(ps) - k
        /\ \A i \in 1..(k - 1) : a[i] = ps[i]
        /\ \A i \in 1..(Len(ps) - k) : b[i] = ps[k + i]
        /\ p \in AllParts /\ ps = Append(a, p) \o b
    BY <2>2, SplitAt
  <2> HIDE DEF a, b, K
  <2>4. Plain(a)
    <3> SUFFICES ASSUME NEW i \in 1..(k - 1) PROVE ps[i][1] # "."
      BY <2>3 DEF Plain
    <3>1. i \in 1..Len(ps)
      BY <2>2
    <3> QED
      BY <2>2, <3>1 DEF DotsOnly, NoUps
  <2>5. a # <<>> \/ b # <<>>
    <3> SUFFICES ASSUME a = <<>>, b = <<>> PROVE FALSE
      OBVIOUS
    <3>1. p = <<".">>
      BY <2>2
    <3> HIDE DEF p
    <3>2. Append(a, p) \o b = Append(a, p) /\ Append(a, p) \in Seq(AllParts) /\ <<>> \in Seq(AllParts)
      BY <2>3, ConcatEmptySeq
    <3>3. PlaceOf[Append(a, p)] = Enter(PlaceOf[a], p) /\ PlaceOf[<<>>] = <<>>
      BY <2>3, <3>2, PlaceAppend, PlaceOfIs
    <3>4. PlaceOf[ps] = <<>>
      BY <2>3, <3>1, <3>2, <3>3 DEF Enter
    <3> QED
      BY <3>4
  <2>6. /\ DropHeres[Render[Append(a, p) \o b]] = DropHeres[Render[a \o b]]
        /\ PlaceOf[Append(a, p) \o b] = PlaceOf[a \o b]
    <3> HIDE DEF p
    <3>1. p = <<".">>
      BY <2>2 DEF p
    <3> QED
      BY <2>3, <2>4, <2>5, <3>1, HereGoes
  <2>7. Len(a) < k /\ \A i \in 1..Len(a) : a[i] = ps[i]
    BY <2>2, <2>3
  <2> DEFINE qs == a \o b
  <2> HIDE DEF p
  <2>8. qs \in Seq(AllParts) /\ Len(qs) \in Nat /\ Len(qs) < Len(ps) /\ DotsOnly(qs) /\ NoUps(qs)
    BY <2>2, <2>3, <2>7, ConcatThins
  <2>9. DropHeres[Render[ps]] = DropHeres[Render[qs]] /\ PlaceOf[qs] = PlaceOf[ps]
    BY <2>3, <2>6
  <2> QED
    BY <2>8, <2>9
<1> QED
  BY <1>1, <1>2

(* The second loop leaves the parts of the place.                          *)
LEMMA HeresGone ==
  ASSUME NEW ps \in Seq(AllParts), DotsOnly(ps), NoUps(ps), PlaceOf[ps] # <<>>
  PROVE  Hereless(ps)
<1> DEFINE T == Seq(AllParts)
           Goal(x) == DotsOnly(x) /\ NoUps(x) /\ PlaceOf[x] # <<>> => Hereless(x)
           P == {n \in Nat : \A x \in T : Len(x) < n => Goal(x)}
<1>1. 0 \in P
  <2>1. \A x \in T : ~ (Len(x) < 0)
    BY LenProperties
  <2> QED
    BY <2>1
<1>2. ASSUME NEW n \in P PROVE n + 1 \in P
  <2>1. ASSUME NEW x \in T, Len(x) < n + 1, DotsOnly(x), NoUps(x), PlaceOf[x] # <<>>
        PROVE  Hereless(x)
    <3>1. CASE Hereless(x)
      BY <3>1
    <3>2. ASSUME NEW y \in T, Len(y) \in Nat, Len(y) < Len(x), DotsOnly(y), NoUps(y),
                 DropHeres[Render[x]] = DropHeres[Render[y]], PlaceOf[y] = PlaceOf[x]
          PROVE  Hereless(x)
      <4>1. Len(y) < n
        <5>1. n \in Nat /\ Len(x) \in Nat
          BY LenProperties
        <5> QED
          BY <2>1, <3>2, <5>1
      <4>2. Hereless(y)
        BY <1>2, <2>1, <3>2, <4>1
      <4> QED
        BY <3>2, <4>2 DEF Hereless
    <3> QED
      BY <2>1, <3>1, <3>2, HeresStep
  <2>2. n + 1 \in Nat
    OBVIOUS
  <2> HIDE DEF T
  <2> QED
    BY <2>1, <2>2
<1>3. P = Nat
  <2>1. P \in SUBSET Nat
    OBVIOUS
  <2> HIDE DEF P
  <2> QED
    BY <1>1, <1>2, <2>1, Induction
<1>4. Len(ps) + 1 \in Nat /\ Len(ps) < Len(ps) + 1
  BY LenProperties
<1> QED
  BY <1>3, <1>4

(* A name of the trace, of any number of parts, as simfs_absolute_name gets it. *)
Named == [absolute : BOOLEAN, parts : Seq(Parts)]
(* simfs_absolute_name turns every name that its comments foresee, however *)
(* long, into the string of the place that the kernel takes it for, unless *)
(* that is the root: no "." is taken for a directory to leave, nothing is  *)
(* cut from another part, and the assertion of a slash before "/.." holds. *)
THEOREM NamesAreFound ==
  \A name \in Named : Foreseen(name) /\ Meaning(name) # <<>> => WellNamed(name)
<1> SUFFICES ASSUME NEW name \in Named, Foreseen(name), Meaning(name) # <<>>
             PROVE  WellNamed(name)
  OBVIOUS
<1> DEFINE ps == Whole(name)
<1>1. name.parts \in Seq(AllParts) /\ Cwd \in Seq(AllParts)
  <2>1. name.parts \in Seq(Parts) /\ Parts \subseteq AllParts
    BY DEF Named, AllParts
  <2> QED
    BY <2>1, SeqMonotonic, CharFacts
<1>2. ps \in Seq(AllParts)
  BY <1>1 DEF Whole
<1>3. FromTop(name.absolute, name.parts) = Render[ps]
  BY <1>1, RenderConcat DEF FromTop, Whole
<1>4. DOMAIN ps = 1..Len(ps)
  BY <1>2, LenProperties
<1>5. DotsOnly(ps) /\ UpsFirst(ps)
  BY <1>4 DEF Foreseen, DotsOnly, UpsFirst
<1> HIDE DEF ps
<1>6. PICK qs \in Seq(AllParts) : Upless(ps, qs)
  BY <1>2, <1>5, UpsGone
<1>7. DotsOnly(qs) /\ NoUps(qs) /\ DropUps[Render[ps]] = Render[qs] /\ PlaceOf[qs] = PlaceOf[ps]
  BY <1>6 DEF Upless
<1>8. PlaceOf[ps] # <<>> /\ Meaning(name) = PlaceOf[ps]
  BY DEF Meaning, ps
<1>9. Hereless(qs)
  BY <1>7, <1>8, HeresGone
<1> QED
  BY <1>3, <1>7, <1>8, <1>9 DEF WellNamed, SimfsAbsoluteName, Hereless

(* No known place is searched for under another name: whatever way a call  *)
(* names it, from the top or from the current directory, with "." and ".." *)
(* in it, simfs_absolute_name gives the string of its own parts.           *)
THEOREM KnownAreFound == Spec => []KnownIsFound
<1>1. \A place \in Misnamed : place = <<>>
  <2>1. \A name \in Inputs : name \in Named
    <3>. SUFFICES ASSUME NEW name \in Inputs PROVE name \in Named
      OBVIOUS
    <3>1. PICK n \in 1..MaxParts : name.parts \in [1..n -> Parts]
      BY DEF Inputs
    <3>2. name.parts \in Seq(Parts)
      BY <3>1, PartsAssumption
    <3>. QED  BY <3>2 DEF Inputs, Named
  <2>. QED  BY <2>1, NamesAreFound DEF Misnamed
<1>2. KnownIsFound
  BY <1>1, SpellingAssumption DEF KnownIsFound
<1>. QED  BY <1>2, PTL
=============================================================================
