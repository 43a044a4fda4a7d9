--------------------------- MODULE IoprofilerProofs ---------------------------
(* Proofs about the Python extension and ioprofiler, for any traces, any       *)
(* number of opened files and any script: what the dictionaries show, which    *)
(* references the profiler has, and that it shows what the file holds.         *)
EXTENDS Ioprofiler, FiniteSetTheorems, WellFoundedInduction, TLAPS

(* A least number with a property exists.                                      *)
LEMMA LeastNumber ==
  ASSUME NEW T, T \subseteq Nat, T # {}
  PROVE  \E m \in T : \A k \in T : m <= k
<1>1. PICK m \in T : \A k \in T : <<k, m>> \notin OpToRel(<, Nat)
  BY WFMin, NatLessThanWellFounded
<1>2. \A k \in T : ~(k < m)
  BY <1>1 DEF OpToRel
<1> QED
  BY <1>2

(* Every position up to the number of transfers of a kind is taken.            *)
LEMMA NthOne ==
  ASSUME NEW N \in Nat, NEW A \in SUBSET (1 .. N), NEW n \in 1 .. Cardinality(A)
  PROVE  \E i \in A : Cardinality({j \in A : j <= i}) = n
<1> DEFINE UpTo(k) == {j \in A : j <= k}
           T == {k \in Nat : Cardinality(UpTo(k)) >= n}
<1>0. \A j \in A : j \in Nat /\ 1 <= j /\ j <= N
  OBVIOUS
<1>1. IsFiniteSet(A) /\ Cardinality(A) \in Nat
  <2>1. IsFiniteSet(1 .. N)
    BY FS_Interval
  <2>2. IsFiniteSet(A)
    BY <2>1, FS_Subset
  <2> QED
    BY <2>2, FS_CardinalityType
<1>2. \A k \in Nat : IsFiniteSet(UpTo(k)) /\ Cardinality(UpTo(k)) \in Nat
  BY <1>1, FS_Subset, FS_CardinalityType
<1>3. N \in T
  <2>1. UpTo(N) = A
    BY <1>0
  <2> HIDE DEF UpTo
  <2> QED
    BY <1>1, <2>1
<1>4. PICK k \in T : \A l \in T : k <= l
  <2>1. T \subseteq Nat /\ T # {}
    BY <1>3
  <2> QED
    BY <2>1, LeastNumber
<1>5. k # 0
  <2>1. UpTo(0) = {}
    <3>1. \A j \in A : ~(j <= 0)
      BY <1>0
    <3> QED
      BY <3>1
  <2>2. Cardinality(UpTo(0)) = 0
    BY <2>1, FS_EmptySet
  <2> HIDE DEF UpTo
  <2> QED
    BY <1>4, <2>2
<1>6. k - 1 \in Nat /\ Cardinality(UpTo(k - 1)) < n
  <2>1. k \in Nat /\ (k - 1 \in T => k <= k - 1)
    BY <1>4
  <2>2. k - 1 \in Nat /\ k - 1 \notin T
    BY <1>5, <2>1
  <2>3. Cardinality(UpTo(k - 1)) \in Nat /\ ~(Cardinality(UpTo(k - 1)) >= n)
    BY <1>2, <2>2
  <2> HIDE DEF UpTo
  <2> QED
    BY <2>2, <2>3
<1>8. k \in A
  <2> SUFFICES ASSUME k \notin A PROVE FALSE
    OBVIOUS
  <2>1. UpTo(k) = UpTo(k - 1)
    <3>1. \A j \in A : j <= k <=> j <= k - 1
      BY <1>0, <1>4
    <3> QED
      BY <3>1
  <2> HIDE DEF UpTo
  <2> QED
    BY <1>2, <1>4, <1>6, <2>1
<1>9. UpTo(k) = UpTo(k - 1) \cup {k} /\ k \notin UpTo(k - 1)
  <2>1. \A j \in A : j <= k <=> j <= k - 1 \/ j = k
    BY <1>0, <1>4
  <2>2. ~(k <= k - 1) /\ k <= k
    BY <1>4
  <2> QED
    BY <1>8, <2>1, <2>2
<1>10. Cardinality(UpTo(k)) = Cardinality(UpTo(k - 1)) + 1
  BY <1>2, <1>6, <1>9, FS_AddElement
<1> HIDE DEF UpTo
<1>11. Cardinality(UpTo(k)) = n
  BY <1>2, <1>4, <1>6, <1>10
<1> QED
  BY <1>8, <1>11 DEF UpTo

(* What is listed of a file are names.                                         *)
LEMMA NamesType ==
  ASSUME NEW l \in Seq(Transfers), NEW op
  PROVE  NamesOf(l, op) \in Seq(STRING)
<1> DEFINE those == {i \in DOMAIN l : l[i].op = op}
           Nth(n) == CHOOSE i \in those : Cardinality({j \in those : j <= i}) = n
<1>1. those \in SUBSET (1 .. Len(l)) /\ Len(l) \in Nat
  OBVIOUS
<1>2. IsFiniteSet(those)
  BY <1>1, FS_Interval, FS_Subset
<1>3. Cardinality(those) \in Nat
  BY <1>2, FS_CardinalityType
<1>4. ASSUME NEW n \in 1 .. Cardinality(those) PROVE l[Nth(n)].name \in STRING
  <2>1. \E i \in those : Cardinality({j \in those : j <= i}) = n
    BY <1>1, NthOne
  <2>2. Nth(n) \in those
    BY <2>1
  <2>3. l[Nth(n)] \in Transfers
    BY <1>1, <2>2
  <2> QED
    BY <2>3 DEF Transfers
<1>5. NamesOf(l, op) = [n \in 1 .. Cardinality(those) |-> l[Nth(n)].name]
  BY DEF NamesOf
<1> HIDE DEF those, Nth
<1>6. NamesOf(l, op) \in [1 .. Cardinality(those) -> STRING]
  BY <1>4, <1>5
<1> QED
  BY <1>3, <1>6

-----------------------------------------------------------------------------
(* Prefixes.                                                                   *)
LEMMA PrefixIs ==
  ASSUME NEW S, NEW s \in Seq(S), NEW t \in Seq(S)
  PROVE  IsPrefix(s, t) <=> Len(s) <= Len(t) /\ \A i \in 1 .. Len(s) : s[i] = t[i]
<1>1. SubSeq(s, 1, Len(s)) = s
  OBVIOUS
<1>2. ASSUME Len(s) <= Len(t)
      PROVE  SubSeq(t, 1, Len(s)) = s <=> \A i \in 1 .. Len(s) : s[i] = t[i]
  <2>1. SubSeq(t, 1, Len(s)) = [i \in 1 .. Len(s) |-> t[i]]
    BY <1>2
  <2>2. s = [i \in 1 .. Len(s) |-> s[i]]
    OBVIOUS
  <2> QED
    BY <2>1, <2>2
<1> QED
  BY <1>1, <1>2 DEF IsPrefix

LEMMA PrefixKept ==
  ASSUME NEW S, NEW s \in Seq(S), NEW t \in Seq(S), NEW u \in Seq(S), IsPrefix(s, t)
  PROVE  IsPrefix(s, t \o u)
<1>1. /\ t \o u \in Seq(S) /\ Len(t \o u) = Len(t) + Len(u)
      /\ \A i \in 1 .. Len(t) : (t \o u)[i] = t[i]
  OBVIOUS
<1>2. Len(s) <= Len(t) /\ \A i \in 1 .. Len(s) : s[i] = t[i]
  BY PrefixIs
<1>3. Len(s) \in Nat /\ Len(t) \in Nat /\ Len(u) \in Nat
  OBVIOUS
<1>4. Len(s) <= Len(t \o u) /\ \A i \in 1 .. Len(s) : s[i] = (t \o u)[i]
  BY <1>1, <1>2, <1>3
<1> QED
  BY <1>1, <1>4, PrefixIs

-----------------------------------------------------------------------------
(* The extension, whoever calls it.                                            *)
Dicts == [shows : Seq(STRING), refs : 0 .. 1, held : 0 .. MaxHeld]
Maps == Seq(STRING) \cup {NULL}
OfMap(d, map, ds) == d # NULL => map # NULL /\ (ds[d].refs # 0 => IsPrefix(ds[d].shows, map))
Module ==
  /\ list_g = NULL \/ \E f \in Files \cup {BadArguments} : list_g = f.items
  /\ sim_map_read \in Maps /\ sim_map_write \in Maps
  /\ sim_map_read = NULL <=> sim_map_write = NULL
  /\ usage_map \in {NULL, "freed"}
  /\ dicts \in Seq(Dicts)
  /\ read_dict_g \in DOMAIN dicts \cup {NULL} /\ write_dict_g \in DOMAIN dicts \cup {NULL}
  /\ raised \in BOOLEAN /\ st \in {"run", "segv", "freed"}
  /\ OfMap(read_dict_g, sim_map_read, dicts) /\ OfMap(write_dict_g, sim_map_write, dicts)

LEMMA NullFacts ==
  /\ NULL \notin Nat /\ NULL \notin Seq(STRING) /\ NULL \notin Files
  /\ \A f \in Files \cup {BadArguments} :
       f.items \in Seq(Transfers) /\ f.items # NULL /\ f.ok \in BOOLEAN
<1>1. \A f \in Files : f.items \in Seq(Transfers) /\ f.ok \in BOOLEAN
  BY FilesAssumption
<1>2. BadArguments.items \in Seq(Transfers) /\ BadArguments.ok \in BOOLEAN
  BY DEF BadArguments
<1>3. /\ NULL \notin Nat /\ NULL \notin Seq(STRING) /\ NULL \notin Files
      /\ NULL \notin Seq(Transfers)
  BY NullAssumption
<1> QED
  BY <1>1, <1>2, <1>3, Zenon

(* A dictionary of a map that at most grew.                                    *)
LEMMA DictKept ==
  ASSUME NEW ds \in Seq(Dicts), NEW es, NEW map \in Maps, NEW new \in Maps,
         NEW d \in DOMAIN ds \cup {NULL}, OfMap(d, map, ds),
         map # NULL => \/ new = map
                       \/ \E u \in Seq(STRING) : new = map \o u,
         d # NULL => /\ es[d].shows = ds[d].shows
                     /\ ds[d].refs = 0 => es[d].refs = 0
  PROVE  OfMap(d, new, es)
<1> SUFFICES ASSUME d # NULL
             PROVE  new # NULL /\ (es[d].refs # 0 => IsPrefix(es[d].shows, new))
  BY DEF OfMap
<1>1. map \in Seq(STRING) /\ map # NULL
  BY DEF OfMap, Maps
<1>2. ds[d] \in Dicts
  OBVIOUS
<1>3. ds[d].shows \in Seq(STRING)
  BY <1>2 DEF Dicts
<1>4. CASE new = map
  BY <1>1, <1>4 DEF OfMap
<1>5. ASSUME NEW u \in Seq(STRING), new = map \o u
      PROVE  new # NULL /\ (es[d].refs # 0 => IsPrefix(es[d].shows, new))
  <2>1. new \in Seq(STRING)
    BY <1>1, <1>5
  <2>2. IsPrefix(ds[d].shows, map) => IsPrefix(ds[d].shows, new)
    BY <1>1, <1>3, <1>5, PrefixKept
  <2> QED
    BY <2>1, <2>2, NullFacts DEF OfMap
<1> QED
  BY <1>1, <1>4, <1>5

(* What the changes of the dictionaries do to each of them.                    *)
LEMMA NewDictIs ==
  ASSUME dicts \in Seq(Dicts), NEW map \in Seq(STRING)
  PROVE  /\ NewDict(map) \in Seq(Dicts)
         /\ DOMAIN NewDict(map) = DOMAIN dicts \cup {Len(dicts) + 1}
         /\ Len(dicts) + 1 \notin DOMAIN dicts /\ Len(dicts) + 1 \in Nat
         /\ \A d \in DOMAIN dicts : NewDict(map)[d] = dicts[d]
         /\ NewDict(map)[Len(dicts) + 1] = [shows |-> map, refs |-> 1, held |-> 1]
<1> DEFINE new == [shows |-> map, refs |-> 1, held |-> 1]
<1>1. new \in Dicts
  BY BoundsAssumption DEF Dicts
<1>2. NewDict(map) = Append(dicts, new)
  BY DEF NewDict
<1> HIDE DEF new
<1>3. /\ Append(dicts, new) \in Seq(Dicts)
      /\ DOMAIN Append(dicts, new) = DOMAIN dicts \cup {Len(dicts) + 1}
      /\ Len(dicts) + 1 \notin DOMAIN dicts /\ Len(dicts) + 1 \in Nat
      /\ \A d \in DOMAIN dicts : Append(dicts, new)[d] = dicts[d]
      /\ Append(dicts, new)[Len(dicts) + 1] = new
  BY <1>1
<1> QED
  BY <1>2, <1>3 DEF new

LEMMA SameLength ==
  ASSUME NEW S, NEW s \in Seq(S), NEW t, DOMAIN t = DOMAIN s, t = [d \in DOMAIN t |-> t[d]],
         \A d \in DOMAIN s : t[d] \in S
  PROVE  t \in Seq(S)
<1>1. DOMAIN s = 1 .. Len(s) /\ Len(s) \in Nat
  OBVIOUS
<1>2. t \in [1 .. Len(s) -> S]
  BY <1>1
<1> QED
  BY <1>1, <1>2

LEMMA HeldChanged ==
  ASSUME NEW r \in Dicts, NEW n \in 0 .. MaxHeld
  PROVE  /\ [r EXCEPT !.held = n] \in Dicts
         /\ [r EXCEPT !.held = n].shows = r.shows
         /\ [r EXCEPT !.held = n].refs = r.refs
BY DEF Dicts

LEMMA ShowsCleared ==
  ASSUME NEW r \in Dicts
  PROVE  /\ [r EXCEPT !.shows = <<>>] \in Dicts
         /\ [r EXCEPT !.shows = <<>>].shows = <<>>
         /\ [r EXCEPT !.shows = <<>>].refs = r.refs
         /\ [r EXCEPT !.shows = <<>>].held = r.held
<1>1. <<>> \in Seq(STRING)
  OBVIOUS
<1> QED
  BY <1>1 DEF Dicts

LEMMA HeldOnceMoreIs ==
  ASSUME dicts \in Seq(Dicts), NEW d \in DOMAIN dicts, dicts[d].held < MaxHeld
  PROVE  /\ HeldOnceMore(d) \in Seq(Dicts) /\ DOMAIN HeldOnceMore(d) = DOMAIN dicts
         /\ \A e \in DOMAIN dicts : /\ HeldOnceMore(d)[e].shows = dicts[e].shows
                                    /\ HeldOnceMore(d)[e].refs = dicts[e].refs
<1>1. \A e \in DOMAIN dicts : dicts[e] \in Dicts
  OBVIOUS
<1>2. /\ DOMAIN HeldOnceMore(d) = DOMAIN dicts
      /\ HeldOnceMore(d) = [e \in DOMAIN HeldOnceMore(d) |-> HeldOnceMore(d)[e]]
      /\ \A e \in DOMAIN dicts :
           HeldOnceMore(d)[e] = IF e = d THEN [dicts[d] EXCEPT !.held = @ + 1] ELSE dicts[e]
  BY DEF HeldOnceMore
<1>3. MaxHeld \in Nat
  BY BoundsAssumption
<1>4. dicts[d].held + 1 \in 0 .. MaxHeld
  BY <1>1, <1>3 DEF Dicts
<1>5. /\ [dicts[d] EXCEPT !.held = dicts[d].held + 1] \in Dicts
      /\ [dicts[d] EXCEPT !.held = dicts[d].held + 1].shows = dicts[d].shows
      /\ [dicts[d] EXCEPT !.held = dicts[d].held + 1].refs = dicts[d].refs
  BY <1>1, <1>4, HeldChanged
<1>6. HeldOnceMore(d) \in Seq(Dicts)
  BY <1>1, <1>2, <1>5, SameLength
<1> QED
  BY <1>2, <1>5, <1>6

LEMMA ReleasedIs ==
  ASSUME dicts \in Seq(Dicts), NEW ds \in SUBSET (DOMAIN dicts),
         \A d \in ds : dicts[d].held > 0 /\ ~Freed(d)
  PROVE  /\ Released(ds) \in Seq(Dicts) /\ DOMAIN Released(ds) = DOMAIN dicts
         /\ \A e \in DOMAIN dicts :
              /\ Released(ds)[e].shows = dicts[e].shows
              /\ e \notin ds => Released(ds)[e] = dicts[e]
              /\ e \in ds => /\ Released(ds)[e].refs = dicts[e].refs - 1
                             /\ Released(ds)[e].held = dicts[e].held - 1
<1>1. \A e \in DOMAIN dicts : dicts[e] \in Dicts
  OBVIOUS
<1>2. /\ DOMAIN Released(ds) = DOMAIN dicts
      /\ Released(ds) = [e \in DOMAIN Released(ds) |-> Released(ds)[e]]
      /\ \A e \in DOMAIN dicts :
           Released(ds)[e] = IF e \in ds THEN [dicts[e] EXCEPT !.refs = @ - 1, !.held = @ - 1]
                             ELSE dicts[e]
  BY DEF Released
<1>3. MaxHeld \in Nat
  BY BoundsAssumption
<1>4. ASSUME NEW e \in ds
      PROVE  /\ Released(ds)[e] \in Dicts
             /\ Released(ds)[e].shows = dicts[e].shows
             /\ Released(ds)[e].refs = dicts[e].refs - 1
             /\ Released(ds)[e].held = dicts[e].held - 1
  <2>1. dicts[e] \in Dicts /\ dicts[e].held > 0 /\ dicts[e].refs # 0
    BY <1>1 DEF Freed
  <2>2. dicts[e].refs - 1 \in 0 .. 1 /\ dicts[e].held - 1 \in 0 .. MaxHeld
    BY <1>3, <2>1 DEF Dicts
  <2>3. Released(ds)[e] =
          [dicts[e] EXCEPT !.refs = dicts[e].refs - 1, !.held = dicts[e].held - 1]
    BY <1>2
  <2> DEFINE k == dicts[e].refs - 1
             n == dicts[e].held - 1
             r == [dicts[e] EXCEPT !.refs = k, !.held = n]
  <2>4. k \in 0 .. 1 /\ n \in 0 .. MaxHeld
    BY <2>2
  <2> HIDE DEF k, n
  <2>5. r \in Dicts /\ r.shows = dicts[e].shows /\ r.refs = k /\ r.held = n
    BY <2>1, <2>4 DEF Dicts
  <2>6. Released(ds)[e] = r
    BY <2>3 DEF k, n
  <2> QED
    BY <2>5, <2>6 DEF k, n
<1>5. \A e \in DOMAIN dicts : Released(ds)[e] \in Dicts
  BY <1>1, <1>2, <1>4
<1>6. Released(ds) \in Seq(Dicts)
  BY <1>2, <1>5, SameLength
<1> QED
  BY <1>2, <1>4, <1>6

(* finish() empties the two dictionaries.                                      *)
Cleared(both) ==
  [d \in DOMAIN dicts |-> IF d \in both THEN [dicts[d] EXCEPT !.shows = <<>>] ELSE dicts[d]]
LEMMA ClearedIs ==
  ASSUME dicts \in Seq(Dicts), NEW both
  PROVE  /\ Cleared(both) \in Seq(Dicts) /\ DOMAIN Cleared(both) = DOMAIN dicts
         /\ \A e \in DOMAIN dicts :
              /\ Cleared(both)[e].refs = dicts[e].refs /\ Cleared(both)[e].held = dicts[e].held
              /\ Cleared(both)[e].shows = IF e \in both THEN <<>> ELSE dicts[e].shows
<1>1. \A e \in DOMAIN dicts : dicts[e] \in Dicts
  OBVIOUS
<1>2. /\ DOMAIN Cleared(both) = DOMAIN dicts
      /\ Cleared(both) = [e \in DOMAIN Cleared(both) |-> Cleared(both)[e]]
      /\ \A e \in DOMAIN dicts :
           Cleared(both)[e] = IF e \in both THEN [dicts[e] EXCEPT !.shows = <<>>] ELSE dicts[e]
  BY DEF Cleared
<1>3. \A e \in DOMAIN dicts :
        /\ [dicts[e] EXCEPT !.shows = <<>>] \in Dicts
        /\ [dicts[e] EXCEPT !.shows = <<>>].shows = <<>>
        /\ [dicts[e] EXCEPT !.shows = <<>>].refs = dicts[e].refs
        /\ [dicts[e] EXCEPT !.shows = <<>>].held = dicts[e].held
  BY <1>1, ShowsCleared
<1>4. \A e \in DOMAIN dicts : Cleared(both)[e] \in Dicts
  BY <1>1, <1>2, <1>3
<1>5. Cleared(both) \in Seq(Dicts)
  BY <1>1, <1>2, <1>4, SameLength
<1> QED
  BY <1>2, <1>3, <1>5

-----------------------------------------------------------------------------
(* Each call keeps the extension's state in order.                             *)
LEMMA ItemsType ==
  ASSUME Module
  PROVE  /\ list_g # NULL => list_g \in Seq(Transfers)
         /\ list_g # NULL => \A op : NamesOf(list_g, op) \in Seq(STRING)
BY NullFacts, NamesType DEF Module

LEMMA SameModule == Module /\ UNCHANGED modvars => Module'
BY DEF Module, modvars, globals

LEMMA DiesKept ==
  ASSUME Module, NEW how \in {"segv", "freed"}, Die(how)
  PROVE  Module'
BY DEF Module, Die, globals

LEMMA RaiseKept == Module /\ Raise => Module'
BY DEF Module, Raise, globals

LEMMA InitItemsKept ==
  ASSUME Module, NEW f \in Files \cup {BadArguments}, InitItems(f)
  PROVE  Module'
<1>1. CASE list_g # NULL
  BY <1>1, RaiseKept DEF InitItems
<1>2. CASE list_g = NULL
  <2>1. f.ok \in BOOLEAN
    BY NullFacts
  <2> QED
    BY <1>2, <2>1 DEF InitItems, Module
<1> QED
  BY <1>1, <1>2

LEMMA ListedIs ==
  ASSUME Module, list_g # NULL, NEW map \in Maps, NEW op
  PROVE  /\ Listed(map, op) \in Seq(STRING) /\ Listed(map, op) # NULL
         /\ map # NULL => \E u \in Seq(STRING) : Listed(map, op) = map \o u
         /\ map = NULL => Listed(map, op) = NamesOf(list_g, op)
<1> DEFINE u == NamesOf(list_g, op)
<1>1. u \in Seq(STRING)
  BY ItemsType
<1> HIDE DEF u
<1>2. CASE map = NULL
  <2>1. Listed(map, op) = <<>> \o u
    BY <1>2 DEF Listed, u
  <2>2. <<>> \o u = u
    BY <1>1
  <2> QED
    BY <1>1, <1>2, <2>1, <2>2, NullFacts DEF u
<1>3. CASE map # NULL
  <2>1. Listed(map, op) = map \o u /\ map \in Seq(STRING)
    BY <1>3 DEF Listed, u, Maps
  <2>2. map \o u \in Seq(STRING)
    BY <1>1, <2>1
  <2> QED
    BY <1>1, <1>3, <2>1, <2>2, NullFacts
<1> QED
  BY <1>2, <1>3

LEMMA SimulateKept == Module /\ Simulate => Module'
<1> SUFFICES ASSUME Module, Simulate PROVE Module'
  OBVIOUS
<1>1. CASE list_g = NULL
  BY <1>1, RaiseKept DEF Simulate
<1>2. CASE list_g # NULL /\ st' # "run"
  BY <1>2, DiesKept DEF Simulate, Return
<1>3. CASE list_g # NULL /\ st' = "run"
  <2>1. /\ sim_map_read' = Listed(sim_map_read, "read")
        /\ sim_map_write' = Listed(sim_map_write, "write")
        /\ usage_map' = "freed" /\ raised' = FALSE
        /\ UNCHANGED <<list_g, read_dict_g, write_dict_g, dicts>>
    BY <1>3 DEF Simulate, Return, Die
  <2>2. /\ sim_map_read' \in Seq(STRING) /\ sim_map_read' # NULL
        /\ sim_map_write' \in Seq(STRING) /\ sim_map_write' # NULL
    BY <1>3, <2>1, ListedIs DEF Module
  <2>3. OfMap(read_dict_g, sim_map_read', dicts)
    <3>1. sim_map_read # NULL => \E u \in Seq(STRING) : sim_map_read' = sim_map_read \o u
      BY <1>3, <2>1, ListedIs DEF Module
    <3> QED
      BY <2>2, <3>1, DictKept DEF Module, Maps
  <2>4. OfMap(write_dict_g, sim_map_write', dicts)
    <3>1. sim_map_write # NULL => \E u \in Seq(STRING) : sim_map_write' = sim_map_write \o u
      BY <1>3, <2>1, ListedIs DEF Module
    <3> QED
      BY <2>2, <3>1, DictKept DEF Module, Maps
  <2> QED
    BY <1>3, <2>1, <2>2, <2>3, <2>4 DEF Module, Maps
<1> QED
  BY <1>1, <1>2, <1>3

LEMMA FreeItemsKept == Module /\ FreeItems => Module'
<1> SUFFICES ASSUME Module, FreeItems PROVE Module'
  OBVIOUS
<1>1. CASE list_g = NULL
  BY <1>1, DiesKept DEF FreeItems
<1>2. CASE list_g # NULL
  BY <1>2 DEF FreeItems, Return, Module
<1> QED
  BY <1>1, <1>2

(* A dictionary is handed out: made of the map, or the one there is.           *)
LEMMA DictGot ==
  ASSUME dicts \in Seq(Dicts), NEW map \in Seq(STRING), NEW other \in Maps,
         NEW d \in DOMAIN dicts \cup {NULL}, NEW e \in DOMAIN dicts \cup {NULL},
         OfMap(d, map, dicts), OfMap(e, other, dicts), NEW ds, NEW new,
         \/ d = NULL /\ ds = NewDict(map) /\ new = Len(dicts) + 1
         \/ d # NULL /\ dicts[d].held < MaxHeld /\ ds = HeldOnceMore(d) /\ new = d
  PROVE  /\ ds \in Seq(Dicts) /\ new \in DOMAIN ds /\ e \in DOMAIN ds \cup {NULL}
         /\ OfMap(new, map, ds) /\ OfMap(e, other, ds)
<1>1. map # NULL /\ map \in Maps
  BY NullFacts DEF Maps
<1>2. CASE d = NULL /\ ds = NewDict(map) /\ new = Len(dicts) + 1
  <2>1. /\ ds \in Seq(Dicts) /\ DOMAIN ds = DOMAIN dicts \cup {new}
        /\ \A c \in DOMAIN dicts : ds[c] = dicts[c]
        /\ ds[new].shows = map
    <3>1. /\ NewDict(map) \in Seq(Dicts)
          /\ DOMAIN NewDict(map) = DOMAIN dicts \cup {Len(dicts) + 1}
          /\ \A c \in DOMAIN dicts : NewDict(map)[c] = dicts[c]
          /\ NewDict(map)[Len(dicts) + 1] = [shows |-> map, refs |-> 1, held |-> 1]
      BY NewDictIs, Zenon
    <3>2. NewDict(map)[Len(dicts) + 1].shows = map
      BY <3>1
    <3> QED
      BY <1>2, <3>1, <3>2, Zenon
  <2>2. IsPrefix(map, map)
    BY PrefixIs
  <2>3. OfMap(new, map, ds)
    BY <1>1, <2>1, <2>2 DEF OfMap
  <2>4. OfMap(e, other, ds)
    BY <2>1, DictKept
  <2> QED
    BY <2>1, <2>3, <2>4
<1>3. CASE d # NULL /\ dicts[d].held < MaxHeld /\ ds = HeldOnceMore(d) /\ new = d
  <2>1. /\ ds \in Seq(Dicts) /\ DOMAIN ds = DOMAIN dicts
        /\ \A c \in DOMAIN dicts : ds[c].shows = dicts[c].shows /\ ds[c].refs = dicts[c].refs
    BY <1>3, HeldOnceMoreIs
  <2>2. OfMap(new, map, ds)
    BY <1>1, <1>3, <2>1, DictKept
  <2>3. OfMap(e, other, ds)
    BY <2>1, DictKept
  <2> QED
    BY <1>3, <2>1, <2>2, <2>3
<1> QED
  BY <1>2, <1>3

LEMMA GetReadsKept ==
  ASSUME Module, GetReads, read_dict_g # NULL => dicts[read_dict_g].held < MaxHeld
  PROVE  Module'
<1>1. CASE sim_map_read = NULL
  BY <1>1, RaiseKept DEF GetReads
<1>2. CASE sim_map_read # NULL /\ st' = "freed"
  BY <1>2 DEF GetReads, Return, Module
<1>3. CASE sim_map_read # NULL /\ st' # "freed"
  <2>1. /\ UNCHANGED <<list_g, sim_map_read, sim_map_write, usage_map, write_dict_g>>
        /\ raised' = FALSE /\ st' = "run"
        /\ \/ /\ read_dict_g = NULL /\ dicts' = NewDict(sim_map_read)
              /\ read_dict_g' = Len(dicts) + 1
           \/ /\ read_dict_g # NULL /\ dicts' = HeldOnceMore(read_dict_g)
              /\ read_dict_g' = read_dict_g
    BY <1>3 DEF GetReads, Return
  <2>2. /\ dicts' \in Seq(Dicts) /\ read_dict_g' \in DOMAIN dicts'
        /\ write_dict_g \in DOMAIN dicts' \cup {NULL}
        /\ OfMap(read_dict_g', sim_map_read, dicts')
        /\ OfMap(write_dict_g, sim_map_write, dicts')
    <3>1. /\ dicts \in Seq(Dicts) /\ sim_map_read \in Seq(STRING) /\ sim_map_write \in Maps
          /\ read_dict_g \in DOMAIN dicts \cup {NULL}
          /\ write_dict_g \in DOMAIN dicts \cup {NULL}
          /\ OfMap(read_dict_g, sim_map_read, dicts) /\ OfMap(write_dict_g, sim_map_write, dicts)
      BY <1>3 DEF Module, Maps
    <3>2. CASE read_dict_g = NULL
      BY <2>1, <3>1, <3>2, DictGot, NullFacts
    <3>3. CASE read_dict_g # NULL
      BY <2>1, <3>1, <3>3, DictGot
    <3> QED
      BY <3>2, <3>3
  <2> QED
    BY <2>1, <2>2 DEF Module
<1> QED
  BY <1>1, <1>2, <1>3

LEMMA GetWritesKept ==
  ASSUME Module, GetWrites, write_dict_g # NULL => dicts[write_dict_g].held < MaxHeld
  PROVE  Module'
<1>1. CASE sim_map_write = NULL
  BY <1>1, RaiseKept DEF GetWrites
<1>2. CASE sim_map_write # NULL /\ st' = "freed"
  BY <1>2 DEF GetWrites, Return, Module
<1>3. CASE sim_map_write # NULL /\ st' # "freed"
  <2>1. /\ UNCHANGED <<list_g, sim_map_read, sim_map_write, usage_map, read_dict_g>>
        /\ raised' = FALSE /\ st' = "run"
        /\ \/ /\ write_dict_g = NULL /\ dicts' = NewDict(sim_map_write)
              /\ write_dict_g' = Len(dicts) + 1
           \/ /\ write_dict_g # NULL /\ dicts' = HeldOnceMore(write_dict_g)
              /\ write_dict_g' = write_dict_g
    BY <1>3 DEF GetWrites, Return
  <2>2. /\ dicts' \in Seq(Dicts) /\ write_dict_g' \in DOMAIN dicts'
        /\ read_dict_g \in DOMAIN dicts' \cup {NULL}
        /\ OfMap(write_dict_g', sim_map_write, dicts')
        /\ OfMap(read_dict_g, sim_map_read, dicts')
    <3>1. /\ dicts \in Seq(Dicts) /\ sim_map_write \in Seq(STRING) /\ sim_map_read \in Maps
          /\ read_dict_g \in DOMAIN dicts \cup {NULL}
          /\ write_dict_g \in DOMAIN dicts \cup {NULL}
          /\ OfMap(read_dict_g, sim_map_read, dicts) /\ OfMap(write_dict_g, sim_map_write, dicts)
      BY <1>3 DEF Module, Maps
    <3>2. CASE write_dict_g = NULL
      BY <2>1, <3>1, <3>2, DictGot, NullFacts
    <3>3. CASE write_dict_g # NULL
      BY <2>1, <3>1, <3>3, DictGot
    <3> QED
      BY <3>2, <3>3
  <2> QED
    BY <2>1, <2>2 DEF Module
<1> QED
  BY <1>1, <1>2, <1>3

LEMMA FinishIs ==
  ASSUME Finish
  PROVE  \/ NULL \in {read_dict_g, write_dict_g} /\ Die("segv")
         \/ /\ NULL \notin {read_dict_g, write_dict_g}
            /\ \E d \in {read_dict_g, write_dict_g} : Freed(d)
            /\ Die("freed")
         \/ /\ NULL \notin {read_dict_g, write_dict_g}
            /\ sim_map_read' = NULL /\ sim_map_write' = NULL
            /\ read_dict_g' = NULL /\ write_dict_g' = NULL
            /\ dicts' = Cleared({read_dict_g, write_dict_g})
            /\ raised' = FALSE /\ st' = "run" /\ UNCHANGED <<list_g, usage_map>>
BY DEF Finish, Cleared, Return

LEMMA FinishKept == Module /\ Finish => Module'
<1> SUFFICES ASSUME Module, Finish PROVE Module'
  OBVIOUS
<1>1. CASE Die("segv") \/ Die("freed")
  BY <1>1, DiesKept
<1>2. CASE ~Die("segv") /\ ~Die("freed")
  <2>1. /\ sim_map_read' = NULL /\ sim_map_write' = NULL
        /\ read_dict_g' = NULL /\ write_dict_g' = NULL
        /\ dicts' = Cleared({read_dict_g, write_dict_g})
        /\ raised' = FALSE /\ st' = "run" /\ UNCHANGED <<list_g, usage_map>>
    BY <1>2, FinishIs
  <2>2. dicts' \in Seq(Dicts)
    BY <2>1, ClearedIs DEF Module
  <2> QED
    BY <2>1, <2>2 DEF Module, Maps, OfMap
<1> QED
  BY <1>1, <1>2

LEMMA ReleaseKept ==
  ASSUME Module, NEW ds \in SUBSET (DOMAIN dicts), \A d \in ds : dicts[d].held > 0, Release(ds)
  PROVE  Module'
<1>1. CASE \E d \in ds : Freed(d)
  BY <1>1, DiesKept DEF Release
<1>2. CASE ~\E d \in ds : Freed(d)
  <2>1. dicts' = Released(ds) /\ UNCHANGED <<globals, raised, st>>
    BY <1>2 DEF Release
  <2>2. /\ dicts' \in Seq(Dicts) /\ DOMAIN dicts' = DOMAIN dicts
        /\ \A e \in DOMAIN dicts :
             /\ dicts'[e].shows = dicts[e].shows
             /\ dicts[e].refs = 0 => dicts'[e].refs = 0
    BY <1>2, <2>1, ReleasedIs DEF Module, Freed
  <2>3. OfMap(read_dict_g, sim_map_read, dicts') /\ OfMap(write_dict_g, sim_map_write, dicts')
    BY <2>2, DictKept DEF Module
  <2> QED
    BY <2>1, <2>2, <2>3 DEF Module, globals
<1> QED
  BY <1>1, <1>2

LEMMA ScriptKept == Module /\ Script => Module'
<1> SUFFICES ASSUME Module, Script PROVE Module'
  OBVIOUS
<1>1. ASSUME NEW f \in Files \cup {BadArguments}, InitItems(f) PROVE Module'
  BY <1>1, InitItemsKept
<1>2. CASE Simulate
  BY <1>2, SimulateKept
<1>3. CASE FreeItems
  BY <1>3, FreeItemsKept
<1>4. CASE MayGet(read_dict_g) /\ GetReads
  BY <1>4, GetReadsKept DEF MayGet
<1>5. CASE MayGet(write_dict_g) /\ GetWrites
  BY <1>5, GetWritesKept DEF MayGet
<1>6. CASE Finish
  BY <1>6, FinishKept
<1>7. ASSUME NEW d \in DOMAIN dicts, dicts[d].held > 0, Release({d}) PROVE Module'
  BY <1>7, ReleaseKept
<1> QED
  BY <1>1, <1>2, <1>3, <1>4, <1>5, <1>6, <1>7 DEF Script

-----------------------------------------------------------------------------
(* ioprofiler: what it has a reference to, call by call.                       *)
PairOf(d, e) == <<d, e>>
AppTypes ==
  /\ fileName \in Opened \cup {NULL}
  /\ reads \in DOMAIN dicts \cup {NULL} /\ writes \in DOMAIN dicts \cup {NULL}
  /\ pc \in {"idle", "init", "simulate", "free", "reads", "writes", "set"}
  /\ data = <<>> \/ \E d, e \in DOMAIN dicts : data = PairOf(d, e)
  /\ client # "ioprofiler" =>
       pc = "idle" /\ fileName = NULL /\ reads = NULL /\ writes = NULL /\ data = <<>>

Profiler ==
  /\ pc # "idle" => fileName # NULL
  /\ fileName = NULL => data = <<>> /\ sim_map_read = NULL /\ read_dict_g = NULL
  /\ pc \in {"init", "simulate", "free", "reads"} =>
       read_dict_g = NULL /\ write_dict_g = NULL /\ reads = NULL /\ writes = NULL
  /\ pc = "writes" => /\ read_dict_g # NULL /\ write_dict_g = NULL
                      /\ reads = read_dict_g /\ writes = NULL
  /\ pc = "set" => /\ read_dict_g # NULL /\ write_dict_g # NULL
                   /\ reads = read_dict_g /\ writes = write_dict_g
  /\ pc = "idle" => /\ reads = NULL /\ writes = NULL
                    /\ \/ read_dict_g = NULL /\ write_dict_g = NULL
                       \/ data = PairOf(read_dict_g, write_dict_g) /\ read_dict_g # NULL
                          /\ write_dict_g # NULL
  /\ \A d \in DOMAIN dicts : dicts[d].refs = dicts[d].held
  /\ \A d \in Range(data) : dicts[d].refs = 1 /\ d # reads /\ d # writes
  /\ reads # NULL => dicts[reads].refs = 1
  /\ writes # NULL => dicts[writes].refs = 1

(* What there is to see of the file, while newFileOpened runs and after it.    *)
Follows ==
  /\ pc # "idle" \/ read_dict_g = NULL => \A d \in Range(data) : dicts[d].shows = <<>>
  /\ pc \in {"init", "simulate"} \/ (pc = "idle" /\ read_dict_g = NULL) => sim_map_read = NULL
  /\ pc = "simulate" => list_g = fileName.items /\ fileName.ok
  /\ pc \in {"free", "reads", "writes", "set"} =>
       /\ sim_map_read = NamesOf(fileName.items, "read")
       /\ sim_map_write = NamesOf(fileName.items, "write")
  /\ pc \in {"writes", "set"} => dicts[reads].shows = NamesOf(fileName.items, "read")
  /\ pc = "set" => dicts[writes].shows = NamesOf(fileName.items, "write")

IInv ==
  /\ Module /\ AppTypes
  /\ client = "ioprofiler" => Profiler /\ (st = "run" => Follows)

LEMMA RangeIs ==
  /\ Range(<<>>) = {}
  /\ \A d, e : Range(PairOf(d, e)) = {d, e} /\ PairOf(d, e)[1] = d /\ PairOf(d, e)[2] = e
               /\ PairOf(d, e) # <<>>
<1>1. Range(<<>>) = {}
  BY DEF Range
<1>2. ASSUME NEW d, NEW e
      PROVE  Range(PairOf(d, e)) = {d, e} /\ PairOf(d, e)[1] = d /\ PairOf(d, e)[2] = e
             /\ PairOf(d, e) # <<>>
  <2>1. DOMAIN <<d, e>> = 1 .. 2 /\ <<d, e>>[1] = d /\ <<d, e>>[2] = e
    OBVIOUS
  <2>2. 1 .. 2 = {1, 2}
    OBVIOUS
  <2>3. Range(<<d, e>>) = {d, e}
    BY <2>1, <2>2, Zenon DEF Range
  <2> QED
    BY <2>1, <2>3 DEF PairOf
<1> QED
  BY <1>1, <1>2

LEMMA DataTypes ==
  ASSUME AppTypes
  PROVE  Range(data) \subseteq DOMAIN dicts
BY RangeIs DEF AppTypes

LEMMA InitIInv == AppInit => IInv
<1> SUFFICES ASSUME AppInit PROVE IInv
  OBVIOUS
<1>1. Module
  <2>1. <<>> \in Seq(Dicts) /\ NULL \in Maps
    BY DEF Maps
  <2>2. \A ds : OfMap(NULL, NULL, ds)
    BY DEF OfMap
  <2> QED
    BY <2>1, <2>2 DEF AppInit, Init, Module
<1>2. AppTypes
  BY <1>1 DEF AppInit, Init, AppTypes
<1>3. Profiler /\ Follows
  BY RangeIs DEF AppInit, Init, Profiler, Follows
<1> QED
  BY <1>1, <1>2, <1>3 DEF IInv

LEMMA CallInitKept ==
  ASSUME IInv, client = "ioprofiler", st = "run", CallInit
  PROVE  IInv'
<1>1. fileName \in Opened /\ fileName \in Files
  BY OpenedAssumption DEF IInv, AppTypes, Profiler, CallInit
<1>2. Module'
  BY <1>1, InitItemsKept DEF CallInit, IInv
<1>3. /\ UNCHANGED <<client, fileName, reads, writes, data>>
      /\ UNCHANGED <<sim_map_read, sim_map_write, usage_map, read_dict_g, write_dict_g, dicts>>
      /\ \/ pc' = "idle"
         \/ pc' = "simulate" /\ list_g' = fileName.items /\ fileName.ok
  <2>1. CASE list_g # NULL
    BY <2>1 DEF CallInit, InitItems, Raise, Then, globals
  <2>2. CASE list_g = NULL
    BY <2>2 DEF CallInit, InitItems, Then
  <2> QED
    BY <2>1, <2>2
<1>4. AppTypes'
  BY <1>3 DEF IInv, AppTypes
<1>5. pc = "init"
  BY DEF CallInit
<1>6. Profiler'
  BY <1>3, <1>5 DEF IInv, Profiler
<1>7. Follows'
  BY <1>3, <1>5 DEF IInv, Profiler, Follows
<1> QED
  BY <1>2, <1>4, <1>6, <1>7 DEF IInv

LEMMA CallSimulateKept ==
  ASSUME IInv, client = "ioprofiler", st = "run", CallSimulate
  PROVE  IInv'
<1>1. fileName \in Files /\ pc = "simulate" /\ list_g = fileName.items /\ list_g # NULL
  <2>1. fileName \in Opened /\ pc = "simulate" /\ list_g = fileName.items
    BY DEF IInv, AppTypes, Profiler, Follows, CallSimulate
  <2> QED
    BY <2>1, OpenedAssumption, NullFacts
<1>2. Module'
  BY SimulateKept DEF CallSimulate, IInv
<1>3. /\ UNCHANGED <<client, fileName, reads, writes, data>>
      /\ UNCHANGED <<list_g, read_dict_g, write_dict_g, dicts>>
      /\ pc' \in {"idle", "free"}
      /\ st' = "run" => /\ sim_map_read' = Listed(sim_map_read, "read")
                        /\ sim_map_write' = Listed(sim_map_write, "write")
                        /\ pc' = "free"
  BY <1>1 DEF CallSimulate, Simulate, Return, Die, Then, globals
<1>4. AppTypes'
  BY <1>3 DEF IInv, AppTypes
<1>5. sim_map_read = NULL /\ sim_map_write = NULL
  BY <1>1 DEF IInv, Follows, Module
<1>6. Profiler'
  BY <1>1, <1>3 DEF IInv, Profiler
<1>7. ASSUME st' = "run" PROVE Follows'
  <2>1. /\ sim_map_read' = NamesOf(fileName.items, "read")
        /\ sim_map_write' = NamesOf(fileName.items, "write")
    <3>1. NULL \in Maps /\ Module
      BY DEF Maps, IInv
    <3> QED
      BY <1>1, <1>3, <1>5, <1>7, <3>1, ListedIs
  <2> QED
    BY <1>1, <1>3, <1>7, <2>1 DEF IInv, Profiler, Follows
<1> QED
  BY <1>2, <1>4, <1>6, <1>7 DEF IInv

LEMMA CallFreeKept ==
  ASSUME IInv, client = "ioprofiler", st = "run", CallFree
  PROVE  IInv'
<1>1. Module'
  BY FreeItemsKept DEF CallFree, IInv
<1>2. /\ UNCHANGED <<client, fileName, reads, writes, data>>
      /\ UNCHANGED <<sim_map_read, sim_map_write, read_dict_g, write_dict_g, dicts>>
      /\ pc = "free" /\ pc' \in {"idle", "reads"}
      /\ st' = "run" => pc' = "reads"
  BY DEF CallFree, FreeItems, Return, Die, Then, globals
<1>3. AppTypes'
  BY <1>2 DEF IInv, AppTypes
<1>4. Profiler'
  BY <1>2 DEF IInv, Profiler
<1>5. st' = "run" => Follows'
  BY <1>2 DEF IInv, Profiler, Follows
<1> QED
  BY <1>1, <1>3, <1>4, <1>5 DEF IInv

(* The dictionary that get_reads or get_writes makes for ioprofiler.           *)
LEMMA CallReadsKept ==
  ASSUME IInv, client = "ioprofiler", st = "run", CallReads
  PROVE  IInv'
<1>1. pc = "reads" /\ read_dict_g = NULL /\ write_dict_g = NULL /\ reads = NULL /\ writes = NULL
  BY DEF IInv, Profiler, CallReads
<1>2. Module'
  BY <1>1, GetReadsKept DEF CallReads, IInv
<1>3. fileName \in Files
  BY <1>1, OpenedAssumption DEF IInv, AppTypes, Profiler
<1>4. sim_map_read \in Seq(STRING) /\ sim_map_read # NULL
  <2>1. NamesOf(fileName.items, "read") \in Seq(STRING)
    BY <1>3, NullFacts, NamesType
  <2> QED
    BY <1>1, <2>1, NullFacts DEF IInv, Follows
<1>5. /\ UNCHANGED <<client, fileName, writes, data>>
      /\ UNCHANGED <<list_g, sim_map_read, sim_map_write, write_dict_g>>
      /\ pc' = "writes" /\ reads' = read_dict_g' /\ read_dict_g' = Len(dicts) + 1
      /\ dicts' = NewDict(sim_map_read)
  BY <1>1, <1>4 DEF CallReads, GetReads, Return, Then
<1> DEFINE new == Len(dicts) + 1
<1>6. /\ DOMAIN dicts' = DOMAIN dicts \cup {new} /\ new \notin DOMAIN dicts
      /\ \A d \in DOMAIN dicts : dicts'[d] = dicts[d]
      /\ dicts'[new] = [shows |-> sim_map_read, refs |-> 1, held |-> 1]
      /\ new # NULL
  <2>1. dicts \in Seq(Dicts)
    BY DEF IInv, Module
  <2>2. /\ DOMAIN NewDict(sim_map_read) = DOMAIN dicts \cup {new} /\ new \notin DOMAIN dicts
        /\ new \in Nat
        /\ \A d \in DOMAIN dicts : NewDict(sim_map_read)[d] = dicts[d]
        /\ NewDict(sim_map_read)[new] = [shows |-> sim_map_read, refs |-> 1, held |-> 1]
    BY <1>4, <2>1, NewDictIs, Zenon
  <2> QED
    BY <1>5, <2>2, NullFacts
<1> HIDE DEF new
<1>7. read_dict_g' = new
  BY <1>5 DEF new
<1>8. dicts'[new].shows = sim_map_read /\ dicts'[new].refs = 1 /\ dicts'[new].held = 1
  BY <1>6
<1>9. Range(data) \subseteq DOMAIN dicts
  BY DataTypes DEF IInv
<1>10. AppTypes'
  BY <1>1, <1>5, <1>6, <1>7 DEF IInv, AppTypes
<1>11. Profiler'
  BY <1>1, <1>5, <1>6, <1>7, <1>8, <1>9 DEF IInv, Profiler
<1>12. Follows'
  BY <1>1, <1>5, <1>6, <1>7, <1>8, <1>9 DEF IInv, Follows
<1> QED
  BY <1>2, <1>10, <1>11, <1>12 DEF IInv

LEMMA CallWritesKept ==
  ASSUME IInv, client = "ioprofiler", st = "run", CallWrites
  PROVE  IInv'
<1>1. /\ pc = "writes" /\ read_dict_g # NULL /\ write_dict_g = NULL
      /\ reads = read_dict_g /\ writes = NULL
  BY DEF IInv, Profiler, CallWrites
<1>2. Module'
  BY <1>1, GetWritesKept DEF CallWrites, IInv
<1>3. fileName \in Files
  BY <1>1, OpenedAssumption DEF IInv, AppTypes, Profiler
<1>4. sim_map_write \in Seq(STRING) /\ sim_map_write # NULL
  <2>1. NamesOf(fileName.items, "write") \in Seq(STRING)
    BY <1>3, NullFacts, NamesType
  <2> QED
    BY <1>1, <2>1, NullFacts DEF IInv, Follows
<1>5. /\ UNCHANGED <<client, fileName, reads, data>>
      /\ UNCHANGED <<list_g, sim_map_read, sim_map_write, read_dict_g>>
      /\ pc' = "set" /\ writes' = write_dict_g' /\ write_dict_g' = Len(dicts) + 1
      /\ dicts' = NewDict(sim_map_write)
  BY <1>1, <1>4 DEF CallWrites, GetWrites, Return, Then
<1> DEFINE new == Len(dicts) + 1
<1>6. /\ DOMAIN dicts' = DOMAIN dicts \cup {new} /\ new \notin DOMAIN dicts
      /\ \A d \in DOMAIN dicts : dicts'[d] = dicts[d]
      /\ dicts'[new] = [shows |-> sim_map_write, refs |-> 1, held |-> 1]
      /\ new # NULL
  <2>1. dicts \in Seq(Dicts)
    BY DEF IInv, Module
  <2>2. /\ DOMAIN NewDict(sim_map_write) = DOMAIN dicts \cup {new} /\ new \notin DOMAIN dicts
        /\ new \in Nat
        /\ \A d \in DOMAIN dicts : NewDict(sim_map_write)[d] = dicts[d]
        /\ NewDict(sim_map_write)[new] = [shows |-> sim_map_write, refs |-> 1, held |-> 1]
    BY <1>4, <2>1, NewDictIs, Zenon
  <2> QED
    BY <1>5, <2>2, NullFacts
<1> HIDE DEF new
<1>7. write_dict_g' = new
  BY <1>5 DEF new
<1>8. dicts'[new].shows = sim_map_write /\ dicts'[new].refs = 1 /\ dicts'[new].held = 1
  BY <1>6
<1>9. Range(data) \subseteq DOMAIN dicts /\ reads \in DOMAIN dicts
  BY <1>1, DataTypes DEF IInv, AppTypes
<1>10. AppTypes'
  BY <1>1, <1>5, <1>6, <1>7 DEF IInv, AppTypes
<1>11. Profiler'
  BY <1>1, <1>5, <1>6, <1>7, <1>8, <1>9 DEF IInv, Profiler
<1>12. Follows'
  BY <1>1, <1>5, <1>6, <1>7, <1>8, <1>9 DEF IInv, Follows
<1> QED
  BY <1>2, <1>10, <1>11, <1>12 DEF IInv

LEMMA SetDataKept ==
  ASSUME IInv, client = "ioprofiler", st = "run", SetData
  PROVE  IInv'
<1>1. /\ pc = "set" /\ read_dict_g # NULL /\ write_dict_g # NULL
      /\ reads = read_dict_g /\ writes = write_dict_g
      /\ pc' = "idle" /\ reads' = NULL /\ writes' = NULL /\ data' = PairOf(reads, writes)
      /\ UNCHANGED <<client, fileName>>
  BY DEF IInv, Profiler, SetData, PairOf
<1>2. /\ Range(data) \subseteq DOMAIN dicts
      /\ reads \in DOMAIN dicts /\ writes \in DOMAIN dicts
      /\ \A d \in DOMAIN dicts : dicts[d].refs = dicts[d].held
      /\ \A d \in Range(data) : dicts[d].refs = 1 /\ d # reads /\ d # writes
      /\ dicts[reads].refs = 1 /\ dicts[writes].refs = 1
  BY <1>1, DataTypes DEF IInv, AppTypes, Profiler
<1>3. \A d \in Range(data) : dicts[d].held > 0 /\ ~Freed(d)
  <2>1. \A d \in Range(data) : dicts[d].held = 1 /\ dicts[d].refs = 1
    BY <1>2
  <2> QED
    BY <2>1 DEF Freed
<1>4. Module'
  BY <1>2, <1>3, ReleaseKept DEF SetData, IInv
<1>5. dicts' = Released(Range(data)) /\ UNCHANGED <<globals, raised, st>>
  BY <1>3 DEF SetData, Release
<1>6. /\ DOMAIN dicts' = DOMAIN dicts
      /\ \A e \in DOMAIN dicts :
           /\ dicts'[e].shows = dicts[e].shows
           /\ e \notin Range(data) => dicts'[e] = dicts[e]
           /\ e \in Range(data) => /\ dicts'[e].refs = dicts[e].refs - 1
                                   /\ dicts'[e].held = dicts[e].held - 1
  BY <1>2, <1>3, <1>5, ReleasedIs DEF IInv, Module
<1>7. Range(data') = {reads, writes}
  BY <1>1, RangeIs
<1>8. AppTypes'
  BY <1>1, <1>2, <1>6 DEF IInv, AppTypes
<1>9. Profiler'
  <2>1. \A d \in DOMAIN dicts' : dicts'[d].refs = dicts'[d].held
    BY <1>2, <1>6
  <2>2. \A d \in Range(data') : dicts'[d].refs = 1 /\ d # NULL
    BY <1>1, <1>2, <1>6, <1>7
  <2>3. fileName # NULL
    BY <1>1 DEF IInv, Profiler
  <2> QED
    BY <1>1, <1>5, <2>1, <2>2, <2>3 DEF Profiler, globals
<1>10. Follows'
  BY <1>1, <1>5 DEF Follows, globals
<1> QED
  BY <1>4, <1>8, <1>9, <1>10 DEF IInv

LEMMA OpenFileKept ==
  ASSUME IInv, client = "ioprofiler", st = "run", NEW f \in Opened, OpenFile(f)
  PROVE  IInv'
<1>1. /\ pc = "idle" /\ pc' = "init" /\ fileName' = f /\ f # NULL
      /\ UNCHANGED <<client, reads, writes, data>>
      /\ reads = NULL /\ writes = NULL
  BY OpenedAssumption, NullFacts DEF OpenFile, IInv, Profiler
<1>2. Range(data) \subseteq DOMAIN dicts
  BY DataTypes DEF IInv
<1>3. CASE UNCHANGED modvars /\ fileName = NULL
  <2>1. Module'
    BY <1>3, SameModule DEF IInv
  <2>2. data = <<>> /\ sim_map_read = NULL /\ read_dict_g = NULL /\ write_dict_g = NULL
    <3>1. data = <<>> /\ sim_map_read = NULL /\ read_dict_g = NULL
      BY <1>3 DEF IInv, Profiler
    <3> QED
      BY <1>1, <3>1, RangeIs DEF IInv, Profiler
  <2>3. AppTypes'
    BY <1>1, <1>3 DEF IInv, AppTypes, modvars
  <2>4. Profiler'
    BY <1>1, <1>3, <2>2 DEF IInv, Profiler, modvars, globals
  <2>5. Follows'
    BY <1>1, <1>3, <2>2, RangeIs DEF IInv, Follows, modvars, globals
  <2> QED
    BY <2>1, <2>3, <2>4, <2>5 DEF IInv
<1>4. CASE Finish /\ (Die("segv") \/ Die("freed"))
  <2>1. Module'
    BY <1>4, FinishKept DEF IInv
  <2>2. UNCHANGED <<globals, dicts>> /\ st' # "run"
    BY <1>4 DEF Die
  <2>3. AppTypes'
    BY <1>1, <2>2 DEF IInv, AppTypes
  <2>4. read_dict_g = NULL /\ write_dict_g = NULL
    <3>1. ~(data = PairOf(read_dict_g, write_dict_g) /\ read_dict_g # NULL /\ write_dict_g # NULL)
      <4> SUFFICES ASSUME data = PairOf(read_dict_g, write_dict_g), read_dict_g # NULL,
                          write_dict_g # NULL
                   PROVE  FALSE
        OBVIOUS
      <4>1. \A d \in {read_dict_g, write_dict_g} : dicts[d].refs = 1
        BY RangeIs DEF IInv, Profiler
      <4>2. \A d \in {read_dict_g, write_dict_g} : ~Freed(d)
        BY <4>1 DEF Freed
      <4> QED
        BY <1>4, <2>2, <4>2 DEF Finish, Return
    <3> QED
      BY <1>1, <3>1 DEF IInv, Profiler
  <2>5. Profiler'
    BY <1>1, <2>2, <2>4 DEF IInv, Profiler, globals
  <2> QED
    BY <2>1, <2>2, <2>3, <2>5 DEF IInv
<1>5. CASE Finish /\ ~Die("segv") /\ ~Die("freed")
  <2>1. Module'
    BY <1>5, FinishKept DEF IInv
  <2>2. /\ read_dict_g # NULL /\ write_dict_g # NULL
        /\ sim_map_read' = NULL /\ sim_map_write' = NULL
        /\ read_dict_g' = NULL /\ write_dict_g' = NULL
        /\ dicts' = Cleared({read_dict_g, write_dict_g})
    BY <1>5, FinishIs
  <2>3. /\ DOMAIN dicts' = DOMAIN dicts
        /\ \A e \in DOMAIN dicts :
             /\ dicts'[e].refs = dicts[e].refs /\ dicts'[e].held = dicts[e].held
             /\ dicts'[e].shows = IF e \in {read_dict_g, write_dict_g} THEN <<>>
                                  ELSE dicts[e].shows
    BY <2>2, ClearedIs DEF IInv, Module
  <2>4. AppTypes'
    BY <1>1, <2>3 DEF IInv, AppTypes
  <2>5. Profiler'
    BY <1>1, <1>2, <2>2, <2>3 DEF IInv, Profiler
  <2>6. data = PairOf(read_dict_g, write_dict_g)
    BY <1>1, <2>2 DEF IInv, Profiler
  <2>7. \A d \in Range(data') : dicts'[d].shows = <<>>
    BY <1>1, <1>2, <2>3, <2>6, RangeIs
  <2>8. Follows'
    BY <1>1, <2>2, <2>7 DEF Follows
  <2> QED
    BY <2>1, <2>4, <2>5, <2>8 DEF IInv
<1> QED
  BY <1>3, <1>4, <1>5 DEF OpenFile

LEMMA ScriptsKept ==
  ASSUME IInv, client # "ioprofiler", Script, UNCHANGED appvars
  PROVE  IInv'
<1>1. Module'
  BY ScriptKept DEF IInv
<1>2. UNCHANGED <<client, fileName, reads, writes, data, pc>>
  BY DEF appvars
<1>3. AppTypes'
  BY <1>2 DEF IInv, AppTypes
<1> QED
  BY <1>1, <1>2, <1>3 DEF IInv

LEMMA NextIInv == IInv /\ [AppNext]_allvars => IInv'
<1> SUFFICES ASSUME IInv, [AppNext]_allvars PROVE IInv'
  OBVIOUS
<1>1. CASE UserOpens
  BY <1>1, OpenFileKept DEF UserOpens
<1>2. CASE Continue
  BY <1>2, CallInitKept, CallSimulateKept, CallFreeKept, CallReadsKept, CallWritesKept,
     SetDataKept DEF Continue
<1>3. CASE client = "script" /\ Script /\ UNCHANGED appvars
  BY <1>3, ScriptsKept
<1>4. CASE UNCHANGED allvars
  <2>1. Module'
    BY <1>4, SameModule DEF IInv, allvars
  <2>2. UNCHANGED <<client, fileName, reads, writes, data, pc>> /\ UNCHANGED <<globals, dicts, raised, st>>
    BY <1>4 DEF allvars, modvars, appvars
  <2>3. AppTypes'
    BY <2>2 DEF IInv, AppTypes
  <2>4. Profiler => Profiler'
    BY <2>2 DEF Profiler, globals
  <2>5. Follows => Follows'
    BY <2>2 DEF Follows, globals
  <2> QED
    BY <2>1, <2>2, <2>3, <2>4, <2>5 DEF IInv
<1> QED
  BY <1>1, <1>2, <1>3, <1>4 DEF AppNext

(* The globals and the maps of the extension keep their types, whoever calls   *)
(* it and in whatever order, and every dictionary is counted at most once.     *)
THEOREM TypeCorrect == AppSpec => []TypeOK
<1>1. IInv => TypeOK
  <2> SUFFICES ASSUME IInv PROVE TypeOK
    OBVIOUS
  <2>1. \A map \in {sim_map_read, sim_map_write} :
          map = NULL \/ \A i \in DOMAIN map : map[i] \in STRING
    BY DEF IInv, Module, Maps
  <2>2. Range(data) \subseteq DOMAIN dicts \ {reads, writes} /\ Len(data) \in {0, 2}
    <3>1. \A d \in Range(data) : d # reads /\ d # writes
      BY RangeIs DEF IInv, AppTypes, Profiler
    <3>2. Len(data) \in {0, 2}
      BY DEF IInv, AppTypes, PairOf
    <3> QED
      BY <3>1, <3>2, DataTypes DEF IInv
  <2>3. \A d \in DOMAIN dicts : dicts[d] \in Dicts
    BY DEF IInv, Module
  <2>4. \A d \in DOMAIN dicts : dicts[d].refs \in 0 .. 1 /\ dicts[d].held \in 0 .. MaxHeld
    BY <2>3 DEF Dicts
  <2>5. \A d \in {read_dict_g, write_dict_g, reads, writes} : d \in DOMAIN dicts \cup {NULL}
    BY DEF IInv, Module, AppTypes
  <2> QED
    BY <2>1, <2>2, <2>4, <2>5 DEF TypeOK, IInv, Module, AppTypes
<1> QED
  BY <1>1, InitIInv, NextIInv, PTL DEF AppSpec

(* A script never sees in a dictionary what was listed of an earlier trace,    *)
(* whatever calls it makes: simulate() only adds to the maps, and finish()     *)
(* drops the maps and the dictionaries together.                               *)
THEOREM DictsFollowMaps == AppSpec => []DictsOfMaps
<1>1. IInv => DictsOfMaps
  BY DEF IInv, Module, OfMap, DictsOfMaps, DictOfMap, Freed
<1> QED
  BY <1>1, InitIInv, NextIInv, PTL DEF AppSpec

-----------------------------------------------------------------------------
(* simulate() frees its table a second time for a trace without a record.      *)
NoEmptyTrace == \A f \in Opened : f.ok => f.items # <<>>

LEMMA GlobalsAreHeld ==
  ASSUME IInv, client = "ioprofiler", NEW d \in {read_dict_g, write_dict_g} \ {NULL}
  PROVE  ~Freed(d) /\ d \in Range(data) \cup {reads, writes}
<1>1. CASE pc = "idle"
  <2>1. data = PairOf(read_dict_g, write_dict_g)
    BY <1>1 DEF IInv, Profiler
  <2>2. d \in Range(data)
    BY <2>1, RangeIs
  <2> QED
    BY <2>2 DEF IInv, Profiler, Freed
<1>2. CASE pc # "idle"
  <2>1. d \in {reads, writes} /\ dicts[d].refs = 1
    BY <1>2 DEF IInv, AppTypes, Profiler
  <2> QED
    BY <2>1 DEF Freed
<1> QED
  BY <1>1, <1>2

LEMMA NothingFreed ==
  ASSUME NoEmptyTrace, IInv, client = "ioprofiler" => st # "freed", [AppNext]_allvars
  PROVE  client' = "ioprofiler" => st' # "freed"
<1>1. client' = client
  BY DEF AppNext, UserOpens, OpenFile, Continue, CallInit, CallSimulate, CallFree, CallReads,
         CallWrites, SetData, appvars, allvars
<1>2. SUFFICES ASSUME client = "ioprofiler", st # "freed" PROVE st' # "freed"
  BY <1>1
<1>3. CASE UserOpens
  <2>1. PICK f \in Opened : OpenFile(f)
    BY <1>3 DEF UserOpens
  <2>2. CASE Finish
    <3>1. NULL \notin {read_dict_g, write_dict_g} =>
            ~\E d \in {read_dict_g, write_dict_g} : Freed(d)
      BY <1>2, GlobalsAreHeld
    <3> QED
      BY <1>2, <2>2, <3>1, FinishIs DEF Die
  <2>3. CASE UNCHANGED modvars
    BY <1>2, <2>3 DEF modvars
  <2> QED
    BY <2>1, <2>2, <2>3 DEF OpenFile
<1>4. CASE CallInit /\ st = "run"
  BY <1>4 DEF CallInit, InitItems, Raise
<1>5. CASE CallSimulate /\ st = "run"
  <2>1. list_g = fileName.items /\ fileName.ok /\ fileName \in Opened
    BY <1>2, <1>5 DEF CallSimulate, IInv, AppTypes, Profiler, Follows
  <2>2. list_g # <<>>
    BY <2>1 DEF NoEmptyTrace
  <2> QED
    BY <1>5, <2>2 DEF CallSimulate, Simulate, Return, Raise, Die
<1>6. CASE CallFree /\ st = "run"
  BY <1>6 DEF CallFree, FreeItems, Die, Return
<1>7. CASE CallReads /\ st = "run"
  <2>1. read_dict_g = NULL
    BY <1>2, <1>7 DEF CallReads, IInv, Profiler
  <2> QED
    BY <1>7, <2>1 DEF CallReads, GetReads, Raise, Return
<1>8. CASE CallWrites /\ st = "run"
  <2>1. write_dict_g = NULL
    BY <1>2, <1>8 DEF CallWrites, IInv, Profiler
  <2> QED
    BY <1>8, <2>1 DEF CallWrites, GetWrites, Raise, Return
<1>9. CASE SetData /\ st = "run"
  <2>1. \A d \in Range(data) : ~Freed(d)
    BY <1>2 DEF IInv, Profiler, Freed
  <2> QED
    BY <1>9, <2>1 DEF SetData, Release
<1>10. CASE UNCHANGED allvars
  BY <1>2, <1>10 DEF allvars, modvars
<1> QED
  BY <1>2, <1>3, <1>4, <1>5, <1>6, <1>7, <1>8, <1>9, <1>10 DEF AppNext, Continue

(* Although the extension does not count the references it hands out, its own  *)
(* viewer never uses a freed dictionary, as long as no trace it opens is       *)
(* empty: traces that are missing, cut or end replicate() do no harm to it.    *)
THEOREM ProfilerIsSafe == NoEmptyTrace => (AppSpec => []ProfilerHoldsDicts)
<1> SUFFICES ASSUME NoEmptyTrace PROVE AppSpec => []ProfilerHoldsDicts
  OBVIOUS
<1> DEFINE NotFreed == client = "ioprofiler" => st # "freed"
<1>1. AppInit => IInv /\ NotFreed
  BY InitIInv DEF AppInit, Init
<1>2. IInv /\ NotFreed /\ [AppNext]_allvars => (IInv /\ NotFreed)'
  BY NextIInv, NothingFreed
<1>3. IInv /\ NotFreed => ProfilerHoldsDicts
  <2> SUFFICES ASSUME IInv, client = "ioprofiler", st # "freed" PROVE ProfilerHoldsDicts
    BY DEF ProfilerHoldsDicts
  <2>1. \A d \in DOMAIN dicts : dicts[d].refs = dicts[d].held
    BY DEF IInv, Profiler
  <2> QED
    BY <2>1, GlobalsAreHeld DEF ProfilerHoldsDicts
<1> QED
  BY <1>1, <1>2, <1>3, PTL DEF AppSpec

-----------------------------------------------------------------------------

(* The refinement of TraceViewer: every step opens a file, shows the one that  *)
(* is open, or is not seen.                                                    *)
ShowsIn(dt, ds) ==
  IF dt = <<>> THEN Nothing ELSE [reads |-> ds[dt[1]].shows, writes |-> ds[dt[2]].shows]

LEMMA ShownIs == Shown = ShowsIn(data, dicts) /\ Shown' = ShowsIn(data', dicts')
BY DEF Shown, ShowsIn

LEMMA NothingShown ==
  ASSUME NEW dt, NEW ds, dt = <<>> \/ \E d, e : dt = PairOf(d, e),
         \A d \in Range(dt) : ds[d].shows = <<>>
  PROVE  ShowsIn(dt, ds) = Nothing
<1>1. CASE dt = <<>>
  BY <1>1 DEF ShowsIn
<1>2. ASSUME NEW d, NEW e, dt = PairOf(d, e) PROVE ShowsIn(dt, ds) = Nothing
  <2>1. dt # <<>> /\ dt[1] = d /\ dt[2] = e /\ Range(dt) = {d, e}
    BY <1>2, RangeIs
  <2>2. ds[d].shows = <<>> /\ ds[e].shows = <<>>
    BY <2>1
  <2> QED
    BY <2>1, <2>2 DEF ShowsIn, Nothing
<1> QED
  BY <1>1, <1>2

LEMMA SameShown ==
  ASSUME NEW dt, NEW ds, NEW es, dt = <<>> \/ \E d, e : dt = PairOf(d, e),
         \A d \in Range(dt) : ds[d].shows = es[d].shows
  PROVE  ShowsIn(dt, ds) = ShowsIn(dt, es)
<1>1. CASE dt = <<>>
  BY <1>1 DEF ShowsIn
<1>2. ASSUME NEW d, NEW e, dt = PairOf(d, e) PROVE ShowsIn(dt, ds) = ShowsIn(dt, es)
  <2>1. dt # <<>> /\ dt[1] = d /\ dt[2] = e /\ Range(dt) = {d, e}
    BY <1>2, RangeIs
  <2>2. ds[d].shows = es[d].shows /\ ds[e].shows = es[e].shows
    BY <2>1
  <2> QED
    BY <2>1, <2>2 DEF ShowsIn
<1> QED
  BY <1>1, <1>2

LEMMA OpensFile ==
  ASSUME IInv, IInv', client = "ioprofiler", st = "run", NEW f \in Opened, OpenFile(f)
  PROVE  fileName' \in Opened /\ Shown' = Nothing
<1>1. /\ pc = "idle" /\ pc' = "init" /\ fileName' = f /\ data' = data /\ client' = client
      /\ data = <<>> \/ \E d, e : data = PairOf(d, e)
  BY DEF OpenFile, IInv, AppTypes
<1>2. \A d \in Range(data) : dicts'[d].shows = <<>>
  <2>1. CASE st' = "run"
    BY <1>1, <2>1 DEF IInv, Follows
  <2>2. CASE st' # "run"
    <3>1. Finish /\ UNCHANGED <<globals, dicts>> /\ (Die("segv") \/ Die("freed"))
      BY <2>2, FinishIs DEF OpenFile, Die, modvars
    <3>2. read_dict_g = NULL
      <4>1. ~\E d \in {read_dict_g, write_dict_g} \ {NULL} : Freed(d)
        BY GlobalsAreHeld
      <4>2. NULL \in {read_dict_g, write_dict_g}
        BY <2>2, <3>1, <4>1, FinishIs
      <4> QED
        BY <1>1, <4>2 DEF IInv, Profiler
    <3> QED
      BY <1>1, <3>1, <3>2 DEF IInv, Follows
  <2> QED
    BY <2>1, <2>2
<1>3. ShowsIn(data, dicts') = Nothing
  BY <1>1, <1>2, NothingShown
<1> QED
  BY <1>1, <1>3, ShownIs

LEMMA ShowsFile ==
  ASSUME IInv, client = "ioprofiler", st = "run", SetData
  PROVE  fileName # NULL /\ fileName' = fileName /\ Shown' = ContentsOf(fileName)
<1>1. /\ pc = "set" /\ fileName # NULL /\ fileName' = fileName
      /\ reads \in DOMAIN dicts /\ writes \in DOMAIN dicts
      /\ data' = PairOf(reads, writes)
      /\ dicts[reads].shows = NamesOf(fileName.items, "read")
      /\ dicts[writes].shows = NamesOf(fileName.items, "write")
  BY DEF SetData, IInv, AppTypes, Profiler, Follows, PairOf
<1>2. \A d \in DOMAIN dicts : dicts'[d].shows = dicts[d].shows
  <2>1. \A d \in Range(data) : dicts[d].held > 0 /\ ~Freed(d)
    <3>1. \A d \in Range(data) : dicts[d].held = 1 /\ dicts[d].refs = 1
      BY DataTypes DEF IInv, Profiler
    <3> QED
      BY <3>1 DEF Freed
  <2>2. dicts' = Released(Range(data))
    BY <2>1 DEF SetData, Release
  <2> QED
    BY <2>1, <2>2, DataTypes, ReleasedIs DEF IInv, Module
<1>3. ShowsIn(data', dicts') = ContentsOf(fileName)
  BY <1>1, <1>2, RangeIs DEF ShowsIn, ContentsOf
<1> QED
  BY <1>1, <1>3, ShownIs

LEMMA Unseen ==
  ASSUME IInv, client = "ioprofiler", st = "run",
         CallInit \/ CallSimulate \/ CallFree \/ CallReads \/ CallWrites
  PROVE  fileName' = fileName /\ Shown' = Shown
<1>1. /\ fileName' = fileName /\ data' = data /\ Range(data) \subseteq DOMAIN dicts
      /\ data = <<>> \/ \E d, e : data = PairOf(d, e)
  BY DataTypes DEF CallInit, CallSimulate, CallFree, CallReads, CallWrites, IInv, AppTypes
<1>2. \A d \in DOMAIN dicts : dicts'[d].shows = dicts[d].shows
  <2>1. CASE CallInit
    BY <2>1 DEF CallInit, InitItems, Raise
  <2>2. CASE CallSimulate
    BY <2>2 DEF CallSimulate, Simulate, Raise, Die
  <2>3. CASE CallFree
    BY <2>3 DEF CallFree, FreeItems, Die
  <2>4. CASE CallReads
    <3>1. read_dict_g = NULL
      BY <2>4 DEF CallReads, IInv, Profiler
    <3>2. dicts' = dicts \/ (sim_map_read # NULL /\ dicts' = NewDict(sim_map_read))
      BY <2>4, <3>1 DEF CallReads, GetReads, Raise
    <3> QED
      BY <3>2, NewDictIs DEF IInv, Module, Maps
  <2>5. CASE CallWrites
    <3>1. write_dict_g = NULL
      BY <2>5 DEF CallWrites, IInv, Profiler
    <3>2. dicts' = dicts \/ (sim_map_write # NULL /\ dicts' = NewDict(sim_map_write))
      BY <2>5, <3>1 DEF CallWrites, GetWrites, Raise
    <3> QED
      BY <3>2, NewDictIs DEF IInv, Module, Maps
  <2> QED
    BY <2>1, <2>2, <2>3, <2>4, <2>5
<1>3. ShowsIn(data, dicts) = ShowsIn(data, dicts')
  BY <1>1, <1>2, SameShown
<1> QED
  BY <1>1, <1>3, ShownIs

(* ioprofiler is a safe viewer: while a file is being opened nothing is shown, *)
(* and when something is shown then what the simulation listed of the file     *)
(* that is open, nothing left over from an earlier one; whatever traces there  *)
(* are, those that are missing, cut or empty or that end replicate() too.      *)
THEOREM ShowsOpenFile == AppSpec => View!ViewSafety
<1>1. AppInit => View!ViewInit
  BY DEF AppInit, View!ViewInit, Shown, ContentsOf
<1>2. IInv /\ IInv' /\ [AppNext]_allvars => [View!Open \/ View!Show]_(View!view)
  <2> SUFFICES ASSUME IInv, IInv', [AppNext]_allvars
               PROVE  \/ fileName' \in Opened /\ Shown' = Nothing
                      \/ fileName # NULL /\ Shown' = ContentsOf(fileName)
                         /\ fileName' = fileName
                      \/ fileName' = fileName /\ Shown' = Shown
    BY DEF View!Open, View!Show, View!view, ContentsOf
  <2>1. CASE UserOpens
    BY <2>1, OpensFile DEF UserOpens
  <2>2. CASE Continue
    BY <2>2, ShowsFile, Unseen DEF Continue
  <2>3. CASE client = "script" /\ Script /\ UNCHANGED appvars
    <3>1. data = <<>> /\ data' = <<>> /\ fileName' = fileName
      BY <2>3 DEF IInv, AppTypes, appvars
    <3> QED
      BY <3>1, ShownIs DEF ShowsIn
  <2>4. CASE UNCHANGED allvars
    BY <2>4, ShownIs DEF allvars, modvars, appvars
  <2> QED
    BY <2>1, <2>2, <2>3, <2>4 DEF AppNext
<1>3. AppSpec => []IInv
  BY InitIInv, NextIInv, PTL DEF AppSpec
<1> QED
  BY <1>1, <1>2, <1>3, PTL DEF AppSpec, View!ViewSafety
=============================================================================
