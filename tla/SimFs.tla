------------------------------- MODULE SimFs -------------------------------
(***************************************************************************)
(* ioreplay -C (simfs.c over adt/fs_trie.c): the calls of a trace that     *)
(* name files are simulated on a tree that is filled from the disk when a  *)
(* call needs it, and a call that would end differently now is reported.   *)
(* Nothing is changed on the disk.  One action is one call: the recorded   *)
(* program makes it on the file system it had, and its record is simulated *)
(* at once.  A path is a place in a tree of names: the absolute name of it *)
(* is the subject of module AbsoluteName.  The strings that                *)
(* trie_longest_prefix cuts a name into are left out, and so is the kind   *)
(* of a file, which simfs does not know either.                            *)
(*                                                                         *)
(* Names end without a slash, so that "/" is not among the names of calls. *)
(* The code finds no name that ends with one equal to a name of the tree:  *)
(* open and mkdir take the file for missing, also when it is there.        *)
(***************************************************************************)
EXTENDS Naturals, FiniteSets

CONSTANTS
  Paths,       \* absolute names
  Top,         \* "/"
  Parent,      \* the directory a path is in
  Above,       \* a path and the directories above it, up to Top
  Directories, \* names the program uses for directories
  Denied,      \* recorded calls may also fail for reasons of their own
  Ops          \* kinds of calls the trace has and the reader knows

Names == Paths \ {Top}
ASSUME TreeAssumption ==
  /\ Top \in Paths
  /\ Parent \in [Names -> Paths]
  /\ Above \in [Paths -> SUBSET Paths]
  /\ Above[Top] = {Top}
  /\ \A p \in Names : Above[p] = {p} \cup Above[Parent[p]] /\ p \notin Above[Parent[p]]
  /\ \A p, q \in Paths : q \in Above[p] => Top \in Above[q] /\ Above[q] \subseteq Above[p]
\* The directories above a path lie on one branch: each but the last is the
\* directory of another.
ASSUME BranchAssumption ==
  \A p \in Names : \A q \in Above[p] \ {p} : \E c \in Above[p] \cap Names : Parent[c] = q
ASSUME DirectoryAssumption == Directories \subseteq Names /\ Denied \in BOOLEAN

VARIABLES
  disk,   \* the paths there are on the disk: never changed by a check
  node,   \* the trie: what is known of a path
  rec,    \* the recorded program's file system (external)
  own,    \* the disk with all that calls made and all that was missing (ghost)
  first,  \* how the trace first used a path with success (ghost)
  last,   \* the last call and what was said to it
  clean   \* no call removed a path or was denied so far (ghost)
vars == <<disk, node, rec, own, first, last, clean>>

(* A node of the trie: physical, or virtual; "made" is virtual and created *)
(* by a call of the trace (created = 1).                                   *)
NodeKinds == {"none", "phys", "virt", "made"}

FileSystems == {fs \in SUBSET Paths : Top \in fs /\ \A p \in fs : Above[p] \subseteq fs}

(* simfs_init: the root is known and physical.                             *)
Init ==
  /\ disk \in FileSystems
  /\ node = [p \in Paths |-> IF p = Top THEN "phys" ELSE "none"]
  /\ rec \in FileSystems
  /\ own = disk
  /\ first = [p \in Paths |-> "none"]
  /\ last = [said |-> "ok", differs |-> FALSE, creatFailed |-> FALSE]
  /\ clean = TRUE

-----------------------------------------------------------------------------
(* The trie.  simfs_populate: the part of p that no node stands for yet is *)
(* looked up on the disk, as far as it exists there.                       *)
PopulateVirtual(t, p) ==
  [q \in Paths |-> IF t[q] = "none" /\ q \in Above[p] /\ q \in disk THEN "virt" ELSE t[q]]
Populate(t, p) ==
  [q \in Paths |-> IF t[q] = "none" /\ q \in Above[p] /\ q \in disk THEN "phys" ELSE t[q]]

(* trie_insert: the missing nodes are virtual.                             *)
Insert(t, p, kind) ==
  [q \in Paths |-> IF t[q] # "none" THEN t[q]
                   ELSE IF q = p THEN kind ELSE IF q \in Above[p] THEN "virt" ELSE "none"]

(* trie_delete of a path that has a node: everything under it goes too.    *)
Delete(t, p) == [q \in Paths |-> IF p \in Above[q] THEN "none" ELSE t[q]]

Has(t, p) == t[p] # "none"

(* The tree after a call and what is printed: nothing, that something is   *)
(* missing, or that something is there that should not be.  What the       *)
(* functions return is read by no caller in simulate.c (simfs_access has   *)
(* an end that returns an unset value) and left out.                       *)
Answer(t, said) == [trie |-> t, said |-> said]

(* simfs_access and simfs_stat.                                            *)
LookupForgets(t, p, ok) ==
  Answer(Populate(t, p), IF ok = Has(Populate(t, p), p) THEN "ok" ELSE IF ok THEN "missing" ELSE "unwanted")
Lookup(t, p, ok) ==
  LET u == Populate(t, p)
  IN  IF ok = Has(u, p) THEN Answer(u, "ok")
      ELSE IF ok THEN Answer(Insert(u, p, "virt"), "missing")
      ELSE Answer(IF u[p] = "phys" THEN Delete(u, p) ELSE u, "unwanted")

(* simfs_mkdir: it would succeed when just the last name is missing.       *)
MkdirMarks(t, p, ok) ==
  LET u == Populate(t, p)
  IN  IF Has(u, p) THEN Answer(IF ok THEN [u EXCEPT ![p] = "phys and made"] ELSE u,
                               IF ok THEN "unwanted" ELSE "ok")
      ELSE Answer(IF ok THEN Insert(u, p, "made") ELSE u,
                  IF ok = Has(u, Parent[p]) THEN "ok" ELSE IF ok THEN "missing" ELSE "unwanted")
MkdirUnpopulated(t, p, ok) ==
  IF Has(t, p) THEN Answer(t, IF ok THEN "unwanted" ELSE "ok")
  ELSE Answer(IF ok THEN Insert(t, p, "made") ELSE t,
              IF ok = Has(t, Parent[p]) THEN "ok" ELSE IF ok THEN "missing" ELSE "unwanted")
Mkdir(t, p, ok) ==
  LET u == Populate(t, p)
      wouldSucc == Has(u, Parent[p])
  IN  IF Has(u, p) THEN Answer(u, IF ok THEN "unwanted" ELSE "ok")
      ELSE IF ok THEN Answer(Insert(u, p, "made"), IF wouldSucc THEN "ok" ELSE "missing")
      ELSE Answer(u, IF wouldSucc THEN "unwanted" ELSE "ok")

(* simfs_unlink.  A path that was on the disk but in no node yet is        *)
(* reported as missing when it was unlinked.                               *)
Unlink(t, p, ok) ==
  LET u == Populate(t, p)
  IN  IF Has(t, p) THEN Answer(Delete(t, p), IF ok THEN "ok" ELSE "unwanted")
      ELSE IF ok THEN Answer(Delete(Insert(u, p, "virt"), p), "missing")
      ELSE IF Has(u, p) THEN Answer(Delete(u, p), "unwanted")
      ELSE Answer(u, "ok")

(* simfs_creat for open(2) without O_CREAT, with it, and with O_EXCL.      *)
Creat(t, p, ok, flags) ==
  LET u == Populate(t, p)
      missing == IF flags = "open" THEN Answer(Insert(u, p, "virt"), "missing") ELSE Mkdir(t, p, ok)
  IN  IF ~Has(u, p) THEN IF flags = "open" /\ ~ok THEN Answer(u, "ok") ELSE missing
      ELSE IF flags = "creat" THEN Answer(u, "ok")
      ELSE IF flags = "excl" THEN Answer(u, IF ok THEN "unwanted" ELSE "ok")
      ELSE Answer(IF ok THEN u ELSE Delete(u, p), IF ok THEN "ok" ELSE "unwanted")

Simulate(t, op, p, ok) ==
  IF op \in {"access", "stat"} THEN Lookup(t, p, ok)
  ELSE IF op = "mkdir" THEN Mkdir(t, p, ok)
  ELSE IF op = "unlink" THEN Unlink(t, p, ok)
  ELSE Creat(t, p, ok, op)

-----------------------------------------------------------------------------
(* A file system of the kernel (external).                                 *)
Lookups == {"access", "stat", "open"}
Removals == {"unlink", "rmdir"}
Children(fs, p) == {q \in fs \ {Top} : Parent[q] = p}
Succeeds(fs, op, p) ==
  \/ op \in Lookups /\ p \in fs
  \/ op = "creat" /\ Parent[p] \in fs
  \/ op \in {"mkdir", "excl"} /\ p \notin fs /\ Parent[p] \in fs
  \/ op \in Removals /\ p \in fs /\ Children(fs, p) = {}
After(fs, op, p) ==
  IF op \in Lookups THEN fs ELSE IF op \in Removals THEN fs \ {p} ELSE fs \cup {p}

(* The records that make a successful call possible are added, as simfs.h  *)
(* says.  What a complaint asks the user to delete stays: nothing on the   *)
(* disk is changed by the check, and the next call finds it there again.   *)
Repaired(op, p) == After(own \cup Above[Parent[p]], op, p)
                   \cup (IF op \in Lookups THEN {p} ELSE {})

FirstUse(op) == IF op \in Lookups THEN "found" ELSE "made"

(* replicate_access, _stat, _open, _mkdir and _unlink with ACT_SIMULATE,   *)
(* for a call with result ok.                                              *)
Handle(op, p, ok) ==
  LET answer == Simulate(node, op, p, ok)
  IN  /\ op \in Ops
      /\ ok \in {Succeeds(rec, op, p)} \cup (IF Denied THEN {FALSE} ELSE {})
      /\ node' = answer.trie
      /\ rec' = IF ok THEN After(rec, op, p) ELSE rec
      /\ own' = IF ok THEN Repaired(op, p) ELSE own
      /\ first' = IF ok /\ op \notin Removals /\ first[p] = "none"
                  THEN [first EXCEPT ![p] = FirstUse(op)] ELSE first
      /\ last' = [said |-> answer.said, differs |-> ok # Succeeds(own, op, p),
                  creatFailed |-> op = "creat" /\ ~ok]
      /\ clean' = (clean /\ op \notin Removals /\ ok = Succeeds(rec, op, p))
      /\ UNCHANGED disk

Access(p) == \E ok \in BOOLEAN : Handle("access", p, ok)
Stat(p)   == \E ok \in BOOLEAN : Handle("stat", p, ok)
MakeDirectory(p) == p \in Directories /\ \E ok \in BOOLEAN : Handle("mkdir", p, ok)
RemoveFile(p) == p \notin Directories /\ \E ok \in BOOLEAN : Handle("unlink", p, ok)
Open(p) == \E ok \in BOOLEAN : Handle("open", p, ok)
OpenCreating(p) ==
  p \notin Directories /\ \E ok \in BOOLEAN, op \in {"creat", "excl"} : Handle(op, p, ok)

(* A call of rmdir, external: the reader does not know its name and leaves *)
(* the record out, so that nothing is simulated.                           *)
RemoveDirectory(p) ==
  /\ p \in Directories /\ Succeeds(rec, "rmdir", p)
  /\ rec' = After(rec, "rmdir", p) /\ clean' = FALSE
  /\ UNCHANGED <<disk, node, own, first, last>>

Next ==
  \E p \in Names :
    \/ Access(p) \/ Stat(p) \/ Open(p) \/ OpenCreating(p)
    \/ MakeDirectory(p) \/ RemoveDirectory(p) \/ RemoveFile(p)

Spec == Init /\ [][Next]_vars

-----------------------------------------------------------------------------
(* A node of the tree is physical or created, never both.                  *)
TypeOK ==
  /\ disk \in FileSystems /\ rec \in SUBSET Paths /\ own \in SUBSET Paths
  /\ node \in [Paths -> NodeKinds]
  /\ first \in [Paths -> {"none", "found", "made"}]
  /\ last \in [said : {"ok", "missing", "unwanted"}, differs : BOOLEAN, creatFailed : BOOLEAN]
  /\ clean \in BOOLEAN

(* Whatever was inserted and deleted, by whatever trace: a path has a node *)
(* only below nodes, and exactly the nodes of paths on the disk are        *)
(* physical, so that the final check takes no file for one that is there.  *)
TrieFollowsDisk ==
  \A p \in Paths : Has(node, p) => /\ \A q \in Above[p] : Has(node, q)
                                   /\ node[p] = "phys" <=> p \in disk

(* A call is complained about if and only if it would end otherwise on the *)
(* disk to which all was added that calls made or that was missing: what   *)
(* is missing is complained about once, and nothing is passed over.  What  *)
(* should not be on the disk stays there, and may be complained about      *)
(* again (module SimFsChain).  The exception is a failed open with         *)
(* O_CREAT, which is never complained about when the file is there.  It    *)
(* holds until a path is removed (a removed file is found on the disk      *)
(* again) or a call failed for a reason that is not in the file tree.      *)
AlarmExact ==
  clean /\ ~last.creatFailed => (last.said # "ok" <=> last.differs)

(* simulate_check_files: the names printed under "Create following files". *)
Report == {p \in Paths : node[p] = "virt" /\ \A q \in Names : Parent[q] = p => ~Has(node, q)}

(* The report lists exactly the names that the program found, and had not  *)
(* made itself, that are missing on the disk and have no entry of their    *)
(* own in the tree.                                                        *)
ReportExact ==
  clean => Report = {p \in Names \ disk : /\ first[p] = "found"
                                          /\ \A q \in Names : Parent[q] = p => ~Has(node, q)}
=============================================================================
