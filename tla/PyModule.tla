------------------------------ MODULE PyModule -------------------------------
(* The Python extension (ioprofiler/ioappsmodule.c): seven functions that work *)
(* on globals, and the dictionaries two of them hand out.  One action is one   *)
(* call.  A read or a write stands for one that the simulation lists.  A       *)
(* "fatal" record is one on which replicate() ends the program, as Replicate   *)
(* shows for a sendfile to a socket, a call on descriptor -1 and a dup after a *)
(* fork; no record makes it return an error.  The functions return Py_None     *)
(* without counting the reference; those of None are not modelled.             *)
EXTENDS Naturals, Sequences, SequencesExt

CONSTANTS
  Files,      \* the traces: what of them is appended to the list, and whether
              \* the reader then returns 0
  NULL,
  MaxDicts,   \* bound: dictionaries that a script is given
  MaxHeld,    \* bound: references to one dictionary that Python has
  MaxListed   \* bound: a script simulates again while a map is shorter

Transfers == [op : {"read", "write", "fatal"}, name : STRING]
ASSUME FilesAssumption == Files \subseteq [items : Seq(Transfers), ok : BOOLEAN]
ASSUME BoundsAssumption == MaxDicts \in Nat /\ MaxHeld \in Nat \ {0} /\ MaxListed \in Nat
ASSUME NullAssumption == NULL \notin Nat \cup Seq(STRING) \cup Seq(Transfers) \cup Files

VARIABLES
  list_g,         \* the list of records, or NULL
  sim_map_read, sim_map_write,  \* the names in the order they were listed, or NULL
  usage_map,      \* the table replicate() allocates: NULL, or freed by the last one
  read_dict_g, write_dict_g,    \* the dictionary handed out last, or NULL
  dicts,          \* the dictionaries: what they show, their reference count, and
                  \* the references that Python believes to have
  raised,         \* the last call raised an exception
  st              \* "run", "segv" when the program died, or "freed" when
                  \* freed memory was used
globals == <<list_g, sim_map_read, sim_map_write, usage_map, read_dict_g, write_dict_g>>
modvars == <<globals, dicts, raised, st>>

Init ==
  /\ list_g = NULL /\ sim_map_read = NULL /\ sim_map_write = NULL
  /\ usage_map = NULL /\ read_dict_g = NULL /\ write_dict_g = NULL
  /\ dicts = <<>> /\ raised = FALSE /\ st = "run"

-----------------------------------------------------------------------------
(* The n-th of those transfers has n of them up to it.                         *)
NamesOf(l, op) ==
  LET those == {i \in DOMAIN l : l[i].op = op}
  IN  [n \in 1 .. Cardinality(those) |->
         l[CHOOSE i \in those : Cardinality({j \in those : j <= i}) = n].name]
IsFatal(l) == \E i \in DOMAIN l : l[i].op = "fatal"
Freed(d) == dicts[d].refs = 0

Return == raised' = FALSE /\ st' = "run"
Raise  == raised' = TRUE /\ st' = "run" /\ UNCHANGED <<globals, dicts>>
Die(how) == st' = how /\ UNCHANGED <<globals, dicts, raised>>

(* A mistake: a list that is there is gone on with.                            *)
InitAppends(f) ==
  /\ list_g' = (IF list_g = NULL THEN <<>> ELSE list_g) \o f.items
  /\ raised' = ~f.ok /\ st' = "run"
  /\ UNCHANGED <<sim_map_read, sim_map_write, usage_map, read_dict_g, write_dict_g, dicts>>
(* init_items_bin, init_items_strace: the list is there before it is known     *)
(* that the arguments and the file are good, and it stays.                     *)
InitItems(f) ==
  IF list_g # NULL THEN Raise
  ELSE /\ list_g' = f.items
       /\ raised' = ~f.ok /\ st' = "run"
       /\ UNCHANGED <<sim_map_read, sim_map_write, usage_map, read_dict_g, write_dict_g, dicts>>
BadArguments == [items |-> <<>>, ok |-> FALSE]

(* A mistake: the lists of the last simulation are replaced.                   *)
ReplacesMaps(map, op) == NamesOf(list_g, op)
(* simulate: simulate_init keeps maps that are there, so the transfers come    *)
(* after those.  replicate() sets usage_map up with the first record and frees *)
(* it at the end, without a record too: then it frees NULL, or once more what  *)
(* the last call freed, which may go unnoticed.                                *)
Listed(map, op) == (IF map = NULL THEN <<>> ELSE map) \o NamesOf(list_g, op)
Simulate ==
  IF list_g = NULL THEN Raise
  ELSE \/ /\ ~IsFatal(list_g)
          /\ list_g = <<>> => usage_map = "freed"
          /\ sim_map_read' = Listed(sim_map_read, "read")
          /\ sim_map_write' = Listed(sim_map_write, "write")
          /\ usage_map' = "freed"
          /\ Return
          /\ UNCHANGED <<list_g, read_dict_g, write_dict_g, dicts>>
       \/ list_g = <<>> /\ Die(IF usage_map = NULL THEN "segv" ELSE "freed")
       \/ IsFatal(list_g) /\ Die("segv")

(* free_items *)
FreeItems ==
  IF list_g = NULL THEN Die("segv")
  ELSE /\ list_g' = NULL /\ Return
       /\ UNCHANGED <<sim_map_read, sim_map_write, usage_map, read_dict_g, write_dict_g, dicts>>

(* get_reads, get_writes: the reference that PyDict_New made, and every later  *)
(* one, goes to the caller and stays in the global; it is counted once.        *)
NewDict(map) == Append(dicts, [shows |-> map, refs |-> 1, held |-> 1])
HeldOnceMore(d) == [dicts EXCEPT ![d].held = @ + 1]
GetReads ==
  IF sim_map_read = NULL THEN Raise
  ELSE /\ \/ /\ read_dict_g = NULL
             /\ dicts' = NewDict(sim_map_read) /\ read_dict_g' = Len(dicts) + 1 /\ Return
          \/ /\ read_dict_g # NULL /\ ~Freed(read_dict_g)
             /\ dicts' = HeldOnceMore(read_dict_g) /\ UNCHANGED read_dict_g /\ Return
          \/ /\ read_dict_g # NULL /\ Freed(read_dict_g)
             /\ st' = "freed" /\ UNCHANGED <<dicts, read_dict_g, raised>>
       /\ UNCHANGED <<list_g, sim_map_read, sim_map_write, usage_map, write_dict_g>>
GetWrites ==
  IF sim_map_write = NULL THEN Raise
  ELSE /\ \/ /\ write_dict_g = NULL
             /\ dicts' = NewDict(sim_map_write) /\ write_dict_g' = Len(dicts) + 1 /\ Return
          \/ /\ write_dict_g # NULL /\ ~Freed(write_dict_g)
             /\ dicts' = HeldOnceMore(write_dict_g) /\ UNCHANGED write_dict_g /\ Return
          \/ /\ write_dict_g # NULL /\ Freed(write_dict_g)
             /\ st' = "freed" /\ UNCHANGED <<dicts, write_dict_g, raised>>
       /\ UNCHANGED <<list_g, sim_map_read, sim_map_write, usage_map, read_dict_g>>

(* A mistake: the maps are kept.                                               *)
FinishKeepsMaps ==
  LET both == {read_dict_g, write_dict_g}
  IN  IF NULL \in both THEN Die("segv")
      ELSE IF \E d \in both : Freed(d) THEN Die("freed")
      ELSE /\ read_dict_g' = NULL /\ write_dict_g' = NULL
           /\ dicts' = [d \in DOMAIN dicts |->
                          IF d \in both THEN [dicts[d] EXCEPT !.shows = <<>>] ELSE dicts[d]]
           /\ Return
           /\ UNCHANGED <<list_g, usage_map, sim_map_read, sim_map_write>>
(* finish: simulate_finish, and PyDict_Clear of both dictionaries.             *)
Finish ==
  LET both == {read_dict_g, write_dict_g}
  IN  IF NULL \in both THEN Die("segv")
      ELSE IF \E d \in both : Freed(d) THEN Die("freed")
      ELSE /\ sim_map_read' = NULL /\ sim_map_write' = NULL
           /\ read_dict_g' = NULL /\ write_dict_g' = NULL
           /\ dicts' = [d \in DOMAIN dicts |->
                          IF d \in both THEN [dicts[d] EXCEPT !.shows = <<>>] ELSE dicts[d]]
           /\ Return
           /\ UNCHANGED <<list_g, usage_map>>

(* Python gives up its references to ds (external).                            *)
Released(ds) ==
  [d \in DOMAIN dicts |->
     IF d \in ds THEN [dicts[d] EXCEPT !.refs = @ - 1, !.held = @ - 1] ELSE dicts[d]]
Release(ds) ==
  IF \E d \in ds : Freed(d) THEN Die("freed")
  ELSE dicts' = Released(ds) /\ UNCHANGED <<globals, raised, st>>

(* A script that makes any call at any time.                                   *)
MayGet(d) == IF d = NULL THEN Len(dicts) < MaxDicts ELSE dicts[d].held < MaxHeld
MayList(map) == IF map = NULL THEN TRUE ELSE Len(map) < MaxListed
Script ==
  /\ st = "run"
  /\ \/ \E f \in Files \cup {BadArguments} : InitItems(f)
     \/ MayList(sim_map_read) /\ MayList(sim_map_write) /\ Simulate
     \/ FreeItems
     \/ MayGet(read_dict_g) /\ GetReads
     \/ MayGet(write_dict_g) /\ GetWrites
     \/ Finish
     \/ \E d \in DOMAIN dicts : dicts[d].held > 0 /\ Release({d})
=============================================================================
