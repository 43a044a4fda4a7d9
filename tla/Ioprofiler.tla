------------------------------ MODULE Ioprofiler ------------------------------
(* ioprofiler (ioprofiler/ioprofiler, newFileOpened) as the user of PyModule:  *)
(* one step per statement that calls the extension or drops what it returned.  *)
(* A script may be its user instead.                                           *)
EXTENDS PyModule

CONSTANTS Opened,   \* the files the user opens with ioprofiler
          MaxOpens, \* bound: how often the user does
          Clients   \* a subset of {"ioprofiler", "script"}
ASSUME OpenedAssumption == Opened \subseteq Files /\ MaxOpens \in Nat

VARIABLES
  client,
  fileName,        \* self.fileName, or NULL
  reads, writes,   \* the local variables of newFileOpened, or NULL
  data,            \* the two dictionaries in self.dataHolder, or <<>>
  pc               \* the call that comes next, or "idle"
appvars == <<client, fileName, reads, writes, data, pc>>
allvars == <<modvars, appvars>>

AppInit ==
  /\ Init /\ client \in Clients
  /\ fileName = NULL /\ reads = NULL /\ writes = NULL /\ data = <<>> /\ pc = "idle"

-----------------------------------------------------------------------------
(* A mistake: finish is not called.                                            *)
SkipsFinish(f) ==
  /\ pc = "idle" /\ fileName' = f /\ pc' = "init"
  /\ UNCHANGED <<modvars, client, reads, writes, data>>
(* A second file is opened after finish(), where an exception would end        *)
(* newFileOpened; it raises none.                                              *)
OpenFile(f) ==
  /\ pc = "idle"
  /\ IF fileName = NULL THEN UNCHANGED modvars ELSE Finish
  /\ fileName' = f /\ pc' = "init"
  /\ UNCHANGED <<client, reads, writes, data>>

(* An exception goes back to the event loop, and the local variables go.       *)
Then(next) == pc' = IF raised' THEN "idle" ELSE next

CallInit     == pc = "init" /\ InitItems(fileName) /\ Then("simulate")
                /\ UNCHANGED <<client, fileName, reads, writes, data>>
CallSimulate == pc = "simulate" /\ Simulate /\ Then("free")
                /\ UNCHANGED <<client, fileName, reads, writes, data>>
CallFree     == pc = "free" /\ FreeItems /\ Then("reads")
                /\ UNCHANGED <<client, fileName, reads, writes, data>>
CallReads    == pc = "reads" /\ GetReads /\ Then("writes") /\ reads' = read_dict_g'
                /\ UNCHANGED <<client, fileName, writes, data>>
CallWrites   == pc = "writes" /\ GetWrites /\ Then("set") /\ writes' = write_dict_g'
                /\ UNCHANGED <<client, fileName, reads, data>>
(* setData, and the old dictionaries are given up.                             *)
SetData ==
  /\ pc = "set" /\ Release(Range(data))
  /\ data' = <<reads, writes>> /\ reads' = NULL /\ writes' = NULL /\ pc' = "idle"
  /\ UNCHANGED <<client, fileName>>

Continue == /\ st = "run" /\ client = "ioprofiler"
            /\ CallInit \/ CallSimulate \/ CallFree \/ CallReads \/ CallWrites \/ SetData
UserOpens == /\ st = "run" /\ client = "ioprofiler" /\ Len(dicts) < 2 * MaxOpens
             /\ \E f \in Opened : OpenFile(f)
AppNext == UserOpens \/ Continue \/ (client = "script" /\ Script /\ UNCHANGED appvars)

(* newFileOpened runs on the thread of the event loop to its end.              *)
AppSpec == AppInit /\ [][AppNext]_allvars /\ WF_allvars(Continue)

-----------------------------------------------------------------------------
TypeOK ==
  /\ list_g = NULL \/ \E f \in Files \cup {BadArguments} : list_g = f.items
  /\ \A map \in {sim_map_read, sim_map_write} :
       map = NULL \/ \A i \in DOMAIN map : map[i] \in STRING
  /\ usage_map \in {NULL, "freed"}
  /\ \A d \in {read_dict_g, write_dict_g, reads, writes} : d \in DOMAIN dicts \cup {NULL}
  /\ Range(data) \subseteq DOMAIN dicts \ {reads, writes} /\ Len(data) \in {0, 2}
  /\ \A d \in DOMAIN dicts : dicts[d].refs \in 0 .. 1 /\ dicts[d].held \in 0 .. MaxHeld
  /\ raised \in BOOLEAN /\ st \in {"run", "segv", "freed"}
  /\ pc \in {"idle", "init", "simulate", "free", "reads", "writes", "set"}

(* A dictionary that is kept in a global never outlives the maps it was made   *)
(* from (finish drops both), and while Python has it, it shows what the maps   *)
(* showed at some time since: a script never sees transfers of an earlier      *)
(* trace among those of the present one.                                       *)
DictOfMap(d, map) ==
  d # NULL => map # NULL /\ (~Freed(d) => IsPrefix(dicts[d].shows, map))
DictsOfMaps == DictOfMap(read_dict_g, sim_map_read) /\ DictOfMap(write_dict_g, sim_map_write)

(* The extension hands out references that it does not count.  ioprofiler      *)
(* never uses a dictionary that Python has freed: it has a reference to each   *)
(* that a global still points to, and drops it only after finish.              *)
ProfilerHoldsDicts ==
  client = "ioprofiler" =>
    /\ st # "freed"
    /\ \A d \in {read_dict_g, write_dict_g} \ {NULL} : ~Freed(d) /\ d \in Range(data) \cup {reads, writes}
    /\ \A d \in DOMAIN dicts : dicts[d].refs = dicts[d].held

(* ioprofiler is a viewer of traces: what it shows is what the extension's     *)
(* dictionaries hold, which finish() empties.                                  *)
Nothing == [reads |-> <<>>, writes |-> <<>>]
ContentsOf(f) ==
  IF f = NULL THEN Nothing
  ELSE [reads |-> NamesOf(f.items, "read"), writes |-> NamesOf(f.items, "write")]
Shown == IF data = <<>> THEN Nothing
         ELSE [reads |-> dicts[data[1]].shows, writes |-> dicts[data[2]].shows]
View == INSTANCE TraceViewer
          WITH Openable <- Opened, None <- NULL, Contents <- ContentsOf,
               opened <- fileName, shown <- Shown
Viewer == View!ViewSpec

(* No file the user opens ends ioprofiler.                                     *)
ProfilerSurvives == client = "ioprofiler" => st = "run"
=============================================================================
