---------------------------- MODULE StraceInput ----------------------------
(***************************************************************************)
(* The reader of strace -f output (in_strace.c): strace_get_items feeds    *)
(* the lines one by one to strace_process_line, which appends the calls it *)
(* knows to list and keeps the first halves of calls that strace split in  *)
(* two (" <unfinished ...>", "resumed> ") in the hash table ht by pid.     *)
(*                                                                         *)
(* The lines come from traced processes (external): a call is printed in   *)
(* one line or, when something else is printed before it ends, in two.     *)
(* What a line says is kept as the numbers of the calls its halves belong  *)
(* to, so that a mixed-up call shows.                                      *)
(***************************************************************************)
EXTENDS Naturals, Sequences

CONSTANTS
  Pids,
  MaxCalls,    \* bound: calls the processes make
  Attach,      \* tracing starts while calls are in flight (strace -p)
  Kills,       \* processes vanish in the middle of a call
  ReusePids,   \* the pid of a vanished process is used again
  Words,       \* some file names contain "unfinished" or "resumed"
  Spaced,      \* strace prints "resumed> ", with the space, always
  NoLine,      \* ht has no item for the pid
  Idle,        \* the process is in no call
  Gone         \* the process has vanished

ASSUME SwitchAssumption == {Attach, Kills, ReusePids, Words, Spaced} \subseteq BOOLEAN
ASSUME BoundAssumption == MaxCalls \in Nat

(* "open" stands for the calls whose arguments strace prints when they     *)
(* start, "read" for those whose data it prints when they end, "futex" for *)
(* the calls ioapps does not know.                                         *)
Ops == {"open", "read", "futex"}
GetOperationCode(op) == IF op \in {"open", "read"} THEN op ELSE "unknown"
Known(op) == GetOperationCode(op) # "unknown"

(* A word of an argument that the reader takes for a mark of strace.  The  *)
(* searches run over the data of reads and writes too; with -s0, as traces *)
(* are to be taken (README), strace prints none of it.  So reads have no   *)
(* word here, in their own lines, their second halves and joined lines: an *)
(* "unfinished" in a second half would leave its first half in the table.  *)
NameWords(op) == IF Words /\ op = "open" THEN {"none", "unfinished", "resumed"} ELSE {"none"}

Calls == [pid : Pids, op : Ops, word : {"none", "unfinished", "resumed"}, id : Nat]
ASSUME SentinelAssumption == Idle \notin Calls /\ Gone \notin Calls /\ Idle # Gone

(* A stored line: the first half of a call; marked while the text          *)
(* " <unfinished ...>" is in it.                                           *)
Stored == [pid : Pids, op : Ops, word : {"none", "unfinished", "resumed"}, id : Nat,
           marked : BOOLEAN]
ASSUME NoLineAssumption == NoLine \notin Stored

(* An item of the list: whose arguments and whose result it has.           *)
Items == [pid : Pids, op : Ops, args : Nat, res : Nat]

VARIABLES
  cur,     \* pid -> the call strace has printed the first half of, Idle or Gone
  next,    \* number of the next call
  done,    \* history: the calls whose two halves and value are in the trace
  plain,   \* history: no line so far has a mark of strace in a name, or a
           \* "resumed>" without its space
  ht, list
vars == <<cur, next, done, plain, ht, list>>

-----------------------------------------------------------------------------
(* strace_read_unfinished: the first line of a pid is kept, a second one   *)
(* is only complained about.                                               *)
ReadUnfinished(h, c, marked) ==
  IF h[c.pid] # NoLine THEN h
  ELSE [h EXCEPT ![c.pid] = [pid |-> c.pid, op |-> c.op, word |-> c.word, id |-> c.id,
                             marked |-> marked]]

(* The part of strace_read_resumed for a line without "resumed> ": the     *)
(* stored line stays, cut off before its mark.                             *)
CutsNothing(h, pid) == h
CutStored(h, pid) ==
  IF h[pid] = NoLine THEN h ELSE [h EXCEPT ![pid].marked = FALSE]

(* The parsers strace_read_...: they need a value after "=", and the data  *)
(* of a read come with the half that ends it.                              *)
ParsesAlways(first, rest, valued) == TRUE
Parses(first, rest, valued) == valued /\ (first = "read" => rest = "read")

(* A line that names a call in full, read from the file or put together    *)
(* from two halves: args and res are the numbers of the calls they belong  *)
(* to, rest is the operation the second half was printed for.              *)
ProcessWhole(h, l, c, res, rest, valued) ==
  IF ~Known(c.op) THEN [ht |-> h, list |-> l]
  ELSE IF c.word = "unfinished" THEN [ht |-> ReadUnfinished(h, c, FALSE), list |-> l]
  ELSE IF c.word = "resumed" THEN [ht |-> CutStored(h, c.pid), list |-> l]
  ELSE IF ~Parses(c.op, rest, valued) THEN [ht |-> h, list |-> l]
  ELSE [ht |-> h, list |-> Append(l, [pid |-> c.pid, op |-> c.op, args |-> c.id, res |-> res])]

(* strace_process_line of a first half, and of a second half, which ends   *)
(* in strace_read_resumed: the stored line leaves the table before the     *)
(* joined line is processed.                                               *)
StoresCall(h, c) == [h EXCEPT ![c.pid] = c]
ProcessFirst(h, c) == IF Known(c.op) THEN ReadUnfinished(h, c, TRUE) ELSE h

ProcessRest(h, l, c, spaced, valued) ==
  IF ~Known(c.op) \/ h[c.pid] = NoLine THEN [ht |-> h, list |-> l]
  ELSE IF ~h[c.pid].marked THEN [ht |-> h, list |-> l]
  ELSE IF ~spaced THEN [ht |-> CutStored(h, c.pid), list |-> l]
  ELSE ProcessWhole([h EXCEPT ![c.pid] = NoLine], l, h[c.pid], c.id, c.op, valued)

-----------------------------------------------------------------------------
NewCall(p, op, word) == [pid |-> p, op |-> op, word |-> word, id |-> next]
MayStart(p) == cur[p] = Idle \/ (ReusePids /\ cur[p] = Gone)
MayPrint(c, valued) == IF valued /\ Known(c.op)
                       THEN Append(done, [pid |-> c.pid, op |-> c.op, args |-> c.id, res |-> c.id])
                       ELSE done

(* With strace -p the first lines of calls in flight are not in the trace: *)
(* they have number 0.                                                     *)
Init ==
  /\ cur \in [Pids -> {Idle} \cup
        (IF Attach THEN [pid : Pids, op : Ops, word : {"none"}, id : {0}] ELSE {})]
  /\ \A p \in Pids : cur[p] # Idle => cur[p].pid = p
  /\ next = 1 /\ done = <<>> /\ plain = TRUE
  /\ ht = [p \in Pids |-> NoLine]
  /\ list = <<>>

(* A call printed in one line.  Without a value ("= ?") it was interrupted *)
(* by a signal.                                                            *)
WholeLine(p) ==
  \E op \in Ops, valued \in BOOLEAN : \E word \in NameWords(op) :
    LET c == NewCall(p, op, word)
        r == ProcessWhole(ht, list, c, c.id, c.op, valued)
    IN  /\ MayStart(p) /\ next <= MaxCalls
        /\ ht' = r.ht /\ list' = r.list
        /\ done' = MayPrint(c, valued) /\ plain' = (plain /\ word = "none")
        /\ next' = next + 1
        /\ cur' = [cur EXCEPT ![p] = Idle]

FirstHalf(p) ==
  \E op \in Ops : \E word \in NameWords(op) :
    /\ MayStart(p) /\ next <= MaxCalls
    /\ ht' = ProcessFirst(ht, NewCall(p, op, word))
    /\ cur' = [cur EXCEPT ![p] = NewCall(p, op, word)]
    /\ next' = next + 1 /\ plain' = (plain /\ word = "none")
    /\ UNCHANGED <<done, list>>

Spacings == IF Spaced THEN {TRUE} ELSE BOOLEAN

SecondHalf(p) ==
  \E valued \in BOOLEAN, spaced \in Spacings :
    LET r == ProcessRest(ht, list, cur[p], spaced, valued)
    IN  /\ cur[p] \notin {Idle, Gone}
        /\ ht' = r.ht /\ list' = r.list
        /\ done' = IF cur[p].id = 0 THEN done ELSE MayPrint(cur[p], valued)
        /\ cur' = [cur EXCEPT ![p] = Idle] /\ plain' = (plain /\ spaced)
        /\ UNCHANGED next

Vanish(p) ==
  /\ Kills /\ cur[p] \notin {Idle, Gone}
  /\ cur' = [cur EXCEPT ![p] = Gone]
  /\ UNCHANGED <<next, done, plain, ht, list>>

Next == \E p \in Pids : WholeLine(p) \/ FirstHalf(p) \/ SecondHalf(p) \/ Vanish(p)
Spec == Init /\ [][Next]_vars

-----------------------------------------------------------------------------
TypeOK ==
  /\ cur \in [Pids -> Calls \cup {Idle, Gone}]
  /\ next \in Nat \ {0}
  /\ done \in Seq(Items) /\ plain \in BOOLEAN
  /\ ht \in [Pids -> Stored \cup {NoLine}]
  /\ list \in Seq(Items)

(* strace_get_items: every known call whose value the trace shows is in    *)
(* the list, in the order in which the calls ended, and nothing else is,   *)
(* however strace split them and whatever process vanished meanwhile, up   *)
(* to the first line that the reader can take for another.                 *)
ListIsDone == plain => list = done

(* No item has the arguments of one call and the result of another.        *)
NoMixedCall == \A i \in 1..Len(list) : list[i].args = list[i].res

(* A stored half waits only for its own second half: when its process is   *)
(* in no call, no half of it is kept to be joined with a later one.        *)
NothingStale == \A p \in Pids : cur[p] = Idle => ht[p] = NoLine \/ ~ht[p].marked
=============================================================================
