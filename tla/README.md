# Verification of ioapps

ioapps records the I/O of programs with strace and does two things with the
trace: `ioreplay` makes the recorded calls again (or checks what they would
need), and `ioprofiler` shows what they read and wrote. This directory has TLA+
modules of its core, TLC configurations and TLAPS proofs. Sources are named
relative to `src/`.

## 1. The system

| Part | State | Operations | Used by |
|---|---|---|---|
| Descriptor tables, `fdmap.c` on `adt/hash_table.c` | `fd_mappings`: pid -> table; a table: recorded fd -> `fd_item_t`; `fd_map_t` shared by duplicated descriptors, with the list `parent_fds`; `usage_map`: real fd -> count | get, new, duplicate a table; increase, decrease a count; insert, delete a parent | replay handlers |
| Replay, `replicate.c` | the tables, `global_parent_pid`, made-up pipe and socket numbers, the clock counters | one handler per recorded call, `replicate_missing_ht` and `replicate_get_fd_map` for calls the trace lacks, the loop `replicate` | `ioreplay.c`, `ioappsmodule.c` |
| strace reader, `in_strace.c` | the list of records, the table of half lines by pid | `strace_process_line`, `strace_read_unfinished`, `strace_read_resumed`, one parser per call | `ioreplay.c`, `ioappsmodule.c`, `count.c` in part |
| Binary format, `in_binary.c` | files | save and load, one pair per call | `ioreplay.c`, `ioappsmodule.c` |
| Simulation, `simulate.c` | read and write maps by file name, `cur_pos` of each `fd_map_t` | called by the replay handlers instead of the system calls | `replicate.c`, `ioappsmodule.c` |
| Simulated file system, `simfs.c` on `adt/fs_trie.c` | a trie of names, filled from the disk; each node physical, virtual or created | access, stat, mkdir, rmdir, unlink, creat | `replicate.c`, `simulate.c` |
| File name mapping, `namemap.c` | names to ignore, names to replace | load, look up | replay handlers |
| Waits between calls, `REPLICATE` in `replicate.c` | when the last call ended, in the trace and now, by the processor's counter | before and after every handler | `replicate` |
| Records, `in_common.c`, `adt/list.c` | linked list of records | allocation, append, remove | all |
| Statistics and output, `stats.c`, `print.c`, `count.c` | counters | sums | `ioreplay.c`, `in_strace.c` |
| Python module, `ioprofiler/ioappsmodule.c` | one global list and the simulation | init, simulate, get, free, in that order | the `ioprofiler` GUI |

The program is sequential. What is concurrent is what it is told about: the
traced processes, whose calls overlap, which strace reports in the order of
their ends and sometimes in two halves, which share, copy, duplicate and close
descriptors, fork and end. The hard part of the code is to follow their
descriptors with one process of its own. What makes it correct:

* *descriptor tables*: no item with a freed `fd_map_t`; a mapped descriptor is
  open; a real descriptor is closed with its last user, not sooner or later;
* *replay*: a recorded descriptor stands for the same file in the replayer as
  it had in its process; a call of one process does not disturb another; a
  trace that starts late is survived;
* *strace reader*: each known call appears once, with its own arguments and its
  own result, in the order of the ends of the calls;
* *binary format*: loading gives back what was saved, and a file that was cut is
  noticed;
* *waits*: no call is made before its time, and the replay ends;
* *simulation*: the byte ranges listed are those the kernel read or wrote;
* *simulated file system*: it complains about the calls that would end
  otherwise, and about what is missing only once, and reports what the trace needs to exist before it
  starts, and nothing it creates itself;
* *names*: a file is looked up under the same name whatever the call wrote;
* *Python module*: `ioprofiler` shows what is in the file opened last, and no
  dictionary is used after Python freed it.

The places where this is hard to test are under `hazards` in `PROJECT.json`.

## 2. Modules

```
FdMap ---- Replicate ---- TracedReplay ---- MCTracedReplay
                |               |
                |         TracedProcesses (INSTANCE K)
                +---- MCReplicate
                +---- ReplicateProofs ---- TracedReplayProofs (and TracedReplay)
StraceInput ---- MCStraceInput, StraceInputProofs
BinaryFormat --- MCBinaryFormat, BinaryFormatProofs
Timing --------- MCTiming, TimingProofs
Positions ------ MCPositions, PositionsProofs
SimFs -----------+
AbsoluteName ----+-- SimNames ---- MCSimFs, SimFsProofs
                                      +---- SimFsChain
PyModule ------- Ioprofiler ---- MCIoprofiler
                     +---- IoprofilerProofs
                     +---- TraceViewer (INSTANCE View, the abstract specification)
```

**FdMap** has the functions of `fdmap.c` as operators on a record of the
program's state. A table is named by the pid it was made for. Items are chains
per recorded descriptor because `hash_table_insert` appends without looking for
an item of the same key, `hash_table_find` returns the first one and
`hash_table_remove` removes only the first one. An `fd_map_t` is a heap cell
named by the table and descriptor it was made for and a generation; a freed one
is `Nil`. `parent_fds` is a set with at most `MaxParents` elements (`MAX_PARENT_IDS`, 20
in the code). `my_fd` of a pipe end, a socket, a standard or an ignored
descriptor is `Virtual`: the code keeps numbers there that it never gives to
the kernel.

**Replicate** is `ioreplay -r`. Each handler is an operator from state to state, so
that a handler that calls another one (`replicate_dup` calls `replicate_close`,
`replicate_get_fd_map` calls `replicate_open`, `replicate_missing_ht` calls
`replicate_clone`) is written as it is in the code, and is one action on any pid
and descriptor. `st` says why the replayer died: a failed assertion, a NULL
table, an `fd_map_t` used after it was freed. Bits of the environment are
constants: whether `-d` is given (`FixMissing`), whether the trace has calls on
fd -1 (`MinusOne`) or `dup2(fd, fd)` (`DupSelf`), and whether open and close
of the replayer may fail. `"bound"` in `st` is the end of the model's heap and
never of the program's; such states are not extended.

**TracedProcesses** is the environment, external to the repository: processes
with descriptor tables as the kernel keeps them. A call has its effect in one
step and is reported in another, so that calls overlap; with `InOrder` they do not.
**TracedReplay** feeds the reports to the handlers. Its property `SameFile`
compares the descriptor tables of the two sides.

**StraceInput** is the reader. The text of a line is left out; what is kept is
which call a line belongs to, whether it is a whole call or a half, whether the reader
knows the operation, whether the line has a value after `=`, and whether it has
one of the words the reader searches for. The parsers are one operator,
`Parses`: they need a value, and those of the reads need the data that strace
prints with the second half. The code searches the whole line for "unfinished" and "resumed"; in the
model only the name of an open can have these words, since traces are recorded with `-s0` (`src/README`),
which leaves no data of reads and writes in a line.

**Positions** is `ioreplay -M` and what the Python module shows. Its state has two
sides: the `fd_map_t` of each recorded descriptor with its `cur_pos`, and the
open file description the descriptor has in the kernel, with its offset. Each
call moves both, the first as the handlers of `replicate.c` do under
`ACT_SIMULATE`, the second as the kernel does (external). `append` has the descriptions
that were opened with `O_APPEND`: there the kernel puts the bytes of a write, and of a pwrite, at the
end of the file, which may be anywhere (`WriteAtEnd`, `PwriteAtEnd`). The code has the flag in the
record (`in_common.c:358`), does not look at it and goes on from `cur_pos`. What
`simulate_append_rw` lists for a call is compared with the transfers its kernel
made, so that no list of past calls is needed: `exact` holds the outcome. `skewed` has
the `fd_map_t`s that cannot know the offset any more: after a failed read, write
or lseek (the result -1 is added to or put in `cur_pos`), after a short or
failed sendfile (the size asked for is added), after a write with `O_APPEND` to an end of file that is
not where `cur_pos` was, and after another process moved a
description that a fork shares (`duplicate_process_ht` copies the
`fd_map_t`). An lseek brings it back. The lifetime of an `fd_map_t`, which is Replicate's
subject, is that of the items that point to it.

**SimFs** is `ioreplay -C`. A path is an element of a tree of names given by
`Parent` and `Above`; the trie maps it to none, physical, virtual or made. `rec` is the
file system on which the trace was recorded and `disk` the one it is checked on; both
start as any tree. `own` (ghost) is the disk to which all was added that calls made and
that was found missing: after such a complaint the records that make the call succeed
exist, as the comment in `simfs.h` says, and nothing is missing twice.
The answer of a handler is compared with what the call would do on `own`. Files whose deletion a
complaint asks for stay in `own`, since they stay on the disk. Names have no slash at the end and are not `/`.
What the functions return is read by no caller in `simulate.c` and left out (`simfs_access` has
an end that returns an unset value). A recorded `rmdir` changes the recorded
file system only: the reader does not know the call, although `src/README:62` lists it, and
`bin_save_rmdir`, `replicate_rmdir` and `simfs_rmdir` are never reached.
**SimFsChain** puts beside it what the comment in `simfs.h` also promises, "this way, one error doesn't
cause chain of other related problems": `promised` is the disk with every complaint settled, those
that ask to delete a file too.

**AbsoluteName** is `simfs_absolute_name`, on strings as sequences of characters,
because the function works on characters and that is what goes wrong in it:
it searches the whole string for `/..` and then for `/.`, whatever the part of the name is that
begins so. A name is a list of parts, `Render` the string of it. The two loops are recursive
functions on strings, which the proofs need (a `RECURSIVE` operator would be out of their reach).
`Meaning` is what the kernel makes of a name.
**SimNames** puts it together with SimFs: `Misnamed` are the places that some
name is not looked up at, and `KnownIsFound` says that the trie has no node for
such a place.

**BinaryFormat** saves a list (`bin_save_items`) and then loads the file in a later run
(`bin_get_items`), one field at a step. The formats are tables: `Saved...` are the
`bin_write_`s of each `bin_save_x`, `Loaded...` the `bin_read_`s of each
`bin_read_x`, `Struct` the widths of the members in `common.h`; the two sides
are transcribed separately and the properties compare them. Integers are
their bytes, so that a byte of a number can be taken for the character of a record. Between
saving and loading the file is cut to any length `kept`: a write failed, the flush of
`fclose` failed (which the code does not notice, so `saved` is `"ok"`), or the program was stopped.
`Damage` (external) changes one byte of a saved file; a length that is too large then makes the loader
leave its buffer (`ReadOverruns`). The lists have no removed directory: no reader makes its record.

**Timing** is the macro `REPLICATE` around every handler. Times are numbers; the
time since a reading of the counter is kept modulo `WRAP`, since it is computed from a
64-bit product of counts, and a duration modulo `DUR_WRAP`. `gap` and `offset` are the
true times (history), up to `CAP`. How long a call, or the way from one reading
of the counter to the next, takes is chosen from a set.

**PyModule** is `ioappsmodule.c`, one action per function, with its globals and the
reference counts of the dictionaries: `refs` is the count of Python, `held` the references that
Python code has. `get_reads` keeps a dictionary in a global without counting it.
A `"fatal"` record of a trace stands for one on which `replicate()` ends the program (section 3 names
some). The references of `None`, which the functions return without counting it
(`ioappsmodule.c:80`, 104, 119, 247 and 258), are not modelled.
**Ioprofiler** is `newFileOpened` of the GUI, one step per statement that calls the
extension, and the references its variables hold; or a script that calls anything at any
time. **TraceViewer** is what the CHANGELOG promises: files are opened any number of
times, and the transfers of the last one are shown in the end. `Viewer`
says that Ioprofiler implements it, with the file name as `opened` and the
contents of the shown dictionaries as `shown`.

## 3. Runs

All configurations say `CHECK_DEADLOCK FALSE`: a trace ends, the replayer
stops when it died, a file is loaded once.

| Run | Bounds | Shows |
|---|---|---|
| MCReplicate | 2 pids, 2 fds, 2 real fds, 3 generations, counts up to 3; failed clones, calls on fd -1, opens that fail | every handler on any trace: `NoUseAfterFree`, `ParentFdsCoverItems`, `MappedFdsAreOpen`, `UsageCoversUsers`, `OneTableChanges` |
| MCThreads | 3 pids, 3 real fds; the records that MCReplicate leaves out | without fork and pipes nothing dies (`NeverDies`) and counts are exact (`UsageExact`) |
| MCTracedReplay | 2 processes that may end, 2 fds, 2 files, 4 real fds, pipes | `SameFile`, `NothingInvented` |
| MCStraceInput | 2 pids, 4 calls, marks in names, resumed lines of another form, kills, tracing that starts late | `ListIsDone`, `NoMixedCall`, `NothingStale` |
| MCPositions | 2 processes, 2 fds, 1 file, opened with `O_APPEND` or without, and sockets, positions 0..1, calls of 1 byte, 1 skewed position | `PositionsExact`, `TransfersExact` |
| MCSimFs | names `d`, `d/x`, `d/e`, `d/e/y`, every pair of trees; names of up to 4 parts, among them `.`, `..` and `..x` | `TrieFollowsDisk`, `AlarmExact`, `ReportExact`, `KnownIsFound` |
| MCBinaryFormat | one record of every kind with names of 0, 1 and 3 characters, pairs of records; cut anywhere, byte 1, 2 or 5 damaged to 0, 105 or 255 | `LoadedAsSaved`, `CutIsNoticed`, `RoundTrip`, `LoadEnds` |
| MCTiming | 3 calls that overlap, start out of order, last longer than `DUR_WRAP` or follow after more than `WRAP`; 4 scales; 3 modes | `NeverEarly`, `WaitsOnlyIfEarly`, `ShortTraceEnds` |
| MCIoprofiler | 4 openings of 2 files; a script with 6 files, among them a missing, a cut, an empty and a fatal one, 3 dictionaries, 2 references to each, maps of 3 | `DictsOfMaps`, `ProfilerHoldsDicts`, `Viewer` |
| VDupAfterFork | 2 pids, 2 fds | counterexample to `InsertNeverAsserts` |
| VChain | the tree of MCSimFs; `stat` and `mkdir` | counterexample to `NoChain` |
| VReopen | a file that is there and one that is not | counterexample to `ProfilerSurvives` |

Two descriptors are enough for a duplicate and what it duplicates, two pids for a
parent and a child or two threads, and three real descriptors for one that is
free while two are used. Three generations hold an original, a duplicate and
the copy that a fork makes of both. Four calls of two pids hold a whole call
between the halves of another, and a later call of the same pid after a lost one.
MCReplicate's records leave out the reads, writes and seeks that MCThreads has: they
look up a descriptor and change no table, as `read` and `sendfile` do, which both runs have.
In MCSimFs a
file and a directory share a parent, and the directory has a file below it, so that a
missing path can lack one name or two and a deleted node can have another below
it. In MCPositions a byte is enough to tell a position from the next, and one
`fd_map_t` at a time may be skewed (`WithinBound`): the others have to stay exact
beside it. The trace of a save and a load is fixed by its list, so MCBinaryFormat
varies the lists: every member holds bytes of its own, with 0, 255 and the character
of a record among them, so that a swapped, shortened or misplaced
field is seen. The damaged bytes are the character of the first record and the lowest and highest byte of the
length behind it; they become one that is no character of a saved record, one that is the end of file to the
code, or a number that is negative, too large or too small. In MCTiming `WRAP` and `DUR_WRAP` are 8 and `SLACK` 2, and times go beyond
twice `WRAP` (`CAP` is 24). In MCIoprofiler four openings show a file twice with another between.

The three runs whose name begins with V find the counterexamples of the findings
in `PROJECT.json`:

* VDupAfterFork: a duplicate in a forked child can reach an assertion that is commented
  as impossible;
* VChain: a call that failed in the trace on a file that is on the disk gets the complaint "Delete the file";
  the next call, another one that fails or a `mkdir` that succeeds, gets one for the same file,
  because `simfs_populate` finds it on the disk again (`simfs.c:171`);
* VReopen: after a file that cannot be read, opening the next one calls `finish()`
  for dictionaries that were never asked for, which ends ioprofiler.

### The conditions of the passing runs

A property that holds under a condition says so in its definition or in the
constants of its run. These are the conditions, and what the code does outside
them:

* no `dup2(fd, fd)` (`DupSelf`): `replicate_dup` closes its new descriptor first
  and goes on with the `fd_map_t` that this freed (`replicate.c:1138`);
* as many parents as descriptors (`MaxParents`): `insert_parent_fd` drops an fd that does not
  fit in the array, and `delete_parent_fd` then reports the last parent too early
  (`fdmap.c:305`);
* no close that fails in the replayer (`CloseMayFail`): the mapping stays although
  its use was given up, and the replayer may later close a real descriptor another
  item maps (`replicate.c:720`). `NoUseAfterFree` and `ParentFdsCoverItems` are
  proved with such closes too;
* no calls on fd -1 where `NeverDies` is checked (`MinusOne`): `ht_hash_int`
  asserts a key that is not negative (`adt/hash_table.c:49`);
* a trace without fork and pipes where `NeverDies` and `UsageExact` are checked: a fork by
  a process that the trace has not shown copies a NULL table (`replicate.c:675`),
  and a pipe is counted under its recorded numbers, as a use of real descriptors that
  nothing gives up (`replicate.c:527`);
* in MCTracedReplay, real descriptors with other numbers than the recorded ones, for
  the same reason: with equal numbers a pipe keeps a descriptor of the replayer from
  being closed;
* in TracedReplay, calls that do not overlap (`InOrder`), clones reported before the first call
  of the child, no pid used twice, and no use of stdin: calls are replayed in the order of their
  ends (`in_strace.c:1185`), a child seen first becomes a thread of the first
  process for good (`replicate.c:172`), a new process takes the table of an
  old one with its pid (`replicate.c:663`), and the item of stdin is filed under
  the key of stdout (`replicate.c:1314`). Each leaves other descriptors than
  the recorded ones;
* in StraceInput, `ListIsDone` holds while `plain` does, that is up to the first line with one of the
  reader's marks in a name or the first resumed line of another form, and while no pid
  is used twice (`ReusePids`). After it calls are lost, never mixed;
* in SimFs, `AlarmExact` and `ReportExact` hold while no path was removed and no
  call failed for a reason outside the tree (`clean`): a removed path is looked up
  on the disk again and found there, and `simfs_unlink` reports a path that no call
  had named before as missing (`simfs.c:548`). A failed open with O_CREAT of a file that is
  there is never complained about (`simfs.c:631`). A file that should not be there is complained about at
  every call that it changes (VChain). Names end without a slash and are not the root: the tree gives back no
  name that is equal to one with a slash at its end, so that `open` and `mkdir` of one take a file that is there
  for missing (`simfs.c:603`);
* in AbsoluteName, names as the comments foresee them (`Foreseen`): no part begins with a dot
  but `.` and `..`, and no `.` stands before a `..`, counting the parts of the current directory for
  a name that is not absolute. The root itself is left out (`SpellingAssumption`): `/d/..` becomes
  the empty string. The check is not run in `/` (`PartsAssumption`), where `getcwd` would end in a slash of its own.
  `/h/.profile` is looked up as `/hprofile`, `/h/./../x` as `/h/x`, and `/..x/../y` fails the
  assertion at `simfs.c:106`;
* in Positions, `PositionsExact` holds outside `skewed`, described above, and
  everything up to a sendfile from a file to a socket, "the most likely case"
  (`replicate.c:997`), which reads through a NULL item (`simulate.c:217`) and ends the simulation.
  `TransfersExact` leaves out the write or pwrite that appends: it is listed at `cur_pos` (`replicate.c:338`), which starts
  at 0, or at the recorded offset, wherever the end of the file was. `O_APPEND` is set by open and not by `fcntl`, whose
  records the reader does not know;
* in BinaryFormat, files that are not damaged, but for `LoadEnds`;
* in Timing, waits that the arithmetic can tell from none (`ShortWaits`, `ShortDurs`): with
  `-t exact` a trace of more than 1.7 hours at 3 GHz never ends
  (`replicate.c:143`), and a call of more than 71 minutes makes the next wait too long.
  Scales are not negative (`ScalesAssumption`): `atof` of `-s` would take a sign too;
* in Ioprofiler, files that can be read (`Opened`), with records that do not end `replicate()`; a script may use any file, in
  any order, and `DictsOfMaps` holds for it too. On a fatal record the process is gone: a sendfile from a file to a socket,
  a call on fd -1, or a dup after a fork (VDupAfterFork) in a trace that can be read ends ioprofiler, and `Viewer` does not say
  that such a trace is shown.

### Fairness

* `FairSpec` of Timing has `WF_vars(Next)`: the replayer is one thread that polls the counter
  and never sleeps, so some step always follows. Time passes at every
  reading of the counter because 0 is not in `Delays`.
* `FairSpec` of BinaryFormat has `WF_vars(Load)`: loading waits for nothing but the
  disk. Saving has no fairness, it may be stopped.
* `AppSpec` of Ioprofiler has `WF_allvars(Continue)`: `newFileOpened` runs to its end on the
  thread of the event loop. The user need not open anything.

The other modules have safety only: a handler returns after a bounded number of
steps, and the loop over the records ends with the list. The
fairness in `TraceViewer` is written as leads-to, which TLC can evaluate under the refinement mapping.

## 4. Proofs

For every value of the constants (TLAPS):

* `ReplicateProofs!TypeCorrect`: `Spec => []TypeOK`. Each handler has a lemma
  that it maps records of the state's type to such records; the handlers call each other, and so do the
  lemmas.
* `ReplicateProofs!LinksKept`, `ReplicateProofs!PointerSafety`:
  `Spec => []ParentFdsCoverItems` and `Spec => []NoUseAfterFree`, when
  `MaxParents` is at least the number of recorded descriptors and no descriptor
  is duplicated onto itself. Both conditions are needed (section 3). `NoUseAfterFree` is not inductive: freeing goes by `parent_fds`.
  `ItemsLinked` (every item's descriptor is among the parents of the `fd_map_t` it points to, that
  `fd_map_t` is live and of the item's table, and no chain has it twice) is inductive, and a
  removal frees a cell only when no parent is left, hence when no other item
  points to it.
* `ReplicateProofs!UsageCovers`, `MappedStayOpen`: `Spec => []UsageCoversUsers` and
  `Spec => []MappedFdsAreOpen`, when `MaxParents` has room, no descriptor is duplicated onto
  itself and no close of the replayer fails. `Uses(s, r)` is the set of (table, descriptor)
  pairs whose first item stands for the real descriptor `r`; the invariant is that there are
  never more of them than `usage[r]` says, and that `r` is open if there is one.
  `replicate_close` gives a use up before it removes the item, and closes `r` when that was the last one; the
  proof is the arithmetic of one set that loses or gains one element. A failed
  close breaks it in the code (section 3 and the hazard at `replicate.c:720`).
  The handlers call each other, so the argument is made once, as a closure: a set of states that no new,
  closed or duplicated item and no clone leaves is left by no handler (`HandledKept`). The later
  theorems take other sets of states for it.
* `ReplicateProofs!ThreadsSurvive`: `Spec => []NeverDies` if in addition the maps suffice (`RoomForMaps`), the trace has no
  call on fd -1 and no fork. With fork the assertion of
  `replicate_close` does fail, which is a finding (section 3); threads are what the code gets right.
  Invariant: the converse of `ItemsLinked`, that an `fd_map_t` has no parent without an item, so that each use counted is one held.
* `ReplicateProofs!UsageIsExact`: `Spec => []UsageExact` if there is no pipe either:
  each use counted belongs to an item, hence no real descriptor is leaked.
* `ReplicateProofs!TablesAreApart`: `Spec => OneTableChanges` under the conditions of `UsageCovers`. A handler
  changes the items and real descriptors of its own table, and `usage` keeps what others stand for open.
* `TracedReplayProofs!ReplaysTheSameFiles`: `TracedSpec /\ []RoomToOpen => []SameFile`, the replayer against the
  kernel of the recorded processes, when `MaxParents` has room, calls do not overlap (`InOrder`), no pid is
  used again and descriptor 0 is not among the recorded ones. `RoomToOpen` says that the kernel of the replayer has a descriptor to give
  whenever the trace opens a file; without it `open(2)` fails and the recorded descriptor has nothing to stand for. It is an
  invariant of the instance of `MCTracedReplay` (as many real descriptors as processes have recorded ones), so the hypothesis is not empty. The theorem
  is about replayers that run: after a fork the assertion of `replicate_close` may end one (section 3).
  `SameFile` says nothing while a call is made and not yet reported, and is not inductive. `TracedInv` adds that
  a process that is not forked yet has no table, that no chain has two items (`Short`), and
  that the report of a pending call `Lands`: handled in the state the replayer is in, it
  makes the replayer follow the kernel. Each handler has a lemma on what it makes of its own table (`Sets`) and
  that it leaves the files of all others, which rests on the usage counts above.
* `TracedReplayProofs!InventsNothing`: `TracedSpec /\ []RoomToOpen => []NothingInvented` if in
  addition the maps suffice (`RoomForMaps`), the made-up name is not one of the trace, and recorded
  and real numbers of descriptors are disjoint when there are pipes: `replicate_pipe` counts the
  recorded number, and when a real descriptor has it too, the file made up for `dup2` stays open. With
  `RealFds = {5, 6, 7, 8}` TLC finds the invariant violated by `pipe` 5 6, `close` 5, `dup2` 6 5: a descriptor is leaked, and
  a file created that the trace does not name. Numbers do coincide in real runs, so for traces with pipes the theorem is about the others. `Tidy` says that a
  real descriptor that is not open is not counted and one open on a made-up name is counted once, `Clean` that
  after a record none is open on such a name.
* `StraceInputProofs!InputTypeCorrect`.
* `StraceInputProofs!NoMixing` and `HalvesAreUsed`: `[]NoMixedCall` and `[]NothingStale` while
  no pid is used again, even with marks in file names and resumed lines the
  reader does not recognise. Invariant `MixInv`: a stored half that still has its
  mark belongs to the call its process is in, or the process is gone.
* `StraceInputProofs!ListExact`: `[]ListIsDone` when no pid is used again.
  Invariant `ExactInv`: the table has exactly the first halves of the known calls
  that are under way and whose first half the trace has. It holds as long as `plain` does, and a line that ends
  `plain` ends the claim.
* `SimFsProofs!TypeCorrect`, `TrieAgrees`, `AlarmsAreExact`: `[]TypeOK`,
  `[]TrieFollowsDisk` and `[]AlarmExact` on any tree of names, any pair of file
  systems and any trace under the conditions of section 3. `AlarmExact` speaks of one call and is not inductive. The
  invariant `IInv` adds that the trie is closed under parents and its physical
  nodes are the paths on the disk (`Tree`), that the paths on the disk and those
  with a node are together the disk with what was made or missing (`own = Known(node)`), and
  that a virtual node that is not on the disk exists in the recorded file system
  (`VirtualIsRecorded`). The last is why a complaint that deletes a node and all below
  it never deletes a virtual one, which the disk would not give back.
* `SimFsProofs!ReportIsExact`: `[]ReportExact`, the list printed at the end has
  exactly the leaves the trace needs to be there before it starts. Invariant `Listed`: a node off the
  disk is virtual if the first call that named it or something below it found it, and made if it was
  created. It needs to know how the trie grows in every handler (`GrownBy`), which holds while nothing was removed or denied.
* `SimFsProofs!NamesAreFound`: every foreseen name that is not the root's, of any number of parts of any
  length, is `WellNamed`, that is `simfs_absolute_name` makes the string of its `Meaning`.
  `KnownAreFound`, `Spec => []KnownIsFound`, follows: whatever the trie has nodes for, only the root could be
  misnamed. A recursive function is a `CHOOSE` to the prover, so the argument begins with
  the existence of one that calls itself on a smaller argument (`RecursionExists`, by the least number for
  which it fails). Every cut makes the string shorter, hence both loops end and do what their bodies
  say (`DropUpsIs`, `DropHeresIs`). `FirstUp` finds the first `/..` of a string at its first part `..`: the
  parts before it have no dots. `UpGoes`: cutting it with the part before leaves the string of a shorter list of
  parts with the same place. `UpsGone` and `HeresGone` are the inductions on the number of parts. The proof
  showed that `Chars` had been written with a wrong bracket, which TLC does not notice because it never
  enumerates the set.
* `BinaryFormatProofs!TypeCorrect`, `Faithful`, `CutNoticed` and `WholeList`:
  `[]TypeOK`, `[]LoadedAsSaved`, `[]CutIsNoticed` and `[]RoundTrip` for any
  set of lists. `SaveInv` says where each field of each record starts in the file (`marks`), and that it
  holds the bytes of its member; `LoadInv` that the loader, as long as the file is
  not damaged, stands at the mark of the field it is about to read and has got
  the members before it. The formats enter through a comparison of `SavedEntry` with `LoadedEntry`, kind by kind.
* `TimingProofs!TypeCorrect` and `NotEarly`: `[]TypeOK` and `NeverEarly` for any
  trace, scale, slack, delays and limits of the arithmetic. The invariant is that the computed time since
  a base is never more than the true one, wrapped or not, and that `last_call_orig` is the start of the call before
  plus its duration, wrapped. That a wrapped duration makes the computed gap longer, and a wrapped time the wait, is
  why no condition on the lengths is needed.
* `TimingProofs!WaitsAreDue`: `Spec => WaitsOnlyIfEarly`, a wait begins only when the call is
  early. Invariant `Counted`: as long as no more than the arithmetic holds has passed, the replayer's clock and the gaps of the trace are exact.
* `IoprofilerProofs!TypeCorrect`, `DictsFollowMaps`: `AppSpec => []TypeOK` and
  `[]DictsOfMaps`, for the program and for any script that uses the module.
  Python never frees a dictionary the module fills, because the module keeps the reference it
  was born with; what it drops when it runs again it drops once.
* `IoprofilerProofs!ProfilerIsSafe`: `[]ProfilerHoldsDicts` when no trace that can be read is
  empty (`NoEmptyTrace`): after an empty one `simulate()` frees `usage_map`
  twice. Traces that are missing, cut or end `replicate()` are included. The invariant follows the references that `ioprofiler.py` holds through
  `newFileOpened` (`Profiler`: every count is the number of holders, and the two globals of the module are among what is held).
* `IoprofilerProofs!ShowsOpenFile`: `AppSpec => View!ViewSafety`, the safety part of the refinement:
  what is shown is nothing or the contents of the file opened last, in every state, and changes only by opening or showing.
  `Follows` says which dictionary holds which file's reads or writes at each point of `newFileOpened`.
* `PositionsProofs!TypeCorrect`, `PositionsAreExact` and `TransfersAreExact`: `[]TypeOK`,
  `[]PositionsExact` and `TransfersExact` for any number of processes, descriptors, files and
  positions, with the exceptions for appending writes of section 3. `PositionsExact` speaks of open descriptors and is not inductive: `Kept` adds that an
  item has an `fd_map_t` exactly when its descriptor is open, that a process not forked yet has none
  and that what nothing points to is at 0, as a fresh one must be; `Together` that an `fd_map_t`
  stands for one description wherever it is used. That a fresh `fd_map_t` and a fresh description
  exist (`FreeOne`) is the pigeonhole principle.

The assumptions are those named in the modules (sentinels differ from values,
`Fds` is a finite set of numbers, a part of a name is not empty and has no slash) and the conditions written in each theorem.

Every invariant that the runs check is stated by a theorem. Only model-checked:

* liveness: `LoadEnds`, `ShortTraceEnds`, and that the viewer shows a file in the end
  (`AllShown`, the part of `ViewSpec` that `ShowsOpenFile` leaves out).
* the three runs that expect a violation.

## 5. Not modelled

* **Sizes of `-C`** (`virt_size`, `phys_size` in `simulate.c`): they combine the positions of
  Positions with the nodes of SimFs, and a size per file makes the states of
  either too many for a run of minutes. The code has two weak places there: the size that a pread or pwrite needs is taken
  from `cur_pos` instead of the recorded offset, and a write behind the end of a file is reported as one that would fail.
* **`-r` of access, stat, mkdir, rmdir and unlink**: one system call each,
  whose result is only printed.
* **File name mapping** (`namemap.c`): input of two files and a replacement of names before
  a file is opened. That a file is ignored is in Replicate.
* **The command line** (`ioreplay.c`): it picks a reader and a mode. `-C` or `-M` together with `-t diff`
  or `-t exact` divides by a clock rate that only `-r` measures (`replicate.c:1436`).
* **Texts**: the formats of strace's lines, and with them lines longer than
  `MAX_LINE`, which `fgets` splits; the strings that the trie cuts names into.
* **`parent_fds` as an array** and the other operations of the hash table
  (init, destroy, dump): the set of FdMap has the bound of the array.
* **References of `None`** in `ioappsmodule.c`: each call that returns `Py_None` without counting it takes one
  from a count that Python itself starts with a large one.
* **Removals in SimFs**: the model has them; what complaints should mean after one is
  open, since the code looks removed paths up on the disk again.
* Records and lists as such, statistics, printing, the window of the GUI and the build files: no state that outlives a call.
