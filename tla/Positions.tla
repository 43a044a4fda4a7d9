----------------------------- MODULE Positions -----------------------------
(***************************************************************************)
(* ioreplay -M and the Python module (simulate.c, with the parts of        *)
(* replicate.c that act on ACT_SIMULATE): nothing is replayed, and for     *)
(* every file the reads and writes are listed with the offset they were    *)
(* made at.  The trace has no offsets: they come from cur_pos, which every *)
(* handler moves as it takes the kernel to have done.  One action is one   *)
(* call of the recorded program, made on its kernel's open file            *)
(* descriptions, and its record, simulated at once.                        *)
(*                                                                         *)
(* A table of descriptors maps each to an fd_map; how fd_maps are found    *)
(* and freed is the subject of module Replicate, and one lives here as     *)
(* long as something points to it.  Slots name the fd_maps of their table  *)
(* too: there are never more than slots.                                   *)
(***************************************************************************)
EXTENDS Integers, FiniteSets

CONSTANTS
  Tables,      \* tables of descriptors: one for each forked process
  First,       \* the table of the first process
  Fds,         \* recorded descriptors
  Files,       \* recorded names
  Other,       \* in place of a name: a socket, pipe end or ignored file
  Descs,       \* open file descriptions
  None,        \* no fd_map, no description
  MaxPos,      \* bound: size of the files
  MaxCount,    \* bound: bytes of one call
  MaxSkewed    \* bound: fd_maps that are off at a time

Slots == Tables \X Fds
ASSUME TableAssumption == First \in Tables /\ IsFiniteSet(Slots) /\ None \notin Slots \cup Descs
ASSUME FileAssumption == Other \notin Files
ASSUME PosAssumption == MaxPos \in Nat /\ MaxCount \in Nat

VARIABLES
  born,     \* tables of processes that were forked
  item,     \* slot -> the fd_map of its fd_item
  cur_pos,  \* fd_map -> position
  desc,     \* slot -> open file description (external)
  offset,   \* description -> offset (external)
  file,     \* description -> name (external)
  append,   \* descriptions opened with O_APPEND (external)
  exact,    \* the last call listed just the transfers that its kernel made
  skewed,   \* fd_maps that do not know of what moved their description (ghost)
  st        \* "run", or "segv" when the simulation died
vars == <<born, item, cur_pos, desc, offset, file, append, exact, skewed, st>>

Init ==
  /\ born = {First}
  /\ item = [s \in Slots |-> None] /\ desc = [s \in Slots |-> None]
  /\ cur_pos = [m \in Slots |-> 0] /\ offset = [d \in Descs |-> 0]
  /\ file = [d \in Descs |-> Other] /\ append = {}
  /\ exact = TRUE /\ skewed = {} /\ st = "run"

-----------------------------------------------------------------------------
IsOpen(s) == desc[s] # None
Name(s) == file[desc[s]]
SupportedType(s) == Name(s) # Other
Used(pointer, i) == \E s \in Slots : pointer[s] = i
FreeMap(t) == CHOOSE m \in {t} \X Fds : ~Used(item, m)
Lists(rw, done) == exact' = (rw = done)

(* fd_maps of other slots that are open on the description of s.           *)
Sharers(s) == {item[q] : q \in {q \in Slots : desc[q] = desc[s]}} \ {item[s]}

(* simulate_append_rw, for a call of kind k that moved n bytes at off, and *)
(* the same transfer in the kernel.  Both are sets of records.             *)
Transfer(k, s, off, n) == [kind |-> k, file |-> Name(s), off |-> off, size |-> n]

(* replicate_open and replicate_socket: a fresh fd_map at position 0.  The *)
(* record says whether the file was opened with O_APPEND (atEnd); nothing  *)
(* keeps it.                                                               *)
OpenAs(s, f, atEnd) ==
  /\ s[1] \in born /\ ~IsOpen(s)
  /\ item' = [item EXCEPT ![s] = FreeMap(s[1])]
  /\ \E d \in Descs :
      /\ ~Used(desc, d)
      /\ desc' = [desc EXCEPT ![s] = d]
      /\ file' = [file EXCEPT ![d] = f]
      /\ append' = IF atEnd THEN append \cup {d} ELSE append
  /\ Lists({}, {}) /\ UNCHANGED <<born, cur_pos, offset, skewed, st>>
Open(s) == \E f \in Files, atEnd \in BOOLEAN : OpenAs(s, f, atEnd)
Socket(s) == OpenAs(s, Other, FALSE)

(* fd_maps and descriptions that nothing points to any more are gone.      *)
Release ==
  /\ cur_pos' = [m \in Slots |-> IF Used(item', m) THEN cur_pos[m] ELSE 0]
  /\ skewed' = {m \in skewed : Used(item', m)}
  /\ offset' = [d \in Descs |-> IF Used(desc', d) THEN offset[d] ELSE 0]
  /\ file' = [d \in Descs |-> IF Used(desc', d) THEN file[d] ELSE Other]
  /\ append' = {d \in append : Used(desc', d)}

Close(s) ==
  /\ IsOpen(s)
  /\ item' = [item EXCEPT ![s] = None] /\ desc' = [desc EXCEPT ![s] = None]
  /\ Release /\ Lists({}, {}) /\ UNCHANGED <<born, st>>

(* replicate_dup: both descriptors have one fd_map, as they have one       *)
(* description.                                                            *)
Dup(s, new) ==
  /\ IsOpen(s) /\ new # s /\ new[1] = s[1]
  /\ item' = [item EXCEPT ![new] = item[s]] /\ desc' = [desc EXCEPT ![new] = desc[s]]
  /\ Release /\ Lists({}, {}) /\ UNCHANGED <<born, st>>

(* replicate_clone without CLONE_FILES: duplicate_process_ht gives every   *)
(* item of the child an fd_map of its own, at the position of its parent's *)
(* one; the kernel shares every description.                               *)
SharedMap(t, s) == item[<<t, s[2]>>]
CopiedMap(t, s) == s
Fork(t, u) ==
  LET copied(s) == s[1] = u /\ item[<<t, s[2]>>] # None
      from(s) == item[<<t, s[2]>>]
  IN  /\ t \in born /\ u \notin born
      /\ born' = born \cup {u}
      /\ desc' = [s \in Slots |-> IF s[1] = u THEN desc[<<t, s[2]>>] ELSE desc[s]]
      /\ item' = [s \in Slots |-> IF copied(s) THEN CopiedMap(t, s) ELSE item[s]]
      /\ cur_pos' = [s \in Slots |-> IF copied(s) THEN cur_pos[from(s)] ELSE cur_pos[s]]
      /\ skewed' = {s \in Slots : IF copied(s) THEN from(s) \in skewed ELSE s \in skewed}
      /\ Lists({}, {}) /\ UNCHANGED <<offset, file, append, st>>

-----------------------------------------------------------------------------
(* replicate_read and replicate_write with simulate_read, simulate_write:  *)
(* a failed call is not listed, but its -1 is added to cur_pos all the     *)
(* same; a call of 0 bytes is listed.  The kernel reads and writes at the  *)
(* offset of the description, but writes at the end of the file where the  *)
(* description has O_APPEND.  The end is anywhere: other descriptions and  *)
(* other programs write to the file too.                                   *)
MovedNowhere(s, n) == cur_pos[item[s]]
Moved(s, n) == cur_pos[item[s]] + n

Counts == -1..MaxCount
Use(kind, s, n, off) ==
  /\ IsOpen(s) /\ SupportedType(s)
  /\ off + n <= MaxPos
  /\ cur_pos' = [cur_pos EXCEPT ![item[s]] = Moved(s, n)]
  /\ offset' = IF n = -1 THEN offset ELSE [offset EXCEPT ![desc[s]] = off + n]
  /\ Lists(IF n = -1 THEN {} ELSE {Transfer(kind, s, cur_pos[item[s]], n)},
           IF n = -1 THEN {} ELSE {Transfer(kind, s, off, n)})
  /\ skewed' = skewed \cup (IF n = -1 \/ off # offset[desc[s]] THEN {item[s]} ELSE {})
                      \cup (IF n = -1 \/ off + n = offset[desc[s]] THEN {} ELSE Sharers(s))
  /\ UNCHANGED <<born, item, desc, file, append, st>>
Read(s) == \E n \in Counts : Use("read", s, n, offset[desc[s]])
Write(s) == \E n \in Counts :
  /\ desc[s] \in append => n < 1
  /\ Use("write", s, n, offset[desc[s]])
WriteAtEnd(s) == \E n \in 1..MaxCount, end \in 0..MaxPos :
  /\ desc[s] \in append
  /\ Use("write", s, n, end)

(* replicate_pread and replicate_pwrite: the offset is in the record.  A   *)
(* failed call is not listed.  With O_APPEND the Linux kernel puts also    *)
(* the bytes of a pwrite at the end.                                       *)
ListedAtPos(s, off) == cur_pos[item[s]]
ListedAt(s, off) == off
UseAt(kind, s, n, off, at) ==
  /\ IsOpen(s) /\ SupportedType(s)
  /\ at + n <= MaxPos
  /\ Lists(IF n = -1 THEN {} ELSE {Transfer(kind, s, ListedAt(s, off), n)},
           IF n = -1 THEN {} ELSE {Transfer(kind, s, at, n)})
  /\ UNCHANGED <<born, item, cur_pos, desc, offset, file, append, skewed, st>>
Pread(s) == \E n \in Counts, off \in 0..MaxPos : UseAt("read", s, n, off, off)
Pwrite(s) == \E n \in Counts, off \in 0..MaxPos :
  /\ desc[s] \in append => n < 1
  /\ UseAt("write", s, n, off, off)
PwriteAtEnd(s) == \E n \in 1..MaxCount, off, end \in 0..MaxPos :
  /\ desc[s] \in append
  /\ UseAt("write", s, n, off, end)

(* replicate_lseek: the result is the position, also when it is -1.        *)
(* replicate_llseek takes the result from a field of its own.              *)
Lseek(s) ==
  /\ IsOpen(s) /\ SupportedType(s)
  /\ \E to \in -1..MaxPos :
      /\ cur_pos' = [cur_pos EXCEPT ![item[s]] = to]
      /\ offset' = IF to = -1 THEN offset ELSE [offset EXCEPT ![desc[s]] = to]
      /\ skewed' = IF to = -1 THEN skewed \cup {item[s]} ELSE (skewed \ {item[s]}) \cup Sharers(s)
      /\ Lists({}, {}) /\ UNCHANGED <<born, item, desc, file, append, st>>

(* replicate_sendfile and simulate_sendfile, from in, at its own position  *)
(* or at one of the record, to out.  The own position is moved by the size *)
(* asked for; that of no file is never read and left out.  The name of the *)
(* out descriptor is read before simulate_sendfile asks whether it is one  *)
(* to list.  The kernel refuses to send to a description with O_APPEND.    *)
MovedBySize(s, size) == cur_pos[item[s]] + size
Sendfile(in, out) ==
  /\ IsOpen(in) /\ IsOpen(out) /\ in[1] = out[1] /\ desc[in] # desc[out]
  /\ \E at \in (0..MaxPos) \cup {None}, size \in 1..MaxCount, n \in -1..MaxCount :
      LET own == at = None
          from(pos) == IF own THEN pos ELSE at
          off == from(offset[desc[in]])
          sent == IF n = -1 THEN 0 ELSE n
          lists(inPos, outPos) ==
            IF n = -1 THEN {}
            ELSE (IF SupportedType(in) THEN {Transfer("read", in, from(inPos), n)} ELSE {})
                 \cup (IF SupportedType(out) THEN {Transfer("write", out, outPos, n)} ELSE {})
          crashes == n # -1 /\ SupportedType(in) /\ ~SupportedType(out)
      IN  /\ desc[out] \in append => n = -1
          /\ n <= size /\ off + size <= MaxPos /\ offset[desc[out]] + sent <= MaxPos
          /\ IF crashes THEN st' = "segv" /\ UNCHANGED <<cur_pos, exact>>
             ELSE /\ cur_pos' = [m \in Slots |->
                       IF m = item[in] /\ own /\ SupportedType(in) THEN MovedBySize(in, size)
                       ELSE IF m = item[out] /\ SupportedType(out) THEN Moved(out, n)
                       ELSE cur_pos[m]]
                  /\ Lists(lists(cur_pos[item[in]], cur_pos[item[out]]),
                           lists(offset[desc[in]], offset[desc[out]]))
                  /\ UNCHANGED st
          /\ offset' = [d \in Descs |->
               IF \/ d = desc[in] /\ own /\ SupportedType(in)
                  \/ d = desc[out] /\ SupportedType(out)
               THEN offset[d] + sent ELSE offset[d]]
          /\ skewed' = skewed \cup (IF own /\ n # size THEN {item[in]} ELSE {})
                              \cup (IF n = -1 THEN {item[out]} ELSE {})
                              \cup (IF own /\ sent # 0 THEN Sharers(in) ELSE {})
                              \cup (IF sent # 0 THEN Sharers(out) ELSE {})
          /\ UNCHANGED <<born, item, desc, file, append>>

(* Bound: few positions are off at a time, and are followed a little way.  *)
WithinBound == Cardinality(skewed) <= MaxSkewed /\ \A m \in Slots : cur_pos[m] \in -1..MaxPos

Next ==
  /\ st = "run"
  /\ \/ \E s \in Slots : \/ Open(s) \/ Socket(s) \/ Close(s) \/ Read(s) \/ Write(s)
                         \/ WriteAtEnd(s) \/ Pread(s) \/ Pwrite(s) \/ PwriteAtEnd(s) \/ Lseek(s)
     \/ \E s, q \in Slots : Dup(s, q) \/ Sendfile(s, q)
     \/ \E t, u \in Tables : Fork(t, u)
  /\ WithinBound'

Spec == Init /\ [][Next]_vars

-----------------------------------------------------------------------------
TypeOK ==
  /\ born \in SUBSET Tables
  /\ item \in [Slots -> Slots \cup {None}]
  /\ \A s \in Slots : item[s] # None => item[s][1] = s[1]
  /\ desc \in [Slots -> Descs \cup {None}]
  /\ cur_pos \in [Slots -> Int] /\ offset \in [Descs -> Nat]
  /\ file \in [Descs -> Files \cup {Other}] /\ append \in SUBSET Descs
  /\ exact \in BOOLEAN
  /\ skewed \in SUBSET Slots /\ st \in {"run", "segv"}

(* An fd_map and an open description are shared by the same descriptors of *)
(* a table, and the position of the one is the offset of the other, unless *)
(* a call failed or sent less than it was asked to, a write went to an end *)
(* of file elsewhere (O_APPEND), or the description was moved through the  *)
(* descriptor of another process: until the next lseek.                    *)
PositionsExact ==
  st = "run" => \A s \in Slots :
    IsOpen(s) => /\ item[s] \notin skewed /\ SupportedType(s) => cur_pos[item[s]] = offset[desc[s]]
                 /\ \A fd \in Fds : item[<<s[1], fd>>] = item[s] => desc[<<s[1], fd>>] = desc[s]

(* A write that the kernel puts at the end of the file, whatever the       *)
(* offset of its description or its record.  cur_pos knows nothing of it.  *)
Appends(s) == WriteAtEnd(s) \/ PwriteAtEnd(s)

(* While no fd_map is skewed every read and write but one that appends is  *)
(* listed, where and as long as the kernel made it, and nothing else is.   *)
(* Appended bytes are listed at cur_pos, wherever the end was.             *)
TransfersExact ==
  [][skewed = {} /\ st' = "run" => exact' \/ \E s \in Slots : Appends(s)]_vars
=============================================================================
