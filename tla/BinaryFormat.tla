----------------------------- MODULE BinaryFormat -----------------------------
(* The binary format of recorded calls: bin_save_items writes a list of        *)
(* records into a file, bin_get_items reads a file into a list (in_binary.c).  *)
(* Every fwrite and every fread of a field is a step of its own.  What a save  *)
(* leaves on the disk may end at any byte: a write may fail, the last flush of *)
(* fclose may fail unnoticed, the program may be killed.  Before it is loaded  *)
(* one byte of it may have become another.                                     *)
(*                                                                             *)
(* A byte is a number.  An integer is the sequence of its bytes, the lowest    *)
(* first, which is the order htole32 and htole64 give it in the file; a name   *)
(* is the sequence of its characters without the closing NUL.                  *)
EXTENDS Integers, Sequences

CONSTANTS Lists,          \* the lists of records that may be saved
          MAX_STRING,     \* size of the arrays that hold a name
          DamagedPlaces,  \* bound: where a byte of the file is damaged ...
          DamagedBytes    \* ... and what it becomes

Byte == 0 .. 255

Kinds == {"write", "read", "pwrite", "pread", "access", "close", "open",
          "unlink", "lseek", "llseek", "pipe", "dup", "dup2", "dup3", "mkdir",
          "rmdir", "clone", "socket", "stat", "sendfile"}

(* The OP_ characters, in ASCII.                                               *)
OpCode == [write |-> 119, pwrite |-> 87, read |-> 114, pread |-> 80,
           access |-> 97, close |-> 99, open |-> 111, unlink |-> 117,
           lseek |-> 108, llseek |-> 76, pipe |-> 112, dup |-> 100,
           dup2 |-> 68, dup3 |-> 101, mkdir |-> 77, rmdir |-> 105,
           clone |-> 67, socket |-> 83, stat |-> 115, sendfile |-> 116]

-----------------------------------------------------------------------------
(* The records in memory: the bytes each member of the structures has.  A name *)
(* is an array of MAX_STRING characters.                                       *)
Transfer  == [fd |-> 4, size |-> 8, retval |-> 8]
TransferAt == [fd |-> 4, size |-> 8, offset |-> 8, retval |-> 8]
Named     == [name |-> MAX_STRING, retval |-> 4]
NamedMode == [name |-> MAX_STRING, mode |-> 4, retval |-> 4]
DupOp     == [new_fd |-> 4, old_fd |-> 4, flags |-> 4, retval |-> 4]

StructA ==
  [read |-> Transfer, write |-> Transfer,
   pread |-> TransferAt, pwrite |-> TransferAt,
   pipe |-> [fd1 |-> 4, fd2 |-> 4, mode |-> 4, retval |-> 4],
   mkdir |-> NamedMode, rmdir |-> Named,
   clone |-> [mode |-> 4, retval |-> 4],
   dup |-> DupOp, dup2 |-> DupOp, dup3 |-> DupOp]

StructB ==
  [open |-> [name |-> MAX_STRING, flags |-> 4, mode |-> 4, retval |-> 4],
   close |-> [fd |-> 4, retval |-> 4],
   unlink |-> Named,
   llseek |-> [fd |-> 4, offset |-> 8, f_offset |-> 8, flag |-> 4, retval |-> 8],
   lseek |-> [fd |-> 4, flag |-> 4, offset |-> 8, retval |-> 8],
   access |-> NamedMode, stat |-> Named,
   socket |-> [retval |-> 4],
   sendfile |-> [out_fd |-> 4, in_fd |-> 4, offset |-> 8, size |-> 8, retval |-> 8]]

Struct(k) == IF k \in DOMAIN StructA THEN StructA[k] ELSE StructB[k]

(* op_info_t with its int32timeval, at the end of every structure.             *)
InfoStruct == [pid |-> 4, dur |-> 4, sec |-> 4, usec |-> 4]

FieldNames(k) == DOMAIN Struct(k) \cup DOMAIN InfoStruct
MemWidth(k, f) == IF f \in DOMAIN InfoStruct THEN InfoStruct[f] ELSE Struct(k)[f]

(* A record as the program holds it: a kind and the bytes of every member.     *)
(* There is none of a removed directory, so that bin_save_rmdir is never       *)
(* called: strace_get_operation_code does not know the name of the call, and   *)
(* bin_read_rmdir makes a record of type OP_MKDIR.                             *)
IsRecord(it) ==
  /\ it = [kind |-> it.kind, arg |-> it.arg]
  /\ it.kind \in Kinds \ {"rmdir"}
  /\ it.arg = [f \in FieldNames(it.kind) |-> it.arg[f]]
  /\ \A f \in FieldNames(it.kind) :
       IF f = "name"
         THEN it.arg[f] \in Seq(Byte \ {0}) /\ Len(it.arg[f]) < MAX_STRING
         ELSE it.arg[f] \in [1 .. MemWidth(it.kind, f) -> Byte]

ASSUME StringAssumption == MAX_STRING \in Nat \ {0} /\ MAX_STRING < 65536
ASSUME ListsAssumption ==
  \A l \in Lists : l \in Seq({l[i] : i \in DOMAIN l}) /\ \A i \in DOMAIN l : IsRecord(l[i])
ASSUME DamageAssumption == DamagedPlaces \subseteq Nat \ {0} /\ DamagedBytes \subseteq Byte

-----------------------------------------------------------------------------
(* The fields in the file, in their order.  "len" is the length of the name    *)
(* that follows it; the width of a name is not fixed.                          *)
I(f)   == [field |-> f, width |-> 4]      \* write_int32, read_int32
L(f)   == [field |-> f, width |-> 8]      \* write_int64, read_int64
Length == [field |-> "len", width |-> 4]
Name   == [field |-> "name", width |-> 0]

(* bin_write_info and bin_read_info.                                           *)
SavedInfo  == <<I("pid"), I("dur"), I("sec"), I("usec")>>
LoadedInfo == <<I("pid"), I("dur"), I("sec"), I("usec")>>

SavedTransfer ==
  [write  |-> <<I("fd"), L("size"), L("retval")>>,
   read   |-> <<I("fd"), L("size"), L("retval")>>,
   pwrite |-> <<I("fd"), L("size"), L("offset"), L("retval")>>,
   pread  |-> <<I("fd"), L("size"), L("offset"), L("retval")>>]

SavedFile ==
  [open   |-> <<Length, Name, I("flags"), I("mode"), I("retval")>>,
   close  |-> <<I("fd"), I("retval")>>,
   unlink |-> <<Length, Name, I("retval")>>,
   lseek  |-> <<I("fd"), I("flag"), L("offset"), L("retval")>>,
   llseek |-> <<I("fd"), L("offset"), L("f_offset"), I("flag"), L("retval")>>,
   clone  |-> <<I("mode"), I("retval")>>]

SavedTree ==
  [dup    |-> <<I("new_fd"), I("old_fd"), I("flags"), I("retval")>>,
   dup2   |-> <<I("new_fd"), I("old_fd"), I("flags"), I("retval")>>,
   dup3   |-> <<I("new_fd"), I("old_fd"), I("flags"), I("retval")>>,
   mkdir  |-> <<Length, Name, I("mode"), I("retval")>>,
   rmdir  |-> <<Length, Name, I("retval")>>,
   pipe   |-> <<I("fd1"), I("fd2"), I("mode"), I("retval")>>,
   access |-> <<Length, Name, I("mode"), I("retval")>>,
   stat   |-> <<Length, Name, I("retval")>>]

SavedRest ==
  [socket   |-> <<I("retval")>>,
   sendfile |-> <<I("out_fd"), I("in_fd"), L("offset"), L("size"), L("retval")>>]

LoadedTransfer ==
  [read   |-> <<I("fd"), L("size"), L("retval")>>,
   write  |-> <<I("fd"), L("size"), L("retval")>>,
   pread  |-> <<I("fd"), L("size"), L("offset"), L("retval")>>,
   pwrite |-> <<I("fd"), L("size"), L("offset"), L("retval")>>]

(* A mistake: the two offsets of _llseek change places.                        *)
LoadedFileSwapped ==
  [open   |-> <<Length, Name, I("flags"), I("mode"), I("retval")>>,
   close  |-> <<I("fd"), I("retval")>>,
   unlink |-> <<Length, Name, I("retval")>>,
   lseek  |-> <<I("fd"), I("flag"), L("offset"), L("retval")>>,
   llseek |-> <<I("fd"), L("f_offset"), L("offset"), I("flag"), L("retval")>>,
   clone  |-> <<I("mode"), I("retval")>>]

LoadedFile ==
  [open   |-> <<Length, Name, I("flags"), I("mode"), I("retval")>>,
   close  |-> <<I("fd"), I("retval")>>,
   unlink |-> <<Length, Name, I("retval")>>,
   lseek  |-> <<I("fd"), I("flag"), L("offset"), L("retval")>>,
   llseek |-> <<I("fd"), L("offset"), L("f_offset"), I("flag"), L("retval")>>,
   clone  |-> <<I("mode"), I("retval")>>]

LoadedTree ==
  [mkdir  |-> <<Length, Name, I("mode"), I("retval")>>,
   rmdir  |-> <<Length, Name, I("retval")>>,
   dup    |-> <<I("new_fd"), I("old_fd"), I("flags"), I("retval")>>,
   dup2   |-> <<I("new_fd"), I("old_fd"), I("flags"), I("retval")>>,
   dup3   |-> <<I("new_fd"), I("old_fd"), I("flags"), I("retval")>>,
   pipe   |-> <<I("fd1"), I("fd2"), I("mode"), I("retval")>>,
   access |-> <<Length, Name, I("mode"), I("retval")>>]

LoadedRest ==
  [stat     |-> <<Length, Name, I("retval")>>,
   socket   |-> <<I("retval")>>,
   sendfile |-> <<I("out_fd"), I("in_fd"), L("offset"), L("size"), L("retval")>>]

SavedOwn(k) ==
  IF k \in DOMAIN SavedTransfer THEN SavedTransfer[k]
  ELSE IF k \in DOMAIN SavedFile THEN SavedFile[k]
  ELSE IF k \in DOMAIN SavedTree THEN SavedTree[k] ELSE SavedRest[k]

LoadedOwn(k) ==
  IF k \in DOMAIN LoadedTransfer THEN LoadedTransfer[k]
  ELSE IF k \in DOMAIN LoadedFile THEN LoadedFile[k]
  ELSE IF k \in DOMAIN LoadedTree THEN LoadedTree[k] ELSE LoadedRest[k]

SavedSteps(k) == Len(SavedOwn(k)) + Len(SavedInfo)
SavedEntry(k, s) == IF s <= Len(SavedOwn(k)) THEN SavedOwn(k)[s]
                    ELSE SavedInfo[s - Len(SavedOwn(k))]
LoadedSteps(k) == Len(LoadedOwn(k)) + Len(LoadedInfo)
LoadedEntry(k, s) == IF s <= Len(LoadedOwn(k)) THEN LoadedOwn(k)[s]
                     ELSE LoadedInfo[s - Len(LoadedOwn(k))]

(* A mistake: the three kinds of dup are saved under one character.            *)
SavedCodeOneDup(k) == IF k \in {"dup", "dup2", "dup3"} THEN OpCode["dup"]
                      ELSE OpCode[k]

(* The character that stands for a kind: bin_save_rmdir writes OP_MKDIR, and   *)
(* bin_read_rmdir gives its record the type OP_MKDIR.                          *)
SavedCode(k) == IF k = "rmdir" THEN OpCode["mkdir"] ELSE OpCode[k]
LoadedKind(k) == IF k = "rmdir" THEN "mkdir" ELSE k

-----------------------------------------------------------------------------
(* The four bytes of a length in the file, which is below MAX_STRING, and the  *)
(* int32_t any four bytes stand for.                                           *)
Bytes32(n) == <<n % 256, n \div 256, 0, 0>>
Int32Of(b) == b[1] + 256 * b[2] + 65536 * b[3]
              + 16777216 * (IF b[4] < 128 THEN b[4] ELSE b[4] - 256)

(* An integer of the bytes v assigned to one of w bytes: the low bytes, or the *)
(* sign carried on.                                                            *)
Fit(v, w) == [i \in 1 .. w |-> IF i <= Len(v) THEN v[i]
                               ELSE IF v[Len(v)] < 128 THEN 0 ELSE 255]

(* What strncpy keeps of a buffer: the characters before the first NUL.        *)
CString(b) ==
  LET nul == {i \in 1 .. Len(b) : b[i] = 0}
  IN IF nul = {} THEN b
     ELSE SubSeq(b, 1, (CHOOSE i \in nul : \A j \in nul : i <= j) - 1)

(* The bytes of one fwrite: the character first, then the fields.              *)
Chunk(it, s) ==
  IF s = 0 THEN <<SavedCode(it.kind)>>
  ELSE LET e == SavedEntry(it.kind, s)
       IN CASE e.field = "len"  -> Bytes32(Len(it.arg["name"]))
            [] e.field = "name" -> it.arg["name"]
            [] OTHER            -> Fit(it.arg[e.field], e.width)

-----------------------------------------------------------------------------
VARIABLES
  list,     \* the list that is saved
  file,     \* the bytes given to fwrite so far
  item,     \* bin_save_items: the place of the record in the list ...
  step,     \* ... and of the field in the record, 0 for the character
  marks,    \* history: where each field starts, the one to come included
  saved,    \* "no", "ok" or "failed": how bin_save_items ended
  kept,     \* how many of the bytes are on the disk
  damage,   \* the place of a byte that changed there, or 0, and what it became
  pos,      \* bin_get_items: the position in the file
  reading,  \* the kind of the record being read, or "none"
  field,    \* the next field of it
  got,      \* the members read so far, and the length of a name
  out,      \* the list that is loaded
  loaded    \* "no", "ok", "failed" or "crashed": how bin_get_items ended

saverVars  == <<file, item, step, marks, saved, kept, damage>>
loaderVars == <<pos, reading, field, got, out, loaded>>
vars == <<list, saverVars, loaderVars>>

NoMember == [f \in {} |-> <<>>]

Init ==
  /\ list \in Lists
  /\ file = <<>> /\ item = 1 /\ step = 0
  /\ marks = <<[item |-> 1, step |-> 0, from |-> 0]>>
  /\ saved = "no" /\ kept = 0 /\ damage = [at |-> 0, byte |-> 0]
  /\ pos = 0 /\ reading = "none" /\ field = 0 /\ got = NoMember
  /\ out = <<>> /\ loaded = "no"

-----------------------------------------------------------------------------
(* bin_save_items.                                                             *)
(* A mistake: the pointer into the list is moved on twice.                     *)
PutChunkSkips ==
  /\ file' = file \o Chunk(list[item], step)
  /\ IF step < SavedSteps(list[item].kind)
       THEN step' = step + 1 /\ item' = item
       ELSE step' = 0 /\ item' = item + 2
  /\ marks' = Append(marks, [item |-> item', step |-> step', from |-> Len(file')])

PutChunk ==
  /\ file' = file \o Chunk(list[item], step)
  /\ IF step < SavedSteps(list[item].kind)
       THEN step' = step + 1 /\ item' = item
       ELSE step' = 0 /\ item' = item + 1
  /\ marks' = Append(marks, [item |-> item', step |-> step', from |-> Len(file')])

WriteField ==
  /\ saved = "no" /\ item <= Len(list)
  /\ PutChunk
  /\ UNCHANGED <<list, saved, kept, damage, loaderVars>>

(* The write fails, or the program is killed: of what was given to stdio some  *)
(* bytes are on the disk, but not the last one.                                *)
WriteFails ==
  /\ saved = "no" /\ item <= Len(list)
  /\ Chunk(list[item], step) # <<>>
  /\ PutChunk
  /\ saved' = "failed"
  /\ kept' \in 0 .. Len(file') - 1
  /\ UNCHANGED <<list, damage, loaderVars>>

(* The end of the list.  The result of fclose is not looked at: when its flush *)
(* fails the save still returns 0.                                             *)
CloseFile ==
  /\ saved = "no" /\ item > Len(list)
  /\ saved' = "ok"
  /\ kept' \in 0 .. Len(file)
  /\ UNCHANGED <<list, file, item, step, marks, damage, loaderVars>>

(* A byte of the saved file is changed by something else (external).           *)
Damage ==
  /\ saved = "ok" /\ loaded = "no" /\ pos = 0 /\ damage.at = 0
  /\ \E at \in DamagedPlaces, byte \in DamagedBytes :
       at <= kept /\ damage' = [at |-> at, byte |-> byte]
  /\ UNCHANGED <<list, file, item, step, marks, saved, kept, loaderVars>>
Intact == damage.at = 0
OnDisk == [i \in 1 .. Len(file) |-> IF i = damage.at THEN damage.byte ELSE file[i]]

-----------------------------------------------------------------------------
(* bin_get_items, in a later run of the program.                               *)
Loading == saved # "no" /\ loaded = "no"

EndOfFile ==
  /\ Loading /\ reading = "none" /\ pos = kept
  /\ loaded' = "ok"
  /\ UNCHANGED <<list, saverVars, pos, reading, field, got, out>>

(* getc returns 255, which is EOF once it is a char.                           *)
LooksLikeEof ==
  /\ Loading /\ reading = "none" /\ pos < kept /\ OnDisk[pos + 1] = 255
  /\ pos' = pos + 1 /\ loaded' = "ok"
  /\ UNCHANGED <<list, saverVars, reading, field, got, out>>

ReadLetter ==
  /\ Loading /\ reading = "none" /\ pos < kept /\ OnDisk[pos + 1] # 255
  /\ \E k \in Kinds :
       /\ OpCode[k] = OnDisk[pos + 1]
       /\ reading' = k
  /\ pos' = pos + 1 /\ field' = 1 /\ got' = NoMember
  /\ UNCHANGED <<list, saverVars, out, loaded>>

UnknownLetter ==
  /\ Loading /\ reading = "none" /\ pos < kept /\ OnDisk[pos + 1] # 255
  /\ \A k \in Kinds : OpCode[k] # OnDisk[pos + 1]
  /\ pos' = pos + 1 /\ loaded' = "failed"
  /\ UNCHANGED <<list, saverVars, reading, field, got, out>>

(* The field to read, its width, and how many characters a name puts into the  *)
(* buffer, the closing NUL included; fread takes a negative length for a huge  *)
(* one.                                                                        *)
Entry  == LoadedEntry(reading, field)
Width  == IF Entry.field = "name" THEN Int32Of(got["len"]) ELSE Entry.width
Fits   == Width >= 0 /\ pos + Width <= kept
Stored == IF Fits THEN Width + 1 ELSE kept - pos
Overruns == Entry.field = "name" /\ Stored > MAX_STRING

Member(b) ==
  CASE Entry.field = "name" -> CString(b)
    [] Entry.field = "len"  -> b
    [] OTHER                -> Fit(b, MemWidth(reading, Entry.field))

(* A mistake: an fread that returns 0 is tried again.                          *)
ReadFieldAgain ==
  /\ Loading /\ reading # "none" /\ field <= LoadedSteps(reading)
  /\ Fits /\ ~Overruns
  /\ got' = [f \in DOMAIN got \cup {Entry.field} |->
               IF f = Entry.field THEN Member(SubSeq(OnDisk, pos + 1, pos + Width))
               ELSE got[f]]
  /\ pos' = pos + Width /\ field' = IF Width = 0 THEN field ELSE field + 1
  /\ UNCHANGED <<list, saverVars, reading, out, loaded>>

ReadField ==
  /\ Loading /\ reading # "none" /\ field <= LoadedSteps(reading)
  /\ Fits /\ ~Overruns
  /\ got' = [f \in DOMAIN got \cup {Entry.field} |->
               IF f = Entry.field THEN Member(SubSeq(OnDisk, pos + 1, pos + Width))
               ELSE got[f]]
  /\ pos' = pos + Width /\ field' = field + 1
  /\ UNCHANGED <<list, saverVars, reading, out, loaded>>

(* A mistake: the error of a field is not handed on.                           *)
ReadFailsSilently ==
  /\ Loading /\ reading # "none" /\ field <= LoadedSteps(reading)
  /\ ~Fits /\ ~Overruns
  /\ loaded' = "ok"
  /\ UNCHANGED <<list, saverVars, pos, reading, field, got, out>>

(* BIN_READ_ERROR_FREE: the record is dropped, those before it stay.           *)
ReadFails ==
  /\ Loading /\ reading # "none" /\ field <= LoadedSteps(reading)
  /\ ~Fits /\ ~Overruns
  /\ loaded' = "failed"
  /\ UNCHANGED <<list, saverVars, pos, reading, field, got, out>>

(* A length that the array of the name has no room for.                        *)
ReadOverruns ==
  /\ Loading /\ reading # "none" /\ field <= LoadedSteps(reading)
  /\ Overruns
  /\ loaded' = "crashed"
  /\ UNCHANGED <<list, saverVars, pos, reading, field, got, out>>

AppendRecord ==
  /\ Loading /\ reading # "none" /\ field > LoadedSteps(reading)
  /\ out' = Append(out, [kind |-> LoadedKind(reading),
                         arg |-> [f \in DOMAIN got \ {"len"} |-> got[f]]])
  /\ reading' = "none" /\ field' = 0 /\ got' = NoMember
  /\ UNCHANGED <<list, saverVars, pos, loaded>>

Load == \/ EndOfFile \/ LooksLikeEof \/ ReadLetter \/ UnknownLetter
        \/ ReadField \/ ReadFails \/ ReadOverruns \/ AppendRecord
Next == WriteField \/ WriteFails \/ CloseFile \/ Damage \/ Load

Spec == Init /\ [][Next]_vars
(* Loading is one thread that waits for nothing but the disk.                  *)
FairSpec == Spec /\ WF_vars(Load)

-----------------------------------------------------------------------------
TypeOK ==
  /\ list \in Lists
  /\ file \in Seq(Byte) /\ kept \in 0 .. Len(file) /\ pos \in 0 .. Len(file)
  /\ item \in 1 .. Len(list) + 1 /\ step \in Nat
  /\ saved \in {"no", "ok", "failed"} /\ damage \in [at : Nat, byte : Byte]
  /\ reading \in Kinds \cup {"none"} /\ field \in Nat
  /\ loaded \in {"no", "ok", "failed", "crashed"}

(* Wherever the file was cut, what is loaded from it is what was saved: the    *)
(* i-th record loaded is the i-th record of the list, in all its members.      *)
LoadedAsSaved ==
  Intact => \A i \in DOMAIN out : i <= Len(list) /\ out[i] = list[i]

(* A file that was cut within a record is not loaded with success, and no cut  *)
(* makes bin_get_items read a name longer than its buffer.  A damaged length   *)
(* does (ReadOverruns).                                                        *)
CutIsNoticed ==
  Intact =>
    /\ loaded = "ok" => /\ pos = kept
                        /\ \E m \in DOMAIN marks :
                             marks[m].step = 0 /\ marks[m].from = kept
    /\ loaded # "crashed"

(* A list that was saved and came to the disk whole is loaded whole.           *)
RoundTrip ==
  Intact /\ saved = "ok" /\ kept = Len(file) /\ loaded # "no" =>
    loaded = "ok" /\ out = list

(* Whatever bytes a file holds, loading it ends.                               *)
LoadEnds == (saved # "no") ~> (loaded # "no")
=============================================================================
