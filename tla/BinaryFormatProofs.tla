------------------------- MODULE BinaryFormatProofs -------------------------
(* Proofs about BinaryFormat for any list of records, any cut of the file and  *)
(* any damaged byte.                                                           *)
EXTENDS BinaryFormat, TLAPS

(* Every kind is read field by field as it is written.                         *)
LEMMA LayoutsAgree ==
  ASSUME NEW k \in Kinds
  PROVE  LoadedOwn(k) = SavedOwn(k)
<1>a. DOMAIN SavedTransfer = {"write", "read", "pwrite", "pread"}
  BY DEF SavedTransfer
<1>b. DOMAIN SavedFile = {"open", "close", "unlink", "lseek", "llseek", "clone"}
  BY DEF SavedFile
<1>c. DOMAIN SavedTree = {"dup", "dup2", "dup3", "mkdir", "rmdir", "pipe", "access", "stat"}
  BY DEF SavedTree
<1>d. DOMAIN LoadedTransfer = {"write", "read", "pwrite", "pread"}
  BY DEF LoadedTransfer
<1>e. DOMAIN LoadedFile = {"open", "close", "unlink", "lseek", "llseek", "clone"}
  BY DEF LoadedFile
<1>f. DOMAIN LoadedTree = {"dup", "dup2", "dup3", "mkdir", "rmdir", "pipe", "access"}
  BY DEF LoadedTree
<1> USE <1>a, <1>b, <1>c, <1>d, <1>e, <1>f DEF LoadedOwn, SavedOwn
<1>1. CASE k \in {"write", "read", "pwrite", "pread"}
  BY <1>1 DEF LoadedTransfer, SavedTransfer
<1>2. CASE k \in {"open", "close", "unlink", "lseek", "llseek", "clone"}
  BY <1>2 DEF LoadedFile, SavedFile
<1>3. CASE k \in {"dup", "dup2", "dup3", "mkdir", "rmdir", "pipe", "access"}
  <2>1. LoadedOwn(k) = LoadedTree[k] /\ SavedOwn(k) = SavedTree[k]
    BY <1>3
  <2> QED
    BY <1>3, <2>1 DEF LoadedTree, SavedTree
<1>4. CASE k \in {"stat", "socket", "sendfile"}
  <2>1. LoadedOwn(k) = LoadedRest[k]
    BY <1>4
  <2>2. CASE k = "stat"
    BY <2>1, <2>2 DEF LoadedRest, SavedTree
  <2>3. CASE k \in {"socket", "sendfile"}
    <3>1. SavedOwn(k) = SavedRest[k]
      BY <2>3
    <3> QED
      BY <2>1, <2>3, <3>1 DEF LoadedRest, SavedRest
  <2> QED
    BY <1>4, <2>2, <2>3
<1> QED
  BY <1>1, <1>2, <1>3, <1>4 DEF Kinds

LEMMA Letters ==
  ASSUME NEW k \in Kinds \ {"rmdir"}
  PROVE  /\ SavedCode(k) \in Byte /\ SavedCode(k) # 255
         /\ \A j \in Kinds : OpCode[j] = SavedCode(k) => j = k
         /\ OpCode[k] = SavedCode(k)
         /\ LoadedKind(k) = k
BY DEF Kinds, SavedCode, OpCode, Byte, LoadedKind

LEMMA Digits ==
  ASSUME NEW n \in Nat, n < 65536
  PROVE  /\ n % 256 \in 0 .. 255
         /\ n \div 256 \in 0 .. 255
         /\ n = 256 * (n \div 256) + (n % 256)
<1>1. n \div 256 \in 0 .. 255
  BY Z3
<1>2. n % 256 \in 0 .. 255
  BY Z3
<1>3. n = 256 * (n \div 256) + (n % 256)
  BY Z3
<1> QED
  BY ONLY <1>1, <1>2, <1>3

(* The length of a name is read as it was written.                             *)
LEMMA LengthKept ==
  ASSUME NEW n \in Nat, n < 65536
  PROVE  Int32Of(Bytes32(n)) = n
BY Digits, Z3 DEF Int32Of, Bytes32

LEMMA LengthIsBytes ==
  ASSUME NEW n \in Nat, n < MAX_STRING
  PROVE  /\ Int32Of(Bytes32(n)) = n
         /\ Bytes32(n) \in Seq(Byte) /\ Len(Bytes32(n)) = 4
<1>0. n < 65536
  BY StringAssumption
<1>1. n % 256 \in 0 .. 255 /\ n \div 256 \in 0 .. 255
  BY <1>0, Digits, Z3
<1>2. <<n % 256, n \div 256, 0, 0>> \in Seq(0 .. 255)
  BY <1>1, Z3
<1>3. Len(Bytes32(n)) = 4
  BY Z3 DEF Bytes32
<1>4. Bytes32(n) \in Seq(Byte)
  BY <1>2, Z3 DEF Bytes32, Byte
<1> QED
  BY <1>0, <1>3, <1>4, LengthKept, Z3

LEMMA LengthIsNat ==
  ASSUME NEW S, NEW f \in Seq(S)
  PROVE  Len(f) \in Nat
OBVIOUS

LEMMA NoBytes ==
  ASSUME NEW S, NEW f \in Seq(S), Len(f) = 0
  PROVE  f = <<>>
OBVIOUS

LEMMA FitKept ==
  ASSUME NEW w \in {4, 8}, NEW v \in [1 .. w -> Byte]
  PROVE  Fit(v, w) = v
<1>1. Len(v) = w
  OBVIOUS
<1> QED
  BY <1>1 DEF Fit

(* What the fields of a kind are: every member, each as wide as in memory, and *)
(* a name right after its length.                                              *)
GoodField(k, own, s) ==
  LET f == own[s].field
      w == own[s].width
  IN  \/ f = "len" /\ w = 4 /\ "name" \in DOMAIN Struct(k)
      \/ f = "name" /\ s = 2 /\ own[1].field = "len" /\ f \in DOMAIN Struct(k)
      \/ /\ f \notin {"len", "name", "pid", "dur", "sec", "usec"}
         /\ f \in DOMAIN Struct(k) /\ w = Struct(k)[f] /\ w \in {4, 8}
GoodLayout(k, own) ==
  /\ Len(own) \in Nat /\ "len" \notin DOMAIN Struct(k)
  /\ \A s \in 1 .. Len(own) : GoodField(k, own, s)
  /\ \A f \in DOMAIN Struct(k) : \E s \in 1 .. Len(own) : own[s].field = f

LEMMA Layouts ==
  ASSUME NEW k \in Kinds
  PROVE  GoodLayout(k, LoadedOwn(k))
<1> USE DEF Transfer, TransferAt, Named, NamedMode, DupOp, I, L, Length, Name
<1>1. CASE k \in {"write", "read"}
  <2> DEFINE own == <<I("fd"), L("size"), L("retval")>>
  <2>1. LoadedOwn(k) = own
    BY <1>1 DEF LoadedOwn, LoadedTransfer, LoadedFile, LoadedTree, LoadedRest
  <2>2. Struct(k) = Transfer
    BY <1>1 DEF Struct, StructA, StructB
  <2>3. \A s \in 1 .. 3 : GoodField(k, own, s)
    BY <2>2 DEF GoodField
  <2>4. \A f \in {"fd", "size", "retval"} : \E s \in 1 .. 3 : own[s].field = f
    OBVIOUS
  <2> QED
    BY <2>1, <2>2, <2>3, <2>4 DEF GoodLayout
<1>2. CASE k \in {"pwrite", "pread"}
  <2> DEFINE own == <<I("fd"), L("size"), L("offset"), L("retval")>>
  <2>1. LoadedOwn(k) = own
    BY <1>2 DEF LoadedOwn, LoadedTransfer, LoadedFile, LoadedTree, LoadedRest
  <2>2. Struct(k) = TransferAt
    BY <1>2 DEF Struct, StructA, StructB
  <2>3. \A s \in 1 .. 4 : GoodField(k, own, s)
    BY <2>2 DEF GoodField
  <2>4. \A f \in {"fd", "size", "offset", "retval"} : \E s \in 1 .. 4 : own[s].field = f
    OBVIOUS
  <2> QED
    BY <2>1, <2>2, <2>3, <2>4 DEF GoodLayout
<1>3. CASE k = "open"
  <2> DEFINE own == <<Length, Name, I("flags"), I("mode"), I("retval")>>
  <2>1. LoadedOwn(k) = own
    BY <1>3 DEF LoadedOwn, LoadedTransfer, LoadedFile, LoadedTree, LoadedRest
  <2>2. Struct(k) = [name |-> MAX_STRING, flags |-> 4, mode |-> 4, retval |-> 4]
    BY <1>3 DEF Struct, StructA, StructB
  <2>3. \A s \in 1 .. 5 : GoodField(k, own, s)
    BY <2>2 DEF GoodField
  <2>4. \A f \in {"name", "flags", "mode", "retval"} : \E s \in 1 .. 5 : own[s].field = f
    OBVIOUS
  <2> QED
    BY <2>1, <2>2, <2>3, <2>4 DEF GoodLayout
<1>4. CASE k = "close"
  <2> DEFINE own == <<I("fd"), I("retval")>>
  <2>1. LoadedOwn(k) = own
    BY <1>4 DEF LoadedOwn, LoadedTransfer, LoadedFile, LoadedTree, LoadedRest
  <2>2. Struct(k) = [fd |-> 4, retval |-> 4]
    BY <1>4 DEF Struct, StructA, StructB
  <2>3. \A s \in 1 .. 2 : GoodField(k, own, s)
    BY <2>2 DEF GoodField
  <2>4. \A f \in {"fd", "retval"} : \E s \in 1 .. 2 : own[s].field = f
    OBVIOUS
  <2> QED
    BY <2>1, <2>2, <2>3, <2>4 DEF GoodLayout
<1>5. CASE k \in {"unlink", "stat", "rmdir"}
  <2> DEFINE own == <<Length, Name, I("retval")>>
  <2>1. LoadedOwn(k) = own
    BY <1>5 DEF LoadedOwn, LoadedTransfer, LoadedFile, LoadedTree, LoadedRest
  <2>2. Struct(k) = Named
    BY <1>5 DEF Struct, StructA, StructB
  <2>3. \A s \in 1 .. 3 : GoodField(k, own, s)
    BY <2>2 DEF GoodField
  <2>4. \A f \in {"name", "retval"} : \E s \in 1 .. 3 : own[s].field = f
    OBVIOUS
  <2> QED
    BY <2>1, <2>2, <2>3, <2>4 DEF GoodLayout
<1>6. CASE k = "lseek"
  <2> DEFINE own == <<I("fd"), I("flag"), L("offset"), L("retval")>>
  <2>1. LoadedOwn(k) = own
    BY <1>6 DEF LoadedOwn, LoadedTransfer, LoadedFile, LoadedTree, LoadedRest
  <2>2. Struct(k) = [fd |-> 4, flag |-> 4, offset |-> 8, retval |-> 8]
    BY <1>6 DEF Struct, StructA, StructB
  <2>3. \A s \in 1 .. 4 : GoodField(k, own, s)
    BY <2>2 DEF GoodField
  <2>4. \A f \in {"fd", "flag", "offset", "retval"} : \E s \in 1 .. 4 : own[s].field = f
    OBVIOUS
  <2> QED
    BY <2>1, <2>2, <2>3, <2>4 DEF GoodLayout
<1>7. CASE k = "llseek"
  <2> DEFINE own == <<I("fd"), L("offset"), L("f_offset"), I("flag"), L("retval")>>
  <2>1. LoadedOwn(k) = own
    BY <1>7 DEF LoadedOwn, LoadedTransfer, LoadedFile, LoadedTree, LoadedRest
  <2>2. Struct(k) = [fd |-> 4, offset |-> 8, f_offset |-> 8, flag |-> 4, retval |-> 8]
    BY <1>7 DEF Struct, StructA, StructB
  <2>3. \A s \in 1 .. 5 : GoodField(k, own, s)
    BY <2>2 DEF GoodField
  <2>4. \A f \in {"fd", "offset", "f_offset", "flag", "retval"} : \E s \in 1 .. 5 : own[s].field = f
    OBVIOUS
  <2> QED
    BY <2>1, <2>2, <2>3, <2>4 DEF GoodLayout
<1>8. CASE k = "clone"
  <2> DEFINE own == <<I("mode"), I("retval")>>
  <2>1. LoadedOwn(k) = own
    BY <1>8 DEF LoadedOwn, LoadedTransfer, LoadedFile, LoadedTree, LoadedRest
  <2>2. Struct(k) = [mode |-> 4, retval |-> 4]
    BY <1>8 DEF Struct, StructA, StructB
  <2>3. \A s \in 1 .. 2 : GoodField(k, own, s)
    BY <2>2 DEF GoodField
  <2>4. \A f \in {"mode", "retval"} : \E s \in 1 .. 2 : own[s].field = f
    OBVIOUS
  <2> QED
    BY <2>1, <2>2, <2>3, <2>4 DEF GoodLayout
<1>9. CASE k \in {"mkdir", "access"}
  <2> DEFINE own == <<Length, Name, I("mode"), I("retval")>>
  <2>1. LoadedOwn(k) = own
    BY <1>9 DEF LoadedOwn, LoadedTransfer, LoadedFile, LoadedTree, LoadedRest
  <2>2. Struct(k) = NamedMode
    BY <1>9 DEF Struct, StructA, StructB
  <2>3. \A s \in 1 .. 4 : GoodField(k, own, s)
    BY <2>2 DEF GoodField
  <2>4. \A f \in {"name", "mode", "retval"} : \E s \in 1 .. 4 : own[s].field = f
    OBVIOUS
  <2> QED
    BY <2>1, <2>2, <2>3, <2>4 DEF GoodLayout
<1>10. CASE k \in {"dup", "dup2", "dup3"}
  <2> DEFINE own == <<I("new_fd"), I("old_fd"), I("flags"), I("retval")>>
  <2>1. LoadedOwn(k) = own
    BY <1>10 DEF LoadedOwn, LoadedTransfer, LoadedFile, LoadedTree, LoadedRest
  <2>2. Struct(k) = DupOp
    BY <1>10 DEF Struct, StructA, StructB
  <2>3. \A s \in 1 .. 4 : GoodField(k, own, s)
    BY <2>2 DEF GoodField
  <2>4. \A f \in {"new_fd", "old_fd", "flags", "retval"} : \E s \in 1 .. 4 : own[s].field = f
    OBVIOUS
  <2> QED
    BY <2>1, <2>2, <2>3, <2>4 DEF GoodLayout
<1>11. CASE k = "pipe"
  <2> DEFINE own == <<I("fd1"), I("fd2"), I("mode"), I("retval")>>
  <2>1. LoadedOwn(k) = own
    BY <1>11 DEF LoadedOwn, LoadedTransfer, LoadedFile, LoadedTree, LoadedRest
  <2>2. Struct(k) = [fd1 |-> 4, fd2 |-> 4, mode |-> 4, retval |-> 4]
    BY <1>11 DEF Struct, StructA, StructB
  <2>3. \A s \in 1 .. 4 : GoodField(k, own, s)
    BY <2>2 DEF GoodField
  <2>4. \A f \in {"fd1", "fd2", "mode", "retval"} : \E s \in 1 .. 4 : own[s].field = f
    OBVIOUS
  <2> QED
    BY <2>1, <2>2, <2>3, <2>4 DEF GoodLayout
<1>12. CASE k = "socket"
  <2> DEFINE own == <<I("retval")>>
  <2>1. LoadedOwn(k) = own
    BY <1>12 DEF LoadedOwn, LoadedTransfer, LoadedFile, LoadedTree, LoadedRest
  <2>2. Struct(k) = [retval |-> 4]
    BY <1>12 DEF Struct, StructA, StructB
  <2>3. \A s \in 1 .. 1 : GoodField(k, own, s)
    BY <2>2 DEF GoodField
  <2>4. \A f \in {"retval"} : \E s \in 1 .. 1 : own[s].field = f
    OBVIOUS
  <2> QED
    BY <2>1, <2>2, <2>3, <2>4 DEF GoodLayout
<1>13. CASE k = "sendfile"
  <2> DEFINE own == <<I("out_fd"), I("in_fd"), L("offset"), L("size"), L("retval")>>
  <2>1. LoadedOwn(k) = own
    BY <1>13 DEF LoadedOwn, LoadedTransfer, LoadedFile, LoadedTree, LoadedRest
  <2>2. Struct(k) = [out_fd |-> 4, in_fd |-> 4, offset |-> 8, size |-> 8, retval |-> 8]
    BY <1>13 DEF Struct, StructA, StructB
  <2>3. \A s \in 1 .. 5 : GoodField(k, own, s)
    BY <2>2 DEF GoodField
  <2>4. \A f \in {"out_fd", "in_fd", "offset", "size", "retval"} : \E s \in 1 .. 5 : own[s].field = f
    OBVIOUS
  <2> QED
    BY <2>1, <2>2, <2>3, <2>4 DEF GoodLayout
<1> QED
  BY <1>1, <1>2, <1>3, <1>4, <1>5, <1>6, <1>7, <1>8, <1>9, <1>10, <1>11, <1>12, <1>13 DEF Kinds

Steps(k) == 1 .. LoadedSteps(k)

(* The same with the four fields of op_info_t behind them.                     *)
LEMMA Entries ==
  ASSUME NEW k \in Kinds
  PROVE  /\ LoadedSteps(k) = SavedSteps(k) /\ LoadedSteps(k) \in Nat
         /\ \A s \in Steps(k) : LoadedEntry(k, s) = SavedEntry(k, s)
         /\ "len" \notin FieldNames(k)
         /\ \A f \in FieldNames(k) : \E s \in Steps(k) : LoadedEntry(k, s).field = f
         /\ \A s \in Steps(k) :
              LET e == LoadedEntry(k, s)
              IN  \/ e.field = "len" /\ e.width = 4 /\ "name" \in FieldNames(k)
                  \/ /\ e.field = "name" /\ s = 2 /\ 3 \in Steps(k)
                     /\ LoadedEntry(k, 1).field = "len" /\ "name" \in FieldNames(k)
                  \/ /\ e.field \in FieldNames(k) \ {"len", "name"}
                     /\ e.width = MemWidth(k, e.field) /\ e.width \in {4, 8}
<1> DEFINE own == LoadedOwn(k)
<1>1. GoodLayout(k, own) /\ own = SavedOwn(k)
  BY Layouts, LayoutsAgree
<1>2. /\ Len(LoadedInfo) = 4 /\ SavedInfo = LoadedInfo
      /\ \A i \in 1 .. 4 : /\ LoadedInfo[i].field \in DOMAIN InfoStruct \ {"len", "name"}
                          /\ LoadedInfo[i].width = 4
                          /\ InfoStruct[LoadedInfo[i].field] = 4
      /\ \A f \in DOMAIN InfoStruct : \E i \in 1 .. 4 : LoadedInfo[i].field = f
      /\ DOMAIN InfoStruct = {"pid", "dur", "sec", "usec"}
  BY DEF LoadedInfo, SavedInfo, InfoStruct, I
<1>3. Len(own) \in Nat /\ LoadedSteps(k) = Len(own) + 4 /\ SavedSteps(k) = Len(own) + 4
  BY <1>1, <1>2 DEF GoodLayout, LoadedSteps, SavedSteps
<1> HIDE DEF own
<1>4. \A s \in Steps(k) : /\ s <= Len(own) => LoadedEntry(k, s) = own[s]
                          /\ s > Len(own) => LoadedEntry(k, s) = LoadedInfo[s - Len(own)]
  BY <1>3 DEF LoadedEntry, Steps, own
<1>5. \A s \in Steps(k) : LoadedEntry(k, s) = SavedEntry(k, s)
  BY <1>1, <1>2, <1>3 DEF LoadedEntry, SavedEntry, Steps, own
<1>6. "len" \notin FieldNames(k)
  BY <1>1, <1>2 DEF GoodLayout, FieldNames
<1>7. ASSUME NEW f \in FieldNames(k)
      PROVE  \E s \in Steps(k) : LoadedEntry(k, s).field = f
  <2>1. CASE f \in DOMAIN Struct(k)
    <3>1. PICK s \in 1 .. Len(own) : own[s].field = f
      BY <1>1, <2>1 DEF GoodLayout
    <3> QED
      BY <1>3, <1>4, <3>1 DEF Steps
  <2>2. CASE f \in DOMAIN InfoStruct
    <3>1. PICK i \in 1 .. 4 : LoadedInfo[i].field = f
      BY <1>2, <2>2
    <3>2. i + Len(own) \in Steps(k) /\ i + Len(own) > Len(own) /\ (i + Len(own)) - Len(own) = i
      BY <1>3 DEF Steps
    <3> QED
      BY <1>4, <3>1, <3>2
  <2> QED
    BY <2>1, <2>2 DEF FieldNames
<1>8. ASSUME NEW s \in Steps(k)
      PROVE  LET e == LoadedEntry(k, s)
              IN  \/ e.field = "len" /\ e.width = 4 /\ "name" \in FieldNames(k)
                  \/ /\ e.field = "name" /\ s = 2 /\ 3 \in Steps(k)
                     /\ LoadedEntry(k, 1).field = "len" /\ "name" \in FieldNames(k)
                  \/ /\ e.field \in FieldNames(k) \ {"len", "name"}
                     /\ e.width = MemWidth(k, e.field) /\ e.width \in {4, 8}
  <2>1. CASE s <= Len(own)
    <3>1. s \in 1 .. Len(own) /\ LoadedEntry(k, s) = own[s] /\ GoodField(k, own, s)
      BY <1>1, <1>3, <1>4, <2>1 DEF Steps, GoodLayout
    <3>2. 3 \in Steps(k) /\ 1 \in Steps(k) /\ 1 <= Len(own) /\ LoadedEntry(k, 1) = own[1]
      BY <1>3, <1>4, <3>1 DEF Steps
    <3> QED
      BY <1>2, <3>1, <3>2 DEF GoodField, MemWidth, FieldNames
  <2>2. CASE s > Len(own)
    <3>1. s - Len(own) \in 1 .. 4 /\ LoadedEntry(k, s) = LoadedInfo[s - Len(own)]
      BY <1>3, <1>4, <2>2 DEF Steps
    <3> QED
      BY <1>2, <3>1 DEF MemWidth, FieldNames
  <2> QED
    BY <1>3, <2>1, <2>2 DEF Steps
<1> QED
  BY <1>3, <1>5, <1>6, <1>7, <1>8

-----------------------------------------------------------------------------
LEMMA ListFacts ==
  ASSUME list \in Lists
  PROVE  /\ Len(list) \in Nat
         /\ \A i \in 1 .. Len(list) : /\ IsRecord(list[i])
                                      /\ list[i].kind \in Kinds /\ list[i].kind # "rmdir"
<1>1. list \in Seq({list[i] : i \in DOMAIN list}) /\ \A i \in DOMAIN list : IsRecord(list[i])
  BY ListsAssumption
<1>2. Len(list) \in Nat /\ DOMAIN list = 1 .. Len(list)
  BY <1>1
<1> QED
  BY <1>1, <1>2 DEF IsRecord

(* What is written for a field: the very bytes of the member.                  *)
LEMMA ChunkFacts ==
  ASSUME NEW it, IsRecord(it), NEW s \in 0 .. SavedSteps(it.kind)
  PROVE  /\ Chunk(it, s) \in Seq(Byte)
         /\ s = 0 => Chunk(it, s) = <<SavedCode(it.kind)>>
         /\ s # 0 =>
              LET e == LoadedEntry(it.kind, s)
              IN  /\ e.field = "len" => /\ Chunk(it, s) = Bytes32(Len(it.arg["name"]))
                                       /\ Len(Chunk(it, s)) = 4
                  /\ e.field = "name" => Chunk(it, s) = it.arg["name"]
                  /\ e.field \notin {"len", "name"} =>
                       /\ Chunk(it, s) = it.arg[e.field]
                       /\ Len(Chunk(it, s)) = e.width
<1> DEFINE k == it.kind
<1>1. k \in Kinds
  BY DEF IsRecord
<1>2. CASE s = 0
  <2>1. SavedCode(k) \in Byte
    BY <1>1 DEF Kinds, SavedCode, OpCode, Byte
  <2> QED
    BY <1>2, <2>1 DEF Chunk
<1>3. CASE s # 0
  <2> DEFINE e == LoadedEntry(k, s)
  <2>1. s \in Steps(k) /\ e = SavedEntry(k, s)
    BY <1>1, <1>3, Entries DEF Steps
  <2>2. CASE e.field = "len"
    <3>1. it.arg["name"] \in Seq(Byte \ {0}) /\ Len(it.arg["name"]) < MAX_STRING
      BY <1>1, <2>1, <2>2, Entries DEF IsRecord
    <3>2. Len(it.arg["name"]) \in Nat
      BY <3>1, LengthIsNat, Zenon
    <3>3. /\ Bytes32(Len(it.arg["name"])) \in Seq(Byte)
          /\ Len(Bytes32(Len(it.arg["name"]))) = 4
      BY <3>1, <3>2, LengthIsBytes
    <3>4. Chunk(it, s) = Bytes32(Len(it.arg["name"]))
      BY <1>3, <2>1, <2>2 DEF Chunk
    <3> QED
      BY <1>3, <2>2, <3>3, <3>4
  <2>3. CASE e.field = "name"
    <3>1. it.arg["name"] \in Seq(Byte \ {0})
      BY <1>1, <2>1, <2>3, Entries DEF IsRecord
    <3>2. Chunk(it, s) = it.arg["name"]
      BY <1>3, <2>1, <2>3 DEF Chunk
    <3> QED
      BY <1>3, <2>3, <3>1, <3>2
  <2>4. CASE e.field \notin {"len", "name"}
    <3>1. e.field \in FieldNames(k) /\ e.width = MemWidth(k, e.field) /\ e.width \in {4, 8}
      BY <1>1, <2>1, <2>4, Entries
    <3>2. it.arg[e.field] \in [1 .. e.width -> Byte]
      BY <2>4, <3>1 DEF IsRecord
    <3>3. Chunk(it, s) = Fit(it.arg[e.field], e.width)
      BY <1>3, <2>1, <2>4 DEF Chunk
    <3>4. Chunk(it, s) = it.arg[e.field]
      BY <3>1, <3>2, <3>3, FitKept
    <3>5. it.arg[e.field] \in Seq(Byte) /\ Len(it.arg[e.field]) = e.width
      BY <3>1, <3>2
    <3> QED
      BY <1>3, <2>4, <3>4, <3>5
  <2> QED
    BY <2>2, <2>3, <2>4
<1> QED
  BY <1>2, <1>3

(* The loader finds a byte wherever the saver put one, and an undamaged file   *)
(* holds what was written.                                                     *)
LEMMA DiskFacts ==
  ASSUME file \in Seq(Byte), damage \in [at : Nat, byte : Byte]
  PROVE  /\ OnDisk \in Seq(Byte) /\ Len(OnDisk) = Len(file)
         /\ Intact => OnDisk = file
<1>1. Len(file) \in Nat /\ damage.byte \in Byte
  BY LengthIsNat
<1>2. OnDisk \in [1 .. Len(file) -> Byte]
  BY <1>1 DEF OnDisk
<1>3. OnDisk \in Seq(Byte) /\ Len(OnDisk) = Len(file)
  BY <1>1, <1>2
<1>4. ASSUME Intact PROVE OnDisk = file
  <2>1. OnDisk = [i \in 1 .. Len(file) |-> file[i]]
    BY <1>1, <1>4 DEF Intact, OnDisk
  <2> QED
    BY <2>1
<1> QED
  BY <1>3, <1>4

-----------------------------------------------------------------------------
(* What has been written.                                                      *)
Mark == [item : Nat, step : Nat, from : Nat]

(* A mark at a field that is written, the bytes it stands for, and the mark    *)
(* that follows it.                                                            *)
Inside(a) == a.item \in 1 .. Len(list) /\ a.step \in 0 .. SavedSteps(list[a.item].kind)
BytesOf(a) == Chunk(list[a.item], a.step)
Follows(a, b) ==
  /\ b.from = a.from + Len(BytesOf(a))
  /\ IF a.step < SavedSteps(list[a.item].kind)
       THEN b.item = a.item /\ b.step = a.step + 1
       ELSE b.item = a.item + 1 /\ b.step = 0

Marked(m) ==
  /\ Inside(marks[m]) /\ Follows(marks[m], marks[m + 1])
  /\ marks[m + 1].from <= Len(file)
  /\ \A b \in 1 .. Len(BytesOf(marks[m])) :
       file[marks[m].from + b] = BytesOf(marks[m])[b]

Here == [item |-> item, step |-> step, from |-> Len(file)]

SaveInv ==
  /\ list \in Lists /\ file \in Seq(Byte)
  /\ marks \in Seq(Mark) /\ Len(marks) >= 1
  /\ marks[1] = [item |-> 1, step |-> 0, from |-> 0]
  /\ \A m \in 1 .. Len(marks) - 1 : Marked(m)
  /\ marks[Len(marks)] = Here
  /\ item \in 1 .. Len(list) + 1 /\ step \in Nat
  /\ IF item <= Len(list) THEN Inside(Here) ELSE step = 0
  /\ saved \in {"no", "ok", "failed"}
  /\ saved = "ok" => item = Len(list) + 1
  /\ kept \in 0 .. Len(file) /\ damage \in [at : Nat, byte : Byte]

LEMMA SaveInit == Init => SaveInv
<1> SUFFICES ASSUME Init PROVE SaveInv
  OBVIOUS
<1>1. Len(list) \in Nat /\ \A i \in 1 .. Len(list) : list[i].kind \in Kinds
  BY ListFacts DEF Init
<1>2. Len(file) = 0 /\ file \in Seq(Byte)
  BY DEF Init
<1>3. marks \in Seq(Mark) /\ Len(marks) = 1 /\ marks[1] = [item |-> 1, step |-> 0, from |-> 0]
  BY DEF Init, Mark
<1>4. Here = marks[1]
  BY <1>2, <1>3 DEF Init, Here
<1>5. 1 <= Len(list) => Inside(Here)
  BY <1>1, Entries DEF Init, Inside, Here
<1> QED
  BY <1>1, <1>2, <1>3, <1>4, <1>5 DEF Init, SaveInv, Byte

(* One more fwrite: what was marked stays, and the new mark follows.           *)
LEMMA PutKeeps ==
  ASSUME SaveInv, item <= Len(list), PutChunk, list' = list
  PROVE  /\ file' \in Seq(Byte) /\ Len(file) <= Len(file')
         /\ \A b \in 1 .. Len(file) : file'[b] = file[b]
         /\ Len(file') = Len(file) + Len(Chunk(list[item], step))
         /\ marks' \in Seq(Mark) /\ Len(marks') = Len(marks) + 1
         /\ \A m \in 1 .. Len(marks) : marks'[m] = marks[m]
         /\ \A m \in 1 .. Len(marks') - 1 : Marked(m)'
         /\ marks'[Len(marks')] = Here'
         /\ item' \in 1 .. Len(list) + 1 /\ step' \in Nat
         /\ IF item' <= Len(list) THEN Inside(Here') ELSE step' = 0
<1> DEFINE c == Chunk(list[item], step)
           k == list[item].kind
<1>1. Len(list) \in Nat /\ \A i \in 1 .. Len(list) : IsRecord(list[i]) /\ list[i].kind \in Kinds
  BY ListFacts DEF SaveInv
<1>2. item \in 1 .. Len(list) /\ k \in Kinds /\ step \in 0 .. SavedSteps(k)
  BY <1>1 DEF SaveInv, Inside, Here
<1>3. SavedSteps(k) \in Nat
  BY <1>2, Entries
<1>4. c \in Seq(Byte) /\ Len(c) \in Nat
  BY <1>1, <1>2, ChunkFacts, LengthIsNat
<1>5. file \in Seq(Byte) /\ Len(file) \in Nat /\ file' = file \o c
  BY LengthIsNat DEF SaveInv, PutChunk
<1> HIDE DEF c
<1>6. /\ file' \in Seq(Byte) /\ Len(file') = Len(file) + Len(c)
      /\ \A b \in 1 .. Len(file) : file'[b] = file[b]
      /\ \A b \in 1 .. Len(c) : file'[Len(file) + b] = c[b]
  BY <1>4, <1>5
<1>7. /\ item' \in 1 .. Len(list) + 1 /\ step' \in Nat
      /\ IF item' <= Len(list) THEN Inside(Here') ELSE step' = 0
      /\ IF step < SavedSteps(k) THEN item' = item /\ step' = step + 1
                               ELSE item' = item + 1 /\ step' = 0
  <2>1. IF step < SavedSteps(k) THEN item' = item /\ step' = step + 1
                               ELSE item' = item + 1 /\ step' = 0
    BY DEF PutChunk
  <2>2. item' \in 1 .. Len(list) + 1 /\ step' \in Nat
    BY <1>1, <1>2, <1>3, <2>1
  <2>3. ASSUME item' <= Len(list) PROVE step' \in 0 .. SavedSteps(list[item'].kind)
    <3>1. list[item'].kind \in Kinds /\ SavedSteps(list[item'].kind) \in Nat
      BY <1>1, <2>2, <2>3, Entries
    <3> QED
      BY <1>2, <1>3, <2>1, <3>1
  <2>4. item' > Len(list) => step' = 0
    BY <1>1, <1>2, <2>1
  <2> QED
    BY <1>1, <2>1, <2>2, <2>3, <2>4 DEF Inside, Here
<1>8. /\ marks \in Seq(Mark) /\ Len(marks) \in Nat \ {0}
      /\ marks' = Append(marks, Here') /\ Here' \in Mark
  BY SMTT(60), <1>4, <1>5, <1>6, <1>7, LengthIsNat DEF SaveInv, PutChunk, Mark, Here
<1>9. /\ marks' \in Seq(Mark) /\ Len(marks') = Len(marks) + 1
      /\ \A m \in 1 .. Len(marks) : marks'[m] = marks[m] /\ marks[m] \in Mark
      /\ marks'[Len(marks')] = Here'
  BY <1>8
<1>10. ASSUME NEW m \in 1 .. Len(marks') - 1
       PROVE  Marked(m)'
  <2>1. CASE m < Len(marks)
    <3>1. Marked(m) /\ m \in 1 .. Len(marks) - 1 /\ m + 1 \in 1 .. Len(marks)
      BY <1>8, <1>9, <2>1 DEF SaveInv
    <3>2. marks'[m] = marks[m] /\ marks'[m + 1] = marks[m + 1] /\ marks[m] \in Mark
      BY <1>9, <3>1
    <3>3. Inside(marks[m])' /\ BytesOf(marks[m])' = BytesOf(marks[m])
      BY <3>1, <3>2 DEF Marked, Inside, BytesOf
    <3>4. Follows(marks[m], marks[m + 1])'
      BY <3>1, <3>2 DEF Marked, Follows, BytesOf
    <3>5. Len(BytesOf(marks[m])) \in Nat
      BY <1>1, <3>1, ChunkFacts, LengthIsNat DEF Marked, Inside, BytesOf
    <3>6. marks[m + 1].from = marks[m].from + Len(BytesOf(marks[m])) /\ marks[m].from \in Nat
          /\ marks[m + 1].from <= Len(file)
      BY <3>1, <3>2 DEF Marked, Follows, Mark
    <3>7. ASSUME NEW b \in 1 .. Len(BytesOf(marks[m]))
          PROVE  file'[marks[m].from + b] = BytesOf(marks[m])[b]
      <4>1. marks[m].from + b \in 1 .. Len(file)
        BY <1>5, <3>5, <3>6, SMTT(60)
      <4> QED
        BY <1>6, <3>1, <4>1 DEF Marked
    <3>8. marks'[m + 1].from <= Len(file')
      BY <1>4, <1>5, <1>6, <3>2, <3>6, <3>5
    <3>9. \A b \in 1 .. Len(BytesOf(marks[m])') :
            file'[marks'[m].from + b] = BytesOf(marks[m])'[b]
      BY <3>2, <3>3, <3>7
    <3> QED
      BY <3>3, <3>4, <3>8, <3>9 DEF Marked
  <2>2. CASE m = Len(marks)
    <3>1. marks'[m] = Here /\ marks'[m + 1] = Here'
      BY <1>8, <1>9, <2>2 DEF SaveInv
    <3>3. Inside(marks'[m]) /\ BytesOf(marks'[m]) = c
      BY <1>2, <3>1 DEF Inside, BytesOf, Here, c
    <3>4. Follows(marks'[m], marks'[m + 1])
      BY <1>6, <1>7, <3>1, <3>3 DEF Follows, Here
    <3> QED
      BY <1>6, <3>1, <3>3, <3>4, SMTT(60) DEF Marked, Inside, Follows, BytesOf, Here
  <2> QED
    BY <1>8, <1>9, <1>10, <2>1, <2>2
<1> QED
  BY <1>4, <1>5, <1>6, <1>7, <1>9, <1>10 DEF c

LEMMA SaveStep == SaveInv /\ [Next]_vars => SaveInv'
<1> SUFFICES ASSUME SaveInv, [Next]_vars PROVE SaveInv'
  OBVIOUS
<1> USE DEF SaveInv
<1>0. Len(list) \in Nat /\ Len(file) \in Nat
  BY ListFacts, LengthIsNat
<1>1. CASE UNCHANGED <<list, saverVars>>
  BY <1>1 DEF saverVars, Marked, Inside, Follows, BytesOf, Here
<1>2. CASE WriteField
  <2>1. list' = list /\ item <= Len(list) /\ PutChunk /\ saved' = "no" /\ kept' = kept
        /\ damage' = damage
    BY <1>2 DEF WriteField
  <2>2. Len(file') \in Nat
    BY <2>1, PutKeeps, LengthIsNat
  <2>3. Len(marks) \in Nat /\ marks'[1] = marks[1]
    BY <2>1, PutKeeps, LengthIsNat
  <2> QED
    <3>1. kept' \in 0 .. Len(file') /\ item' \in 1 .. Len(list') + 1
      BY <2>1, <2>2, PutKeeps
    <3>2. IF item' <= Len(list') THEN Inside(Here)' ELSE step' = 0
      BY <2>1, PutKeeps DEF Inside, Here
    <3>3. marks' \in Seq(Mark) /\ Len(marks') >= 1 /\ marks'[1] = marks[1]
      BY <2>1, <2>3, PutKeeps
    <3> QED
      BY <2>1, <3>1, <3>2, <3>3, PutKeeps
<1>3. CASE WriteFails
  <2>1. /\ list' = list /\ item <= Len(list) /\ PutChunk /\ saved' = "failed"
        /\ kept' \in 0 .. Len(file') - 1 /\ damage' = damage
    BY <1>3 DEF WriteFails
  <2>2. Len(file') \in Nat
    BY <2>1, PutKeeps, LengthIsNat
  <2>3. /\ marks \in Seq(Mark) /\ Len(marks') = Len(marks) + 1
        /\ \A m \in 1 .. Len(marks) : marks'[m] = marks[m]
    BY <2>1, PutKeeps
  <2>4. Len(marks') >= 1 /\ marks'[1] = marks[1]
    BY <2>3, LengthIsNat
  <2>6. kept' \in 0 .. Len(file')
    BY <2>1, <2>2
  <2>5. /\ IF item' <= Len(list') THEN Inside(Here)' ELSE step' = 0
        /\ marks'[Len(marks')] = Here'
    BY <2>1, PutKeeps DEF Inside, Here
  <2> QED
    BY <2>1, <2>4, <2>5, <2>6, PutKeeps
<1>4. CASE CloseFile
  BY <1>0, <1>4 DEF CloseFile, Marked, Inside, Follows, BytesOf, Here
<1>5. CASE Load
  <2>1. UNCHANGED <<list, saverVars>>
    BY <1>5 DEF Load, EndOfFile, LooksLikeEof, ReadLetter, UnknownLetter, ReadField,
                ReadFails, ReadOverruns, AppendRecord, saverVars
  <2> QED
    BY <1>1, <2>1
<1>6. CASE Damage
  <2>1. UNCHANGED <<list, file, item, step, marks, saved, kept>>
    BY <1>6 DEF Damage
  <2>2. damage' \in [at : Nat, byte : Byte]
    BY <1>6, DamageAssumption DEF Damage
  <2>3. Here' = Here /\ Inside(Here)' = Inside(Here)
    BY <2>1 DEF Inside, Here
  <2> HIDE DEF SaveInv
  <2>4. ASSUME NEW m \in 1 .. Len(marks) - 1, Marked(m) PROVE Marked(m)'
    <3>1. /\ Inside(marks[m])' = Inside(marks[m]) /\ BytesOf(marks[m])' = BytesOf(marks[m])
          /\ Follows(marks[m], marks[m + 1])' = Follows(marks[m], marks[m + 1])
      BY <2>1 DEF Inside, BytesOf, Follows
    <3> QED
      BY <2>1, <2>4, <3>1, Zenon DEF Marked
  <2>5. \A m \in 1 .. Len(marks') - 1 : Marked(m)'
    BY <2>1, <2>4 DEF SaveInv
  <2> QED
    BY <2>1, <2>2, <2>3, <2>5, Zenon DEF SaveInv
<1> QED
  BY <1>1, <1>2, <1>3, <1>4, <1>5, <1>6 DEF Next, vars

-----------------------------------------------------------------------------
(* What has been read.                                                         *)
At(i, s) == \E m \in 1 .. Len(marks) : marks[m] = [item |-> i, step |-> s, from |-> pos]
Record == Len(out) + 1

(* The members read so far are those of the record that was saved.             *)
GotRight ==
  /\ DOMAIN got = {LoadedEntry(reading, s).field : s \in 1 .. field - 1}
  /\ \A f \in DOMAIN got :
       got[f] = IF f = "len" THEN Bytes32(Len(list[Record].arg["name"]))
                ELSE list[Record].arg[f]

(* Past an empty name whose fwrite was never made.                             *)
Beyond == field = 3 /\ pos = Len(file) /\ saved = "failed"

LoadType ==
  /\ pos \in 0 .. kept /\ field \in Nat
  /\ reading \in Kinds \cup {"none"}
  /\ loaded \in {"no", "ok", "failed", "crashed"}
  /\ \E S : out \in Seq(S)
  /\ saved = "no" => pos = 0 /\ reading = "none" /\ out = <<>> /\ loaded = "no"

(* The length of a name is a number when the name is read.                     *)
LengthRead ==
  reading # "none" =>
    /\ field \in 1 .. LoadedSteps(reading) + 1
    /\ field = 2 /\ LoadedEntry(reading, 1).field = "len" => Int32Of(got["len"]) \in Int

BetweenRecords ==
  reading = "none" /\ Intact =>
    Len(out) <= Len(list) /\ At(Record, 0)

InRecord ==
  reading # "none" /\ Intact =>
    /\ Record <= Len(list) /\ reading = list[Record].kind
    /\ field \in 1 .. LoadedSteps(reading) + 1
    /\ GotRight
    /\ IF field <= LoadedSteps(reading) THEN At(Record, field) \/ Beyond
       ELSE At(Record + 1, 0)

Ended ==
  Intact =>
    /\ loaded = "ok" => reading = "none" /\ pos = kept
    /\ loaded = "failed" => saved = "failed" \/ kept < Len(file)
    /\ loaded # "crashed"

LoadInv == LoadType /\ LengthRead /\ BetweenRecords /\ InRecord /\ Ended /\ LoadedAsSaved

LEMMA LoadInit == Init => LoadInv
<1> SUFFICES ASSUME Init PROVE LoadInv
  OBVIOUS
<1>1. SaveInv
  BY SaveInit
<1>2. out = <<>> /\ Len(out) = 0 /\ DOMAIN out = {} /\ out \in Seq({}) /\ Record = 1
  BY DEF Init, Record
<1>3. Len(list) \in Nat
  BY <1>1, ListFacts DEF SaveInv
<1>4. At(1, 0)
  <2>1. marks[1] = [item |-> 1, step |-> 0, from |-> pos] /\ Len(marks) \in Nat /\ Len(marks) >= 1
    BY <1>1, LengthIsNat DEF Init, SaveInv
  <2> QED
    BY <2>1 DEF At
<1> QED
  BY <1>2, <1>3, <1>4 DEF Init, LoadInv, LoadType, LengthRead, BetweenRecords, InRecord, Ended, LoadedAsSaved

LEMMA SubSeqIs ==
  ASSUME NEW S, NEW q \in Seq(S), NEW a \in Nat, NEW n \in Nat, a + n <= Len(q)
  PROVE  SubSeq(q, a + 1, a + n) = [b \in 1 .. n |-> q[a + b]]
OBVIOUS

LEMMA MarkFacts ==
  ASSUME SaveInv, NEW m \in 1 .. Len(marks)
  PROVE  /\ marks[m] \in Mark /\ Len(marks) \in Nat /\ Len(file) \in Nat
         /\ m # Len(marks) => Marked(m) /\ m + 1 \in 1 .. Len(marks)
         /\ m = Len(marks) => marks[m] = Here
<1>1. marks \in Seq(Mark) /\ Len(marks) \in Nat /\ Len(file) \in Nat
  BY LengthIsNat DEF SaveInv
<1> QED
  BY <1>1 DEF SaveInv

(* A field that starts where the loader is and whose bytes came to the disk is *)
(* read as it was written, and the next field starts behind it.                *)
LEMMA Reached ==
  ASSUME SaveInv, NEW i, NEW s, NEW m \in 1 .. Len(marks), pos \in Nat,
         marks[m] = [item |-> i, step |-> s, from |-> pos],
         m # Len(marks)
  PROVE  LET c == Chunk(list[i], s)
         IN  /\ i \in 1 .. Len(list) /\ s \in 0 .. SavedSteps(list[i].kind)
             /\ c \in Seq(Byte) /\ Len(c) \in Nat /\ pos + Len(c) <= Len(file)
             /\ SubSeq(file, pos + 1, pos + Len(c)) = c
             /\ m + 1 \in 1 .. Len(marks)
             /\ marks[m + 1] = IF s < SavedSteps(list[i].kind)
                   THEN [item |-> i, step |-> s + 1, from |-> pos + Len(c)]
                   ELSE [item |-> i + 1, step |-> 0, from |-> pos + Len(c)]
<1> DEFINE c == Chunk(list[i], s)
<1>1. Marked(m) /\ m + 1 \in 1 .. Len(marks) /\ marks[m + 1] \in Mark /\ Len(file) \in Nat
  BY MarkFacts
<1>2. i \in 1 .. Len(list) /\ s \in 0 .. SavedSteps(list[i].kind)
  BY <1>1 DEF Marked, Inside
<1>3. c \in Seq(Byte) /\ Len(c) \in Nat
  <2>1. IsRecord(list[i])
    BY <1>2, ListFacts DEF SaveInv
  <2> QED
    BY <1>2, <2>1, ChunkFacts, LengthIsNat
<1>4. BytesOf(marks[m]) = c
  BY DEF BytesOf
<1> HIDE DEF c
<1>5. /\ pos + Len(c) <= Len(file)
      /\ \A b \in 1 .. Len(c) : file[pos + b] = c[b]
      /\ marks[m + 1].from = pos + Len(c)
      /\ IF s < SavedSteps(list[i].kind)
           THEN marks[m + 1].item = i /\ marks[m + 1].step = s + 1
           ELSE marks[m + 1].item = i + 1 /\ marks[m + 1].step = 0
  <2>1. marks[m].item = i /\ marks[m].step = s /\ marks[m].from = pos
    OBVIOUS
  <2>2. /\ Follows(marks[m], marks[m + 1]) /\ marks[m + 1].from <= Len(file)
        /\ \A b \in 1 .. Len(c) : file[marks[m].from + b] = c[b]
    BY <1>1, <1>4, Zenon DEF Marked
  <2>3. /\ marks[m + 1].from = pos + Len(c)
        /\ IF s < SavedSteps(list[i].kind)
             THEN marks[m + 1].item = i /\ marks[m + 1].step = s + 1
             ELSE marks[m + 1].item = i + 1 /\ marks[m + 1].step = 0
    BY <1>4, <2>1, <2>2 DEF Follows
  <2> QED
    BY <2>1, <2>2, <2>3
<1>6. SubSeq(file, pos + 1, pos + Len(c)) = c
  <2>1. file \in Seq(Byte)
    BY DEF SaveInv
  <2>2. SubSeq(file, pos + 1, pos + Len(c)) = [b \in 1 .. Len(c) |-> file[pos + b]]
    <3>1. pos \in Nat /\ pos + Len(c) <= Len(file)
      BY <1>1, <1>5
    <3> QED
      BY <1>3, <2>1, <3>1, SubSeqIs
  <2>3. c = [b \in 1 .. Len(c) |-> c[b]]
    BY <1>3
  <2>4. [b \in 1 .. Len(c) |-> file[pos + b]] = [b \in 1 .. Len(c) |-> c[b]]
    BY <1>5
  <2> QED
    BY <2>2, <2>3, <2>4
<1>7. marks[m + 1] = IF s < SavedSteps(list[i].kind)
                   THEN [item |-> i, step |-> s + 1, from |-> pos + Len(c)]
                   ELSE [item |-> i + 1, step |-> 0, from |-> pos + Len(c)]
  BY <1>1, <1>5 DEF Mark
<1> QED
  BY <1>1, <1>2, <1>3, <1>5, <1>6, <1>7 DEF c

(* The next byte is the character of the next record.                          *)
LEMMA LetterThere ==
  ASSUME SaveInv, LoadInv, reading = "none", pos < kept, Intact
  PROVE  /\ Record <= Len(list) /\ list[Record].kind \in Kinds \ {"rmdir"}
         /\ file[pos + 1] = SavedCode(list[Record].kind)
         /\ \E m \in 1 .. Len(marks) :
              marks[m] = [item |-> Record, step |-> 1, from |-> pos + 1]
<1>1. pos \in Nat /\ kept \in Nat /\ kept <= Len(file) /\ Len(file) \in Nat
  BY LengthIsNat DEF SaveInv, LoadInv, LoadType
<1>2. PICK m \in 1 .. Len(marks) : marks[m] = [item |-> Record, step |-> 0, from |-> pos]
  BY DEF LoadInv, BetweenRecords, At
<1>3. m # Len(marks)
  BY <1>1, <1>2, MarkFacts DEF Here
<1>4. /\ Record \in 1 .. Len(list) /\ IsRecord(list[Record])
      /\ list[Record].kind \in Kinds /\ list[Record].kind # "rmdir"
  BY <1>1, <1>2, <1>3, Reached, ListFacts DEF SaveInv
<1>5. 0 \in 0 .. SavedSteps(list[Record].kind) /\ 0 < SavedSteps(list[Record].kind)
  BY <1>4, Entries DEF SavedSteps, SavedInfo, LoadedSteps
<1>6. Chunk(list[Record], 0) = <<SavedCode(list[Record].kind)>>
  BY <1>4, <1>5, ChunkFacts
<1>7. /\ SubSeq(file, pos + 1, pos + 1) = <<SavedCode(list[Record].kind)>>
      /\ pos + 1 <= Len(file)
      /\ m + 1 \in 1 .. Len(marks)
      /\ marks[m + 1] = [item |-> Record, step |-> 1, from |-> pos + 1]
  <2> DEFINE c == Chunk(list[Record], 0)
  <2>1. Len(c) = 1
    BY <1>6
  <2>2. /\ SubSeq(file, pos + 1, pos + Len(c)) = c /\ pos + Len(c) <= Len(file)
        /\ m + 1 \in 1 .. Len(marks)
        /\ 0 < SavedSteps(list[Record].kind) =>
             marks[m + 1] = [item |-> Record, step |-> 0 + 1, from |-> pos + Len(c)]
    BY <1>1, <1>2, <1>3, Reached
  <2>3. c = <<SavedCode(list[Record].kind)>>
    BY <1>6
  <2> HIDE DEF c
  <2> QED
    BY <1>5, <2>1, <2>2, <2>3
<1>8. file[pos + 1] = SavedCode(list[Record].kind)
  <2>1. file \in Seq(Byte)
    BY DEF SaveInv
  <2>2. SubSeq(file, pos + 1, pos + 1)[1] = file[pos + 1]
    BY <1>1, <1>7, <2>1
  <2>3. <<SavedCode(list[Record].kind)>>[1] = SavedCode(list[Record].kind)
    OBVIOUS
  <2> QED
    BY <1>7, <2>2, <2>3, Zenon
<1> QED
  BY <1>4, <1>7, <1>8

(* The width of the next field, and what is made of its bytes.                 *)
LEMMA WidthRight ==
  ASSUME SaveInv, LoadInv, reading # "none", Intact,
         field <= LoadedSteps(reading)
  PROVE  LET c == Chunk(list[Record], field)
         IN  /\ Record \in 1 .. Len(list) /\ reading = list[Record].kind
             /\ field \in Steps(reading) /\ LoadedSteps(reading) = SavedSteps(reading)
             /\ Len(c) \in Nat /\ Width = Len(c)
             /\ Entry.field = "name" => /\ field = 2 /\ 3 \in Steps(reading)
                                        /\ Width < MAX_STRING
             /\ Entry.field # "name" => Width > 0
             /\ Entry.field \in FieldNames(reading) \cup {"len"}
             /\ Member(c) = IF Entry.field = "len"
                              THEN Bytes32(Len(list[Record].arg["name"]))
                              ELSE list[Record].arg[Entry.field]
<1> DEFINE r == list[Record]
           c == Chunk(r, field)
<1>1. Len(out) \in Nat /\ Len(list) \in Nat
  <2>1. PICK S : out \in Seq(S)
    BY DEF LoadInv, LoadType
  <2> QED
    BY <2>1, LengthIsNat, ListFacts DEF SaveInv
<1>2. /\ Record \in 1 .. Len(list) /\ reading = r.kind /\ reading \in Kinds
      /\ IsRecord(r) /\ GotRight /\ field \in 1 .. LoadedSteps(reading) + 1
  BY <1>1, ListFacts DEF LoadInv, InRecord, Record, SaveInv
<1>3. field \in Steps(reading) /\ LoadedSteps(reading) = SavedSteps(reading)
  BY <1>2, Entries DEF Steps
<1>4. field \in 0 .. SavedSteps(r.kind) /\ field # 0
  BY <1>2, <1>3 DEF Steps
<1>5. c \in Seq(Byte) /\ Len(c) \in Nat
  BY <1>2, <1>4, ChunkFacts, LengthIsNat
<1>6. Entry = LoadedEntry(reading, field)
  BY DEF Entry
<1>7. CASE Entry.field = "len"
  <2>1. c = Bytes32(Len(r.arg["name"])) /\ Len(c) = 4
    BY <1>2, <1>4, <1>6, <1>7, ChunkFacts
  <2>2. Entry.width = 4
    BY <1>2, <1>3, <1>6, <1>7, Entries
  <2>3. Width = Len(c)
    BY <1>7, <2>1, <2>2 DEF Width
  <2> QED
    BY <1>2, <1>3, <1>7, <2>1, <2>3 DEF Member
<1>8. CASE Entry.field = "name"
  <2>1. c = r.arg["name"]
    BY <1>2, <1>4, <1>6, <1>8, ChunkFacts
  <2>2. field = 2 /\ 3 \in Steps(reading) /\ LoadedEntry(reading, 1).field = "len"
        /\ "name" \in FieldNames(reading)
    BY <1>2, <1>3, <1>6, <1>8, Entries
  <2>3. r.arg["name"] \in Seq(Byte \ {0}) /\ Len(r.arg["name"]) < MAX_STRING
    BY <1>2, <2>2 DEF IsRecord
  <2>4. got["len"] = Bytes32(Len(r.arg["name"]))
    BY <1>2, <2>2 DEF GotRight
  <2>5. Width = Len(r.arg["name"])
    BY <1>5, <1>8, <2>1, <2>3, <2>4, LengthIsBytes DEF Width
  <2>6. CString(r.arg["name"]) = r.arg["name"]
    <3>1. \A i \in 1 .. Len(r.arg["name"]) : r.arg["name"][i] # 0
      BY <2>3
    <3> QED
      BY <3>1 DEF CString
  <2>7. Member(c) = r.arg["name"]
    BY <1>8, <2>1, <2>6 DEF Member
  <2> QED
    BY <1>2, <1>3, <1>5, <1>8, <2>1, <2>2, <2>3, <2>5, <2>7
<1>9. CASE Entry.field \notin {"len", "name"}
  <2>1. /\ Entry.field \in FieldNames(reading) /\ Entry.width = MemWidth(reading, Entry.field)
        /\ Entry.width \in {4, 8}
    BY <1>2, <1>3, <1>6, <1>9, Entries
  <2>2. c = r.arg[Entry.field] /\ Len(c) = Entry.width
    BY <1>2, <1>4, <1>6, <1>9, ChunkFacts
  <2>3. Width = Len(c) /\ Width > 0
    BY <1>9, <2>1, <2>2 DEF Width
  <2>4. r.arg[Entry.field] \in [1 .. Entry.width -> Byte]
    BY <1>2, <1>9, <2>1 DEF IsRecord
  <2>5. Member(c) = Fit(c, Entry.width)
    BY <1>9, <2>1 DEF Member
  <2>6. Member(c) = r.arg[Entry.field]
    BY <2>1, <2>2, <2>4, <2>5, FitKept
  <2> QED
    BY <1>2, <1>3, <1>5, <1>9, <2>1, <2>3, <2>6
<1> QED
  BY <1>7, <1>8, <1>9

LEMMA OutFacts ==
  ASSUME LoadInv
  PROVE  Len(out) \in Nat /\ DOMAIN out = 1 .. Len(out)
<1>1. PICK S : out \in Seq(S)
  BY DEF LoadInv, LoadType
<1> QED
  BY <1>1

LEMMA Appended ==
  ASSUME NEW S, NEW f \in Seq(S), NEW x
  PROVE  /\ Len(Append(f, x)) = Len(f) + 1
         /\ Append(f, x)[Len(f) + 1] = x
         /\ \A i \in 1 .. Len(f) : Append(f, x)[i] = f[i]
         /\ Append(f, x) \in Seq(S \cup {x})
<1>1. f \in Seq(S \cup {x}) /\ x \in S \cup {x}
  OBVIOUS
<1> QED
  BY <1>1

(* The saver writes while the loader waits at the start of the file.           *)
LEMMA SaverKeepsLoad ==
  ASSUME SaveInv, LoadInv, saved = "no", list' = list, UNCHANGED loaderVars,
         marks' \in Seq(Mark), Len(marks') >= 1, marks'[1] = marks[1],
         kept' \in Nat
  PROVE  LoadInv'
<1>1. /\ pos = 0 /\ reading = "none" /\ out = <<>> /\ loaded = "no"
      /\ UNCHANGED <<pos, reading, field, got, out, loaded>>
  BY DEF LoadInv, LoadType, loaderVars
<1>2. Len(out) = 0 /\ Record = 1 /\ DOMAIN out = {} /\ Len(list) \in Nat
  BY <1>1, ListFacts DEF Record, SaveInv
<1>3. At(1, 0)'
  <2>1. Len(marks') \in Nat /\ 1 \in 1 .. Len(marks')
    BY LengthIsNat
  <2>2. marks'[1] = [item |-> 1, step |-> 0, from |-> pos']
    BY <1>1 DEF SaveInv
  <2> QED
    BY <2>1, <2>2 DEF At
<1>4. LoadType'
  BY <1>1 DEF LoadInv, LoadType
<1>5. BetweenRecords'
  BY <1>1, <1>2, <1>3 DEF BetweenRecords, Record
<1> QED
  BY <1>1, <1>2, <1>4, <1>5 DEF LoadInv, LengthRead, InRecord, Ended, LoadedAsSaved

LEMMA LetterStep ==
  ASSUME SaveInv, LoadInv, ReadLetter
  PROVE  LoadInv'
<1> USE DEF ReadLetter, saverVars
<1>1. /\ UNCHANGED <<list, file, marks, saved, kept, damage, out, loaded>>
      /\ reading = "none" /\ pos < kept /\ loaded = "no" /\ saved # "no"
      /\ reading' \in Kinds /\ OpCode[reading'] = OnDisk[pos + 1]
      /\ pos' = pos + 1 /\ field' = 1 /\ got' = NoMember
  BY DEF Loading
<1>2. LoadType'
  BY <1>1 DEF LoadInv, LoadType, SaveInv
<1>3. "none" \notin Kinds
  BY DEF Kinds
<1>4. ASSUME Intact
      PROVE  /\ Record <= Len(list) /\ reading' = list[Record].kind
             /\ GotRight' /\ 1 \in 1 .. LoadedSteps(reading') + 1
             /\ 1 <= LoadedSteps(reading') /\ At(Record, 1)'
  <2>1. OnDisk = file
    BY <1>4, DiskFacts DEF SaveInv
  <2>3. /\ Record <= Len(list) /\ list[Record].kind \in Kinds \ {"rmdir"}
        /\ file[pos + 1] = SavedCode(list[Record].kind)
        /\ \E m \in 1 .. Len(marks) :
              marks[m] = [item |-> Record, step |-> 1, from |-> pos + 1]
    BY <1>1, <1>4, LetterThere
  <2>5. reading' = list[Record].kind
    BY <1>1, <2>1, <2>3, Letters
  <2>6. LoadedSteps(reading') \in Nat /\ 1 <= LoadedSteps(reading')
    BY <1>1, Entries DEF LoadedSteps, LoadedInfo
  <2>7. GotRight'
    BY <1>1 DEF GotRight, NoMember
  <2>8. Record' = Record
    BY <1>1 DEF Record
  <2>9. At(Record, 1)'
    BY <1>1, <2>3, <2>8 DEF At
  <2> QED
    BY <2>3, <2>5, <2>6, <2>7, <2>9
<1>5. InRecord'
  BY <1>1, <1>3, <1>4 DEF InRecord, Record, Intact
<1>6. LengthRead'
  <2>1. LoadedSteps(reading') \in Nat
    BY <1>1, Entries
  <2> QED
    BY <1>1, <2>1 DEF LengthRead
<1> QED
  BY <1>1, <1>2, <1>3, <1>5, <1>6 DEF LoadInv, BetweenRecords, Ended, LoadedAsSaved, Intact

(* Neither an end nor an unknown character is met where a record starts.       *)
LEMMA NoStrayLetter ==
  ASSUME SaveInv, LoadInv, LooksLikeEof \/ UnknownLetter
  PROVE  ~Intact
<1>1. /\ reading = "none" /\ pos < kept
      /\ OnDisk[pos + 1] = 255 \/ \A k \in Kinds : OpCode[k] # OnDisk[pos + 1]
  BY DEF LooksLikeEof, UnknownLetter
<1>2. \A k \in Kinds : SavedCode(k) # 255 /\ \E j \in Kinds : OpCode[j] = SavedCode(k)
  BY DEF Kinds, SavedCode, OpCode
<1>3. Intact => OnDisk = file
  BY DiskFacts DEF SaveInv
<1> QED
  BY <1>1, <1>2, <1>3, LetterThere

(* A field that is on the disk is read as it was written, and the loader comes *)
(* to the next one.                                                            *)
LEMMA FieldThere ==
  ASSUME SaveInv, LoadInv, saved # "no", reading # "none", Intact,
         field <= LoadedSteps(reading), Fits
  PROVE  LET c == Chunk(list[Record], field)
         IN  /\ SubSeq(file, pos + 1, pos + Width) = c
             /\ \/ \E m \in 1 .. Len(marks) :
                     marks[m] = IF field < LoadedSteps(reading)
                       THEN [item |-> Record, step |-> field + 1, from |-> pos + Width]
                       ELSE [item |-> Record + 1, step |-> 0, from |-> pos + Width]
                \/ /\ field = 2 /\ 3 <= LoadedSteps(reading)
                   /\ pos + Width = Len(file) /\ saved = "failed"
<1> DEFINE c == Chunk(list[Record], field)
<1>1. /\ Record \in 1 .. Len(list) /\ reading = list[Record].kind
      /\ field \in Steps(reading) /\ LoadedSteps(reading) = SavedSteps(reading)
      /\ Len(c) \in Nat /\ Width = Len(c)
      /\ Entry.field = "name" => field = 2 /\ 3 \in Steps(reading)
      /\ Entry.field # "name" => Width > 0
  BY WidthRight
<1>2. /\ pos \in Nat /\ kept \in Nat /\ kept <= Len(file) /\ Len(file) \in Nat
      /\ pos + Width <= kept /\ pos <= kept
  BY LengthIsNat DEF SaveInv, LoadInv, LoadType, Fits
<1>3. At(Record, field) \/ Beyond
  BY DEF LoadInv, InRecord
<1>4. c \in Seq(Byte)
  <2>1. IsRecord(list[Record])
    BY <1>1, ListFacts DEF SaveInv
  <2>2. field \in 0 .. SavedSteps(list[Record].kind)
    BY <1>1 DEF Steps
  <2> QED
    BY <2>1, <2>2, ChunkFacts
<1>5. ASSUME NEW m \in 1 .. Len(marks), m # Len(marks),
             marks[m] = [item |-> Record, step |-> field, from |-> pos]
      PROVE  /\ SubSeq(file, pos + 1, pos + Len(c)) = c
             /\ m + 1 \in 1 .. Len(marks)
             /\ marks[m + 1] = IF field < SavedSteps(list[Record].kind)
                   THEN [item |-> Record, step |-> field + 1, from |-> pos + Len(c)]
                   ELSE [item |-> Record + 1, step |-> 0, from |-> pos + Len(c)]
  BY <1>2, <1>5, Reached
<1> HIDE DEF c
<1>6. ASSUME pos = Len(file), saved = "failed"
      PROVE  /\ SubSeq(file, pos + 1, pos + Width) = c /\ Width = 0
             /\ field = 2 /\ 3 <= LoadedSteps(reading) /\ pos + Width = Len(file)
  <2>1. Width = 0
    BY <1>1, <1>2, <1>6
  <2>2. field = 2 /\ 3 <= LoadedSteps(reading)
    BY <1>1, <2>1 DEF Steps
  <2>3. c = <<>>
    BY <1>1, <1>4, <2>1, NoBytes
  <2>4. SubSeq(file, pos + 1, pos + 0) = <<>>
    <3>1. file \in Seq(Byte)
      BY DEF SaveInv
    <3> QED
      BY <1>2, <3>1
  <2> QED
    BY <1>6, <2>1, <2>2, <2>3, <2>4
<1>7. CASE Beyond
  BY <1>6, <1>7 DEF Beyond, c
<1>8. CASE At(Record, field)
  <2>1. PICK m \in 1 .. Len(marks) :
          marks[m] = [item |-> Record, step |-> field, from |-> pos]
    BY <1>8 DEF At
  <2>2. CASE m # Len(marks)
    BY <1>1, <1>5, <2>1, <2>2 DEF c
  <2>3. CASE m = Len(marks)
    <3>1. marks[m] = Here
      BY <2>3, MarkFacts
    <3>2. item = Record /\ pos = Len(file)
      BY <2>1, <3>1 DEF Here
    <3>3. saved = "failed"
      BY <1>1, <3>2, ListFacts DEF SaveInv
    <3> QED
      BY <1>6, <3>2, <3>3 DEF c
  <2> QED
    BY <2>2, <2>3
<1> QED
  BY <1>3, <1>7, <1>8

LEMMA FieldStep ==
  ASSUME SaveInv, LoadInv, ReadField
  PROVE  LoadInv'
<1>1. /\ UNCHANGED <<list, file, marks, saved, kept, damage, reading, out, loaded>>
      /\ reading # "none" /\ loaded = "no" /\ saved # "no" /\ Fits
      /\ field <= LoadedSteps(reading)
      /\ got' = [f \in DOMAIN got \cup {Entry.field} |->
                   IF f = Entry.field THEN Member(SubSeq(OnDisk, pos + 1, pos + Width))
                   ELSE got[f]]
      /\ pos' = pos + Width /\ field' = field + 1
  BY DEF ReadField, Loading, saverVars
<1>2. /\ pos \in Nat /\ kept \in Nat /\ kept <= Len(file) /\ Len(file) \in Nat
      /\ pos <= kept /\ field \in Nat
  BY LengthIsNat DEF SaveInv, LoadInv, LoadType
<1>a. reading \in Kinds /\ LoadedSteps(reading) \in Nat /\ field \in Steps(reading)
  BY <1>1, Entries DEF LoadInv, LoadType, LengthRead, Steps
<1>b. Entry = LoadedEntry(reading, field)
  BY DEF Entry
<1>c. Width \in Int
  <2>1. CASE Entry.field = "name"
    <3>1. field = 2 /\ LoadedEntry(reading, 1).field = "len"
      BY <1>a, <1>b, <2>1, Entries
    <3> QED
      BY <1>1, <2>1, <3>1 DEF LoadInv, LengthRead, Width
  <2>2. CASE Entry.field # "name"
    <3>1. Entry.width \in {4, 8}
      BY <1>a, <1>b, <2>2, Entries
    <3> QED
      BY <2>2, <3>1 DEF Width
  <2> QED
    BY <2>1, <2>2
<1>3. pos' \in 0 .. kept
  BY <1>1, <1>2, <1>c DEF Fits
<1>d. ASSUME field' = 2, LoadedEntry(reading, 1).field = "len"
      PROVE  Int32Of(got'["len"]) \in Int
  <2>1. field = 1 /\ Entry.field = "len"
    BY <1>1, <1>2, <1>b, <1>d
  <2>2. Width = 4
    BY <1>a, <1>b, <2>1, Entries DEF Width
  <2> DEFINE b == SubSeq(OnDisk, pos + 1, pos + 4)
  <2>3. got'["len"] = b
    BY <1>1, <2>1, <2>2 DEF Member
  <2>4. pos + 4 <= Len(file)
    BY <1>1, <1>2, <2>2 DEF Fits
  <2>5. b \in Seq(Byte) /\ Len(b) = 4
    <3>1. OnDisk \in Seq(Byte) /\ Len(OnDisk) = Len(file)
      BY DiskFacts DEF SaveInv
    <3> QED
      BY <1>2, <2>4, <3>1
  <2>6. b[1] \in Byte /\ b[2] \in Byte /\ b[3] \in Byte /\ b[4] \in Byte
    BY <2>5
  <2>7. \A n \in Byte : n \in Int
    BY Z3 DEF Byte
  <2> HIDE DEF b
  <2>8. Int32Of(b) \in Int
    BY <2>6, <2>7, Z3 DEF Int32Of
  <2> QED
    BY <2>3, <2>8
<1>e. LengthRead'
  BY <1>1, <1>2, <1>a, <1>d DEF LengthRead, Steps
<1>4. LoadType'
  BY <1>1, <1>2, <1>3 DEF LoadInv, LoadType
<1>5. Record' = Record /\ (Intact' <=> Intact)
  BY <1>1 DEF Record, Intact
<1>6. ASSUME Intact
      PROVE  /\ Record <= Len(list) /\ reading = list[Record].kind
             /\ field' \in 1 .. LoadedSteps(reading) + 1
             /\ GotRight'
             /\ IF field' <= LoadedSteps(reading) THEN At(Record, field)' \/ Beyond'
                ELSE At(Record + 1, 0)'
  <2> DEFINE c == Chunk(list[Record], field)
  <2>1. /\ Record \in 1 .. Len(list) /\ reading = list[Record].kind
        /\ field \in Steps(reading)
        /\ Member(c) = IF Entry.field = "len"
                         THEN Bytes32(Len(list[Record].arg["name"]))
                         ELSE list[Record].arg[Entry.field]
    BY <1>1, <1>6, WidthRight
  <2>2. /\ SubSeq(file, pos + 1, pos + Width) = c
        /\ \/ \E m \in 1 .. Len(marks) :
                marks[m] = IF field < LoadedSteps(reading)
                  THEN [item |-> Record, step |-> field + 1, from |-> pos + Width]
                  ELSE [item |-> Record + 1, step |-> 0, from |-> pos + Width]
           \/ /\ field = 2 /\ 3 <= LoadedSteps(reading)
              /\ pos + Width = Len(file) /\ saved = "failed"
    BY <1>1, <1>6, FieldThere
  <2> HIDE DEF c
  <2>3. LoadedSteps(reading) \in Nat
    BY <1>1, Entries DEF LoadInv, LoadType
  <2>4. field' \in 1 .. LoadedSteps(reading) + 1
    BY <1>1, <2>1, <2>3 DEF Steps
  <2>5. GotRight
    BY <1>1, <1>6 DEF LoadInv, InRecord
  <2>6. {LoadedEntry(reading, s).field : s \in 1 .. field' - 1}
          = {LoadedEntry(reading, s).field : s \in 1 .. field - 1} \cup {Entry.field}
    BY <1>1, <2>1, <2>3 DEF Steps, Entry
  <2>7. GotRight'
    <3>1. DOMAIN got' = DOMAIN got \cup {Entry.field}
      BY <1>1
    <3>2. DOMAIN got' = {LoadedEntry(reading, s).field : s \in 1 .. field' - 1}
      BY <2>5, <2>6, <3>1 DEF GotRight
    <3>3. ASSUME NEW f \in DOMAIN got'
          PROVE  got'[f] = IF f = "len" THEN Bytes32(Len(list[Record].arg["name"]))
                           ELSE list[Record].arg[f]
      <4>1. OnDisk = file
        BY <1>6, DiskFacts DEF SaveInv
      <4>2. got'[f] = IF f = Entry.field THEN Member(c) ELSE got[f]
        BY <1>1, <2>2, <3>1, <4>1
      <4> QED
        BY <2>1, <2>5, <3>1, <4>2 DEF GotRight
    <3>4. /\ reading' = reading /\ list' = list /\ Record' = Record
          /\ {LoadedEntry(reading, s).field : s \in 1 .. field - 1}'
               = {LoadedEntry(reading, s).field : s \in 1 .. field' - 1}
      BY <1>1, <1>5
    <3> QED
      BY <3>2, <3>3, <3>4, Zenon DEF GotRight
  <2>8. CASE \E m \in 1 .. Len(marks) :
               marks[m] = IF field < LoadedSteps(reading)
                 THEN [item |-> Record, step |-> field + 1, from |-> pos + Width]
                 ELSE [item |-> Record + 1, step |-> 0, from |-> pos + Width]
    <3>1. PICK m \in 1 .. Len(marks) :
            marks[m] = IF field < LoadedSteps(reading)
              THEN [item |-> Record, step |-> field + 1, from |-> pos + Width]
              ELSE [item |-> Record + 1, step |-> 0, from |-> pos + Width]
      BY <2>8
    <3>2. CASE field < LoadedSteps(reading)
      <4>1. At(Record, field)'
        BY <1>1, <1>5, <3>1, <3>2 DEF At
      <4>2. field' <= LoadedSteps(reading)
        BY <1>1, <1>2, <2>3, <3>2
      <4> QED
        BY <2>1, <2>4, <2>7, <4>1, <4>2
    <3>3. CASE ~(field < LoadedSteps(reading))
      <4>1. At(Record + 1, 0)'
        BY <1>1, <1>5, <3>1, <3>3 DEF At
      <4>2. ~(field' <= LoadedSteps(reading))
        BY <1>1, <1>2, <2>3, <3>3
      <4> QED
        BY <2>1, <2>4, <2>7, <4>1, <4>2
    <3> QED
      BY <3>2, <3>3
  <2>9. CASE /\ field = 2 /\ 3 <= LoadedSteps(reading)
             /\ pos + Width = Len(file) /\ saved = "failed"
    BY <1>1, <2>1, <2>4, <2>7, <2>9 DEF Beyond
  <2> QED
    BY <2>2, <2>8, <2>9
<1>7. InRecord'
  <2>1. SUFFICES ASSUME Intact
                 PROVE  /\ Record <= Len(list) /\ reading = list[Record].kind
                        /\ field' \in 1 .. LoadedSteps(reading) + 1
                        /\ GotRight'
                        /\ IF field' <= LoadedSteps(reading) THEN At(Record, field)' \/ Beyond'
                           ELSE At(Record + 1, 0)'
    BY <1>1, <1>5 DEF InRecord
  <2> QED
    BY <1>6, <2>1
<1> QED
  BY <1>1, <1>4, <1>7, <1>e DEF LoadInv, BetweenRecords, Ended, LoadedAsSaved, Intact

(* A field that does not fit was cut, or its write had failed.                 *)
LEMMA FailStep ==
  ASSUME SaveInv, LoadInv, ReadFails
  PROVE  LoadInv'
<1>1. /\ UNCHANGED <<list, file, marks, saved, kept, damage, pos, reading, field, got, out>>
      /\ reading # "none" /\ loaded = "no" /\ saved # "no" /\ ~Fits
      /\ field <= LoadedSteps(reading) /\ loaded' = "failed"
  BY DEF ReadFails, Loading, saverVars
<1>2. /\ pos \in Nat /\ kept \in Nat /\ kept <= Len(file) /\ Len(file) \in Nat
      /\ pos <= kept
  BY LengthIsNat DEF SaveInv, LoadInv, LoadType
<1>3. ASSUME Intact
      PROVE  saved = "failed" \/ kept < Len(file)
  <2>2. At(Record, field) \/ Beyond
    BY <1>1, <1>3 DEF LoadInv, InRecord
  <2> DEFINE c == Chunk(list[Record], field)
  <2>3. Record \in 1 .. Len(list) /\ Len(c) \in Nat /\ Width = Len(c)
    BY <1>1, <1>3, WidthRight
  <2>4. CASE Beyond
    BY <2>4 DEF Beyond
  <2>5. CASE At(Record, field)
    <3>1. PICK m \in 1 .. Len(marks) :
            marks[m] = [item |-> Record, step |-> field, from |-> pos]
      BY <2>5 DEF At
    <3>2. CASE m # Len(marks)
      <4>1. pos + Len(c) <= Len(file)
        BY <1>2, <3>1, <3>2, Reached
      <4> HIDE DEF c
      <4> QED
        BY <1>1, <1>2, <2>3, <4>1 DEF Fits
    <3>3. CASE m = Len(marks)
      <4>1. item = Record
        BY <3>1, <3>3, MarkFacts DEF Here
      <4> QED
        BY <1>1, <2>3, <4>1, ListFacts DEF SaveInv
    <3> QED
      BY <3>2, <3>3
  <2> QED
    BY <2>2, <2>4, <2>5
<1>4. Ended'
  BY <1>1, <1>3 DEF Ended, Intact
<1> QED
  BY <1>1, <1>4 DEF LoadInv, LoadType, LengthRead, BetweenRecords, InRecord, GotRight,
                    At, Beyond, Record, LoadedAsSaved, Intact

(* No name is longer than the array it is read into.                           *)
LEMMA OverrunStep ==
  ASSUME SaveInv, LoadInv, ReadOverruns
  PROVE  LoadInv'
<1>1. /\ UNCHANGED <<list, file, marks, saved, kept, damage, pos, reading, field, got, out>>
      /\ reading # "none" /\ loaded = "no" /\ saved # "no" /\ Overruns
      /\ field <= LoadedSteps(reading) /\ loaded' = "crashed"
  BY DEF ReadOverruns, Loading, saverVars
<1>2. pos \in Nat /\ kept \in Nat /\ pos <= kept
  BY LengthIsNat DEF SaveInv, LoadInv, LoadType
<1>3. ~Intact
  <2>1. SUFFICES ASSUME Intact PROVE FALSE
    OBVIOUS
  <2> DEFINE c == Chunk(list[Record], field)
  <2>3. Len(c) \in Nat /\ Width = Len(c) /\ (Entry.field = "name" => Width < MAX_STRING)
    BY <1>1, <2>1, WidthRight
  <2> HIDE DEF c
  <2>4. Entry.field = "name" /\ Stored > MAX_STRING /\ Width < MAX_STRING
    BY <1>1, <2>3 DEF Overruns
  <2>5. CASE Fits
    BY <2>3, <2>4, <2>5, StringAssumption DEF Stored
  <2>6. CASE ~Fits
    <3>1. Stored = kept - pos /\ pos + Width > kept
      BY <1>2, <2>3, <2>6 DEF Stored, Fits
    <3> QED
      BY <1>2, <2>3, <2>4, <3>1, StringAssumption
  <2> QED
    BY <2>5, <2>6
<1>4. Ended'
  BY <1>1, <1>3 DEF Ended, Intact
<1> QED
  BY <1>1, <1>4 DEF LoadInv, LoadType, LengthRead, BetweenRecords, InRecord, GotRight,
                    At, Beyond, Record, LoadedAsSaved, Intact

(* The loader stops where a record would start.                                *)
LEMMA StopStep ==
  ASSUME SaveInv, LoadInv, EndOfFile \/ LooksLikeEof \/ UnknownLetter
  PROVE  LoadInv'
<1>1. /\ UNCHANGED <<list, file, marks, saved, kept, damage, reading, field, got, out>>
      /\ reading = "none" /\ loaded = "no" /\ saved # "no"
      /\ loaded' \in {"ok", "failed"}
  BY DEF EndOfFile, LooksLikeEof, UnknownLetter, Loading, saverVars
<1>2. pos \in Nat /\ kept \in Nat /\ pos <= kept
  BY LengthIsNat DEF SaveInv, LoadInv, LoadType
<1>3. CASE EndOfFile
  <2>1. pos' = pos /\ pos = kept /\ loaded' = "ok"
    BY <1>3 DEF EndOfFile
  <2> QED
    BY <1>1, <2>1 DEF LoadInv, LoadType, LengthRead, BetweenRecords, InRecord, At, Record,
                      Ended, LoadedAsSaved, Intact
<1>4. CASE LooksLikeEof \/ UnknownLetter
  <2>1. ~Intact
    BY <1>4, NoStrayLetter
  <2>2. pos' \in 0 .. kept
    BY <1>2, <1>4 DEF LooksLikeEof, UnknownLetter
  <2> QED
    BY <1>1, <2>1, <2>2 DEF LoadInv, LoadType, LengthRead, BetweenRecords, InRecord,
                            Ended, LoadedAsSaved, Intact
<1> QED
  BY <1>3, <1>4

(* The record appended is the one that was saved.                              *)
LEMMA AppendStep ==
  ASSUME SaveInv, LoadInv, AppendRecord
  PROVE  LoadInv'
<1> DEFINE r == [kind |-> LoadedKind(reading),
                 arg |-> [f \in DOMAIN got \ {"len"} |-> got[f]]]
<1>1. /\ UNCHANGED <<list, file, marks, saved, kept, damage, pos, loaded>>
      /\ reading # "none" /\ loaded = "no" /\ saved # "no"
      /\ field > LoadedSteps(reading)
      /\ out' = Append(out, r) /\ reading' = "none" /\ field' = 0
  BY DEF AppendRecord, Loading, saverVars
<1>2. ASSUME Intact
      PROVE  Record <= Len(list) /\ r = list[Record] /\ At(Record + 1, 0)
  <2> DEFINE it == list[Record]
  <2>1. Len(out) \in Nat /\ Len(list) \in Nat
    BY OutFacts, ListFacts DEF SaveInv
  <2>2. /\ Record \in 1 .. Len(list) /\ reading = it.kind
        /\ field \in 1 .. LoadedSteps(reading) + 1 /\ GotRight /\ At(Record + 1, 0)
    <3>1. LoadedSteps(reading) \in Nat /\ field \in Nat
      BY <1>1, Entries DEF LoadInv, LoadType
    <3> QED
      BY <1>1, <1>2, <2>1, <3>1 DEF LoadInv, InRecord, Record
  <2>3. IsRecord(it) /\ reading \in Kinds /\ reading # "rmdir"
    BY <2>1, <2>2, ListFacts DEF SaveInv
  <2>4. LoadedKind(reading) = it.kind
    BY <2>2, <2>3, Letters
  <2>5. field - 1 = LoadedSteps(reading) /\ LoadedSteps(reading) \in Nat
    BY SMTT(60), <1>1, <2>2, <2>3, Entries
  <2>6. DOMAIN got = {LoadedEntry(reading, s).field : s \in Steps(reading)}
    BY <2>2, <2>5 DEF GotRight, Steps
  <2>7. DOMAIN got \ {"len"} = FieldNames(reading)
    <3>1. \A s \in Steps(reading) :
            LoadedEntry(reading, s).field \in FieldNames(reading) \cup {"len"}
      BY <2>3, Entries
    <3>2. \A f \in FieldNames(reading) : \E s \in Steps(reading) :
            LoadedEntry(reading, s).field = f
      BY <2>3, Entries
    <3>3. "len" \notin FieldNames(reading)
      BY <2>3, Entries
    <3> QED
      BY <2>6, <3>1, <3>2, <3>3
  <2>8. \A f \in FieldNames(reading) : got[f] = it.arg[f]
    BY <2>2, <2>7 DEF GotRight
  <2>9. [f \in DOMAIN got \ {"len"} |-> got[f]] = it.arg
    <3>1. it.arg = [f \in FieldNames(reading) |-> it.arg[f]]
      BY <2>2, <2>3 DEF IsRecord
    <3> QED
      BY <2>7, <2>8, <3>1
  <2>10. it = [kind |-> it.kind, arg |-> it.arg]
    BY <2>3 DEF IsRecord
  <2>11. r = it
    BY <2>4, <2>9, <2>10
  <2> HIDE DEF r, it
  <2> QED
    BY <2>2, <2>11 DEF it
<1> HIDE DEF r
<1>3. /\ Len(out) \in Nat /\ DOMAIN out = 1 .. Len(out)
      /\ Len(out') = Len(out) + 1 /\ out'[Len(out) + 1] = r
      /\ \A i \in 1 .. Len(out) : out'[i] = out[i]
      /\ \E S : out' \in Seq(S)
  <2>1. Len(out) \in Nat /\ DOMAIN out = 1 .. Len(out)
    BY OutFacts
  <2>2. PICK S : out \in Seq(S)
    BY DEF LoadInv, LoadType
  <2>3. /\ Len(Append(out, r)) = Len(out) + 1 /\ Append(out, r)[Len(out) + 1] = r
        /\ \A i \in 1 .. Len(out) : Append(out, r)[i] = out[i]
        /\ Append(out, r) \in Seq(S \cup {r})
    BY <2>2, Appended
  <2>4. out' \in Seq(S \cup {r})
    BY <1>1, <2>3
  <2> QED
    BY <1>1, <2>1, <2>3, <2>4, Zenon
<1>4. DOMAIN out' = 1 .. Len(out) + 1
  <2>1. PICK S : out' \in Seq(S)
    BY <1>3
  <2> QED
    BY <1>3, <2>1
<1>5. LoadType'
  BY <1>1, <1>3 DEF LoadInv, LoadType
<1>6. BetweenRecords'
  <2>1. SUFFICES ASSUME Intact
                 PROVE  Len(out) + 1 <= Len(list) /\ At(Record, 0)'
    BY <1>1, <1>3 DEF BetweenRecords, Intact
  <2>2. Record <= Len(list) /\ At(Record + 1, 0)
    BY <1>2, <2>1 DEF Record
  <2>3. Record' = Record + 1
    BY <1>3 DEF Record
  <2>4. At(Record, 0)'
    BY <1>1, <2>2, <2>3 DEF At
  <2> QED
    BY <2>2, <2>4 DEF Record
<1>7. LoadedAsSaved'
  <2>1. SUFFICES ASSUME NEW i \in 1 .. Len(out) + 1, Intact
                 PROVE  i <= Len(list) /\ out'[i] = list[i]
    BY <1>1, <1>4 DEF LoadedAsSaved, Intact
  <2>2. CASE i \in 1 .. Len(out)
    BY <1>3, <2>1, <2>2 DEF LoadInv, LoadedAsSaved
  <2>3. CASE i = Len(out) + 1
    BY <1>2, <1>3, <2>1, <2>3 DEF Record
  <2> QED
    BY <1>3, <2>2, <2>3
<1> QED
  BY <1>1, <1>5, <1>6, <1>7 DEF LoadInv, LengthRead, InRecord, Ended, Intact

LEMMA LoadStep == SaveInv /\ LoadInv /\ [Next]_vars => LoadInv'
<1> SUFFICES ASSUME SaveInv, LoadInv, [Next]_vars PROVE LoadInv'
  OBVIOUS
<1>1. CASE WriteField \/ WriteFails
  <2>1. /\ saved = "no" /\ list' = list /\ UNCHANGED loaderVars
        /\ item <= Len(list) /\ PutChunk
    BY <1>1 DEF WriteField, WriteFails
  <2>2. /\ marks' \in Seq(Mark) /\ Len(marks') = Len(marks) + 1
        /\ \A m \in 1 .. Len(marks) : marks'[m] = marks[m]
    BY <2>1, PutKeeps
  <2>3. Len(marks) \in Nat /\ Len(marks) >= 1
    BY LengthIsNat DEF SaveInv
  <2>4. kept' \in Nat
    <3>1. SaveInv'
      BY SaveStep
    <3>2. Len(file)' \in Nat /\ kept' \in 0 .. Len(file)'
      BY <3>1, LengthIsNat DEF SaveInv
    <3> QED
      BY <3>2
  <2> QED
    BY <2>1, <2>2, <2>3, <2>4, SaverKeepsLoad
<1>2. CASE CloseFile
  <2>1. /\ saved = "no" /\ list' = list /\ UNCHANGED loaderVars /\ marks' = marks
        /\ kept' \in Nat
    BY <1>2, LengthIsNat DEF CloseFile, SaveInv
  <2> QED
    BY <2>1, SaverKeepsLoad DEF SaveInv
<1>3. CASE Load
  BY <1>3, LetterStep, FieldStep, FailStep, OverrunStep, StopStep, AppendStep DEF Load
<1>4. CASE Damage
  <2>1. UNCHANGED <<file, kept, saved, loaderVars>>
    BY <1>4 DEF Damage
  <2>2. ~Intact'
    BY <1>4, DamageAssumption DEF Damage, Intact
  <2> QED
    BY <2>1, <2>2 DEF loaderVars, LoadInv, LoadType, LengthRead, BetweenRecords, InRecord,
                      Ended, LoadedAsSaved
<1>5. CASE UNCHANGED vars
  BY <1>5 DEF vars, saverVars, loaderVars, LoadInv, LoadType, LengthRead, BetweenRecords,
              InRecord, Ended, LoadedAsSaved, Intact, At, Record, Beyond, GotRight
<1> QED
  BY <1>1, <1>2, <1>3, <1>4, <1>5 DEF Next

LEMMA Safe == Spec => [](SaveInv /\ LoadInv)
<1>1. Init => SaveInv /\ LoadInv
  BY SaveInit, LoadInit
<1>2. SaveInv /\ LoadInv /\ [Next]_vars => (SaveInv /\ LoadInv)'
  BY SaveStep, LoadStep
<1> QED
  BY <1>1, <1>2, PTL DEF Spec

-----------------------------------------------------------------------------
(* The positions of the writer and of the reader, and the two results, are     *)
(* always in their ranges.                                                     *)
THEOREM TypeCorrect == Spec => []TypeOK
<1>1. SaveInv /\ LoadInv => TypeOK
  <2> SUFFICES ASSUME SaveInv, LoadInv PROVE TypeOK
    OBVIOUS
  <2>1. Len(file) \in Nat
    BY LengthIsNat DEF SaveInv
  <2>2. pos \in 0 .. Len(file)
    BY <2>1 DEF SaveInv, LoadInv, LoadType
  <2> QED
    BY <2>2 DEF SaveInv, LoadInv, LoadType, TypeOK
<1> QED
  BY <1>1, Safe, PTL

(* Whatever the lists are and wherever an undamaged file ends, a record is     *)
(* loaded as it was saved, in its place.                                       *)
THEOREM Faithful == Spec => []LoadedAsSaved
<1>1. SaveInv /\ LoadInv => LoadedAsSaved
  BY DEF LoadInv
<1> QED
  BY <1>1, Safe, PTL

(* bin_get_items returns 0 for an undamaged file only at the end of a record,  *)
(* and no name of it overruns its array.                                       *)
THEOREM CutNoticed == Spec => []CutIsNoticed
<1>1. SaveInv /\ LoadInv => CutIsNoticed
  <2> SUFFICES ASSUME SaveInv, LoadInv, Intact
               PROVE  /\ loaded = "ok" => /\ pos = kept
                                          /\ \E m \in DOMAIN marks :
                                               marks[m].step = 0 /\ marks[m].from = kept
                      /\ loaded # "crashed"
    BY DEF CutIsNoticed
  <2>1. loaded # "crashed"
    BY DEF LoadInv, Ended
  <2>2. ASSUME loaded = "ok"
        PROVE  pos = kept /\ \E m \in DOMAIN marks :
                               marks[m].step = 0 /\ marks[m].from = kept
    <3>1. reading = "none" /\ pos = kept
      BY <2>2 DEF LoadInv, Ended
    <3>3. PICK m \in 1 .. Len(marks) :
            marks[m] = [item |-> Record, step |-> 0, from |-> pos]
      BY <3>1 DEF LoadInv, BetweenRecords, At
    <3>4. m \in DOMAIN marks
      BY <3>3 DEF SaveInv
    <3> QED
      BY <3>1, <3>3, <3>4
  <2> QED
    BY <2>1, <2>2
<1> QED
  BY <1>1, Safe, PTL

(* A list whose file is whole and undamaged is loaded whole.                   *)
THEOREM WholeList == Spec => []RoundTrip
<1>1. SaveInv /\ LoadInv => RoundTrip
  <2> SUFFICES ASSUME SaveInv, LoadInv, Intact, saved = "ok",
                      kept = Len(file), loaded # "no"
               PROVE  loaded = "ok" /\ out = list
    BY DEF RoundTrip
  <2>1. Len(file) \in Nat /\ Len(list) \in Nat /\ Len(out) \in Nat
    BY LengthIsNat, ListFacts, OutFacts DEF SaveInv
  <2>2. loaded = "ok" /\ reading = "none" /\ pos = Len(file)
    BY <2>1 DEF LoadInv, LoadType, Ended
  <2>3. PICK m \in 1 .. Len(marks) :
          marks[m] = [item |-> Record, step |-> 0, from |-> pos]
    BY <2>2 DEF LoadInv, BetweenRecords, At
  <2>4. m = Len(marks)
    <3>1. SUFFICES ASSUME m # Len(marks) PROVE FALSE
      OBVIOUS
    <3>2. /\ Record \in 1 .. Len(list)
          /\ pos + Len(Chunk(list[Record], 0)) <= Len(file)
          /\ 0 \in 0 .. SavedSteps(list[Record].kind)
      BY <2>1, <2>2, <2>3, <3>1, Reached
    <3>3. Chunk(list[Record], 0) = <<SavedCode(list[Record].kind)>>
      BY <3>2, ListFacts, ChunkFacts DEF SaveInv
    <3> DEFINE n == Len(Chunk(list[Record], 0))
    <3>4. n = 1 /\ pos + n <= Len(file)
      BY <3>2, <3>3
    <3> HIDE DEF n
    <3> QED
      BY <2>1, <2>2, <3>4
  <2>5. Record = Len(list) + 1
    <3>1. marks[m] = Here
      BY <2>4, MarkFacts
    <3> QED
      BY <2>3, <3>1 DEF Here, SaveInv
  <2>6. Len(out) = Len(list)
    BY <2>1, <2>5 DEF Record
  <2>7. \A i \in 1 .. Len(list) : out[i] = list[i]
    BY <2>6, OutFacts DEF LoadInv, LoadedAsSaved
  <2>8. out = list
    <3>1. PICK S : out \in Seq(S)
      BY DEF LoadInv, LoadType
    <3>2. PICK T : list \in Seq(T)
      BY ListsAssumption DEF SaveInv
    <3> QED
      BY <2>1, <2>6, <2>7, <3>1, <3>2
  <2> QED
    BY <2>2, <2>8
<1> QED
  BY <1>1, Safe, PTL
=============================================================================
