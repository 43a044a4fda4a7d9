---------------------------- MODULE MCBinaryFormat ----------------------------
(* Lists of one record of every kind, and of two records.  Every member holds  *)
(* bytes of its own, with 255 and 0 among them.                                *)
EXTENDS BinaryFormat, TLC

MCMaxString == 4

Names == {<<>>, <<47>>, <<47, 255, 46>>}

(* A number for every member, so that no two of a record hold the same bytes.  *)
Number == [fd |-> 3, size |-> 9, retval |-> 255, offset |-> 20, fd1 |-> 30,
           fd2 |-> 31, mode |-> 40, new_fd |-> 50, old_fd |-> 51, flags |-> 60,
           f_offset |-> 21, flag |-> 70, out_fd |-> 80, in_fd |-> 81,
           pid |-> 105, dur |-> 119, sec |-> 255, usec |-> 0]

Bytes(n, w) == [i \in 1 .. w |-> IF i = 1 THEN n ELSE IF n = 255 THEN 255 ELSE i - 2]

(* A number whose highest byte is the character of an unlink.                  *)
HighU == <<50, 0, 1, 117>>

RecordOf(k, name) ==
  [kind |-> k,
   arg |-> [f \in FieldNames(k) |->
              IF f = "name" THEN name
              ELSE IF f = "new_fd" THEN HighU ELSE Bytes(Number[f], MemWidth(k, f))]]

NamesOf(k) == IF "name" \in FieldNames(k) THEN Names ELSE {<<>>}

Singles == {<<RecordOf(k, n)>> : k \in Kinds \ {"rmdir"}, n \in Names}

Pairs == {<<RecordOf("unlink", <<>>), RecordOf("socket", <<>>)>>,
          <<RecordOf("socket", <<>>), RecordOf("stat", <<47>>)>>}

AllLists == Singles \cup Pairs

(* The character of the first record, and the lowest and the highest byte of a *)
(* length behind it.  The bytes are no character, that of rmdir and EOF.       *)
Damaged == {1, 2, 5}
Becomes == {0, 105, 255}
=============================================================================
