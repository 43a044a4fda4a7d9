---------------------------- MODULE AbsoluteName ----------------------------
(***************************************************************************)
(* simfs_absolute_name (simfs.c): the names of a trace are made absolute   *)
(* and rid of "." and ".." before they are looked up in the tree of        *)
(* module SimFs.  The function does not go by the parts of a name: it      *)
(* cuts "/.." with the part before it out of the string as long as it      *)
(* finds one, and then every "/.".  A string is a sequence of characters.  *)
(***************************************************************************)
EXTENDS Integers, Sequences, SequencesExt

CONSTANTS
  Cwd,        \* directory of the check: parts of its name
  Parts,      \* what stands between the slashes of a name
  MaxParts    \* bound: parts of a name

\* A part is not empty and has no slash, and the check is not run in "/",
\* where getcwd would end in a slash of its own.
AllParts == Parts \cup Range(Cwd)
ASSUME PartsAssumption ==
  /\ \A p \in AllParts : p \in Seq(Range(p)) /\ p # <<>> /\ "/" \notin Range(p)
  /\ Cwd \in Seq(Range(Cwd)) /\ Cwd # <<>>
  /\ MaxParts \in Nat

Aborted == <<"abort">>    \* an assertion failed
Chars == {"/", "."} \cup (UNION {Range(p) : p \in AllParts}) \cup Range(Aborted)
Strings == Seq(Chars)

(* strstr, and rindex for "/": a place in s, or 0.                         *)
Places(s, pattern) == {i \in 1..Len(s) : IsPrefix(pattern, SubSeq(s, i, Len(s)))}
Strstr(s, pattern) == IF Places(s, pattern) = {} THEN 0 ELSE Min(Places(s, pattern))
Rindex(s) == Max(Places(s, <<"/">>) \cup {0})
Rest(s, i) == SubSeq(s, i, Len(s))

(* A relative name is appended to the current directory.                   *)
Render[parts \in Seq(AllParts)] ==
  IF parts = <<>> THEN <<>> ELSE Render[Front(parts)] \o <<"/">> \o Last(parts)
FromTop(absolute, parts) == IF absolute THEN Render[parts] ELSE Render[Cwd] \o Render[parts]

(* The first loop: the first "/.." goes, with what is between it and the   *)
(* last slash before it, which is asserted to be there.                    *)
CutDots(s, at) == SubSeq(s, 1, at - 1) \o Rest(s, at + 3)
CutAbove(s, at) ==
  LET above == Rindex(SubSeq(s, 1, at - 1))
  IN  IF above = 0 THEN Aborted ELSE SubSeq(s, 1, above - 1) \o Rest(s, at + 3)
CutUp(s, at) ==
  IF at = 1 THEN Rest(s, 4) ELSE CutAbove(s, at)
DropUps[s \in Strings] ==
  LET at == Strstr(s, <<"/", ".", ".">>)
  IN  IF at = 0 THEN s ELSE DropUps[CutUp(s, at)]

(* The second loop: every "/." goes; a string that is nothing else is "/". *)
CutHere(s, at) ==
  IF at = 1 /\ Len(s) = 2 THEN <<"/">> ELSE SubSeq(s, 1, at - 1) \o Rest(s, at + 2)
DropHeres[s \in Strings] ==
  LET at == Strstr(s, <<"/", ".">>)
  IN  IF at = 0 THEN s ELSE DropHeres[CutHere(s, at)]

SimfsAbsoluteName(absolute, parts) == DropHeres[DropUps[FromTop(absolute, parts)]]

-----------------------------------------------------------------------------
(* What a name means to the kernel, as the parts of its place in the tree  *)
(* (external; there are no links in these trees).                          *)
Enter(place, part) ==
  CASE part = <<".">> -> place
    [] part = <<".", ".">> -> IF place = <<>> THEN place ELSE Front(place)
    [] OTHER -> Append(place, part)
PlaceOf[parts \in Seq(AllParts)] ==
  IF parts = <<>> THEN <<>> ELSE Enter(PlaceOf[Front(parts)], Last(parts))
Whole(name) == IF name.absolute THEN name.parts ELSE Cwd \o name.parts
Meaning(name) == PlaceOf[Whole(name)]

Inputs == [absolute : BOOLEAN, parts : UNION {[1..n -> Parts] : n \in 1..MaxParts}]

(* The names the comments have in mind: no part begins with a dot ("can't  *)
(* have /. in its name"), and no "." comes before a "..", which would take *)
(* it for the directory to leave.                                          *)
Foreseen(name) ==
  LET parts == Whole(name)
  IN  /\ \A i \in DOMAIN parts : parts[i][1] = "." => parts[i] \in {<<".">>, <<".", ".">>}
      /\ \A i, j \in DOMAIN parts : parts[i] = <<".">> /\ parts[j] = <<".", ".">> => j < i

(* Places that some foreseen name is not looked up at.                     *)
WellNamed(name) == SimfsAbsoluteName(name.absolute, name.parts) = Render[Meaning(name)]
Misnamed == {Meaning(name) : name \in {name \in Inputs : Foreseen(name) /\ ~WellNamed(name)}}
=============================================================================
