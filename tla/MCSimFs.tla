------------------------------ MODULE MCSimFs ------------------------------
EXTENDS SimNames
Dir == "d" :> "/" @@ "d/x" :> "d" @@ "d/e" :> "d" @@ "d/e/y" :> "d/e"
Tree == DOMAIN Dir \cup {"/"}
Up[p \in Tree] == IF p = "/" THEN {p} ELSE {p} \cup Up[Dir[p]]
AllCalls == {"access", "stat", "open", "creat", "excl", "mkdir", "unlink"}
Home == <<<<"d">>>>
Spelled == "d" :> <<<<"d">>>> @@ "d/x" :> <<<<"d">>, <<"x">>>> @@ "d/e" :> <<<<"d">>, <<"e">>>>
           @@ "d/e/y" :> <<<<"d">>, <<"e">>, <<"y">>>>
SomeParts == {<<"d">>, <<"x">>, <<"e">>, <<"y">>, <<".">>, <<".", ".">>, <<".", ".", "x">>}
=============================================================================
