------------------------------ MODULE MCContent ------------------------------
(* What becomes of the text of a note: one of the bodies of up to MaxLines  *)
(* lines of the shapes the rules tell apart is edited; or a few notes are   *)
(* exported and imported; or a note is open in the editor of an app.        *)
EXTENDS Content, Editor, Transfer, TLC

CONSTANTS MaxLines, MaxName

VARIABLE part \* which of these it is

\* Lines of a note, and more that differ in detail.
MCLines == {
    <<>>, <<".">>, <<"[ ]", "sp", ".">>, <<"sp", "[x]", ".", "sp">>,
    <<"#a">>, <<"sp", "#a", "sp">>, <<"#a", "sp", "~~~">>,
    <<"tick">>, <<"~~~">>, <<"~~~", ".">>, <<"---">>, <<"---", "sp">>, <<"status:", "sp", ".">> }

MCMoreLines == MCLines \cup {
    <<"h", "sp", ".">>, <<"[ ]">>, <<".", "sp", "#a">>, <<"#b", "sp", "#a", ".">>,
    <<"#a", "sp", "#a", "#b">>, <<".", "#a">>,
    <<"tick", "#a", "tick">>, <<"~~~", "~~~", "sp">> }

MCBodies == {<<>>} \cup {Join(ls) : ls \in
    (UNION {[1 .. k -> MCMoreLines] : k \in 1 .. MaxLines - 1}) \cup [1 .. MaxLines -> MCLines]}

MCTexts == {<<>>, <<".">>, <<"sp", ".", "sp">>, <<"sp", "[x]", "sp", ".">>,
            <<".", "nl", "[ ]">>, <<"#a">>}

MCNames == UNION {[1 .. k -> {"a", "A", "/", "P", "-", "!"}] : k \in 1 .. MaxName}

-----------------------------------------------------------------------------
\* proj/a, proj/a/b, proj/A, proj//b and proj/b_, with the tags their folders
\* stand for, and a tag that is no project's.
MCSlugOf ==
    "#a" :> <<"P", "a">> @@ "#ab" :> <<"P", "a", "/", "b">> @@ "#A" :> <<"P", "A">>
      @@ "#_b" :> <<"P", "/", "b">> @@ "#b_" :> <<"P", "b", "_">> @@ "#b" :> <<"P", "b">>
      @@ "#x" :> <<>>

MCFences == {
    <<>>, <<"---", "nl", "status:", "sp", ".", "nl", "---", "nl">>,
    <<"---", "nl", "type:", "sp", ".", "nl", "---", "nl">>,
    <<"---", "nl", "sp", "type:", "sp", ".", "nl", "---", "nl">>,
    <<"---", "sp", "nl", "status:", "sp", ".", "nl", "---", "nl">>,
    <<"---", "nl", "type:", "sp", ".", "nl">>, <<"---", "nl", "---", "nl">> }

MCTails == {
    <<"h", "sp", ".">>, <<"#x">>, <<"#a">>, <<"#ab", "sp", "#x", "sp">>, <<"#A">>, <<"#_b">>,
    <<"#b_", "nl", "[ ]", "sp", ".">>, <<"#A", "sp", "#a">>, <<"#_b", "sp", "#a", "nl">>,
    <<"~~~", "nl", "#ab", "nl", "~~~", "nl", "#b">> }

MCTypes == {<<>>, <<".", "sp", ".">>}
MCNotes == [body : {f \o t : f \in MCFences, t \in MCTails}, type : MCTypes]
MCFew == [body : {<<"#a">>, <<"#A", "sp", "#a">>, <<"#b", "sp", "#_b">>}, type : MCTypes]
MCLibraries == {<<n>> : n \in MCNotes} \cup {<<n, o>> : n \in MCFew, o \in MCFew}

\* Files that are no export: named 11 and up.
MCForeign == {{},
    {[folder |-> <<>>, name |-> 11, text |-> <<"[ ]", "sp", ".", "nl">>],
     [folder |-> <<>>, name |-> 12, text |-> <<"[ ]", "sp", ".", "nl">>],
     [folder |-> <<<<"a">>>>, name |-> 13, text |-> <<"#a">>],
     [folder |-> <<<<".", "a">>>>, name |-> 14, text |-> <<".">>],
     [folder |-> <<<<"a">>>>, name |-> 15, text |-> <<"sp", "nl">>]},
    {[folder |-> <<<<"!">>>>, name |-> 16, text |-> <<".">>]},
    {[folder |-> <<<<"a">>>>, name |-> 17, text |-> <<"---", "nl", "#a", "nl", "---">>]}}

MCTags == DOMAIN MCSlugOf
MCRoot == <<"b", "!">>
MCGiven == {"#a"}

-----------------------------------------------------------------------------
\* The parts that are not looked at stay empty.
MCInit ==
    /\ part \in {"edits", "transfer", "editor"}
    /\ IF part = "edits" THEN Init
       ELSE /\ body = <<>> /\ name = <<>> /\ want = <<>>
            /\ last = NoEdit /\ edits = 0 /\ slug = <<>>
    /\ IF part = "transfer" THEN TransferInit
       ELSE /\ library = <<>> /\ files = {} /\ exported = "no" /\ copy = <<>>
            /\ source = "none" /\ imports = 0 /\ first = <<>>
    /\ EditorInit

MCNext ==
    \/ part = "edits" /\ Next /\ UNCHANGED <<part, editorVars, transferVars>>
    \/ part = "transfer" /\ TransferNext /\ UNCHANGED <<part, vars, editorVars>>
    \/ part = "editor" /\ EditorNext /\ UNCHANGED <<part, vars, transferVars>>

\* The notes of the editor are alike.
Symmetry == Permutations(Notes)

MCSpec == MCInit /\ [][MCNext]_<<part, vars, editorVars, transferVars>>
==============================================================================
