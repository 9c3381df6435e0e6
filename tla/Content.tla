------------------------------- MODULE Content -------------------------------
(***************************************************************************)
(* A note whose body is edited: every edit composes a new body from the     *)
(* old one, which reaches the document as a splice; and the tag made from   *)
(* the name of a project.                                                   *)
(***************************************************************************)
EXTENDS NoteText, BodySplice

CONSTANTS
    Bodies,    \* bodies a note may have to begin with
    Texts,     \* what a caller passes as a text or a replacement
    Names,     \* names a project tag is made from
    MaxEdits

ASSUME ContentAssumption ==
    /\ Bodies \subseteq Seq(Tokens) /\ Texts \subseteq Seq(Tokens)
    /\ Names \subseteq Seq(Chars)

VARIABLES
    body,  \* the stored body
    want,  \* the body the last edit composed
    last,  \* the last edit, its arguments and the body it started from
    edits, \* how many there were
    name,  \* a name for a project
    slug   \* the tag made from it, <<>> before

vars == <<body, want, last, edits, name, slug>>

NoEdit == [do |-> "none", at |-> 0, to |-> 0, text |-> <<>>, from |-> <<>>]

Init ==
    /\ \/ body = <<>> /\ name \in Names
       \/ body \in Bodies /\ name = <<>>
    /\ want = body /\ last = NoEdit /\ edits = 0 /\ slug = <<>>

\* Every edit is stored as the splice from the old body to the new one.
Store(new, do, at, to, text) ==
    /\ edits' = edits + 1
    /\ want' = new /\ body' = Spliced(body, BodySplice(body, new))
    /\ last' = [do |-> do, at |-> at, to |-> to, text |-> text, from |-> body]
    /\ UNCHANGED <<name, slug>>

Check == \E n \in DOMAIN Todos(body) :
    \/ Store(SetTodoChecked(body, n, TRUE), "check", n, n, <<>>)
    \/ Store(SetTodoChecked(body, n, FALSE), "uncheck", n, n, <<>>)

Rename == \E n \in DOMAIN Todos(body), text \in Texts :
    Store(SetTodoText(body, n, text), "text", n, n, text)

\* A line break in the text makes further lines, which may be items too.
Add == \E text \in Texts : Store(AppendTodo(body, text), "append", 0, 0, text)

\* remove_tag and add_tag store nothing when the body is the same.
Untag == \E tag \in TagTokens :
    /\ RemoveTag(body, tag) # body
    /\ Store(RemoveTag(body, tag), "remove", 0, 0, <<tag>>)

Tag == \E tag \in TagTokens :
    /\ EnsureTag(body, tag) # body
    /\ Store(EnsureTag(body, tag), "ensure", 0, 0, <<tag>>)

\* A range beyond the last line is an error.
EditLines == \E start \in DOMAIN Lines(body), end \in DOMAIN Lines(body), text \in Texts :
    /\ start <= end
    /\ Store(ReplaceLines(body, start, end, text), "replace", start, end, text)

MakeTag ==
    /\ name # <<>> /\ slug = <<>> /\ ToTag(name) # <<>>
    /\ slug' = ToTag(name)
    /\ UNCHANGED <<body, want, last, edits, name>>

Next ==
    \/ edits < MaxEdits /\ (Check \/ Rename \/ Add \/ Untag \/ Tag \/ EditLines)
    \/ MakeTag

Spec == Init /\ [][Next]_vars

-----------------------------------------------------------------------------
(* The splice stores exactly the body the edit composed, and touches        *)
(* nothing both texts share at either end.                                  *)
SpliceExact ==
    /\ body = want
    /\ last.do # "none" =>
         LET s == BodySplice(last.from, want)
             out == SubSeq(last.from, s.pos + 1, s.pos + s.del)
         IN  s.insert # <<>> /\ out # <<>> =>
                 Head(s.insert) # Head(out) /\ Last(s.insert) # Last(out)

(* A todo is addressed by its place in the list: an edit changes that item  *)
(* of the list read back from the body and no other, an append of one line  *)
(* adds one at its end, and neither changes the number of the rest.         *)
TodosAddressed ==
    LET old == Todos(last.from)
        flat == [k \in DOMAIN last.text |->
                    IF last.text[k] = "nl" THEN "sp" ELSE last.text[k]]
    IN  /\ last.do \in {"check", "uncheck"} =>
             Todos(body) = [old EXCEPT ![last.at].checked = last.do = "check"]
        /\ last.do = "text" => Todos(body) = [old EXCEPT ![last.at].text = Trim(flat)]
        /\ last.do = "append" /\ "nl" \notin Range(last.text) =>
             Todos(body) = Append(old, [checked |-> FALSE, text |-> NewText(last.text)])

\* Text that brings a tag, code or frontmatter of its own.
Brings == {"tick", "~~~", "---", "status:"} \cup TagTokens
QuietText(text) == Range(text) \cap Brings = {}

\* A text with each box for an empty one.
Unchecked(text) == [i \in DOMAIN text |-> IF text[i] \in Boxes THEN "[ ]" ELSE text[i]]

(* Work on the list of todos does not reach the status and the tags of the  *)
(* note: neither comes or goes with a check, nor with an addition or a      *)
(* renaming, as long as no text that comes or goes has such things in it.   *)
(* A check changes at most a box of the title, an addition no title that    *)
(* was there; the item a renaming changes may well be the title.            *)
TodoEditsKeep ==
    LET old == Derived(last.from)
        new == Derived(body)
    IN  /\ \/ last.do \in {"check", "uncheck"}
           \/ last.do = "append" /\ QuietText(last.text)
           \/ /\ last.do = "text" /\ QuietText(last.text)
              /\ QuietText(Todos(last.from)[last.at].text)
           => new.status = old.status /\ new.tags = old.tags
        /\ last.do \in {"check", "uncheck"} =>
             Unchecked(new.title) = Unchecked(old.title)
        /\ last.do = "append" /\ QuietText(last.text) /\ old.title # <<>> =>
             new.title = old.title

(* A removed tag is gone and takes no other tag with it, and brings none; of *)
(* the title and the status nothing is said, for it may stand in either.     *)
(* Three texts are left out, whose removal makes something new of what is    *)
(* left: a tag glued to the removed one, a fence it stood before, and one it *)
(* stood behind, which may now close another.                                *)
TagRemoved ==
    LET tag == last.text[1]
        before == last.from
        glued == \E i \in TagPositions(before) :
            /\ before[i] = tag /\ i < Len(before)
            /\ \/ before[i + 1] \in TagTokens \cup {"~~~", "tick"}
               \/ /\ i + 1 < Len(before) /\ before[i + 1] = "sp"
                  /\ before[i + 2] \in {"~~~", "tick"}
        behind == \E i \in TagPositions(before) :
            before[i] = tag /\ FenceRun(Lines(before)[LineOf(before, i)]) # 0
    IN  last.do = "remove" /\ ~glued /\ ~behind =>
            TagsOf(body) = TagsOf(before) \ {tag}

(* An added tag is among the tags derived from the note, with all it had,    *)
(* and adding it again changes nothing; there are as many todos as before.   *)
(* Status and a title stay, unless the white space at the end of the body,   *)
(* which goes, starts behind other text of its line: that may have been      *)
(* "--- ", and close the frontmatter now.                                    *)
TagAdded ==
    LET tag == last.text[1]
        before == last.from
        old == Derived(before)
        new == Derived(body)
        kept == Len(TrimEnd(before, White))
    IN  last.do = "ensure" =>
          /\ TagsOf(body) = TagsOf(before) \cup {tag}
          /\ tag \in new.tags
          /\ EnsureTag(body, tag) = body
          /\ Len(Todos(body)) = Len(Todos(before))
          /\ kept = Len(before) \/ before[kept + 1] = "nl" =>
               /\ new.status = old.status
               /\ old.title # <<>> => new.title = old.title

(* What is derived from a note follows its edits, each as far as its part    *)
(* says: work on todos, a removed tag, an added one.                         *)
DerivedFollows == TodoEditsKeep /\ TagRemoved /\ TagAdded

(* Lines outside a replaced range keep their text and order; the range holds *)
(* the replacement, or nothing when that is empty.                           *)
LinesReplaced ==
    LET old == Lines(last.from)
        new == Lines(body)
        put == IF last.text = <<>> THEN 0 ELSE Len(Lines(last.text))
        rest == Len(old) - last.to
    IN  last.do = "replace" =>
          /\ \A i \in 1 .. last.at - 1 : new[i] = old[i]
          /\ \A i \in 0 .. rest - 1 : new[Len(new) - i] = old[Len(old) - i]
          /\ Len(new) = last.at - 1 + put + rest
               \/ (body = <<>> /\ last.at - 1 + put + rest = 0)
          /\ \A i \in 1 .. put : new[last.at - 1 + i] = Lines(last.text)[i]

(* A project tag is made once: the tag of a tag is that tag, it has only      *)
(* characters of a tag, no separator at an end or twice, and every letter,    *)
(* in lower case.                                                            *)
SlugSettles ==
    slug # <<>> =>
      /\ ToTag(slug) = slug
      /\ Last(slug) # "_" /\ slug[2] # "_"
      /\ \A i \in 1 .. Len(slug) - 1 : slug[i] # "_" \/ slug[i + 1] # "_"
      /\ LET lower == [i \in DOMAIN name |-> Lower(name[i])]
         IN  Letters(slug) = <<"P">> \o Letters(Bare(lower))
=============================================================================
