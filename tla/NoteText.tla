------------------------------ MODULE NoteText ------------------------------
(***************************************************************************)
(* What is derived from a note's body, and the edits that compose a new    *)
(* body from an old one: todo items, tags, lines and frontmatter.          *)
(* A body is a sequence of tokens, each a run of text the rules treat      *)
(* alike: "nl", "sp" (horizontal white space), "." (other text), "h" (an    *)
(* ATX marker), "#a" (a tag), "[ ]" and "[x]" (a dash bullet with its box), *)
(* "tick" (a backtick), "~~~" (three tildes), "---", "status:" and "type:". *)
(* Lines end in LF only.                                                    *)
(***************************************************************************)
EXTENDS Integers, FiniteSets, SequencesExt

CONSTANT TagTokens \* the tags

White == {"nl", "sp"}
Boxes == {"[ ]", "[x]"}
Plain == White \cup Boxes \cup {".", "h", "tick", "~~~", "---", "status:", "type:"}
Tokens == Plain \cup TagTokens

ASSUME TagsAreNoOther == TagTokens \cap Plain = {}

Least(S) == CHOOSE n \in S : \A m \in S : n <= m

\* The n-th number of a set, counted from the least.
Nth(S, n) == CHOOSE i \in S : Cardinality({j \in S : j <= i}) = n

\* The members of s at the places in I, in their order.
Picked(s, I) == [k \in 1 .. Cardinality(I) |-> s[Nth(I, k)]]

\* The parts of s between the separators, never none.
Split(s, sep) ==
    LET upTo[i \in 0 .. Len(s)] ==
            IF i = 0 THEN <<<<>>>>
            ELSE LET ps == upTo[i - 1]
                 IN  IF s[i] = sep THEN Append(ps, <<>>)
                     ELSE [ps EXCEPT ![Len(ps)] = Append(@, s[i])]
    IN  upTo[Len(s)]
Joined(ps, sep) ==
    LET upTo[i \in 0 .. Len(ps)] ==
            IF i = 0 THEN <<>>
            ELSE IF i = 1 THEN ps[1]
            ELSE upTo[i - 1] \o <<sep>> \o ps[i]
    IN  upTo[Len(ps)]

\* The lines of a body, and their text again.
Lines(b) == Split(b, "nl")
Join(ls) == Joined(ls, "nl")

\* The first and the last index of what is not in S.
First(s, S) == Least({i \in DOMAIN s : s[i] \notin S} \cup {Len(s) + 1})
TrimStart(s, S) == SubSeq(s, First(s, S), Len(s))
TrimEnd(s, S) == SubSeq(s, 1, Len(s) + 1 - First(Reverse(s), S))
Trim(l) == TrimEnd(TrimStart(l, {"sp"}), {"sp"})

-----------------------------------------------------------------------------
(* Code, tags, frontmatter and title.                                      *)

\* The run of backticks or tildes a line begins with; a token of tildes is
\* three of them.
FenceRun(l) ==
    IF l = <<>> \/ Head(l) \notin {"tick", "~~~"} THEN 0
    ELSE First(l, {Head(l)}) - 1
Opens(l) == FenceRun(l) >= (IF l # <<>> /\ Head(l) = "tick" THEN 3 ELSE 1)
Closes(l, open) ==
    /\ FenceRun(l) = FenceRun(open) /\ Head(l) = Head(open)
    /\ \A i \in FenceRun(l) + 1 .. Len(l) : l[i] = "sp"

\* What line i adds to the fenced blocks found before it, and where to go on.
Fencing(ls, acc, i) ==
    LET ends == {j \in i + 1 .. Len(ls) : Closes(ls[j], ls[i])}
    IN  IF i < acc.next \/ ~Opens(ls[i]) \/ ends = {} THEN acc
        ELSE [next |-> Least(ends) + 1, pos |-> acc.pos \cup i .. Least(ends)]

\* Numbers of the lines in fenced blocks; an opener nothing closes is none.
FencedLines(ls) ==
    LET upTo[i \in 0 .. Len(ls)] ==
            IF i = 0 THEN [next |-> 1, pos |-> {}] ELSE Fencing(ls, upTo[i - 1], i)
    IN  upTo[Len(ls)].pos

LineOf(b, i) == 1 + Cardinality({j \in 1 .. i - 1 : b[j] = "nl"})

\* The same for inline code: a backtick, something, the next backtick.
Coding(b, acc, i) ==
    LET ends == {j \in i + 1 .. Len(b) : b[j] = "tick"}
    IN  IF i < acc.next \/ b[i] # "tick" \/ ends = {} \/ i + 1 \in ends THEN acc
        ELSE [next |-> Least(ends) + 1, pos |-> acc.pos \cup i .. Least(ends)]

InlineCode(b) ==
    LET upTo[i \in 0 .. Len(b)] ==
            IF i = 0 THEN [next |-> 1, pos |-> {}] ELSE Coding(b, upTo[i - 1], i)
    IN  upTo[Len(b)].pos

\* Where a tag counts: at the start or after white space, and not in code.
TagPositions(b) ==
    LET code == InlineCode(b)
        fenced == FencedLines(Lines(b))
    IN  {i \in DOMAIN b :
            /\ b[i] \in TagTokens
            /\ i > 1 => b[i - 1] \in White
            /\ i \notin code
            /\ LineOf(b, i) \notin fenced}
TagsOf(b) == {b[i] : i \in TagPositions(b)}

\* The line that closes the frontmatter, 0 when there is none.
FrontmatterEnd(ls) ==
    LET ends == {j \in 2 .. Len(ls) : ls[j] = <<"---">>}
    IN  IF ls[1] = <<"---">> /\ ends # {} THEN Least(ends) ELSE 0

Rest(b) ==
    LET ls == Lines(b)
    IN  Join(SubSeq(ls, FrontmatterEnd(ls) + 1, Len(ls)))

Status(b) ==
    LET front == SubSeq(Lines(b), 2, FrontmatterEnd(Lines(b)) - 1)
        set == {j \in DOMAIN front : front[j] # <<>> /\ Head(front[j]) = "status:"}
        line == front[CHOOSE j \in set : \A k \in set : k <= j]
    IN  IF set = {} THEN <<"none">> ELSE Trim(Tail(line))

\* A line that is more than a divider; the first one, without its ATX marker.
Usable(l) == \E i \in DOMAIN l : l[i] \notin {"sp", "---"}
Title(b) ==
    LET ls == Lines(b)
        usable == {n \in DOMAIN ls : Usable(ls[n])}
        line == Trim(ls[Least(usable)])
    IN  IF usable = {} THEN <<>>
        ELSE IF Len(line) > 1 /\ line[1] = "h" /\ line[2] = "sp"
             THEN Trim(SubSeq(line, 3, Len(line)))
        ELSE line

\* Title, tags and status of a note are taken from its body.
Derived(b) == [title |-> Title(Rest(b)), tags |-> TagsOf(Rest(b)), status |-> Status(b)]

-----------------------------------------------------------------------------
(* Todo items.                                                             *)

IsItem(l) == First(l, {"sp"}) <= Len(l) /\ l[First(l, {"sp"})] \in Boxes
Item(l) ==
    [checked |-> l[First(l, {"sp"})] = "[x]",
     text |-> TrimStart(SubSeq(l, First(l, {"sp"}) + 1, Len(l)), {"sp"})]

\* Numbers of the lines that are items, and the line of the n-th item.
Items(ls) == {i \in DOMAIN ls : IsItem(ls[i])}
ItemLine(ls, n) == Nth(Items(ls), n)

Todos(b) ==
    LET ls == Lines(b)
    IN  [n \in 1 .. Cardinality(Items(ls)) |-> Item(ls[ItemLine(ls, n)])]

SetTodoChecked(b, n, checked) ==
    LET ls == Lines(b)
        i == ItemLine(ls, n)
        box == First(ls[i], {"sp"})
    IN  Join([ls EXCEPT ![i][box] = IF checked THEN "[x]" ELSE "[ ]"])

\* A variant for the checks: line breaks are kept.
KeepsBreaks(b, n, text) ==
    LET ls == Lines(b)
        i == ItemLine(ls, n)
    IN  Join([ls EXCEPT ![i] =
            SubSeq(@, 1, First(@, {"sp"})) \o <<"sp">> \o Trim(text)])

\* A line break in the text becomes a space: one item stays one line.
SetTodoText(b, n, text) ==
    LET ls == Lines(b)
        i == ItemLine(ls, n)
        flat == [k \in DOMAIN text |-> IF text[k] = "nl" THEN "sp" ELSE text[k]]
    IN  Join([ls EXCEPT ![i] =
            SubSeq(@, 1, First(@, {"sp"})) \o <<"sp">> \o Trim(flat)])

NewText(text) == IF IsItem(text) THEN Item(text).text ELSE Trim(text)

\* A variant for the checks: a first item goes to the top.
AppendsOnTop(b, text) ==
    LET ls == Lines(b)
        item == <<"[ ]", "sp">> \o NewText(text)
        at == CHOOSE i \in Items(ls) : \A j \in Items(ls) : j <= i
    IN  IF Items(ls) # {} THEN Join(InsertAt(ls, at + 1, item))
        ELSE Join(<<item>> \o ls)

\* After the last item; at the end of a body that has none.
AppendTodo(b, text) ==
    LET ls == Lines(b)
        item == <<"[ ]", "sp">> \o NewText(text)
        at == CHOOSE i \in Items(ls) : \A j \in Items(ls) : j <= i
    IN  IF Items(ls) # {} THEN Join(InsertAt(ls, at + 1, item))
        ELSE IF b = <<>> THEN item
        ELSE TrimEnd(b, {"nl"}) \o <<"nl">> \o item

-----------------------------------------------------------------------------
(* Tags and lines.                                                         *)

\* A variant for the checks: white space on both sides goes, of any kind.
AllAround(b, i) ==
    {i} \cup {j \in {i - 1, i + 1} \cap DOMAIN b : b[j] \in White}

\* What goes with the tag at i: its whole line when it stands alone, else
\* the space after it, else the space before it.
RemovedWith(b, i) ==
    LET from == Least({j \in 1 .. i : \A k \in j .. i : b[k] # "nl"})
        to == Least({j \in i + 1 .. Len(b) : b[j] = "nl"} \cup {Len(b) + 1})
    IN  IF \A k \in (from .. to - 1) \ {i} : b[k] = "sp"
        THEN (from .. to) \cap DOMAIN b
        ELSE IF i < Len(b) /\ b[i + 1] = "sp" THEN {i, i + 1}
        ELSE IF i > 1 /\ b[i - 1] = "sp" THEN {i - 1, i}
        ELSE {i}

RemoveTag(b, tag) ==
    LET gone == UNION {RemovedWith(b, i) : i \in {j \in TagPositions(b) : b[j] = tag}}
    IN  Picked(b, DOMAIN b \ gone)

\* A variant for the checks: the tag goes at the end of the last line.
AppendsTag(b, tag) ==
    IF tag \in TagsOf(b) THEN b ELSE TrimEnd(b, White) \o <<"sp", tag>>

EnsureTag(b, tag) ==
    IF tag \in TagsOf(b) THEN b
    ELSE TrimEnd(b, White) \o <<"nl", "nl", tag>>

\* A variant for the checks: an empty replacement leaves an empty line.
BlanksLines(b, start, end, text) ==
    LET ls == Lines(b)
    IN  Join(SubSeq(ls, 1, start - 1) \o Lines(text) \o SubSeq(ls, end + 1, Len(ls)))

ReplaceLines(b, start, end, text) ==
    LET ls == Lines(b)
    IN  Join(SubSeq(ls, 1, start - 1)
               \o (IF text = <<>> THEN <<>> ELSE Lines(text))
               \o SubSeq(ls, end + 1, Len(ls)))

-----------------------------------------------------------------------------
(* Project tags: "P" is the prefix proj/, "a" and "b" letters or digits, "A" *)
(* a capital, "-" a space, dash or underscore, "!" what no tag has.          *)

Kept == {"a", "b", "/", "P"}
Lower(c) == IF c = "A" THEN "a" ELSE c
Chars == Kept \cup {"A", "-", "_", "!"}

\* The letters and digits of a name, in their order.
Letters(s) == Picked(s, {i \in DOMAIN s : s[i] \in Kept})

\* A variant for the checks: a dropped character ends a run of separators.
DropEndsRun(acc, c) ==
    IF Lower(c) \in Kept
    THEN [out |-> Append(acc.out, Lower(c)), sep |-> FALSE]
    ELSE IF c \in {"-", "_"} /\ ~acc.sep /\ acc.out # <<>>
         THEN [out |-> Append(acc.out, "_"), sep |-> TRUE]
    ELSE [acc EXCEPT !.sep = FALSE]

\* What a character adds to the tag, and whether that is a separator.
Slugged(acc, c) ==
    IF Lower(c) \in Kept
    THEN [out |-> Append(acc.out, Lower(c)), sep |-> FALSE]
    ELSE IF c \in {"-", "_"} /\ ~acc.sep /\ acc.out # <<>>
         THEN [out |-> Append(acc.out, "_"), sep |-> TRUE]
    ELSE acc

Slugify(s) ==
    LET upTo[i \in 0 .. Len(s)] ==
            IF i = 0 THEN [out |-> <<>>, sep |-> FALSE] ELSE Slugged(upTo[i - 1], s[i])
    IN  TrimEnd(upTo[Len(s)].out, {"_"})

Bare(s) == IF s # <<>> /\ Head(s) = "P" THEN Tail(s) ELSE s

ToTag(s) == IF Slugify(Bare(s)) = <<>> THEN <<>> ELSE <<"P">> \o Slugify(Bare(s))
=============================================================================
