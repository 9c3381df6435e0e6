--------------------------- MODULE DerivedProofs ---------------------------
(***************************************************************************)
(* What is derived from a note when its todos and tags are edited, for      *)
(* every body.                                                              *)
(*                                                                         *)
(* Code is found by a search along the text, which skips from the end of a  *)
(* span to the next beginning.  Two texts of which one has all backticks    *)
(* and fences of the other have the same code (Matches, Embeds), so a tag   *)
(* both have counts in both.  An added todo is a line put in between        *)
(* (LinesInserted), which moves the end of the frontmatter or leaves it     *)
(* where it is (FrontMoves).  A removed tag takes white space with it, or    *)
(* its line: token by token, the lines of what is kept are traced to those  *)
(* of the text (Traced), a break goes only with its whole line, and no mark *)
(* of code comes to stand where one was not (Removes, BringsNoTag).          *)
(***************************************************************************)
EXTENDS ContentProofs

-----------------------------------------------------------------------------
(* Code along a text.                                                      *)

\* One step of a search along a text: a span that begins at i ends at end, or
\* none begins there (0), or i is in the span before.
Skimmed(end, acc, i) ==
    IF i < acc.next \/ end = 0 THEN acc
    ELSE [next |-> end + 1, pos |-> acc.pos \cup i .. end]

Skims(f, e, n) ==
    f[0] = NoSpan /\ \A i \in 1 .. n : f[i] = Skimmed(e[i], f[i - 1], i)

\* Of two texts, one has only some of the places of the other: h says which.
Rises(h, m, n) ==
    /\ h \in [1 .. m -> 1 .. n]
    /\ \A j \in 1 .. m, k \in 1 .. m : j < k => h[j] < h[k]

Alike(a, acc, h, m) ==
    \A j \in 1 .. m : /\ j < a.next <=> h[j] < acc.next
                      /\ j \in a.pos <=> h[j] \in acc.pos

\* The spans of d are those of e, and none of these begins elsewhere.
Matches(d, e, h, m, n) ==
    /\ \A k \in 1 .. m : d[k] = 0 <=> e[h[k]] = 0
    /\ \A k \in 1 .. m : d[k] # 0 => d[k] \in 1 .. m /\ e[h[k]] = h[d[k]]
    /\ \A i \in 1 .. n : (\A k \in 1 .. m : h[k] # i) => e[i] = 0

LEMMA SkimmedAlike ==
    ASSUME NEW n \in Nat, NEW m \in Nat, NEW e \in [1 .. n -> Nat], NEW d \in [1 .. m -> Nat],
           NEW f \in [0 .. n -> Spans(Nat)], NEW g \in [0 .. m -> Spans(Nat)],
           Skims(f, e, n), Skims(g, d, m), NEW h, Rises(h, m, n),
           Matches(d, e, h, m, n)
    PROVE  \A k \in 1 .. m : k \in g[m].pos <=> h[k] \in f[n].pos
<1> DEFINE At(k, i) == (k > 0 => h[k] <= i) /\ (k < m => i < h[k + 1])
           T == {i \in Nat : i <= n => \A k \in 0 .. m : At(k, i) => Alike(g[k], f[i], h, m)}
<1>1. /\ h \in [1 .. m -> 1 .. n]
      /\ \A j \in 1 .. m, k \in 1 .. m : j < k => h[j] < h[k]
    BY DEF Rises
<1>7. /\ \A k \in 1 .. m : d[k] = 0 <=> e[h[k]] = 0
      /\ \A k \in 1 .. m : d[k] # 0 => d[k] \in 1 .. m /\ e[h[k]] = h[d[k]]
      /\ \A i \in 1 .. n : (\A k \in 1 .. m : h[k] # i) => e[i] = 0
    BY DEF Matches
<1>2. 0 \in T
    <2> SUFFICES ASSUME NEW k \in 0 .. m, At(k, 0) PROVE Alike(g[k], f[0], h, m)
        OBVIOUS
    <2>1. k = 0
        BY <1>1
    <2>2. g[0] = NoSpan /\ f[0] = NoSpan
        BY DEF Skims
    <2>3. \A j \in 1 .. m : h[j] \in 1 .. n
        BY <1>1
    <2> QED
        BY <2>1, <2>2, <2>3 DEF Alike, NoSpan
<1>3. ASSUME NEW i \in Nat, i \in T PROVE i + 1 \in T
    <2> SUFFICES ASSUME i + 1 <= n, NEW k \in 0 .. m, At(k, i + 1)
                 PROVE  Alike(g[k], f[i + 1], h, m)
        OBVIOUS
    <2>1. \A q \in 0 .. m : At(q, i) => Alike(g[q], f[i], h, m)
        BY <1>3
    <2>2. /\ f[i + 1] = Skimmed(e[i + 1], f[i], i + 1)
          /\ i + 1 \in 1 .. n /\ i \in 0 .. n
        <3>1. i + 1 \in 1 .. n /\ (i + 1) - 1 = i
            OBVIOUS
        <3> QED
            BY <3>1 DEF Skims
    <2>3. CASE k > 0 /\ h[k] = i + 1
        <3>1. At(k - 1, i) /\ k - 1 \in 0 .. m /\ k \in 1 .. m
            BY <1>1, <2>3
        <3>2. Alike(g[k - 1], f[i], h, m)
            BY <2>1, <3>1
        <3>3. g[k] = Skimmed(d[k], g[k - 1], k)
            BY <3>1 DEF Skims
        <3>4. k < g[k - 1].next <=> i + 1 < f[i].next
            BY <2>3, <3>1, <3>2 DEF Alike
        <3>5. d[k] = 0 <=> e[i + 1] = 0
            BY <1>7, <2>3, <3>1
        <3>6. CASE k < g[k - 1].next \/ d[k] = 0
            <4>1. g[k] = g[k - 1] /\ f[i + 1] = f[i]
                BY <2>2, <3>3, <3>4, <3>5, <3>6 DEF Skimmed
            <4> QED
                BY <3>2, <4>1
        <3>7. CASE ~(k < g[k - 1].next \/ d[k] = 0)
            <4> DEFINE t == d[k]
            <4>1. t \in 1 .. m /\ e[i + 1] = h[t]
                BY <1>7, <2>3, <3>1, <3>7
            <4> HIDE DEF t
            <4>4. t \in Nat /\ k \in Nat /\ k \in 1 .. m /\ h[k] = i + 1
                BY <2>3, <3>1, <4>1
            <4>2. /\ g[k] = [next |-> t + 1, pos |-> g[k - 1].pos \cup k .. t]
                  /\ f[i + 1] = [next |-> h[t] + 1, pos |-> f[i].pos \cup (i + 1) .. h[t]]
                <5>1. g[k] = [next |-> t + 1, pos |-> g[k - 1].pos \cup k .. t]
                    BY <3>3, <3>7 DEF Skimmed, t
                <5> QED
                    BY <2>2, <3>4, <3>5, <3>7, <4>1, <5>1 DEF Skimmed
            <4>3. ASSUME NEW j \in 1 .. m
                  PROVE  /\ j < g[k].next <=> h[j] < f[i + 1].next
                         /\ j \in g[k].pos <=> h[j] \in f[i + 1].pos
                <5>1. h[j] \in 1 .. n /\ h[t] \in 1 .. n /\ h[k] \in 1 .. n
                    BY <1>1, <3>1, <4>1
                <5>2. (j <= t <=> h[j] <= h[t]) /\ (k <= j <=> h[k] <= h[j])
                    <6>1. j < t => h[j] < h[t]
                        BY <1>1, <4>1
                    <6>2. t < j => h[t] < h[j]
                        BY <1>1, <4>1
                    <6>3. k < j => h[k] < h[j]
                        BY <1>1, <3>1
                    <6>4. j < k => h[j] < h[k]
                        BY <1>1, <3>1
                    <6>5. j \in Nat /\ h[j] \in Nat /\ h[t] \in Nat /\ h[k] \in Nat
                        BY <5>1
                    <6>6. j <= t <=> h[j] <= h[t]
                        BY <4>4, <6>1, <6>2, <6>5
                    <6>7. k <= j <=> h[k] <= h[j]
                        BY <4>4, <6>3, <6>4, <6>5
                    <6> QED
                        BY <6>6, <6>7
                <5>3. j < t + 1 <=> h[j] < h[t] + 1
                    <6>1. j \in Nat /\ h[j] \in Nat /\ h[t] \in Nat
                        BY <5>1
                    <6> QED
                        BY <4>4, <5>2, <6>1
                <5>4. j \in k .. t <=> h[j] \in (i + 1) .. h[t]
                    BY <5>1, <5>2, <4>4
                <5>5. j \in g[k - 1].pos <=> h[j] \in f[i].pos
                    BY <3>2 DEF Alike
                <5> QED
                    BY <4>2, <5>3, <5>4, <5>5
            <4> QED
                BY <4>3 DEF Alike
        <3> QED
            BY <3>6, <3>7
    <2>4. CASE ~(k > 0 /\ h[k] = i + 1)
        <3>1. At(k, i)
            <4>1. k > 0 => h[k] \in Nat /\ h[k] <= i + 1
                BY <1>1
            <4>2. k < m => h[k + 1] \in Nat /\ i + 1 < h[k + 1]
                BY <1>1
            <4> QED
                BY <2>4, <4>1, <4>2
        <3>2. \A j \in 1 .. m : h[j] # i + 1
            <4> SUFFICES ASSUME NEW j \in 1 .. m PROVE h[j] # i + 1
                OBVIOUS
            <4>1. CASE j <= k
                <5>1. k > 0 /\ h[k] <= i /\ k \in 1 .. m
                    BY <3>1, <4>1
                <5>2. h[j] <= h[k]
                    <6>1. j < k => h[j] < h[k]
                        BY <1>1, <5>1
                    <6>2. h[j] \in Nat /\ h[k] \in Nat
                        BY <1>1, <5>1
                    <6> QED
                        BY <4>1, <6>1, <6>2
                <5> QED
                    BY <1>1, <5>1, <5>2
            <4>2. CASE k < j
                <5>1. k + 1 \in 1 .. m /\ i + 1 < h[k + 1]
                    BY <4>2
                <5>2. h[k + 1] <= h[j]
                    <6>1. k + 1 < j => h[k + 1] < h[j]
                        BY <1>1, <5>1
                    <6>2. h[j] \in Nat /\ h[k + 1] \in Nat
                        BY <1>1, <5>1
                    <6> QED
                        BY <4>2, <6>1, <6>2
                <5> QED
                    BY <1>1, <5>1, <5>2
            <4> QED
                BY <4>1, <4>2
        <3>3. e[i + 1] = 0
            BY <1>7, <2>2, <3>2
        <3>4. f[i + 1] = f[i]
            BY <2>2, <3>3 DEF Skimmed
        <3> QED
            BY <2>1, <3>1, <3>4
    <2> QED
        BY <2>3, <2>4
<1>4. n \in T
    <2> HIDE DEF T
    <2> QED
        BY <1>2, <1>3, AllNumbers
<1>5. At(m, n)
    BY <1>1
<1>6. Alike(g[m], f[n], h, m)
    BY <1>4, <1>5
<1> QED
    BY <1>6 DEF Alike

\* Where code that begins at i ends, and a fenced block; 0 where none begins.
CodeEnd(b, i) ==
    LET ends == {j \in i + 1 .. Len(b) : b[j] = "tick"}
    IN  IF b[i] # "tick" \/ ends = {} \/ i + 1 \in ends THEN 0 ELSE Least(ends)
FenceEnd(ls, i) ==
    LET ends == {j \in i + 1 .. Len(ls) : Closes(ls[j], ls[i])}
    IN  IF ~Opens(ls[i]) \/ ends = {} THEN 0 ELSE Least(ends)

LEMMA SkimmedType ==
    ASSUME NEW acc \in Spans(Nat), NEW end \in Nat, NEW i \in Nat
    PROVE  Skimmed(end, acc, i) \in Spans(Nat)
BY DEF Skimmed, Spans

LEMMA CodeEndIs ==
    ASSUME NEW X, NEW b \in Seq(X), NEW i \in 1 .. Len(b)
    PROVE  LET e == CodeEnd(b, i)
           IN  /\ e \in 0 .. Len(b)
               /\ e # 0 => /\ b[i] = "tick" /\ i + 1 < e /\ b[e] = "tick"
                           /\ \A j \in 1 .. Len(b) : i < j /\ j < e => b[j] # "tick"
               /\ e = 0 => \/ b[i] # "tick" \/ \A j \in 1 .. Len(b) : i < j => b[j] # "tick"
                           \/ i + 1 <= Len(b) /\ b[i + 1] = "tick"
               /\ \A acc : Coding(b, acc, i) = Skimmed(e, acc, i)
<1> DEFINE ends == {j \in i + 1 .. Len(b) : b[j] = "tick"}
           e == Least(ends)
           none == b[i] # "tick" \/ ends = {} \/ i + 1 \in ends
<1>1. \A acc : Coding(b, acc, i) = IF i < acc.next \/ none THEN acc
                          ELSE [next |-> e + 1, pos |-> acc.pos \cup i .. e]
    BY Zenon DEF Coding
<1>2. CodeEnd(b, i) = IF none THEN 0 ELSE e
    BY Zenon DEF CodeEnd
<1>3. ends \in SUBSET Nat /\ Len(b) \in Nat
    OBVIOUS
<1>4. ~none => /\ e \in i + 2 .. Len(b) /\ b[e] = "tick" /\ b[i] = "tick"
               /\ \A j \in 1 .. Len(b) : i < j /\ j < e => b[j] # "tick"
    <2> SUFFICES ASSUME ~none
                 PROVE  /\ e \in i + 2 .. Len(b) /\ b[e] = "tick" /\ b[i] = "tick"
                        /\ \A j \in 1 .. Len(b) : i < j /\ j < e => b[j] # "tick"
        OBVIOUS
    <2>1. e \in ends /\ \A j \in ends : e <= j
        <3> HIDE DEF ends
        <3> QED
            BY <1>3, LeastProperties DEF e
    <2> HIDE DEF e
    <2>2. e # i + 1
        BY <2>1
    <2> QED
        BY <1>3, <2>1, <2>2
<1>5. none => \/ b[i] # "tick" \/ \A j \in 1 .. Len(b) : i < j => b[j] # "tick"
              \/ i + 1 <= Len(b) /\ b[i + 1] = "tick"
    BY <1>3
<1>6. \A acc : Coding(b, acc, i) = Skimmed(IF none THEN 0 ELSE e, acc, i)
    <2>1. ~none => e # 0
        BY <1>3, <1>4
    <2> HIDE DEF none, e
    <2> QED
        BY <1>1, <2>1 DEF Skimmed
<1> HIDE DEF none, e, ends
<1> QED
    BY <1>2, <1>3, <1>4, <1>5, <1>6

LEMMA FenceEndIs ==
    ASSUME NEW ls \in Seq(Line), NEW i \in 1 .. Len(ls)
    PROVE  LET e == FenceEnd(ls, i)
           IN  /\ e \in 0 .. Len(ls)
               /\ e # 0 => /\ Opens(ls[i]) /\ i < e /\ Closes(ls[e], ls[i])
                           /\ \A j \in 1 .. Len(ls) : i < j /\ j < e => ~Closes(ls[j], ls[i])
               /\ e = 0 => ~Opens(ls[i]) \/ \A j \in 1 .. Len(ls) : i < j => ~Closes(ls[j], ls[i])
               /\ \A acc : Fencing(ls, acc, i) = Skimmed(e, acc, i)
<1> DEFINE ends == {j \in i + 1 .. Len(ls) : Closes(ls[j], ls[i])}
           e == Least(ends)
           none == ~Opens(ls[i]) \/ ends = {}
<1>1. \A acc : Fencing(ls, acc, i) = IF i < acc.next \/ none THEN acc
                          ELSE [next |-> e + 1, pos |-> acc.pos \cup i .. e]
    BY Zenon DEF Fencing
<1>2. FenceEnd(ls, i) = IF none THEN 0 ELSE e
    BY Zenon DEF FenceEnd
<1>3. ends \in SUBSET Nat /\ Len(ls) \in Nat
    OBVIOUS
<1>4. ~none => /\ Opens(ls[i]) /\ e \in i + 1 .. Len(ls) /\ Closes(ls[e], ls[i])
               /\ \A j \in 1 .. Len(ls) : i < j /\ j < e => ~Closes(ls[j], ls[i])
    <2> SUFFICES ASSUME ~none
                 PROVE  /\ Opens(ls[i]) /\ e \in i + 1 .. Len(ls) /\ Closes(ls[e], ls[i])
                        /\ \A j \in 1 .. Len(ls) : i < j /\ j < e => ~Closes(ls[j], ls[i])
        OBVIOUS
    <2>1. e \in ends /\ \A j \in ends : e <= j
        <3> HIDE DEF ends
        <3> QED
            BY <1>3, LeastProperties DEF e
    <2> HIDE DEF e
    <2> QED
        BY <1>3, <2>1
<1>5. none => ~Opens(ls[i]) \/ \A j \in 1 .. Len(ls) : i < j => ~Closes(ls[j], ls[i])
    BY <1>3
<1>6. \A acc : Fencing(ls, acc, i) = Skimmed(IF none THEN 0 ELSE e, acc, i)
    <2>1. ~none => e # 0
        BY <1>3, <1>4
    <2> HIDE DEF none, e
    <2> QED
        BY <1>1, <2>1 DEF Skimmed
<1> HIDE DEF none, e, ends
<1> QED
    BY <1>2, <1>3, <1>4, <1>5, <1>6

\* Inline code is what such a search finds.
LEMMA CodeIsSkimmed ==
    ASSUME NEW X, NEW b \in Seq(X)
    PROVE  \E f \in [0 .. Len(b) -> Spans(Nat)], e \in [1 .. Len(b) -> Nat] :
              /\ \A i \in 1 .. Len(b) : e[i] = CodeEnd(b, i)
              /\ Skims(f, e, Len(b)) /\ InlineCode(b) = f[Len(b)].pos
<1> DEFINE n == Len(b)
           A == Spans(Nat)
           step == [a \in A \X (1 .. n) |-> Coding(b, a[1], a[2])]
           rec(g) == [i \in 0 .. n |-> IF i = 0 THEN NoSpan ELSE Coding(b, g[i - 1], i)]
           upTo == CHOOSE g : g = rec(g)
           e == [i \in 1 .. n |-> CodeEnd(b, i)]
<1>1. n \in Nat /\ NoSpan \in A
    BY DEF NoSpan, Spans
<1>e. \A i \in 1 .. n : CodeEnd(b, i) \in Nat
    BY <1>1, CodeEndIs
<1>2. \A a \in A, i \in 1 .. n : Coding(b, a, i) \in A
    <2> SUFFICES ASSUME NEW a \in A, NEW i \in 1 .. n PROVE Coding(b, a, i) \in A
        OBVIOUS
    <2>1. Coding(b, a, i) = Skimmed(CodeEnd(b, i), a, i)
        BY CodeEndIs
    <2>2. CodeEnd(b, i) \in Nat /\ i \in Nat
        BY <1>1, <1>e
    <2> HIDE DEF A, n
    <2>3. a \in Spans(Nat)
        BY DEF A
    <2>4. Skimmed(CodeEnd(b, i), a, i) \in Spans(Nat)
        BY <2>2, <2>3, SkimmedType
    <2> QED
        BY <2>1, <2>4 DEF A
<1> HIDE DEF A
<1>3. step \in [A \X (1 .. n) -> A]
    BY <1>2
<1>4. \A a \in A, i \in 1 .. n : step[<<a, i>>] = Coding(b, a, i)
    OBVIOUS
<1>5. PICK h \in [0 .. n -> A] : Follows(h, NoSpan, n, step)
    <2> HIDE DEF n, step
    <2> QED
        BY <1>1, <1>3, Recursion
<1> HIDE DEF step
<1>6. \A i \in 0 .. n : h[i] = IF i = 0 THEN NoSpan ELSE Coding(b, h[i - 1], i)
    <2>1. \A i \in 0 .. n : i = 0 \/ (i \in 1 .. n /\ i - 1 \in 0 .. n)
        BY <1>1
    <2> QED
        BY <1>4, <1>5, <2>1 DEF Follows
<1>7. h = rec(h)
    BY <1>5, <1>6
<1>8. upTo = rec(upTo)
    BY <1>7
<1> HIDE DEF upTo
<1>9. /\ upTo = [i \in 0 .. n |-> upTo[i]] /\ upTo[0] = NoSpan
      /\ \A i \in 1 .. n : upTo[i] = Coding(b, upTo[i - 1], i)
    <2>1. \A i \in 0 .. n : upTo[i] = IF i = 0 THEN NoSpan ELSE Coding(b, upTo[i - 1], i)
        BY <1>8
    <2>2. 0 \in 0 .. n /\ \A i \in 1 .. n : i \in 0 .. n /\ i # 0
        BY <1>1
    <2> QED
        BY <1>8, <2>1, <2>2
<1>10. upTo \in [0 .. n -> A]
    <2> HIDE DEF n
    <2>1. upTo[0] \in A /\ \A i \in 1 .. n : upTo[i - 1] \in A => upTo[i] \in A
        BY <1>1, <1>2, <1>9
    <2> QED
        BY <1>1, <1>9, <2>1, StaysIn, Zenon
<1>11. InlineCode(b) = upTo[n].pos
    BY DEF InlineCode, NoSpan, upTo
<1>12. e \in [1 .. n -> Nat]
    BY <1>e
<1>13. \A i \in 1 .. n : e[i] = CodeEnd(b, i)
    OBVIOUS
<1> HIDE DEF e
<1>14. Skims(upTo, e, n)
    <2>1. ASSUME NEW i \in 1 .. n PROVE upTo[i] = Skimmed(e[i], upTo[i - 1], i)
        <3>1. \A acc : Coding(b, acc, i) = Skimmed(CodeEnd(b, i), acc, i)
            BY CodeEndIs
        <3> QED
            BY <1>9, <1>13, <3>1
    <2> QED
        BY <1>9, <2>1 DEF Skims
<1> HIDE DEF n
<1>15. \E f \in [0 .. n -> A], d \in [1 .. n -> Nat] :
              /\ \A i \in 1 .. n : d[i] = CodeEnd(b, i)
              /\ Skims(f, d, n) /\ InlineCode(b) = f[n].pos
    BY <1>10, <1>11, <1>12, <1>13, <1>14
<1> QED
    BY <1>15, Zenon DEF n, A
\* Fenced blocks are what such a search finds.
LEMMA FencesAreSkimmed ==
    ASSUME NEW ls \in Seq(Line)
    PROVE  \E f \in [0 .. Len(ls) -> Spans(Nat)], e \in [1 .. Len(ls) -> Nat] :
              /\ \A i \in 1 .. Len(ls) : e[i] = FenceEnd(ls, i)
              /\ Skims(f, e, Len(ls)) /\ FencedLines(ls) = f[Len(ls)].pos
<1> DEFINE n == Len(ls)
           A == Spans(Nat)
           step == [a \in A \X (1 .. n) |-> Fencing(ls, a[1], a[2])]
           rec(g) == [i \in 0 .. n |-> IF i = 0 THEN NoSpan ELSE Fencing(ls, g[i - 1], i)]
           upTo == CHOOSE g : g = rec(g)
           e == [i \in 1 .. n |-> FenceEnd(ls, i)]
<1>1. n \in Nat /\ NoSpan \in A
    BY DEF NoSpan, Spans
<1>e. \A i \in 1 .. n : FenceEnd(ls, i) \in Nat
    BY <1>1, FenceEndIs
<1>2. \A a \in A, i \in 1 .. n : Fencing(ls, a, i) \in A
    <2> SUFFICES ASSUME NEW a \in A, NEW i \in 1 .. n PROVE Fencing(ls, a, i) \in A
        OBVIOUS
    <2>1. Fencing(ls, a, i) = Skimmed(FenceEnd(ls, i), a, i)
        BY FenceEndIs
    <2>2. FenceEnd(ls, i) \in Nat /\ i \in Nat
        BY <1>1, <1>e
    <2> HIDE DEF A, n
    <2>3. a \in Spans(Nat)
        BY DEF A
    <2>4. Skimmed(FenceEnd(ls, i), a, i) \in Spans(Nat)
        BY <2>2, <2>3, SkimmedType
    <2> QED
        BY <2>1, <2>4 DEF A
<1> HIDE DEF A
<1>3. step \in [A \X (1 .. n) -> A]
    BY <1>2
<1>4. \A a \in A, i \in 1 .. n : step[<<a, i>>] = Fencing(ls, a, i)
    OBVIOUS
<1>5. PICK h \in [0 .. n -> A] : Follows(h, NoSpan, n, step)
    <2> HIDE DEF n, step
    <2> QED
        BY <1>1, <1>3, Recursion
<1> HIDE DEF step
<1>6. \A i \in 0 .. n : h[i] = IF i = 0 THEN NoSpan ELSE Fencing(ls, h[i - 1], i)
    <2>1. \A i \in 0 .. n : i = 0 \/ (i \in 1 .. n /\ i - 1 \in 0 .. n)
        BY <1>1
    <2> QED
        BY <1>4, <1>5, <2>1 DEF Follows
<1>7. h = rec(h)
    BY <1>5, <1>6
<1>8. upTo = rec(upTo)
    BY <1>7
<1> HIDE DEF upTo
<1>9. /\ upTo = [i \in 0 .. n |-> upTo[i]] /\ upTo[0] = NoSpan
      /\ \A i \in 1 .. n : upTo[i] = Fencing(ls, upTo[i - 1], i)
    <2>1. \A i \in 0 .. n : upTo[i] = IF i = 0 THEN NoSpan ELSE Fencing(ls, upTo[i - 1], i)
        BY <1>8
    <2>2. 0 \in 0 .. n /\ \A i \in 1 .. n : i \in 0 .. n /\ i # 0
        BY <1>1
    <2> QED
        BY <1>8, <2>1, <2>2
<1>10. upTo \in [0 .. n -> A]
    <2> HIDE DEF n
    <2>1. upTo[0] \in A /\ \A i \in 1 .. n : upTo[i - 1] \in A => upTo[i] \in A
        BY <1>1, <1>2, <1>9
    <2> QED
        BY <1>1, <1>9, <2>1, StaysIn, Zenon
<1>11. FencedLines(ls) = upTo[n].pos
    BY DEF FencedLines, NoSpan, upTo
<1>12. e \in [1 .. n -> Nat]
    BY <1>e
<1>13. \A i \in 1 .. n : e[i] = FenceEnd(ls, i)
    OBVIOUS
<1> HIDE DEF e
<1>14. Skims(upTo, e, n)
    <2>1. ASSUME NEW i \in 1 .. n PROVE upTo[i] = Skimmed(e[i], upTo[i - 1], i)
        <3>1. \A acc : Fencing(ls, acc, i) = Skimmed(FenceEnd(ls, i), acc, i)
            BY FenceEndIs
        <3> QED
            BY <1>9, <1>13, <3>1
    <2> QED
        BY <1>9, <2>1 DEF Skims
<1> HIDE DEF n
<1>15. \E f \in [0 .. n -> A], d \in [1 .. n -> Nat] :
              /\ \A i \in 1 .. n : d[i] = FenceEnd(ls, i)
              /\ Skims(f, d, n) /\ FencedLines(ls) = f[n].pos
    BY <1>10, <1>11, <1>12, <1>13, <1>14
<1> QED
    BY <1>15, Zenon DEF n, A

LEMMA RisesOrder ==
    ASSUME NEW m \in Nat, NEW n \in Nat, NEW h, Rises(h, m, n), NEW j \in 1 .. m, NEW k \in 1 .. m
    PROVE  /\ h[j] \in 1 .. n /\ h[k] \in 1 .. n
           /\ j < k <=> h[j] < h[k]
           /\ j <= k <=> h[j] <= h[k]
           /\ j = k <=> h[j] = h[k]
<1>1. h[j] \in 1 .. n /\ h[k] \in 1 .. n
    BY DEF Rises
<1>2. (j < k => h[j] < h[k]) /\ (k < j => h[k] < h[j])
    BY DEF Rises
<1>3. j \in Nat /\ k \in Nat /\ h[j] \in Nat /\ h[k] \in Nat
    BY <1>1
<1>4. j = k => h[j] = h[k]
    OBVIOUS
<1> QED
    BY <1>1, <1>2, <1>3, <1>4

\* Code is kept where all backticks are, and none comes to stand next to another.
LEMMA CodeKept ==
    ASSUME NEW X, NEW b \in Seq(X), NEW c \in Seq(X), NEW g, Rises(g, Len(c), Len(b)),
           \A k \in 1 .. Len(c) : c[k] = "tick" <=> b[g[k]] = "tick",
           \A i \in 1 .. Len(b) : b[i] = "tick" => \E k \in 1 .. Len(c) : g[k] = i,
           \A k \in 1 .. Len(c) - 1 :
               c[k] = "tick" /\ c[k + 1] = "tick" => g[k + 1] = g[k] + 1
    PROVE  \A k \in 1 .. Len(c) : k \in InlineCode(c) <=> g[k] \in InlineCode(b)
<1> DEFINE n == Len(b)
           m == Len(c)
           tick == "tick"
<1>1. n \in Nat /\ m \in Nat
    OBVIOUS
<1>2. PICK f \in [0 .. n -> Spans(Nat)], e \in [1 .. n -> Nat] :
              /\ \A i \in 1 .. n : e[i] = CodeEnd(b, i)
              /\ Skims(f, e, n) /\ InlineCode(b) = f[n].pos
    BY CodeIsSkimmed, Zenon
<1>3. PICK q \in [0 .. m -> Spans(Nat)], d \in [1 .. m -> Nat] :
              /\ \A i \in 1 .. m : d[i] = CodeEnd(c, i)
              /\ Skims(q, d, m) /\ InlineCode(c) = q[m].pos
    BY CodeIsSkimmed, Zenon
<1>4. \A i \in 1 .. n : /\ e[i] \in 0 .. n
                        /\ e[i] # 0 => /\ b[i] = tick /\ i + 1 < e[i] /\ b[e[i]] = tick
                                       /\ \A j \in 1 .. n : i < j /\ j < e[i] => b[j] # tick
                        /\ e[i] = 0 => \/ b[i] # tick \/ \A j \in 1 .. n : i < j => b[j] # tick
                                       \/ i + 1 <= n /\ b[i + 1] = tick
    <2> SUFFICES ASSUME NEW i \in 1 .. n
                 PROVE  /\ e[i] \in 0 .. n
                        /\ e[i] # 0 => /\ b[i] = tick /\ i + 1 < e[i] /\ b[e[i]] = tick
                                       /\ \A j \in 1 .. n : i < j /\ j < e[i] => b[j] # tick
                        /\ e[i] = 0 => \/ b[i] # tick \/ \A j \in 1 .. n : i < j => b[j] # tick
                                       \/ i + 1 <= n /\ b[i + 1] = tick
        OBVIOUS
    <2>1. e[i] = CodeEnd(b, i)
        BY <1>2
    <2> QED
        BY <2>1, CodeEndIs
<1>5. \A i \in 1 .. m : /\ d[i] \in 0 .. m
                        /\ d[i] # 0 => /\ c[i] = tick /\ i + 1 < d[i] /\ c[d[i]] = tick
                                       /\ \A j \in 1 .. m : i < j /\ j < d[i] => c[j] # tick
                        /\ d[i] = 0 => \/ c[i] # tick \/ \A j \in 1 .. m : i < j => c[j] # tick
                                       \/ i + 1 <= m /\ c[i + 1] = tick
    <2> SUFFICES ASSUME NEW i \in 1 .. m
                 PROVE  /\ d[i] \in 0 .. m
                        /\ d[i] # 0 => /\ c[i] = tick /\ i + 1 < d[i] /\ c[d[i]] = tick
                                       /\ \A j \in 1 .. m : i < j /\ j < d[i] => c[j] # tick
                        /\ d[i] = 0 => \/ c[i] # tick \/ \A j \in 1 .. m : i < j => c[j] # tick
                                       \/ i + 1 <= m /\ c[i + 1] = tick
        OBVIOUS
    <2>1. d[i] = CodeEnd(c, i)
        BY <1>3
    <2> QED
        BY <2>1, CodeEndIs
<1>a. /\ Rises(g, m, n)
      /\ \A k \in 1 .. m : c[k] = tick <=> b[g[k]] = tick
      /\ \A i \in 1 .. n : b[i] = tick => \E k \in 1 .. m : g[k] = i
      /\ \A k \in 1 .. m - 1 : c[k] = tick /\ c[k + 1] = tick => g[k + 1] = g[k] + 1
    OBVIOUS
<1>o. \A j \in 1 .. m, k \in 1 .. m :
         /\ j \in Nat /\ k \in Nat /\ g[j] \in 1 .. n /\ g[j] \in Nat /\ g[k] \in Nat
         /\ (j < k <=> g[j] < g[k]) /\ (j <= k <=> g[j] <= g[k])
    <2> HIDE DEF n, m
    <2> QED
        BY <1>1, <1>a, RisesOrder
<1> HIDE DEF n, m, tick
<1>6. ASSUME NEW k \in 1 .. m
      PROVE  (d[k] = 0 <=> e[g[k]] = 0) /\ (d[k] # 0 => d[k] \in 1 .. m /\ e[g[k]] = g[d[k]])
    <2> DEFINE i == g[k]
    <2>1. i \in 1 .. n /\ i \in Nat /\ k \in Nat
        BY <1>1, <1>a, <1>o
    <2>2. (c[k] = tick <=> b[i] = tick)
        BY <1>a
    <2>3. CASE d[k] # 0
        <3> DEFINE t == d[k]
        <3>1. /\ t \in 1 .. m /\ c[k] = tick /\ k + 1 < t /\ c[t] = tick
              /\ \A j \in 1 .. m : k < j /\ j < t => c[j] # tick
            BY <1>1, <1>5, <2>3
        <3> HIDE DEF t
        <3>2. g[t] \in 1 .. n /\ i < g[t] /\ b[g[t]] = tick /\ b[i] = tick
            BY <1>1, <1>a, <2>1, <3>1, <1>o
        <3>3. ASSUME NEW p \in 1 .. n, b[p] = tick, i < p PROVE g[t] <= p
            <4>1. PICK j \in 1 .. m : g[j] = p
                BY <1>a, <3>3
            <4>2. c[j] = tick /\ k < j
                BY <1>1, <1>a, <3>3, <4>1, <1>o
            <4>3. t <= j
                BY <1>1, <3>1, <4>2
            <4> QED
                BY <1>1, <1>a, <3>1, <4>1, <4>3, <1>o
        <3>4. e[i] # 0
            <4> SUFFICES ASSUME e[i] = 0 PROVE FALSE
                OBVIOUS
            <4>1. i + 1 <= n /\ b[i + 1] = tick
                BY <1>1, <1>4, <2>1, <3>2
            <4>2. g[t] <= i + 1
                BY <1>1, <2>1, <3>3, <4>1
            <4>3. k + 1 \in 1 .. m /\ k < k + 1
                BY <1>1, <2>1, <3>1
            <4>4. i < g[k + 1] /\ g[k + 1] < g[t] /\ g[k + 1] \in Nat
                BY <1>1, <1>a, <3>1, <4>3, <1>o
            <4> QED
                BY <2>1, <3>2, <4>2, <4>4
        <3>5. /\ e[i] \in 1 .. n /\ i + 1 < e[i] /\ b[e[i]] = tick
              /\ \A j \in 1 .. n : i < j /\ j < e[i] => b[j] # tick
            BY <1>1, <1>4, <2>1, <3>4
        <3>6. g[t] <= e[i]
            BY <2>1, <3>3, <3>5
        <3>7. ~(g[t] < e[i])
            BY <1>1, <2>1, <3>2, <3>5
        <3>8. e[i] = g[t]
            BY <1>1, <3>2, <3>5, <3>6, <3>7
        <3> QED
            BY <2>3, <3>1, <3>4, <3>8 DEF t
    <2>4. CASE d[k] = 0
        <3> SUFFICES ASSUME e[i] # 0 PROVE FALSE
            BY <2>4
        <3>1. /\ e[i] \in 1 .. n /\ i + 1 < e[i] /\ b[e[i]] = tick /\ b[i] = tick
              /\ \A j \in 1 .. n : i < j /\ j < e[i] => b[j] # tick
            BY <1>1, <1>4, <2>1
        <3>2. PICK j \in 1 .. m : g[j] = e[i]
            BY <1>a, <3>1
        <3>3. c[j] = tick /\ k < j
            <4>1. g[k] < g[j]
                BY <2>1, <3>1, <3>2
            <4> QED
                BY <1>1, <1>a, <3>1, <3>2, <4>1, <1>o
        <3>4. k + 1 <= m /\ c[k + 1] = tick /\ c[k] = tick
            BY <1>1, <1>5, <2>1, <2>2, <2>4, <3>1, <3>3
        <3>5. g[k + 1] = i + 1 /\ k + 1 \in 1 .. m
            BY <1>1, <1>a, <2>1, <3>4
        <3>6. b[i + 1] = tick
            BY <1>a, <3>4, <3>5
        <3> QED
            BY <1>1, <2>1, <3>1, <3>6
    <2> QED
        BY <2>3, <2>4
<1>7. ASSUME NEW i \in 1 .. n, \A k \in 1 .. m : g[k] # i PROVE e[i] = 0
    <2>1. b[i] # tick
        BY <1>7, <1>a
    <2>2. e[i] # 0 => b[i] = tick
        BY <1>4
    <2> QED
        BY <2>1, <2>2
<1>9. Matches(d, e, g, m, n)
    BY <1>6, <1>7 DEF Matches
<1>10. Skims(f, e, n) /\ Skims(q, d, m) /\ Rises(g, m, n)
    BY <1>2, <1>3, <1>a
<1>8. \A k \in 1 .. m : k \in q[m].pos <=> g[k] \in f[n].pos
    BY <1>1, <1>9, <1>10, SkimmedAlike, Zenon
<1> QED
    BY <1>2, <1>3, <1>8 DEF m

\* Two lines that are the same as fences.
EndsBlank(l) == \A i \in FenceRun(l) + 1 .. Len(l) : l[i] = "sp"
SameFence(l, k) ==
    /\ FenceRun(l) = FenceRun(k)
    /\ FenceRun(l) # 0 => Head(l) = Head(k) /\ (EndsBlank(l) <=> EndsBlank(k))

LEMMA FenceRunType ==
    ASSUME NEW l \in Line
    PROVE  FenceRun(l) \in 0 .. Len(l)
<1>1. CASE l = <<>> \/ Head(l) \notin {"tick", "~~~"}
    <2>1. FenceRun(l) = 0 /\ Len(l) \in Nat
        BY <1>1 DEF FenceRun, Line
    <2> QED
        BY <2>1
<1>2. CASE ~(l = <<>> \/ Head(l) \notin {"tick", "~~~"})
    <2>1. FenceRun(l) = First(l, {Head(l)}) - 1
        BY <1>2, Zenon DEF FenceRun
    <2>2. First(l, {Head(l)}) \in 1 .. Len(l) + 1 /\ Len(l) \in Nat
        BY FirstProperties DEF Line
    <2> QED
        BY <2>1, <2>2
<1> QED
    BY <1>1, <1>2

LEMMA OpensSame ==
    ASSUME NEW l \in Line, NEW k \in Line, SameFence(l, k)
    PROVE  /\ Opens(l) <=> Opens(k)
           /\ Opens(l) => FenceRun(l) # 0
<1>1. FenceRun(l) \in Nat /\ FenceRun(k) \in Nat
    BY FenceRunType DEF Line
<1>2. \A x : Opens(x) <=> FenceRun(x) >= (IF x # <<>> /\ Head(x) = "tick" THEN 3 ELSE 1)
    BY DEF Opens
<1>3. \A x : Opens(x) /\ FenceRun(x) \in Nat => FenceRun(x) # 0
    BY <1>2
<1>4. \A x : FenceRun(x) # 0 => x # <<>>
    BY DEF FenceRun
<1>5. CASE FenceRun(l) = 0
    BY <1>1, <1>3, <1>5 DEF SameFence
<1>6. CASE FenceRun(l) # 0
    BY <1>1, <1>2, <1>4, <1>6 DEF SameFence
<1> QED
    BY <1>1, <1>3, <1>5, <1>6

LEMMA ClosesSame ==
    ASSUME NEW l, NEW k, SameFence(l, k), NEW o, NEW p, SameFence(o, p), FenceRun(o) # 0
    PROVE  /\ Closes(l, o) <=> Closes(k, p)
           /\ Closes(l, o) => FenceRun(l) # 0
<1>1. \A x, y : Closes(x, y) <=> FenceRun(x) = FenceRun(y) /\ Head(x) = Head(y) /\ EndsBlank(x)
    BY DEF Closes, EndsBlank
<1> QED
    BY <1>1 DEF SameFence

\* Fenced blocks are kept where all fences are.
LEMMA FencesKept ==
    ASSUME NEW ls \in Seq(Line), NEW ms \in Seq(Line), NEW h, Rises(h, Len(ms), Len(ls)),
           \A k \in 1 .. Len(ms) : SameFence(ms[k], ls[h[k]]),
           \A i \in 1 .. Len(ls) : FenceRun(ls[i]) # 0 => \E k \in 1 .. Len(ms) : h[k] = i
    PROVE  \A k \in 1 .. Len(ms) : k \in FencedLines(ms) <=> h[k] \in FencedLines(ls)
<1> DEFINE n == Len(ls)
           m == Len(ms)
<1>1. n \in Nat /\ m \in Nat
    OBVIOUS
<1>2. PICK f \in [0 .. n -> Spans(Nat)], e \in [1 .. n -> Nat] :
              /\ \A i \in 1 .. n : e[i] = FenceEnd(ls, i)
              /\ Skims(f, e, n) /\ FencedLines(ls) = f[n].pos
    BY FencesAreSkimmed, Zenon
<1>3. PICK q \in [0 .. m -> Spans(Nat)], d \in [1 .. m -> Nat] :
              /\ \A i \in 1 .. m : d[i] = FenceEnd(ms, i)
              /\ Skims(q, d, m) /\ FencedLines(ms) = q[m].pos
    BY FencesAreSkimmed, Zenon
<1>4. \A i \in 1 .. n :
           /\ e[i] \in 0 .. n
           /\ e[i] # 0 => /\ Opens(ls[i]) /\ i < e[i] /\ Closes(ls[e[i]], ls[i])
                          /\ \A j \in 1 .. n : i < j /\ j < e[i] => ~Closes(ls[j], ls[i])
           /\ e[i] = 0 => ~Opens(ls[i]) \/ \A j \in 1 .. n : i < j => ~Closes(ls[j], ls[i])
    <2> SUFFICES ASSUME NEW i \in 1 .. n
                 PROVE  /\ e[i] \in 0 .. n
                        /\ e[i] # 0 => /\ Opens(ls[i]) /\ i < e[i] /\ Closes(ls[e[i]], ls[i])
                                       /\ \A j \in 1 .. n : i < j /\ j < e[i] => ~Closes(ls[j], ls[i])
                        /\ e[i] = 0 => ~Opens(ls[i]) \/ \A j \in 1 .. n : i < j => ~Closes(ls[j], ls[i])
        OBVIOUS
    <2>1. e[i] = FenceEnd(ls, i)
        BY <1>2
    <2> QED
        BY <2>1, FenceEndIs
<1>5. \A i \in 1 .. m :
           /\ d[i] \in 0 .. m
           /\ d[i] # 0 => /\ Opens(ms[i]) /\ i < d[i] /\ Closes(ms[d[i]], ms[i])
                          /\ \A j \in 1 .. m : i < j /\ j < d[i] => ~Closes(ms[j], ms[i])
           /\ d[i] = 0 => ~Opens(ms[i]) \/ \A j \in 1 .. m : i < j => ~Closes(ms[j], ms[i])
    <2> SUFFICES ASSUME NEW i \in 1 .. m
                 PROVE  /\ d[i] \in 0 .. m
                        /\ d[i] # 0 => /\ Opens(ms[i]) /\ i < d[i] /\ Closes(ms[d[i]], ms[i])
                                       /\ \A j \in 1 .. m : i < j /\ j < d[i] => ~Closes(ms[j], ms[i])
                        /\ d[i] = 0 => ~Opens(ms[i]) \/ \A j \in 1 .. m : i < j => ~Closes(ms[j], ms[i])
        OBVIOUS
    <2>1. d[i] = FenceEnd(ms, i)
        BY <1>3
    <2> QED
        BY <2>1, FenceEndIs
<1>a. /\ Rises(h, m, n)
      /\ \A k \in 1 .. m : SameFence(ms[k], ls[h[k]]) /\ ms[k] \in Line
      /\ \A i \in 1 .. n : ls[i] \in Line
      /\ \A i \in 1 .. n : FenceRun(ls[i]) # 0 => \E k \in 1 .. m : h[k] = i
    <2>1. (\A k \in 1 .. m : ms[k] \in Line) /\ (\A i \in 1 .. n : ls[i] \in Line)
        BY ElementOfSeq
    <2> QED
        BY <2>1
<1>o. \A j \in 1 .. m, k \in 1 .. m :
         /\ j \in Nat /\ k \in Nat /\ h[j] \in 1 .. n /\ h[j] \in Nat /\ h[k] \in Nat
         /\ (j < k <=> h[j] < h[k]) /\ (j <= k <=> h[j] <= h[k])
    <2> HIDE DEF n, m
    <2> QED
        BY <1>1, <1>a, RisesOrder
<1> HIDE DEF n, m
<1>6. ASSUME NEW k \in 1 .. m
      PROVE  (d[k] = 0 <=> e[h[k]] = 0) /\ (d[k] # 0 => d[k] \in 1 .. m /\ e[h[k]] = h[d[k]])
    <2> DEFINE i == h[k]
    <2>1. i \in 1 .. n /\ i \in Nat /\ k \in Nat
        BY <1>1, <1>a, <1>o
    <2>2. /\ Opens(ms[k]) <=> Opens(ls[i])
          /\ Opens(ms[k]) => FenceRun(ms[k]) # 0
        BY <1>a, <2>1, OpensSame
    <2>3. ASSUME FenceRun(ms[k]) # 0, NEW j \in 1 .. m
          PROVE  Closes(ms[j], ms[k]) <=> Closes(ls[h[j]], ls[i])
        BY <1>a, <2>3, ClosesSame
    <2>4. ASSUME Opens(ms[k]), NEW p \in 1 .. n, Closes(ls[p], ls[i])
          PROVE  \E j \in 1 .. m : h[j] = p
        <3>1. FenceRun(ls[p]) # 0
            <4>1. FenceRun(ms[k]) # 0 /\ FenceRun(ms[k]) = FenceRun(ls[i])
                BY <1>a, <2>2, <2>4 DEF SameFence
            <4>2. FenceRun(ls[p]) = FenceRun(ls[i])
                BY <2>4 DEF Closes
            <4> QED
                BY <4>1, <4>2
        <3> QED
            BY <1>a, <3>1
    <2>5. CASE d[k] # 0
        <3> DEFINE t == d[k]
        <3>1. /\ t \in 1 .. m /\ Opens(ms[k]) /\ k < t /\ Closes(ms[t], ms[k])
              /\ \A j \in 1 .. m : k < j /\ j < t => ~Closes(ms[j], ms[k])
            BY <1>1, <1>5, <2>5
        <3> HIDE DEF t
        <3>2. h[t] \in 1 .. n /\ i < h[t] /\ Closes(ls[h[t]], ls[i]) /\ Opens(ls[i])
            BY <1>1, <1>a, <2>1, <2>2, <2>3, <3>1, <1>o
        <3>3. ASSUME NEW p \in 1 .. n, Closes(ls[p], ls[i]), i < p PROVE h[t] <= p
            <4>1. PICK j \in 1 .. m : h[j] = p
                BY <2>4, <3>1, <3>3
            <4>2. Closes(ms[j], ms[k]) /\ k < j
                BY <1>1, <1>a, <2>2, <2>3, <3>1, <3>3, <4>1, <1>o
            <4>3. t <= j
                BY <1>1, <2>1, <3>1, <4>2
            <4> QED
                BY <1>1, <1>a, <3>1, <4>1, <4>3, <1>o
        <3>4. e[i] # 0
            BY <1>1, <1>4, <2>1, <3>2
        <3>5. /\ e[i] \in 1 .. n /\ i < e[i] /\ Closes(ls[e[i]], ls[i])
              /\ \A j \in 1 .. n : i < j /\ j < e[i] => ~Closes(ls[j], ls[i])
            BY <1>1, <1>4, <2>1, <3>4
        <3>6. h[t] <= e[i]
            BY <2>1, <3>3, <3>5
        <3>7. ~(h[t] < e[i])
            BY <1>1, <2>1, <3>2, <3>5
        <3>8. e[i] = h[t]
            BY <1>1, <3>2, <3>5, <3>6, <3>7
        <3> QED
            BY <2>5, <3>1, <3>4, <3>8 DEF t
    <2>6. CASE d[k] = 0
        <3> SUFFICES ASSUME e[i] # 0 PROVE FALSE
            BY <2>6
        <3>1. e[i] \in 1 .. n /\ i < e[i] /\ Closes(ls[e[i]], ls[i]) /\ Opens(ms[k])
            BY <1>1, <1>4, <2>1, <2>2
        <3>2. PICK j \in 1 .. m : h[j] = e[i]
            BY <2>4, <3>1
        <3>3. Closes(ms[j], ms[k]) /\ k < j
            <4>1. h[k] < h[j]
                BY <2>1, <3>1, <3>2
            <4> QED
                BY <1>1, <1>a, <2>2, <2>3, <3>1, <3>2, <4>1, <1>o
        <3> QED
            BY <1>1, <1>5, <2>1, <2>6, <3>1, <3>3
    <2> QED
        BY <2>5, <2>6
<1>7. ASSUME NEW i \in 1 .. n, \A k \in 1 .. m : h[k] # i PROVE e[i] = 0
    <2> SUFFICES ASSUME e[i] # 0 PROVE FALSE
        OBVIOUS
    <2>1. Opens(ls[i])
        BY <1>4
    <2>2. FenceRun(ls[i]) # 0
        <3>1. SameFence(ls[i], ls[i])
            BY DEF SameFence
        <3> QED
            BY <1>a, <2>1, <3>1, OpensSame
    <2> QED
        BY <1>7, <1>a, <2>2
<1>9. Matches(d, e, h, m, n)
    BY <1>6, <1>7 DEF Matches
<1>10. Skims(f, e, n) /\ Skims(q, d, m) /\ Rises(h, m, n)
    BY <1>2, <1>3, <1>a
<1>8. \A k \in 1 .. m : k \in q[m].pos <=> h[k] \in f[n].pos
    BY <1>1, <1>9, <1>10, SkimmedAlike, Zenon
<1> QED
    BY <1>2, <1>3, <1>8 DEF m

-----------------------------------------------------------------------------
(* Tags, and the lines they are on.                                        *)

\* The line of a place is the last of the text before it.
LEMMA LineOfIs ==
    ASSUME NEW b \in Seq(Tokens), NEW i \in 1 .. Len(b)
    PROVE  /\ SubSeq(b, 1, i - 1) \in Seq(Tokens)
           /\ LineOf(b, i) = Len(Lines(SubSeq(b, 1, i - 1)))
           /\ LineOf(b, i) \in 1 .. Len(Lines(b))
<1> DEFINE p == SubSeq(b, 1, i - 1)
           nl == "nl"
<1>1. /\ p \in Seq(Tokens) /\ Len(p) = i - 1 /\ Len(b) \in Nat
      /\ \A j \in 1 .. i - 1 : p[j] = b[j]
    <2>1. i - 1 \in 0 .. Len(b) - 1 /\ Len(b) \in Nat
        OBVIOUS
    <2> QED
        BY <2>1, Prefix
<1> HIDE DEF p
<1>2. Breaks(p) = {j \in 1 .. i - 1 : b[j] = nl}
    BY <1>1 DEF Breaks
<1>3. LineOf(b, i) = 1 + Cardinality(Breaks(p))
    BY <1>2 DEF LineOf, nl
<1>4. Len(Lines(p)) = 1 + Cardinality(Breaks(p)) /\ Len(Lines(b)) = 1 + Cardinality(Breaks(b))
    BY <1>1, LinesCounted
<1>5. Breaks(p) \subseteq Breaks(b)
    BY <1>1, <1>2 DEF Breaks, nl
<1>6. IsFiniteSet(Breaks(b))
    <2>1. IsFiniteSet(1 .. Len(b))
        BY <1>1, FS_Interval
    <2>2. Breaks(b) \subseteq 1 .. Len(b)
        BY DEF Breaks
    <2> QED
        BY <2>1, <2>2, FS_Subset
<1>7. /\ IsFiniteSet(Breaks(p)) /\ Cardinality(Breaks(p)) <= Cardinality(Breaks(b))
      /\ Cardinality(Breaks(p)) \in Nat /\ Cardinality(Breaks(b)) \in Nat
    BY <1>5, <1>6, FS_Subset, FS_CardinalityType
<1> QED
    BY <1>1, <1>3, <1>4, <1>7 DEF p

\* b has all of c: g takes each place of c, h each line, to one of b; all
\* backticks and all fences of b are in c.
Embeds(b, c, g, h) ==
    /\ Rises(g, Len(c), Len(b))
    /\ \A k \in 1 .. Len(c) : c[k] = "tick" <=> b[g[k]] = "tick"
    /\ \A i \in 1 .. Len(b) : b[i] = "tick" => \E k \in 1 .. Len(c) : g[k] = i
    /\ \A k \in 1 .. Len(c) - 1 :
           c[k] = "tick" /\ c[k + 1] = "tick" => g[k + 1] = g[k] + 1
    /\ Rises(h, Len(Lines(c)), Len(Lines(b)))
    /\ \A k \in 1 .. Len(Lines(c)) : SameFence(Lines(c)[k], Lines(b)[h[k]])
    /\ \A i \in 1 .. Len(Lines(b)) :
           FenceRun(Lines(b)[i]) # 0 => \E k \in 1 .. Len(Lines(c)) : h[k] = i

\* What stands before a place lets a tag begin there.
Begins(b, i) == i > 1 => b[i - 1] \in White

LEMMA TagsKept ==
    ASSUME NEW b \in Seq(Tokens), NEW c \in Seq(Tokens), NEW g, NEW h, Embeds(b, c, g, h),
           NEW k \in 1 .. Len(c), c[k] = b[g[k]], Begins(c, k) <=> Begins(b, g[k]),
           h[LineOf(c, k)] = LineOf(b, g[k])
    PROVE  k \in TagPositions(c) <=> g[k] \in TagPositions(b)
<1>1. /\ Lines(b) \in Seq(Line) /\ Lines(c) \in Seq(Line)
      /\ Len(b) \in Nat /\ Len(c) \in Nat
    BY LinesType
<1>2. g[k] \in 1 .. Len(b)
    BY DEF Embeds, Rises
<1>3. k \in InlineCode(c) <=> g[k] \in InlineCode(b)
    BY CodeKept DEF Embeds
<1>4. LineOf(c, k) \in 1 .. Len(Lines(c))
    BY LineOfIs
<1>5. LineOf(c, k) \in FencedLines(Lines(c)) <=> LineOf(b, g[k]) \in FencedLines(Lines(b))
    <2>1. \A j \in 1 .. Len(Lines(c)) : j \in FencedLines(Lines(c)) <=> h[j] \in FencedLines(Lines(b))
        <3>1. /\ Rises(h, Len(Lines(c)), Len(Lines(b)))
              /\ \A j \in 1 .. Len(Lines(c)) : SameFence(Lines(c)[j], Lines(b)[h[j]])
              /\ \A i \in 1 .. Len(Lines(b)) :
                    FenceRun(Lines(b)[i]) # 0 => \E j \in 1 .. Len(Lines(c)) : h[j] = i
            BY DEF Embeds
        <3> QED
            BY <1>1, <3>1, FencesKept, Zenon
    <2> QED
        BY <1>4, <2>1
<1>6. \A s \in Seq(Tokens) : \A i \in 1 .. Len(s) :
         i \in TagPositions(s) <=> /\ s[i] \in TagTokens /\ Begins(s, i)
                                   /\ i \notin InlineCode(s)
                                   /\ LineOf(s, i) \notin FencedLines(Lines(s))
    BY DEF TagPositions, Begins
<1> QED
    BY <1>1, <1>2, <1>3, <1>5, <1>6, Zenon

LEMMA LinesOfAppend ==
    ASSUME NEW b \in Seq(Tokens), NEW t \in Tokens
    PROVE  LET ls == Lines(b)
               ms == Lines(Append(b, t))
               n == Len(ls)
           IN  /\ ls \in Seq(Line) /\ ms \in Seq(Line) /\ n \in Nat \ {0}
               /\ t = "nl" => /\ Len(ms) = n + 1 /\ ms[n + 1] = <<>>
                              /\ \A i \in 1 .. n : ms[i] = ls[i]
               /\ t # "nl" => /\ Len(ms) = n /\ ms[n] = Append(ls[n], t)
                              /\ \A i \in 1 .. n - 1 : ms[i] = ls[i]
<1> DEFINE ls == Lines(b)
           nl == "nl"
           ms == Lines(Append(b, t))
           n == Len(ls)
<1>1. nl \in Tokens
    BY Words
<1>2. ls \in Seq(Line) /\ n \in Nat \ {0} /\ ms \in Seq(Line)
    <2>1. Append(b, t) \in Seq(Tokens)
        BY AppendProperties
    <2> QED
        BY <2>1, LinesType
<1>3. ls \in Parts(Tokens, nl) /\ ms = Longer(ls, t, nl)
    BY <1>1, SplitType, SplitAppend DEF Lines
<1> HIDE DEF ls, ms
<1>4. /\ t = nl => ms = ls \o <<<<>>>>
      /\ t # nl => Lengthened(ms, ls, t)
    BY <1>1, <1>3, LongerType
<1> HIDE DEF nl
<1>5. t = nl => /\ Len(ms) = n + 1 /\ ms[n + 1] = <<>>
                /\ \A i \in 1 .. n : ms[i] = ls[i]
    <2> SUFFICES ASSUME t = nl PROVE /\ Len(ms) = n + 1 /\ ms[n + 1] = <<>>
                                     /\ \A i \in 1 .. n : ms[i] = ls[i]
        OBVIOUS
    <2> DEFINE e == <<>>
               one == <<e>>
    <2>1. ms = ls \o one
        BY <1>4
    <2>2. e \in Line
        BY DEF Line
    <2> HIDE DEF e
    <2>3. one \in Seq(Line) /\ Len(one) = 1 /\ one[1] = e
        BY <2>2
    <2> HIDE DEF one
    <2>5. /\ Len(ms) = n + 1
          /\ \A i \in 1 .. n + 1 : ms[i] = IF i <= n THEN ls[i] ELSE one[i - n]
        <3>1. /\ Len(ls \o one) = Len(ls) + Len(one)
              /\ \A i \in 1 .. Len(ls) + Len(one) :
                    (ls \o one)[i] = IF i <= Len(ls) THEN ls[i] ELSE one[i - Len(ls)]
            BY <1>2, <2>3, ConcatProperties
        <3> QED
            BY <2>1, <2>3, <3>1
    <2>4. Len(ms) = n + 1 /\ ms[n + 1] = one[1] /\ \A i \in 1 .. n : ms[i] = ls[i]
        BY <1>2, <2>5
    <2> QED
        BY <2>3, <2>4 DEF e
<1>6. t # nl => /\ Len(ms) = n /\ ms[n] = Append(ls[n], t)
                /\ \A i \in 1 .. n - 1 : ms[i] = ls[i]
    BY <1>4 DEF Lengthened
<1> QED
    BY <1>2, <1>5, <1>6 DEF ls, ms, nl

\* Tokens that are neither a tag nor of code.
Quiet == Tokens \ (TagTokens \cup {"tick", "~~~"})

Marks == {"tick", "~~~"}

LEMMA FenceRunIs ==
    ASSUME NEW l \in Line, NEW r \in 1 .. Len(l), l[1] \in Marks,
           \A i \in 1 .. r : l[i] = l[1], r < Len(l) => l[r + 1] # l[1]
    PROVE  FenceRun(l) = r /\ Head(l) = l[1]
<1>1. l # <<>> /\ Head(l) = l[1] /\ Len(l) \in Nat
    BY EmptySeq, HeadTailProperties DEF Line
<1> DEFINE x == l[1]
           S == {x}
           k == r + 1
<1>2. k \in 1 .. Len(l) + 1
    BY <1>1
<1>3. k <= Len(l) => l[k] \notin S
    BY <1>1
<1>4. \A i \in 1 .. k - 1 : l[i] \in S
    OBVIOUS
<1> HIDE DEF S, k
<1>5. First(l, S) = k
    BY <1>2, <1>3, <1>4, FirstIs DEF Line
<1>6. FenceRun(l) = First(l, S) - 1
    BY <1>1, Zenon DEF FenceRun, Marks, S
<1> QED
    BY <1>1, <1>5, <1>6 DEF k

LEMMA FenceRunProperties ==
    ASSUME NEW l \in Line
    PROVE  /\ Len(l) \in Nat /\ FenceRun(l) \in 0 .. Len(l)
           /\ FenceRun(l) = 0 <=> l = <<>> \/ l[1] \notin Marks
           /\ FenceRun(l) # 0 =>
                /\ Head(l) = l[1] /\ l[1] \in Marks
                /\ \A i \in 1 .. FenceRun(l) : l[i] = l[1]
                /\ FenceRun(l) < Len(l) => l[FenceRun(l) + 1] # l[1]
<1>1. Len(l) \in Nat /\ FenceRun(l) \in 0 .. Len(l)
    BY FenceRunType DEF Line
<1>2. CASE l = <<>> \/ l[1] \notin Marks
    <2>1. l # <<>> => Head(l) = l[1]
        BY HeadTailProperties DEF Line
    <2>2. FenceRun(l) = 0
        BY <1>2, <2>1, Zenon DEF FenceRun, Marks
    <2> QED
        BY <1>1, <1>2, <2>2
<1>3. CASE ~(l = <<>> \/ l[1] \notin Marks)
    <2> DEFINE x == l[1]
               S == {x}
               k == First(l, S)
    <2>1. Head(l) = x
        BY <1>3, HeadTailProperties DEF Line
    <2>2. FenceRun(l) = k - 1
        BY <1>3, <2>1, Zenon DEF FenceRun, Marks
    <2>3. /\ k \in 1 .. Len(l) + 1
          /\ k <= Len(l) => l[k] \notin S
          /\ \A i \in 1 .. k - 1 : l[i] \in S
        BY FirstProperties DEF Line
    <2>4. 1 <= Len(l)
        BY <1>1, <1>3, EmptySeq DEF Line
    <2> HIDE DEF k
    <2>5. k # 1
        BY <2>3, <2>4
    <2> QED
        BY <1>1, <1>3, <2>1, <2>2, <2>3, <2>5
<1> QED
    BY <1>2, <1>3

LEMMA QuietIsNoMark ==
    /\ "sp" \in Quiet /\ "nl" \in Quiet /\ Quiet \cap Marks = {} /\ Quiet \subseteq Tokens
    /\ White \subseteq Quiet /\ Quiet \cap TagTokens = {}
BY TagsAreNoOther DEF Quiet, Marks, White, Plain, Tokens

\* A line that is no fence becomes none, and white space changes none.
LEMMA QuietAtEnd ==
    ASSUME NEW l \in Line, NEW t \in Quiet, t # "nl", t = "sp" \/ FenceRun(l) = 0
    PROVE  /\ Append(l, t) \in Line /\ SameFence(Append(l, t), l)
           /\ FenceRun(l) = 0 => FenceRun(Append(l, t)) = 0
<1> DEFINE m == Append(l, t)
           n == Len(l)
<1>1. /\ m \in Line /\ Len(m) = n + 1 /\ m[n + 1] = t /\ \A i \in 1 .. n : m[i] = l[i]
      /\ n \in Nat
    <2>1. t \in Tokens \ {"nl"}
        BY QuietIsNoMark
    <2> QED
        BY <2>1, AppendProperties DEF Line
<1> HIDE DEF m
<1>2. CASE FenceRun(l) = 0
    <2>1. l = <<>> \/ l[1] \notin Marks
        BY <1>2, FenceRunProperties
    <2>2. t \notin Marks
        BY QuietIsNoMark
    <2>3. m[1] \notin Marks
        <3>1. CASE l = <<>>
            BY <1>1, <2>2, <3>1, EmptySeq
        <3>2. CASE l # <<>>
            BY <1>1, <2>1, <3>2, EmptySeq DEF Line
        <3> QED
            BY <3>1, <3>2
    <2>4. FenceRun(m) = 0
        BY <1>1, <2>3, FenceRunProperties
    <2> QED
        BY <1>1, <1>2, <2>4 DEF SameFence, m
<1>3. CASE FenceRun(l) # 0
    <2> DEFINE r == FenceRun(l)
    <2>1. /\ r \in 1 .. n /\ Head(l) = l[1] /\ l[1] \in Marks
          /\ \A i \in 1 .. r : l[i] = l[1]
          /\ r < n => l[r + 1] # l[1]
        BY <1>1, <1>3, FenceRunProperties
    <2>2. t = "sp" /\ t \notin Marks
        BY <1>3, QuietIsNoMark
    <2> HIDE DEF r
    <2>3. /\ m[1] = l[1] /\ r \in 1 .. Len(m)
          /\ \A i \in 1 .. r : m[i] = m[1]
          /\ r < Len(m) => m[r + 1] # m[1]
        BY <1>1, <2>1, <2>2
    <2>4. FenceRun(m) = r /\ Head(m) = l[1]
        BY <1>1, <2>1, <2>3, FenceRunIs
    <2>5. (\A i \in r + 1 .. Len(m) : m[i] = "sp") <=> (\A i \in r + 1 .. n : l[i] = "sp")
        <3>1. \A i \in r + 1 .. n + 1 : i \in r + 1 .. n \/ i = n + 1
            BY <1>1, <2>1
        <3> QED
            BY <1>1, <2>1, <2>2, <3>1
    <2>6. EndsBlank(m) <=> EndsBlank(l)
        BY <2>4, <2>5 DEF EndsBlank, r
    <2> QED
        BY <1>1, <1>3, <2>1, <2>4, <2>6 DEF SameFence, m, r
<1> QED
    BY <1>2, <1>3

\* c is the beginning of b, after which there are no backticks and no fences.
LEMMA BeginningEmbeds ==
    ASSUME NEW b \in Seq(Tokens), NEW c \in Seq(Tokens), Len(c) <= Len(b),
           \A i \in 1 .. Len(c) : c[i] = b[i],
           \A i \in Len(c) + 1 .. Len(b) : b[i] # "tick",
           Len(Lines(c)) <= Len(Lines(b)),
           \A k \in 1 .. Len(Lines(c)) : SameFence(Lines(c)[k], Lines(b)[k]),
           \A k \in Len(Lines(c)) + 1 .. Len(Lines(b)) : FenceRun(Lines(b)[k]) = 0
    PROVE  \A k \in 1 .. Len(c) : k \in TagPositions(c) <=> k \in TagPositions(b)
<1> DEFINE m == Len(c)
           mm == Len(Lines(c))
           g == [k \in 1 .. m |-> k]
           h == [k \in 1 .. mm |-> k]
<1>1. /\ m \in Nat /\ Len(b) \in Nat /\ mm \in Nat /\ Len(Lines(b)) \in Nat
    BY LinesType
<1>2. /\ \A k \in 1 .. m : g[k] = k
      /\ \A k \in 1 .. mm : h[k] = k
    OBVIOUS
<1>3. Rises(g, m, Len(b)) /\ Rises(h, mm, Len(Lines(b)))
    BY <1>1 DEF Rises
<1> HIDE DEF g, h
<1>4. \A i \in 1 .. Len(b) : b[i] = "tick" => i \in 1 .. m
    BY <1>1
<1>5. \A i \in 1 .. Len(Lines(b)) : FenceRun(Lines(b)[i]) # 0 => i \in 1 .. mm
    BY <1>1
<1>6. \A k \in 1 .. m - 1 : k \in 1 .. m /\ k + 1 \in 1 .. m
    BY <1>1
<1>7. Embeds(b, c, g, h)
    <2>1. \A k \in 1 .. m : c[k] = "tick" <=> b[g[k]] = "tick"
        BY <1>2
    <2>2. \A i \in 1 .. Len(b) : b[i] = "tick" => \E k \in 1 .. m : g[k] = i
        BY <1>2, <1>4
    <2>3. \A k \in 1 .. m - 1 : g[k + 1] = g[k] + 1
        BY <1>2, <1>6
    <2>4. \A k \in 1 .. mm : SameFence(Lines(c)[k], Lines(b)[h[k]])
        BY <1>2
    <2>5. \A i \in 1 .. Len(Lines(b)) : FenceRun(Lines(b)[i]) # 0 => \E k \in 1 .. mm : h[k] = i
        BY <1>2, <1>5
    <2> HIDE DEF m, mm
    <2> QED
        BY <1>3, <2>1, <2>2, <2>3, <2>4, <2>5 DEF Embeds, m, mm
<1>8. ASSUME NEW k \in 1 .. m
      PROVE  k \in TagPositions(c) <=> k \in TagPositions(b)
    <2>1. g[k] = k /\ c[k] = b[k] /\ k \in 1 .. Len(b)
        BY <1>1, <1>2
    <2>2. Begins(c, k) <=> Begins(b, k)
        <3>1. k > 1 => c[k - 1] = b[k - 1]
            BY <1>1
        <3> QED
            BY <3>1 DEF Begins
    <2>3. LineOf(c, k) = LineOf(b, k)
        <3>1. \A j \in 1 .. k - 1 : c[j] = b[j]
            BY <1>1
        <3>2. {j \in 1 .. k - 1 : c[j] = "nl"} = {j \in 1 .. k - 1 : b[j] = "nl"}
            BY <3>1
        <3> QED
            BY <3>2 DEF LineOf
    <2>4. h[LineOf(c, k)] = LineOf(b, k)
        <3>1. LineOf(c, k) \in 1 .. mm
            BY LineOfIs
        <3> QED
            BY <1>2, <2>3, <3>1
    <2>5. c[k] = b[g[k]] /\ (Begins(c, k) <=> Begins(b, g[k])) /\ h[LineOf(c, k)] = LineOf(b, g[k])
        BY <2>1, <2>2, <2>4
    <2>6. k \in TagPositions(c) <=> g[k] \in TagPositions(b)
        BY <1>7, <2>5, TagsKept
    <2> QED
        BY <2>1, <2>6
<1> QED
    BY <1>8

-----------------------------------------------------------------------------
(* Texts and their lines, by induction on their length.                    *)

\* A sequence is nothing, or one of fewer members and a last one.
LEMMA FrontAndLast ==
    ASSUME NEW X, NEW s \in Seq(X), s # <<>>
    PROVE  \E f \in Seq(X), x \in X :
               /\ s = Append(f, x) /\ Len(s) = Len(f) + 1 /\ x = s[Len(s)]
               /\ \A i \in 1 .. Len(f) : f[i] = s[i]
<1> DEFINE n == Len(s) - 1
           f == SubSeq(s, 1, n)
<1>1. n \in 0 .. Len(s) - 1 /\ n + 1 = Len(s) /\ n \in Nat
    BY EmptySeq
<1> HIDE DEF n
<1>2. /\ f \in Seq(X) /\ Len(f) = n /\ \A j \in 1 .. n : f[j] = s[j]
      /\ s[n + 1] \in X /\ SubSeq(s, 1, n + 1) = Append(f, s[n + 1])
    BY <1>1, Prefix
<1> HIDE DEF f
<1>3. SubSeq(s, 1, Len(s)) = s
    <2> DEFINE q == SubSeq(s, 1, Len(s))
    <2>1. \A j \in 1 .. Len(s) : s[j] \in X
        BY ElementOfSeq
    <2>2. Len(s) \in Nat
        OBVIOUS
    <2>3. q \in Seq(X) /\ Len(q) = Len(s) /\ \A j \in 1 .. Len(s) : q[j] = s[j]
        BY <2>1, <2>2, SubSeqProperties
    <2> HIDE DEF q
    <2>4. q = s
        BY <2>3, SeqEqual
    <2> QED
        BY <2>4 DEF q
<1>4. s = Append(f, s[n + 1])
    BY <1>1, <1>2, <1>3
<1> QED
    BY <1>1, <1>2, <1>4, Zenon

\* What holds of nothing and, with a sequence, of each with one more, holds of all.
LEMMA AllSequences ==
    ASSUME NEW X, NEW T, <<>> \in T, \A s \in Seq(X), x \in X : s \in T => Append(s, x) \in T
    PROVE  Seq(X) \subseteq T
<1> DEFINE N == {n \in Nat : \A s \in Seq(X) : Len(s) = n => s \in T}
<1>1. 0 \in N
    BY EmptySeq
<1>2. ASSUME NEW n \in Nat, n \in N PROVE n + 1 \in N
    <2> SUFFICES ASSUME NEW s \in Seq(X), Len(s) = n + 1 PROVE s \in T
        OBVIOUS
    <2>1. s # <<>>
        OBVIOUS
    <2>2. PICK f \in Seq(X), x \in X : s = Append(f, x) /\ Len(s) = Len(f) + 1
        BY <2>1, FrontAndLast
    <2>3. Len(f) = n /\ Len(f) \in Nat
        BY <2>2
    <2>4. f \in T
        BY <1>2, <2>3
    <2> QED
        BY <2>2, <2>4
<1>3. Nat \subseteq N
    <2> HIDE DEF N
    <2> QED
        BY <1>1, <1>2, AllNumbers
<1>4. \A s \in Seq(X) : Len(s) \in Nat
    OBVIOUS
<1> QED
    BY <1>3, <1>4

LEMMA ConcatLast ==
    ASSUME NEW X, NEW s \in Seq(X), NEW t \in Seq(X), NEW x \in X
    PROVE  s \o Append(t, x) = Append(s \o t, x)
<1> DEFINE v == Append(t, x)
           w == s \o t
           p == s \o v
           q == Append(w, x)
           m == Len(s)
           n == Len(t)
<1>1. m \in Nat /\ n \in Nat
    OBVIOUS
<1>2. v \in Seq(X) /\ Len(v) = n + 1 /\ v[n + 1] = x /\ \A i \in 1 .. n : v[i] = t[i]
    BY AppendProperties
<1>3. w \in Seq(X) /\ Len(w) = m + n /\ \A i \in 1 .. m + n : w[i] = IF i <= m THEN s[i] ELSE t[i - m]
    BY ConcatProperties
<1> HIDE DEF v, w
<1>4. p \in Seq(X) /\ Len(p) = m + n + 1
      /\ \A i \in 1 .. m + n + 1 : p[i] = IF i <= m THEN s[i] ELSE v[i - m]
    <2>1. p \in Seq(X) /\ Len(p) = Len(s) + Len(v)
          /\ \A i \in 1 .. Len(s) + Len(v) : p[i] = IF i <= Len(s) THEN s[i] ELSE v[i - Len(s)]
        BY <1>2, ConcatProperties
    <2> HIDE DEF p
    <2> QED
        BY <1>1, <1>2, <2>1
<1>5. q \in Seq(X) /\ Len(q) = m + n + 1 /\ q[m + n + 1] = x
      /\ \A i \in 1 .. m + n : q[i] = w[i]
    BY <1>1, <1>3, AppendProperties
<1> HIDE DEF p, q
<1>6. ASSUME NEW i \in 1 .. m + n + 1 PROVE p[i] = q[i]
    <2>1. CASE i = m + n + 1
        BY <1>1, <1>2, <1>4, <1>5, <2>1
    <2>2. CASE i <= m + n /\ ~(i <= m)
        <3>1. i - m \in 1 .. n /\ i \in 1 .. m + n
            BY <1>1, <2>2
        <3> QED
            BY <1>2, <1>3, <1>4, <1>5, <2>2, <3>1
    <2>3. CASE i <= m
        <3>1. i \in 1 .. m + n
            BY <1>1, <2>3
        <3> QED
            BY <1>3, <1>4, <1>5, <2>3, <3>1
    <2> QED
        BY <1>1, <2>1, <2>2, <2>3
<1>7. p = q
    BY <1>4, <1>5, <1>6, SeqEqual
<1> QED
    BY <1>7 DEF p, q, v, w

\* The lines of a text, joined again, are that text.
LEMMA JoinOfLines ==
    ASSUME NEW b \in Seq(Tokens)
    PROVE  Join(Lines(b)) = b
<1> DEFINE nl == "nl"
           T == {s \in Seq(Tokens) : Joined(Lines(s), nl) = s}
<1>1. nl \in Tokens
    BY Words
<1>2. \A l \in Line : l \in Seq(Tokens)
    BY LineIsText
<1>3. <<>> \in T
    <2> DEFINE e == <<>>
    <2>1. e \in Line /\ e \in Seq(Tokens)
        BY DEF Line
    <2>2. Lines(e) = <<e>>
        BY <2>1, LinesOfLine
    <2>3. Joined(Append(e, e), nl) = e
        <3>1. e \in Seq(Seq(Tokens))
            OBVIOUS
        <3> QED
            BY <1>1, <2>1, <3>1, JoinedAppend
    <2>4. Append(e, e) = <<e>>
        OBVIOUS
    <2> QED
        BY <2>1, <2>2, <2>3, <2>4
<1>4. ASSUME NEW s \in Seq(Tokens), NEW x \in Tokens, s \in T PROVE Append(s, x) \in T
    <2> DEFINE ls == Lines(s)
               ms == Lines(Append(s, x))
               n == Len(ls)
    <2>1. Append(s, x) \in Seq(Tokens) /\ Joined(ls, nl) = s
        BY <1>4, AppendProperties
    <2>2. /\ ls \in Seq(Line) /\ ms \in Seq(Line) /\ n \in Nat \ {0}
          /\ x = "nl" => /\ Len(ms) = n + 1 /\ ms[n + 1] = <<>>
                         /\ \A i \in 1 .. n : ms[i] = ls[i]
          /\ x # "nl" => /\ Len(ms) = n /\ ms[n] = Append(ls[n], x)
                         /\ \A i \in 1 .. n - 1 : ms[i] = ls[i]
        BY LinesOfAppend
    <2> HIDE DEF ls, ms
    <2>3. ls \in Seq(Seq(Tokens)) /\ ls # <<>> /\ ms # <<>>
        BY <1>2, <2>2
    <2>4. CASE x = nl
        <3> DEFINE e == <<>>
        <3>1. e \in Line /\ e \in Seq(Tokens)
            BY DEF Line
        <3>2. Len(ms) = n + 1 /\ ms[n + 1] = e /\ \A i \in 1 .. n : ms[i] = ls[i]
            BY <2>2, <2>4
        <3> HIDE DEF e
        <3>3. PICK f \in Seq(Line), y \in Line :
                  /\ ms = Append(f, y) /\ Len(ms) = Len(f) + 1 /\ y = ms[Len(ms)]
                  /\ \A i \in 1 .. Len(f) : f[i] = ms[i]
            BY <2>2, <2>3, FrontAndLast
        <3>4. Len(f) = n /\ y = e /\ f = ls
            <4>1. Len(f) = n /\ y = e
                BY <2>2, <3>2, <3>3
            <4>2. f = ls
                BY <2>2, <3>2, <3>3, <4>1, SeqEqual
            <4> QED
                BY <4>1, <4>2
        <3>5. Joined(Append(ls, e), nl) = Joined(ls, nl) \o <<nl>> \o e
            BY <1>1, <2>3, <3>1, JoinedAppend
        <3>6. Joined(ms, nl) = s \o <<nl>> \o e
            BY <2>1, <3>3, <3>4, <3>5
        <3>7. s \o <<nl>> \o e = Append(s, nl)
            <4>1. s \o <<nl>> = Append(s, nl)
                BY <1>1, AppendIsConcat
            <4>2. Append(s, nl) \o <<>> = Append(s, nl)
                BY <2>1, <2>4, ConcatEmptySeq
            <4> QED
                BY <4>1, <4>2 DEF e
        <3> QED
            BY <2>1, <2>4, <3>6, <3>7 DEF ms
    <2>5. CASE x # nl
        <3>1. Len(ms) = n /\ ms[n] = Append(ls[n], x) /\ \A i \in 1 .. n - 1 : ms[i] = ls[i]
            BY <2>2, <2>5
        <3>2. PICK f \in Seq(Line), y \in Line :
                  /\ ms = Append(f, y) /\ Len(ms) = Len(f) + 1 /\ y = ms[Len(ms)]
                  /\ \A i \in 1 .. Len(f) : f[i] = ms[i]
            BY <2>2, <2>3, FrontAndLast
        <3>3. PICK f1 \in Seq(Line), y1 \in Line :
                  /\ ls = Append(f1, y1) /\ Len(ls) = Len(f1) + 1 /\ y1 = ls[Len(ls)]
                  /\ \A i \in 1 .. Len(f1) : f1[i] = ls[i]
            BY <2>2, <2>3, FrontAndLast
        <3>4. f = f1
            <4>1. Len(f) \in Nat /\ Len(f1) \in Nat
                OBVIOUS
            <4>2. Len(f) = n - 1 /\ Len(f1) = n - 1
                BY <2>2, <3>1, <3>2, <3>3, <4>1
            <4> QED
                BY <3>1, <3>2, <3>3, <4>2, SeqEqual
        <3>5. y = Append(y1, x)
            BY <3>1, <3>2, <3>3
        <3>6. f1 \in Seq(Seq(Tokens)) /\ y1 \in Seq(Tokens) /\ y \in Seq(Tokens)
            BY <1>2
        <3>7. Joined(ms, nl) = IF f1 = <<>> THEN y ELSE Joined(f1, nl) \o <<nl>> \o y
            <4>1. Joined(Append(f1, y), nl) = IF f1 = <<>> THEN y ELSE Joined(f1, nl) \o <<nl>> \o y
                BY <1>1, <3>6, JoinedAppend
            <4>2. ms = Append(f1, y)
                BY <3>2, <3>4
            <4> QED
                BY <4>1, <4>2
        <3>8. s = IF f1 = <<>> THEN y1 ELSE Joined(f1, nl) \o <<nl>> \o y1
            BY <1>1, <2>1, <3>3, <3>6, JoinedAppend
        <3>9. \A q \in Seq(Tokens) : q \o Append(y1, x) = Append(q \o y1, x)
            BY <3>6, ConcatLast
        <3>10. Joined(f1, nl) \in Seq(Tokens) /\ <<nl>> \in Seq(Tokens)
            BY <1>1, <3>6, JoinType DEF Join
        <3>11. Joined(f1, nl) \o <<nl>> \in Seq(Tokens)
            BY <3>10, ConcatProperties
        <3>12. Joined(ms, nl) = Append(s, x)
            BY <3>5, <3>7, <3>8, <3>9, <3>11, Zenon
        <3> QED
            BY <2>1, <3>12 DEF ms
    <2> QED
        BY <2>4, <2>5
<1>5. Seq(Tokens) \subseteq T
    <2> HIDE DEF T
    <2> QED
        BY <1>3, <1>4, AllSequences
<1> QED
    BY <1>5 DEF Join

-----------------------------------------------------------------------------
(* A tag added at the end.                                                 *)

\* White space after a text begins and ends no tag in it.
LEMMA WhiteAdded ==
    ASSUME NEW b \in Seq(Tokens), NEW t \in White
    PROVE  /\ Append(b, t) \in Seq(Tokens)
           /\ TagPositions(Append(b, t)) = TagPositions(b)
<1> DEFINE c == Append(b, t)
           ls == Lines(b)
           ms == Lines(c)
           n == Len(ls)
<1>1. t \in Quiet /\ t \in Tokens /\ t \notin TagTokens /\ t # "tick" /\ (t # "nl" => t = "sp")
    <2>1. t \in Quiet
        BY QuietIsNoMark
    <2> QED
        BY <2>1, QuietIsNoMark DEF White, Marks
<1>2. /\ c \in Seq(Tokens) /\ Len(c) = Len(b) + 1 /\ c[Len(b) + 1] = t /\ Len(b) \in Nat
      /\ \A i \in 1 .. Len(b) : c[i] = b[i]
    BY <1>1, AppendProperties
<1>3. /\ ls \in Seq(Line) /\ ms \in Seq(Line) /\ n \in Nat \ {0}
      /\ t = "nl" => /\ Len(ms) = n + 1 /\ ms[n + 1] = <<>>
                     /\ \A i \in 1 .. n : ms[i] = ls[i]
      /\ t # "nl" => /\ Len(ms) = n /\ ms[n] = Append(ls[n], t)
                     /\ \A i \in 1 .. n - 1 : ms[i] = ls[i]
    BY <1>1, LinesOfAppend
<1> HIDE DEF c, ls, ms
<1>4. \A l \in Line : SameFence(l, l)
    BY DEF SameFence
<1>5. \A k \in 1 .. n : ls[k] \in Line
    BY <1>3, ElementOfSeq
<1>6. /\ n <= Len(ms) /\ \A k \in 1 .. n : SameFence(ls[k], ms[k])
      /\ \A k \in n + 1 .. Len(ms) : FenceRun(ms[k]) = 0
    <2>1. CASE t = "nl"
        <3>1. FenceRun(<<>>) = 0
            BY DEF FenceRun
        <3> QED
            BY <1>3, <1>4, <1>5, <2>1, <3>1
    <2>2. CASE t # "nl"
        <3>1. SameFence(Append(ls[n], t), ls[n])
            <4>1. n \in 1 .. n /\ ls[n] \in Line
                BY <1>3, <1>5
            <4> QED
                BY <1>1, <2>2, <4>1, QuietAtEnd
        <3>2. SameFence(ls[n], ms[n])
            <4>1. \A x, y : SameFence(x, y) => SameFence(y, x)
                BY DEF SameFence
            <4> QED
                BY <1>3, <2>2, <3>1, <4>1
        <3>3. \A k \in 1 .. n : k \in 1 .. n - 1 \/ k = n
            BY <1>3
        <3>4. Len(ms) = n /\ \A i \in 1 .. n - 1 : ms[i] = ls[i]
            BY <1>3, <2>2
        <3> QED
            BY <1>3, <1>4, <1>5, <3>2, <3>3, <3>4
    <2> QED
        BY <2>1, <2>2
<1>7. \A i \in Len(b) + 1 .. Len(c) : c[i] # "tick"
    BY <1>1, <1>2
<1>8. \A k \in 1 .. Len(b) : k \in TagPositions(b) <=> k \in TagPositions(c)
    BY <1>2, <1>6, <1>7, BeginningEmbeds DEF ls, ms
<1>9. /\ TagPositions(b) \subseteq 1 .. Len(b) /\ TagPositions(c) \subseteq 1 .. Len(b)
    <2>1. \A s \in Seq(Tokens) : TagPositions(s) \subseteq 1 .. Len(s)
        BY DEF TagPositions
    <2>2. \A i \in TagPositions(c) : c[i] \in TagTokens
        BY DEF TagPositions
    <2>3. \A i \in 1 .. Len(c) : i \in 1 .. Len(b) \/ i = Len(b) + 1
        BY <1>2
    <2> QED
        BY <1>1, <1>2, <2>1, <2>2, <2>3
<1> QED
    BY <1>2, <1>8, <1>9 DEF c

LEMMA SpaceAdded ==
    ASSUME NEW l \in Line
    PROVE  Append(l, "sp") \in Line /\ (IsItem(Append(l, "sp")) <=> IsItem(l))
<1> DEFINE sp == "sp"
           S == {sp}
           m == Append(l, sp)
           n == Len(l)
           k == First(l, S)
<1>1. sp \in Tokens \ {"nl"} /\ sp \notin Boxes
    BY Words DEF Boxes
<1>2. /\ m \in Line /\ Len(m) = n + 1 /\ m[n + 1] = sp /\ \A i \in 1 .. n : m[i] = l[i]
      /\ n \in Nat
    BY <1>1, AppendProperties DEF Line
<1>3. k \in 1 .. n + 1 /\ (k <= n => l[k] \notin S) /\ \A i \in 1 .. k - 1 : l[i] \in S
    BY FirstProperties DEF Line
<1> HIDE DEF m, k, sp
<1>4. CASE k <= n
    <2>1. k \in 1 .. Len(m) + 1 /\ (k <= Len(m) => m[k] \notin S) /\ \A i \in 1 .. k - 1 : m[i] \in S
        BY <1>2, <1>3, <1>4
    <2> HIDE DEF S
    <2>2. First(m, S) = k
        BY <1>2, <2>1, FirstIs DEF Line
    <2>3. l[k] = m[k] /\ k <= Len(m)
        BY <1>2, <1>3, <1>4
    <2> QED
        BY <1>2, <1>4, <2>2, <2>3 DEF IsItem, m, k, S, sp
<1>5. CASE ~(k <= n)
    <2>1. k = n + 1
        BY <1>2, <1>3, <1>5
    <2>2. \A i \in 1 .. n + 1 : m[i] \in S
        <3>1. \A i \in 1 .. n + 1 : i \in 1 .. k - 1 \/ i = n + 1
            BY <1>2, <2>1
        <3> QED
            BY <1>2, <1>3, <2>1, <3>1
    <2> DEFINE j == n + 2
    <2>3. j \in 1 .. Len(m) + 1 /\ ~(j <= Len(m)) /\ \A i \in 1 .. j - 1 : m[i] \in S
        BY <1>2, <2>2
    <2> HIDE DEF S, j
    <2>4. First(m, S) = j
        BY <1>2, <2>3, FirstIs DEF Line
    <2> QED
        BY <1>2, <1>5, <2>3, <2>4 DEF IsItem, m, k, S, sp
<1> QED
    BY <1>4, <1>5

LEMMA WhiteIsNoItem ==
    ASSUME NEW b \in Seq(Tokens), NEW t \in White
    PROVE  Items(Lines(Append(b, t))) = Items(Lines(b))
<1> DEFINE ls == Lines(b)
           ms == Lines(Append(b, t))
           n == Len(ls)
<1>1. t \in Tokens /\ (t # "nl" => t = "sp")
    BY QuietIsNoMark DEF White
<1>2. /\ ls \in Seq(Line) /\ ms \in Seq(Line) /\ n \in Nat \ {0}
      /\ t = "nl" => /\ Len(ms) = n + 1 /\ ms[n + 1] = <<>>
                     /\ \A i \in 1 .. n : ms[i] = ls[i]
      /\ t # "nl" => /\ Len(ms) = n /\ ms[n] = Append(ls[n], t)
                     /\ \A i \in 1 .. n - 1 : ms[i] = ls[i]
    BY <1>1, LinesOfAppend
<1> HIDE DEF ls, ms
<1>3. \A k \in 1 .. n : ls[k] \in Line
    BY <1>2, ElementOfSeq
<1>4. CASE t = "nl"
    <2>1. ~IsItem(<<>>)
        <3> DEFINE e == <<>>
        <3>1. e \in Seq(Tokens) /\ Len(e) = 0
            OBVIOUS
        <3> HIDE DEF e
        <3>2. First(e, {"sp"}) \in 1 .. Len(e) + 1
            BY <3>1, FirstProperties
        <3>3. ~IsItem(e)
            BY <3>1, <3>2 DEF IsItem
        <3> QED
            BY <3>3 DEF e
    <2>2. DOMAIN ms = 1 .. n + 1 /\ DOMAIN ls = 1 .. n
        BY <1>2, <1>4
    <2>3. \A i \in 1 .. n + 1 : i \in 1 .. n \/ i = n + 1
        BY <1>2
    <2>4. Len(ms) = n + 1 /\ ms[n + 1] = <<>> /\ \A i \in 1 .. n : ms[i] = ls[i]
        BY <1>2, <1>4
    <2>5. 1 .. n \subseteq 1 .. n + 1
        BY <1>2
    <2> QED
        BY <2>1, <2>2, <2>3, <2>4, <2>5 DEF Items, ls, ms
<1>5. CASE t # "nl"
    <2>1. DOMAIN ms = 1 .. n /\ DOMAIN ls = 1 .. n
        BY <1>2, <1>5
    <2>2. \A i \in 1 .. n : i \in 1 .. n - 1 \/ i = n
        BY <1>2
    <2>3. ms[n] = Append(ls[n], "sp") /\ \A i \in 1 .. n - 1 : ms[i] = ls[i]
        BY <1>1, <1>2, <1>5
    <2>4. IsItem(ms[n]) <=> IsItem(ls[n])
        <3>1. n \in 1 .. n
            BY <1>2
        <3>2. ls[n] \in Line
            BY <1>3, <3>1
        <3> QED
            BY <2>3, <3>2, SpaceAdded
    <2> QED
        BY <2>1, <2>2, <2>3, <2>4 DEF Items, ls, ms
<1> QED
    BY <1>4, <1>5

\* So does any text of white space.
LEMMA WhiteIsNothing ==
    ASSUME NEW c \in Seq(Tokens), NEW w \in Seq(White)
    PROVE  /\ c \o w \in Seq(Tokens) /\ TagsOf(c \o w) = TagsOf(c)
           /\ Items(Lines(c \o w)) = Items(Lines(c))
<1> DEFINE T == {v \in Seq(White) : /\ c \o v \in Seq(Tokens)
                                    /\ TagPositions(c \o v) = TagPositions(c)
                                    /\ Items(Lines(c \o v)) = Items(Lines(c))}
<1>1. White \subseteq Tokens
    BY QuietIsNoMark
<1>2. <<>> \in T
    <2>1. c \o <<>> = c
        BY ConcatEmptySeq
    <2> QED
        BY <2>1
<1>3. ASSUME NEW v \in Seq(White), NEW t \in White, v \in T PROVE Append(v, t) \in T
    <2>1. v \in Seq(Tokens) /\ t \in Tokens /\ Append(v, t) \in Seq(White)
        BY <1>1
    <2>2. c \o Append(v, t) = Append(c \o v, t)
        BY <2>1, ConcatLast
    <2> DEFINE d == c \o v
    <2>3. /\ d \in Seq(Tokens) /\ TagPositions(d) = TagPositions(c)
          /\ Items(Lines(d)) = Items(Lines(c))
        BY <1>3
    <2> HIDE DEF d
    <2>4. /\ Append(d, t) \in Seq(Tokens) /\ TagPositions(Append(d, t)) = TagPositions(c)
          /\ Items(Lines(Append(d, t))) = Items(Lines(c))
        BY <2>3, WhiteAdded, WhiteIsNoItem
    <2> QED
        BY <2>1, <2>2, <2>4 DEF d
<1>4. w \in T
    <2> HIDE DEF T
    <2>1. Seq(White) \subseteq T
        BY <1>2, <1>3, AllSequences
    <2> QED
        BY <2>1
<1>5. /\ TagPositions(c) \subseteq 1 .. Len(c)
      /\ \A i \in 1 .. Len(c) : (c \o w)[i] = c[i]
    <2>1. w \in Seq(Tokens)
        BY <1>1
    <2>2. Len(c) \in Nat /\ Len(w) \in Nat
        OBVIOUS
    <2>3. \A i \in 1 .. Len(c) + Len(w) : (c \o w)[i] = IF i <= Len(c) THEN c[i] ELSE w[i - Len(c)]
        BY <2>1, ConcatProperties
    <2> QED
        BY <2>2, <2>3 DEF TagPositions
<1> DEFINE d == c \o w
<1>6. d \in Seq(Tokens) /\ TagPositions(d) = TagPositions(c) /\ Items(Lines(d)) = Items(Lines(c))
    BY <1>4
<1> HIDE DEF d, T
<1> QED
    BY <1>5, <1>6 DEF TagsOf, d

\* t is s without what is in S at its end.
Cut(s, t, S) == \E w \in Seq(S) : s = t \o w

LEMMA TrimmedIs ==
    ASSUME NEW X, NEW s \in Seq(X), NEW S
    PROVE  /\ TrimEnd(s, S) \in Seq(X)
           /\ Cut(s, TrimEnd(s, S), S)
<1>1. PICK k \in 0 .. Len(s) : /\ TrimEnd(s, S) = SubSeq(s, 1, k)
                               /\ \A i \in k + 1 .. Len(s) : s[i] \in S
    BY TrimEndType
<1> DEFINE n == Len(s)
           t == SubSeq(s, 1, k)
           w == SubSeq(s, k + 1, n)
<1>2. n \in Nat /\ k \in Nat /\ \A i \in 1 .. n : s[i] \in X
    BY ElementOfSeq
<1>3. t \in Seq(X) /\ Len(t) = k /\ \A i \in 1 .. k : t[i] = s[i]
    BY <1>2, SubSeqProperties
<1>4. w \in Seq(S \cap X) /\ Len(w) = n - k /\ \A i \in 1 .. n - k : w[i] = s[k + i]
    <2>1. \A i \in k + 1 .. n : s[i] \in S \cap X
        BY <1>1, <1>2
    <2>2. /\ w \in Seq(S \cap X)
          /\ Len(w) = IF k + 1 <= n THEN n - (k + 1) + 1 ELSE 0
          /\ \A i \in 1 .. n - (k + 1) + 1 : w[i] = s[k + 1 + i - 1]
        BY <1>2, <2>1, SubSeqProperties
    <2> HIDE DEF w
    <2>3. n - (k + 1) + 1 = n - k
        BY <1>2
    <2>4. Len(w) = n - k
        BY <1>2, <2>2
    <2>5. ASSUME NEW i \in 1 .. n - k PROVE w[i] = s[k + i]
        <3>1. k + 1 + i - 1 = k + i
            BY <1>2
        <3> QED
            BY <2>2, <2>3, <3>1
    <2> QED
        BY <2>2, <2>4, <2>5
<1> HIDE DEF t, w, n
<1>5. w \in Seq(X)
    BY <1>4
<1> DEFINE v == t \o w
<1>6. v \in Seq(X) /\ Len(v) = n /\ \A i \in 1 .. n : v[i] = IF i <= k THEN t[i] ELSE w[i - k]
    <2>1. /\ v \in Seq(X) /\ Len(v) = Len(t) + Len(w)
          /\ \A i \in 1 .. Len(t) + Len(w) : v[i] = IF i <= Len(t) THEN t[i] ELSE w[i - Len(t)]
        BY <1>3, <1>5, ConcatProperties
    <2> HIDE DEF v
    <2> QED
        BY <1>2, <1>3, <1>4, <2>1
<1> HIDE DEF v
<1>7. \A i \in 1 .. n : v[i] = s[i]
    BY <1>1, <1>2, <1>3, <1>4, <1>6 DEF n
<1>8. v = s
    BY <1>6, <1>7, SeqEqual DEF n
<1> QED
    <2>1. w \in Seq(S)
        BY <1>4
    <2> QED
        BY <1>1, <1>3, <1>8, <2>1, Zenon DEF t, v, Cut

\* A tag on a line of its own at the end counts, with all that were there.
LEMMA TagOnItsLine ==
    ASSUME NEW b \in Seq(Tokens), NEW tag \in TagTokens
    PROVE  LET d == Append(b, "nl")
           IN  TagsOf(Append(d, tag)) = TagsOf(b) \cup {tag}
<1> DEFINE nl == "nl"
           d == Append(b, nl)
           c == Append(d, tag)
           ls == Lines(b)
           n == Len(ls)
           ks == Lines(d)
           ms == Lines(c)
           l == <<tag>>
<1>1. /\ tag \in Tokens /\ nl \in Tokens /\ tag # nl /\ tag # "tick"
      /\ tag \notin {"tick", "~~~"}
    BY TagIsNoOther
<1>2. /\ d \in Seq(Tokens) /\ c \in Seq(Tokens) /\ Len(c) = Len(d) + 1 /\ c[Len(d) + 1] = tag
      /\ Len(d) \in Nat /\ \A i \in 1 .. Len(d) : c[i] = d[i]
    <2>1. d \in Seq(Tokens)
        BY <1>1, AppendProperties
    <2> HIDE DEF d
    <2> QED
        BY <1>1, <2>1, AppendProperties
<1>3. /\ ls \in Seq(Line) /\ ks \in Seq(Line) /\ n \in Nat \ {0}
      /\ Len(ks) = n + 1 /\ ks[n + 1] = <<>> /\ \A i \in 1 .. n : ks[i] = ls[i]
    BY <1>1, LinesOfAppend
<1> HIDE DEF d
<1>4. /\ ms \in Seq(Line) /\ Len(ms) = n + 1 /\ ms[n + 1] = Append(<<>>, tag)
      /\ \A i \in 1 .. n : ms[i] = ls[i]
    <2>1. /\ ms \in Seq(Line) /\ Len(ms) = Len(ks) /\ ms[Len(ks)] = Append(ks[Len(ks)], tag)
          /\ \A i \in 1 .. Len(ks) - 1 : ms[i] = ks[i]
        BY <1>1, <1>2, LinesOfAppend
    <2> HIDE DEF ms, ks, ls
    <2>2. Len(ks) - 1 = n
        BY <1>3
    <2> QED
        BY <1>3, <2>1, <2>2
<1>5. l \in Line /\ Append(<<>>, tag) = l /\ FenceRun(l) = 0
    <2>1. l \in Line
        BY <1>1 DEF Line
    <2>2. Head(l) = tag
        OBVIOUS
    <2>3. FenceRun(l) = 0
        BY <1>1, <2>2, Zenon DEF FenceRun
    <2> QED
        BY <2>1, <2>3
<1> HIDE DEF l, c, ms, ks, ls
<1>6. ms = Append(ls, l)
    <2> DEFINE s == Append(ls, l)
    <2>1. s \in Seq(Line) /\ Len(s) = n + 1 /\ s[n + 1] = l /\ \A i \in 1 .. n : s[i] = ls[i]
        BY <1>3, <1>5, AppendProperties
    <2> HIDE DEF s
    <2>2. \A i \in 1 .. n + 1 : i \in 1 .. n \/ i = n + 1
        BY <1>3
    <2>3. \A i \in 1 .. n + 1 : s[i] = ms[i]
        BY <1>4, <1>5, <2>1, <2>2
    <2>4. s = ms
        BY <1>4, <2>1, <2>3, SeqEqual
    <2> QED
        BY <2>4 DEF s
<1>7. tag \in TagsOf(c)
    <2>1. Join(ms) = c
        BY <1>2, JoinOfLines DEF ms
    <2>2. ls # <<>>
        BY <1>3
    <2>3. tag \in TagsOf(Join(Append(ls, <<tag>>)))
        BY <1>3, <2>2, LastTagCounts
    <2> QED
        BY <1>6, <2>1, <2>3 DEF l
<1>8. \A k \in 1 .. Len(d) : k \in TagPositions(d) <=> k \in TagPositions(c)
    <2>1. \A i \in Len(d) + 1 .. Len(c) : c[i] # "tick"
        BY <1>1, <1>2
    <2>2. \A k \in 1 .. Len(ks) : SameFence(ks[k], ms[k])
        <3>1. \A x : SameFence(x, x)
            BY DEF SameFence
        <3>2. FenceRun(<<>>) = 0
            BY DEF FenceRun
        <3>3. SameFence(<<>>, l)
            BY <1>5, <3>2 DEF SameFence
        <3>4. \A k \in 1 .. n + 1 : k \in 1 .. n \/ k = n + 1
            BY <1>3
        <3>5. \A k \in 1 .. n : ks[k] = ms[k]
            BY <1>3, <1>4
        <3> QED
            BY <1>3, <1>4, <1>5, <3>1, <3>3, <3>4, <3>5
    <2>3. /\ Len(ks) <= Len(ms) /\ \A k \in Len(ks) + 1 .. Len(ms) : FenceRun(ms[k]) = 0
        BY <1>3, <1>4
    <2>4. /\ Len(d) <= Len(c) /\ Len(Lines(d)) <= Len(Lines(c))
          /\ \A k \in 1 .. Len(Lines(d)) : SameFence(Lines(d)[k], Lines(c)[k])
          /\ \A k \in Len(Lines(d)) + 1 .. Len(Lines(c)) : FenceRun(Lines(c)[k]) = 0
        BY <1>2, <2>2, <2>3 DEF ks, ms
    <2> QED
        BY <1>2, <2>1, <2>4, BeginningEmbeds
<1>9. /\ TagPositions(d) \subseteq 1 .. Len(d)
      /\ \A i \in TagPositions(c) : i \in 1 .. Len(d) \/ i = Len(d) + 1
    <2>1. \A s \in Seq(Tokens) : TagPositions(s) \subseteq 1 .. Len(s)
        BY DEF TagPositions
    <2> QED
        BY <1>2, <2>1
<1>10. TagsOf(c) = TagsOf(d) \cup {tag}
    BY <1>2, <1>7, <1>8, <1>9 DEF TagsOf
<1>11. TagsOf(d) = TagsOf(b)
    <2>1. nl \in White
        BY DEF White
    <2>2. TagPositions(d) = TagPositions(b)
        BY <2>1, WhiteAdded DEF d
    <2>3. \A i \in TagPositions(b) : d[i] = b[i]
        BY <1>1, AppendProperties DEF TagPositions, d
    <2> QED
        BY <2>2, <2>3 DEF TagsOf
<1> QED
    BY <1>10, <1>11 DEF c, d

\* An added tag counts, with all the note had, and it stays at that; the
\* number of todos is as it was.
LEMMA AddedTagIsAll ==
    ASSUME NEW b \in Seq(Tokens), NEW tag \in TagTokens, tag \notin TagsOf(b)
    PROVE  LET c == EnsureTag(b, tag)
           IN  /\ TagsOf(c) = TagsOf(b) \cup {tag}
               /\ EnsureTag(c, tag) = c
               /\ Items(Lines(c)) = Items(Lines(b))
<1> DEFINE nl == "nl"
           base == TrimEnd(b, White)
           d == Append(base, nl)
           e == Append(d, nl)
           c == EnsureTag(b, tag)
           l == <<tag>>
<1>1. /\ nl \in Tokens /\ tag \in Tokens /\ tag # nl /\ nl \in White /\ White \cap Tokens = White
    BY TagIsNoOther, QuietIsNoMark DEF White
<1>2. base \in Seq(Tokens) /\ \E w \in Seq(White) : b = base \o w
    <2>1. base \in Seq(Tokens)
        BY TrimmedIs
    <2>2. \E w \in Seq(White) : b = base \o w
        <3>1. Cut(b, base, White)
            BY TrimmedIs
        <3> QED
            BY <3>1 DEF Cut
    <2> QED
        BY <2>1, <2>2
<1> HIDE DEF base
<1>3. TagsOf(base) = TagsOf(b) /\ Items(Lines(base)) = Items(Lines(b))
    BY <1>2, WhiteIsNothing
<1>4. d \in Seq(Tokens) /\ TagPositions(d) = TagPositions(base)
      /\ Items(Lines(d)) = Items(Lines(base))
    BY <1>1, <1>2, WhiteAdded, WhiteIsNoItem
<1>5. TagsOf(d) = TagsOf(base)
    <2>1. TagPositions(base) \subseteq 1 .. Len(base) /\ \A i \in 1 .. Len(base) : d[i] = base[i]
        BY <1>1, <1>2, AppendProperties DEF TagPositions
    <2> HIDE DEF d
    <2> QED
        BY <1>4, <2>1 DEF TagsOf
<1>6. c = Append(e, tag)
    <2>1. c = base \o <<nl, nl, tag>>
        BY Zenon DEF EnsureTag, base
    <2> DEFINE one == <<nl>>
               two == <<nl, nl>>
    <2>2. <<nl, nl, tag>> = Append(two, tag) /\ two = Append(one, nl)
        OBVIOUS
    <2>3. one \in Seq(Tokens) /\ two \in Seq(Tokens)
        BY <1>1
    <2>4. d = base \o one
        BY <1>1, <1>2, AppendIsConcat
    <2> HIDE DEF one, two
    <2>5. base \o Append(two, tag) = Append(base \o two, tag)
        BY <1>1, <1>2, <2>3, ConcatLast
    <2>6. base \o Append(one, nl) = Append(base \o one, nl)
        BY <1>1, <1>2, <2>3, ConcatLast
    <2> QED
        BY <2>1, <2>2, <2>4, <2>5, <2>6, Zenon
<1>7. /\ TagsOf(Append(e, tag)) = TagsOf(d) \cup {tag}
    <2> HIDE DEF d
    <2> QED
        BY <1>4, TagOnItsLine
<1>8. Items(Lines(Append(e, tag))) = Items(Lines(d))
    <2> DEFINE ks == Lines(d)
               ls == Lines(e)
               ms == Lines(Append(e, tag))
               n == Len(ks)
    <2>1. e \in Seq(Tokens)
        BY <1>1, <1>4, AppendProperties
    <2>2. /\ ks \in Seq(Line) /\ ls \in Seq(Line) /\ n \in Nat \ {0}
          /\ Len(ls) = n + 1 /\ ls[n + 1] = <<>> /\ \A i \in 1 .. n : ls[i] = ks[i]
        BY <1>1, <1>4, LinesOfAppend
    <2> HIDE DEF d, e
    <2>3. /\ ms \in Seq(Line) /\ Len(ms) = Len(ls) /\ ms[Len(ls)] = Append(ls[Len(ls)], tag)
          /\ \A i \in 1 .. Len(ls) - 1 : ms[i] = ls[i]
        BY <1>1, <2>1, LinesOfAppend
    <2> HIDE DEF ks, ls, ms
    <2>4. ms[n + 1] = l /\ \A i \in 1 .. n : ms[i] = ks[i]
        <3>1. Len(ls) - 1 = n /\ Append(<<>>, tag) = l
            BY <2>2
        <3> HIDE DEF l
        <3> QED
            BY <2>2, <2>3, <3>1
    <2>5. ~IsItem(l)
        <3>1. l \in Seq(Tokens) /\ Len(l) = 1 /\ l[1] = tag
            BY <1>1
        <3>2. tag \notin {"sp"} /\ tag \notin Boxes
            BY TagsAreNoOther DEF Plain, White
        <3> HIDE DEF l
        <3>3. 1 \in 1 .. Len(l) + 1 /\ l[1] \notin {"sp"} /\ \A i \in 1 .. 1 - 1 : l[i] \in {"sp"}
            BY <3>1, <3>2
        <3>4. First(l, {"sp"}) = 1
            BY <3>1, <3>3, FirstIs
        <3> QED
            BY <3>1, <3>2, <3>4 DEF IsItem
    <2>6. DOMAIN ms = 1 .. n + 1 /\ DOMAIN ks = 1 .. n
        BY <2>2, <2>3
    <2>7. \A i \in 1 .. n + 1 : i \in 1 .. n \/ i = n + 1
        BY <2>2
    <2>8. 1 .. n \subseteq 1 .. n + 1
        BY <2>2
    <2> QED
        BY <2>4, <2>5, <2>6, <2>7, <2>8 DEF Items, ks, ms
<1>9. tag \in TagsOf(c)
    BY <1>6, <1>7
<1> HIDE DEF c
<1> QED
    BY <1>3, <1>4, <1>5, <1>6, <1>7, <1>8, <1>9 DEF EnsureTag, c

-----------------------------------------------------------------------------
(* Lines put in between.                                                   *)

\* The text before the lines that come after those of A.
Leading(A) == IF A = <<>> THEN <<>> ELSE Append(Join(A), "nl")

LEMMA JoinIsText ==
    ASSUME NEW A \in Seq(Line)
    PROVE  Join(A) \in Seq(Tokens)
<1>1. \A l \in Line : l \in Seq(Tokens)
    BY LineIsText
<1>2. A \in Seq(Seq(Tokens))
    BY <1>1
<1> QED
    BY <1>2, JoinType

LEMMA LeadingProperties ==
    ASSUME NEW A \in Seq(Line), NEW z \in Seq(Tokens)
    PROVE  /\ Leading(A) \in Seq(Tokens) /\ Leading(A) \o z \in Seq(Tokens)
           /\ Lines(Leading(A) \o z) = A \o Lines(z)
           /\ A = <<>> => Leading(A) = <<>>
           /\ A # <<>> => Leading(A) = Append(Join(A), "nl")
<1> DEFINE nl == "nl"
           x == Join(A)
           zs == Lines(z)
<1>1. nl \in Tokens /\ x \in Seq(Tokens) /\ zs \in Seq(Line)
    BY Words, JoinIsText, LinesType
<1>2. CASE A = <<>>
    <2>1. Leading(A) = <<>>
        BY <1>2 DEF Leading
    <2>2. <<>> \o z = z
        BY ConcatEmptySeq
    <2>3. <<>> \o zs = zs
        BY <1>1, ConcatEmptySeq
    <2> HIDE DEF zs
    <2>4. Lines(Leading(A) \o z) = A \o Lines(z)
        BY <1>2, <2>1, <2>2, <2>3 DEF zs
    <2>5. Leading(A) \in Seq(Tokens) /\ Leading(A) \o z \in Seq(Tokens)
        BY <2>1, <2>2
    <2> QED
        BY <1>2, <2>1, <2>4, <2>5
<1>3. CASE A # <<>>
    <2>1. Lines(x) = A
        BY <1>3, LinesOfJoin
    <2>2. Leading(A) = Append(x, nl)
        BY <1>3 DEF Leading
    <2> HIDE DEF x
    <2>3. Append(x, nl) = x \o <<nl>> /\ Append(x, nl) \in Seq(Tokens)
        BY <1>1, AppendIsConcat, AppendProperties
    <2>4. Lines(x \o <<nl>> \o z) = A \o Lines(z)
        BY <1>1, <2>1, LinesOfConcat
    <2>5. Leading(A) \in Seq(Tokens)
        BY <2>2, <2>3
    <2>6. Leading(A) \o z \in Seq(Tokens)
        BY <2>5, ConcatProperties
    <2>7. Leading(A) \o z = x \o <<nl>> \o z
        BY <2>2, <2>3
    <2> QED
        BY <1>3, <2>2, <2>4, <2>5, <2>6, <2>7 DEF x
<1> QED
    BY <1>2, <1>3

LEMMA JoinAfter ==
    ASSUME NEW A \in Seq(Line), NEW Z \in Seq(Line), Z # <<>>
    PROVE  Join(A \o Z) = Leading(A) \o Join(Z)
<1> DEFINE z == Join(Z)
           t == Leading(A) \o z
<1>1. z \in Seq(Tokens) /\ Lines(z) = Z
    BY LinesOfJoin
<1> HIDE DEF z
<1>2. t \in Seq(Tokens) /\ Lines(t) = A \o Z
    BY <1>1, LeadingProperties
<1> HIDE DEF t
<1>3. Join(Lines(t)) = t
    BY <1>2, JoinOfLines
<1> QED
    BY <1>2, <1>3 DEF t, z

LEMMA JoinMore ==
    ASSUME NEW A \in Seq(Line), NEW l \in Line
    PROVE  /\ Join(Append(A, l)) = Leading(A) \o l
           /\ Leading(Append(A, l)) = Append(Leading(A) \o l, "nl")
           /\ Append(A, l) \in Seq(Line)
<1> DEFINE one == <<l>>
           p == Append(A, l)
           y == Leading(A) \o l
<1>1. one \in Seq(Line) /\ one # <<>> /\ p \in Seq(Line) /\ p # <<>>
    <2>1. one \in Seq(Line) /\ Len(one) = 1
        OBVIOUS
    <2>2. p \in Seq(Line) /\ Len(p) = Len(A) + 1 /\ Len(A) \in Nat
        BY AppendProperties
    <2>3. Len(<<>>) = 0
        OBVIOUS
    <2> HIDE DEF one, p
    <2>4. \A x : Len(x) # 0 => x # <<>>
        BY <2>3
    <2>5. Len(one) # 0 /\ Len(p) # 0
        BY <2>1, <2>2
    <2> QED
        BY <2>1, <2>2, <2>4, <2>5
<1>2. p = A \o one
    BY AppendIsConcat
<1>3. Lines(l) = one /\ l \in Seq(Tokens)
    BY LinesOfLine, LineIsText
<1>4. Join(one) = l
    BY <1>3, JoinOfLines
<1> HIDE DEF one, p, y
<1>5. Join(A \o one) = Leading(A) \o Join(one)
    BY <1>1, JoinAfter
<1>6. Join(p) = y
    BY <1>2, <1>4, <1>5 DEF y
<1>7. Leading(p) = Append(y, "nl")
    BY <1>1, <1>6 DEF Leading
<1> QED
    BY <1>1, <1>6, <1>7 DEF p, y

LEMMA LineOfAfter ==
    ASSUME NEW A \in Seq(Line), NEW z \in Seq(Tokens), NEW j \in 1 .. Len(z)
    PROVE  LineOf(Leading(A) \o z, Len(Leading(A)) + j) = Len(A) + LineOf(z, j)
<1> DEFINE u == Leading(A)
           c == u \o z
           p == Len(u)
           y == SubSeq(z, 1, j - 1)
           x == SubSeq(c, 1, p + j - 1)
           v == u \o y
<1>1. u \in Seq(Tokens) /\ p \in Nat /\ Len(z) \in Nat /\ j \in Nat
    BY LeadingProperties
<1> HIDE DEF u
<1>2. /\ c \in Seq(Tokens) /\ Len(c) = p + Len(z)
      /\ \A i \in 1 .. p + Len(z) : c[i] = IF i <= p THEN u[i] ELSE z[i - p]
    BY <1>1, ConcatProperties
<1> HIDE DEF c
<1>3. y \in Seq(Tokens) /\ LineOf(z, j) = Len(Lines(y))
    BY LineOfIs
<1>4. p + j \in 1 .. Len(c)
    BY <1>1, <1>2
<1>5. x \in Seq(Tokens) /\ LineOf(c, p + j) = Len(Lines(x))
    BY <1>2, <1>4, LineOfIs
<1>6. Len(y) = j - 1 /\ \A i \in 1 .. j - 1 : y[i] = z[i]
    <2>1. \A i \in 1 .. j - 1 : z[i] \in Tokens
        BY <1>1, ElementOfSeq
    <2> QED
        BY <1>1, <2>1, SubSeqProperties
<1>7. Len(x) = p + j - 1 /\ \A i \in 1 .. p + j - 1 : x[i] = c[i]
    <2>1. \A i \in 1 .. p + j - 1 : i \in 1 .. Len(c)
        BY <1>1, <1>4
    <2>2. \A i \in 1 .. p + j - 1 : c[i] \in Tokens
        BY <1>2, <2>1, ElementOfSeq
    <2> QED
        BY <1>1, <2>2, SubSeqProperties
<1> HIDE DEF x, y
<1>8. /\ v \in Seq(Tokens) /\ Len(v) = p + (j - 1)
      /\ \A i \in 1 .. p + (j - 1) : v[i] = IF i <= p THEN u[i] ELSE y[i - p]
    <2>1. /\ v \in Seq(Tokens) /\ Len(v) = p + Len(y)
          /\ \A i \in 1 .. p + Len(y) : v[i] = IF i <= p THEN u[i] ELSE y[i - p]
        BY <1>1, <1>3, ConcatProperties
    <2> QED
        BY <1>6, <2>1
<1> HIDE DEF v
<1>9. \A i \in 1 .. p + (j - 1) : v[i] = x[i]
    <2> SUFFICES ASSUME NEW i \in 1 .. p + (j - 1) PROVE v[i] = x[i]
        OBVIOUS
    <2>1. i \in 1 .. p + j - 1 /\ i \in 1 .. p + Len(z)
        BY <1>1
    <2>2. x[i] = c[i] /\ c[i] = IF i <= p THEN u[i] ELSE z[i - p]
        BY <1>2, <1>7, <2>1
    <2>3. CASE i <= p
        BY <1>8, <2>2, <2>3
    <2>4. CASE ~(i <= p)
        <3>1. i - p \in 1 .. j - 1
            BY <1>1, <2>4
        <3> QED
            BY <1>6, <1>8, <2>2, <2>4, <3>1
    <2> QED
        BY <2>3, <2>4
<1>10. v = x
    <2>1. Len(v) = Len(x)
        BY <1>1, <1>7, <1>8
    <2> QED
        BY <1>5, <1>8, <1>9, <2>1, SeqEqual
<1>11. Lines(v) = A \o Lines(y)
    BY <1>3, LeadingProperties DEF u, v
<1>12. Len(A \o Lines(y)) = Len(A) + Len(Lines(y))
    BY <1>3, LinesType, ConcatProperties
<1> QED
    BY <1>3, <1>5, <1>10, <1>11, <1>12 DEF c, u

LEMMA ConcatAt ==
    ASSUME NEW X, NEW s \in Seq(X), NEW t \in Seq(X)
    PROVE  /\ s \o t \in Seq(X) /\ Len(s) \in Nat /\ Len(t) \in Nat
           /\ Len(s \o t) = Len(s) + Len(t)
           /\ \A i \in 1 .. Len(s) : (s \o t)[i] = s[i]
           /\ \A i \in 1 .. Len(t) : (s \o t)[Len(s) + i] = t[i]
<1>1. /\ s \o t \in Seq(X) /\ Len(s) \in Nat /\ Len(t) \in Nat
      /\ Len(s \o t) = Len(s) + Len(t)
      /\ \A i \in 1 .. Len(s) + Len(t) : (s \o t)[i] =
              IF i <= Len(s) THEN s[i] ELSE t[i - Len(s)]
    BY ConcatProperties
<1>2. ASSUME NEW i \in 1 .. Len(s) PROVE (s \o t)[i] = s[i]
    BY <1>1
<1>3. ASSUME NEW i \in 1 .. Len(t) PROVE (s \o t)[Len(s) + i] = t[i]
    <2> DEFINE m == Len(s)
               j == m + i
    <2>1. j \in 1 .. m + Len(t) /\ ~(j <= m) /\ j - m = i
        BY <1>1
    <2>2. (s \o t)[j] = IF j <= m THEN s[j] ELSE t[j - m]
        BY <1>1, <2>1
    <2> QED
        BY <2>1, <2>2
<1> QED
    BY <1>1, <1>2, <1>3

\* A line without tag and code in the midst of others.
LEMMA LineInserted ==
    ASSUME NEW A \in Seq(Line), NEW Z \in Seq(Line), NEW l \in Line, l \in Seq(Quiet), Z # <<>>
    PROVE  TagsOf(Join(Append(A, l) \o Z)) = TagsOf(Join(A \o Z))
<1> DEFINE nl == "nl"
           z == Join(Z)
           u == Leading(A)
           B == Append(A, l)
           w == Append(u \o l, nl)
           c == u \o z
           b == w \o z
           a == Len(A)
           p == Len(u)
           q == Len(l) + 1
           n == Len(z)
           g == [k \in 1 .. p + n |-> IF k <= p THEN k ELSE k + q]
           r == Len(Z)
           h == [k \in 1 .. a + r |-> IF k <= a THEN k ELSE k + 1]
<1>1. /\ z \in Seq(Tokens) /\ Lines(z) = Z /\ n \in Nat
      /\ nl \in Tokens /\ nl \in Quiet /\ Quiet \cap TagTokens = {} /\ "tick" \notin Quiet
    <2>1. "tick" \notin Quiet
        BY DEF Quiet
    <2>2. z \in Seq(Tokens) /\ Lines(z) = Z
        BY LinesOfJoin
    <2>3. nl \in Tokens /\ nl \in Quiet /\ Quiet \cap TagTokens = {}
        BY Words, QuietIsNoMark
    <2> HIDE DEF z
    <2> QED
        BY <2>1, <2>2, <2>3
<1> HIDE DEF z
<1>2. /\ B \in Seq(Line) /\ Len(B) = a + 1 /\ B[a + 1] = l /\ \A i \in 1 .. a : B[i] = A[i]
      /\ w = Leading(B) /\ a \in Nat
    <2>1. w = Leading(B) /\ B \in Seq(Line)
        BY JoinMore
    <2> QED
        BY <2>1, AppendProperties
<1>3. /\ u \in Seq(Tokens) /\ c \in Seq(Tokens) /\ Lines(c) = A \o Z
      /\ a = 0 => p = 0
      /\ a # 0 => p = Len(Join(A)) + 1 /\ u = Append(Join(A), nl) /\ Join(A) \in Seq(Tokens)
    <2>1. /\ u \in Seq(Tokens) /\ c \in Seq(Tokens) /\ Lines(c) = A \o Z
          /\ A = <<>> => u = <<>>
          /\ A # <<>> => u = Append(Join(A), nl)
        BY <1>1, LeadingProperties
    <2>2. Join(A) \in Seq(Tokens)
        BY JoinIsText
    <2>3. a = 0 <=> A = <<>>
        BY EmptySeq
    <2> HIDE DEF u
    <2>4. A # <<>> => p = Len(Join(A)) + 1
        BY <1>1, <2>1, <2>2, AppendProperties
    <2> QED
        BY <2>1, <2>2, <2>3, <2>4
<1> HIDE DEF B
<1>4. b \in Seq(Tokens) /\ Lines(b) = B \o Z
    BY <1>1, <1>2, LeadingProperties
<1>5. c = Join(A \o Z) /\ b = Join(B \o Z)
    BY <1>2, JoinAfter DEF z
<1>6. /\ w \in Seq(Tokens) /\ Len(w) = p + q
      /\ \A i \in 1 .. p : w[i] = u[i]
      /\ \A i \in p + 1 .. p + q : w[i] \in Quiet
      /\ w[p + q] = nl
      /\ p \in Nat /\ q \in Nat \ {0}
    <2> DEFINE y == u \o l
    <2>1. l \in Seq(Tokens) /\ Len(l) \in Nat /\ p \in Nat
        BY <1>3, LineIsText
    <2>2. y \in Seq(Tokens) /\ Len(y) = p + Len(l)
          /\ \A i \in 1 .. p + Len(l) : y[i] = IF i <= p THEN u[i] ELSE l[i - p]
        BY <1>3, <2>1, ConcatProperties
    <2> HIDE DEF y, u
    <2>3. /\ w \in Seq(Tokens) /\ Len(w) = p + Len(l) + 1 /\ w[p + Len(l) + 1] = nl
          /\ \A i \in 1 .. p + Len(l) : w[i] = y[i]
        BY <1>1, <2>1, <2>2, AppendProperties DEF y
    <2> HIDE DEF w
    <2>4. p + Len(l) + 1 = p + q
        BY <2>1
    <2>5. \A i \in 1 .. p : w[i] = u[i]
        BY <2>1, <2>2, <2>3
    <2>6. ASSUME NEW i \in p + 1 .. p + q PROVE w[i] \in Quiet
        <3>1. CASE i = p + q
            BY <1>1, <2>3, <2>4, <3>1
        <3>2. CASE i # p + q
            <4>1. i \in 1 .. p + Len(l) /\ ~(i <= p) /\ i - p \in 1 .. Len(l)
                BY <2>1, <3>2
            <4>2. w[i] = l[i - p]
                BY <2>2, <2>3, <4>1
            <4>3. l[i - p] \in Quiet
                BY <4>1, ElementOfSeq
            <4> QED
                BY <4>2, <4>3
        <3> QED
            BY <3>1, <3>2
    <2> QED
        BY <2>1, <2>3, <2>4, <2>5, <2>6
<1> HIDE DEF w, u
<1>7. /\ Len(c) = p + n
      /\ \A i \in 1 .. p : c[i] = u[i]
      /\ \A i \in 1 .. n : c[p + i] = z[i]
    BY <1>1, <1>3, ConcatAt
<1>8. /\ Len(b) = p + q + n
      /\ \A i \in 1 .. p + q : b[i] = w[i]
      /\ \A i \in 1 .. n : b[p + q + i] = z[i]
    <2>0. w \in Seq(Tokens) /\ z \in Seq(Tokens)
        BY <1>1, <1>6
    <2>1. /\ Len(b) = Len(w) + n
          /\ \A i \in 1 .. Len(w) : b[i] = w[i]
          /\ \A i \in 1 .. n : b[Len(w) + i] = z[i]
        BY <2>0, ConcatAt
    <2> HIDE DEF b, n
    <2> QED
        BY <1>6, <2>1
<1>9. p > 0 => u[p] = nl
    <2>1. CASE a = 0
        BY <1>3, <2>1
    <2>2. CASE a # 0
        <3> DEFINE j == Join(A)
        <3>1. p = Len(j) + 1 /\ u = Append(j, nl) /\ j \in Seq(Tokens)
            BY <1>3, <2>2
        <3> HIDE DEF j, u
        <3>2. Append(j, nl)[Len(j) + 1] = nl
            BY <1>1, <3>1, AppendProperties
        <3> QED
            BY <3>1, <3>2
    <2> QED
        BY <2>1, <2>2
<1> HIDE DEF c, b, p, q, n
<1>t. p \in Nat /\ q \in Nat \ {0} /\ n \in Nat
    BY <1>1, <1>6
<1>10. \A i \in 1 .. p : b[i] = c[i]
    <2> SUFFICES ASSUME NEW i \in 1 .. p PROVE b[i] = c[i]
        OBVIOUS
    <2>1. i \in 1 .. p + q
        BY <1>t
    <2> QED
        BY <1>6, <1>7, <1>8, <2>1
<1>11. \A i \in p + 1 .. p + q : b[i] \in Quiet
    <2> SUFFICES ASSUME NEW i \in p + 1 .. p + q PROVE b[i] \in Quiet
        OBVIOUS
    <2>1. i \in 1 .. p + q
        BY <1>t
    <2> QED
        BY <1>6, <1>8, <2>1
<1>12. \A k \in p + 1 .. p + n : k + q \in 1 .. p + q + n /\ b[k + q] = c[k]
    <2> SUFFICES ASSUME NEW k \in p + 1 .. p + n
                 PROVE  k + q \in 1 .. p + q + n /\ b[k + q] = c[k]
        OBVIOUS
    <2>1. PICK j \in 1 .. n : j = k - p
        BY <1>t
    <2>2. k = p + j /\ k + q = p + q + j /\ k + q \in 1 .. p + q + n
        BY <1>t, <2>1
    <2>3. b[p + q + j] = z[j] /\ c[p + j] = z[j]
        BY <1>7, <1>8
    <2> QED
        BY <2>2, <2>3
<1>13. \A k \in 1 .. p + n : g[k] = IF k <= p THEN k ELSE k + q
    OBVIOUS
<1>15. /\ Len(Lines(c)) = a + r /\ Len(Lines(b)) = a + 1 + r /\ r \in Nat
       /\ \A k \in 1 .. a : Lines(c)[k] = A[k] /\ Lines(b)[k] = A[k]
       /\ Lines(b)[a + 1] = l
       /\ \A k \in 1 .. r : Lines(c)[a + k] = Z[k] /\ Lines(b)[a + 1 + k] = Z[k]
    <2> DEFINE AZ == A \o Z
               BZ == B \o Z
    <2>1. /\ Len(AZ) = a + r /\ r \in Nat
          /\ \A k \in 1 .. a : AZ[k] = A[k]
          /\ \A k \in 1 .. r : AZ[a + k] = Z[k]
        BY ConcatAt
    <2>0. B \in Seq(Line)
        BY <1>2
    <2>2. /\ Len(BZ) = Len(B) + r
          /\ \A k \in 1 .. Len(B) : BZ[k] = B[k]
          /\ \A k \in 1 .. r : BZ[Len(B) + k] = Z[k]
        BY <2>0, ConcatAt
    <2> HIDE DEF AZ, BZ, a, r
    <2>3. Lines(c) = AZ /\ Lines(b) = BZ
        BY <1>3, <1>4 DEF AZ, BZ, b, c
    <2>4. /\ Len(BZ) = a + 1 + r
          /\ \A k \in 1 .. a + 1 : BZ[k] = B[k]
          /\ \A k \in 1 .. r : BZ[a + 1 + k] = Z[k]
        BY <1>2, <2>2
    <2>5. a + 1 \in 1 .. a + 1 /\ \A k \in 1 .. a : k \in 1 .. a + 1
        BY <1>2
    <2> QED
        BY <1>2, <2>1, <2>3, <2>4, <2>5
<1>14. \A k \in 1 .. a + r : h[k] = IF k <= a THEN k ELSE k + 1
    OBVIOUS
<1> HIDE DEF a, r
<1>s. a \in Nat /\ r \in Nat
    BY <1>2, <1>15
<1>16. Rises(g, Len(c), Len(b))
    <2>1. g \in [1 .. p + n -> 1 .. p + q + n]
        BY <1>t
    <2>2. \A j \in 1 .. p + n, k \in 1 .. p + n : j < k => g[j] < g[k]
        BY <1>t
    <2> HIDE DEF g
    <2> QED
        BY <1>7, <1>8, <2>1, <2>2 DEF Rises
<1>17. Rises(h, Len(Lines(c)), Len(Lines(b)))
    <2>1. h \in [1 .. a + r -> 1 .. a + 1 + r]
        BY <1>s
    <2>2. \A j \in 1 .. a + r, k \in 1 .. a + r : j < k => h[j] < h[k]
        BY <1>s
    <2> HIDE DEF h
    <2> QED
        BY <1>15, <2>1, <2>2 DEF Rises
<1> HIDE DEF g, h
<1>18. \A k \in 1 .. p + n : c[k] = b[g[k]]
    <2> SUFFICES ASSUME NEW k \in 1 .. p + n PROVE c[k] = b[g[k]]
        OBVIOUS
    <2>1. k <= p => k \in 1 .. p
        BY <1>6
    <2>2. ~(k <= p) => k \in p + 1 .. p + n
        BY <1>t
    <2> QED
        BY <1>10, <1>12, <1>13, <2>1, <2>2
<1>19. \A i \in 1 .. p + q + n : b[i] \notin Quiet => \E k \in 1 .. p + n : g[k] = i
    <2> SUFFICES ASSUME NEW i \in 1 .. p + q + n, b[i] \notin Quiet
                 PROVE  \E k \in 1 .. p + n : g[k] = i
        OBVIOUS
    <2>1. CASE i <= p
        <3>1. i \in 1 .. p + n /\ g[i] = i
            BY <1>t, <1>13, <2>1
        <3> QED
            BY <3>1
    <2>2. CASE ~(i <= p)
        <3>1. ~(i <= p + q)
            BY <1>6, <1>11, <2>2
        <3>2. i - q \in 1 .. p + n /\ ~(i - q <= p) /\ i - q + q = i
            BY <1>t, <3>1
        <3>3. g[i - q] = i
            BY <1>13, <3>2
        <3> QED
            BY <3>2, <3>3
    <2> QED
        BY <2>1, <2>2
<1>20. Embeds(b, c, g, h)
    <2>1. \A k \in 1 .. Len(c) : c[k] = "tick" <=> b[g[k]] = "tick"
        BY <1>7, <1>18
    <2>2. \A i \in 1 .. Len(b) : b[i] = "tick" => \E k \in 1 .. Len(c) : g[k] = i
        BY <1>1, <1>7, <1>8, <1>19
    <2>3. \A k \in 1 .. Len(c) - 1 :
              c[k] = "tick" /\ c[k + 1] = "tick" => g[k + 1] = g[k] + 1
        <3> SUFFICES ASSUME NEW k \in 1 .. p + n - 1, c[k] = "tick", c[k + 1] = "tick"
                     PROVE  g[k + 1] = g[k] + 1
            <4>1. Len(c) - 1 = p + n - 1
                BY <1>t, <1>7
            <4> QED
                BY <4>1
        <3>1. k \in 1 .. p + n /\ k + 1 \in 1 .. p + n
            BY <1>t
        <3>2. k # p
            <4> SUFFICES ASSUME k = p PROVE FALSE
                OBVIOUS
            <4>1. p > 0 /\ c[p] = u[p]
                BY <1>t, <1>7, <3>1
            <4> QED
                BY <1>9, <4>1
        <3> QED
            BY <1>t, <1>13, <3>1, <3>2
    <2>4. \A k \in 1 .. Len(Lines(c)) : SameFence(Lines(c)[k], Lines(b)[h[k]])
        <3>0. \A x : SameFence(x, x)
            BY DEF SameFence
        <3> SUFFICES ASSUME NEW k \in 1 .. a + r PROVE Lines(c)[k] = Lines(b)[h[k]]
            BY <1>15, <3>0
        <3>1. CASE k <= a
            <4>1. h[k] = k /\ k \in 1 .. a
                BY <1>s, <1>14, <3>1
            <4> QED
                BY <1>15, <4>1
        <3>2. CASE ~(k <= a)
            <4>1. PICK j \in 1 .. r : j = k - a
                BY <1>s, <3>2
            <4>2. k = a + j /\ h[k] = a + 1 + j
                BY <1>s, <1>14, <3>2, <4>1
            <4>3. Lines(c)[a + j] = Lines(b)[a + 1 + j]
                BY <1>15
            <4> QED
                BY <4>2, <4>3
        <3> QED
            BY <3>1, <3>2
    <2>5. \A i \in 1 .. Len(Lines(b)) :
              FenceRun(Lines(b)[i]) # 0 => \E k \in 1 .. Len(Lines(c)) : h[k] = i
        <3> SUFFICES ASSUME NEW i \in 1 .. a + 1 + r, FenceRun(Lines(b)[i]) # 0
                     PROVE  \E k \in 1 .. a + r : h[k] = i
            BY <1>15
        <3>1. i # a + 1
            <4> SUFFICES ASSUME i = a + 1 PROVE FALSE
                OBVIOUS
            <4>0. Lines(b)[a + 1] = l
                BY <1>15
            <4>1. Lines(b)[i] = l
                BY <4>0
            <4>2. l = <<>> \/ l[1] \notin Marks
                <5>1. Len(l) \in Nat
                    OBVIOUS
                <5>2. l # <<>> => l[1] \in Quiet
                    BY <5>1, ElementOfSeq, EmptySeq
                <5> QED
                    BY <5>2, QuietIsNoMark
            <4> QED
                BY <4>1, <4>2, FenceRunProperties
        <3>2. CASE i <= a
            <4>1. i \in 1 .. a + r /\ h[i] = i
                BY <1>s, <1>14, <3>2
            <4> QED
                BY <4>1
        <3>3. CASE ~(i <= a)
            <4>1. i - 1 \in 1 .. a + r /\ ~(i - 1 <= a) /\ i - 1 + 1 = i
                BY <1>s, <3>1, <3>3
            <4>2. h[i - 1] = i
                BY <1>14, <4>1
            <4> QED
                BY <4>1, <4>2
        <3> QED
            BY <3>2, <3>3
    <2> QED
        BY <1>16, <1>17, <2>1, <2>2, <2>3, <2>4, <2>5 DEF Embeds
<1>21. ASSUME NEW k \in 1 .. p + n, c[k] \in TagTokens
       PROVE  k \in TagPositions(c) <=> g[k] \in TagPositions(b)
    <2>0. nl \notin TagTokens /\ nl \in White
        BY <1>1 DEF White
    <2>1. CASE k <= p
        <3>1. g[k] = k /\ k \in 1 .. p
            BY <1>t, <1>13, <2>1
        <3>2. Begins(c, k) <=> Begins(b, g[k])
            <4>1. k > 1 => k - 1 \in 1 .. p
                BY <1>6, <3>1
            <4> QED
                BY <1>10, <3>1, <4>1 DEF Begins
        <3>3. h[LineOf(c, k)] = LineOf(b, g[k])
            <4>1. a # 0
                BY <1>3, <1>6, <3>1
            <4> DEFINE j == Join(A)
            <4>2. j \in Seq(Tokens) /\ p = Len(j) + 1 /\ u = Append(j, nl) /\ Lines(j) = A
                <5>1. A # <<>>
                    <6>1. Len(<<>>) = 0
                        OBVIOUS
                    <6> QED
                        BY <4>1, <6>1 DEF a
                <5>2. Lines(j) = A
                    BY <5>1, LinesOfJoin
                <5> HIDE DEF j
                <5> QED
                    BY <1>3, <4>1, <5>2 DEF j
            <4> HIDE DEF j
            <4>3. \A i \in 1 .. Len(j) : u[i] = j[i]
                BY <1>1, <4>2, AppendProperties
            <4>4. k # p
                <5>1. p > 0 /\ c[p] = u[p]
                    BY <1>t, <1>7, <3>1
                <5> QED
                    BY <1>9, <1>21, <2>0, <5>1
            <4>5. k \in 1 .. Len(j)
                BY <3>1, <4>2, <4>4
            <4>6. LineOf(j, k) \in 1 .. a
                BY <4>2, <4>5, LineOfIs DEF a
            <4>7. \A i \in 1 .. k - 1 : b[i] = j[i] /\ c[i] = j[i]
                <5>1. \A i \in 1 .. k - 1 : i \in 1 .. p /\ i \in 1 .. Len(j) /\ i \in 1 .. p + n /\ i <= p
                    BY <1>t, <3>1, <4>5
                <5> QED
                    BY <1>7, <1>10, <4>3, <5>1
            <4>8. LineOf(c, k) = LineOf(j, k) /\ LineOf(b, k) = LineOf(j, k)
                <5>1. {i \in 1 .. k - 1 : b[i] = "nl"} = {i \in 1 .. k - 1 : j[i] = "nl"}
                    BY <4>7
                <5>2. {i \in 1 .. k - 1 : c[i] = "nl"} = {i \in 1 .. k - 1 : j[i] = "nl"}
                    BY <4>7
                <5> QED
                    BY <5>1, <5>2 DEF LineOf
            <4>9. LineOf(j, k) \in 1 .. a + r /\ LineOf(j, k) <= a
                BY <1>s, <4>6
            <4> QED
                BY <1>14, <3>1, <4>8, <4>9
        <3>4. k \in 1 .. Len(c) /\ c[k] = b[g[k]]
            BY <1>7, <1>18
        <3> QED
            BY <1>3, <1>4, <1>20, <3>2, <3>3, <3>4, TagsKept
    <2>2. CASE ~(k <= p)
        <3>1. g[k] = k + q
            BY <1>13, <2>2
        <3>2. Begins(c, k) <=> Begins(b, g[k])
            <4>1. CASE k = p + 1
                <5>1. Begins(b, k + q)
                    <6>1. (k + q) - 1 = p + q /\ p + q \in 1 .. p + q + n /\ p + q <= p + q
                        BY <1>t, <4>1
                    <6>2. b[p + q] = nl
                        BY <1>6, <1>8, <6>1
                    <6>3. b[(k + q) - 1] = nl
                        BY <6>1, <6>2
                    <6>4. b[(k + q) - 1] \in White
                        BY <2>0, <6>3
                    <6> QED
                        BY <6>4 DEF Begins
                <5>2. Begins(c, k)
                    <6>1. k > 1 => p > 0 /\ k - 1 = p /\ p \in 1 .. p + n
                        BY <1>t, <4>1
                    <6> QED
                        BY <1>7, <1>9, <2>0, <6>1 DEF Begins
                <5> QED
                    BY <3>1, <5>1, <5>2
            <4>2. CASE k # p + 1
                <5>1. /\ k - 1 \in p + 1 .. p + n /\ k > 1 /\ k + q > 1
                      /\ (k + q) - 1 = k - 1 + q
                    BY <1>t, <2>2, <4>2
                <5>2. b[k - 1 + q] = c[k - 1]
                    BY <1>12, <5>1
                <5>3. b[(k + q) - 1] = c[k - 1] /\ k > 1 /\ k + q > 1
                    BY <5>1, <5>2
                <5> QED
                    BY <3>1, <5>3 DEF Begins
            <4> QED
                BY <4>1, <4>2
        <3>3. h[LineOf(c, k)] = LineOf(b, g[k])
            <4> DEFINE j == k - p
            <4>1. j \in 1 .. n /\ p + j = k /\ p + q + j = k + q
                BY <1>t, <2>2
            <4> HIDE DEF j
            <4>2. LineOf(c, p + j) = a + LineOf(z, j)
                BY <1>1, <4>1, LineOfAfter DEF c, u, p, n, a
            <4>3. LineOf(b, Len(Leading(B)) + j) = Len(B) + LineOf(z, j)
                BY <1>1, <1>2, <4>1, LineOfAfter DEF b, n
            <4>4. LineOf(b, p + q + j) = a + 1 + LineOf(z, j)
                BY <1>2, <1>6, <4>3
            <4>5. LineOf(z, j) \in 1 .. r
                BY <1>1, <4>1, LineOfIs DEF n, r
            <4>6. a + LineOf(z, j) \in 1 .. a + r /\ ~(a + LineOf(z, j) <= a)
                  /\ a + LineOf(z, j) + 1 = a + 1 + LineOf(z, j)
                BY <1>s, <4>5
            <4> QED
                BY <1>14, <3>1, <4>1, <4>2, <4>4, <4>6
        <3>4. k \in 1 .. Len(c) /\ c[k] = b[g[k]]
            BY <1>7, <1>18
        <3> QED
            BY <1>3, <1>4, <1>20, <3>2, <3>3, <3>4, TagsKept
    <2> QED
        BY <2>1, <2>2
<1>22. TagsOf(b) = TagsOf(c)
    <2>1. \A s \in Seq(Tokens) : \A i \in TagPositions(s) : i \in 1 .. Len(s) /\ s[i] \in TagTokens
        BY DEF TagPositions
    <2>2. \A i \in TagPositions(b) : \E k \in TagPositions(c) : c[k] = b[i]
        <3> SUFFICES ASSUME NEW i \in TagPositions(b) PROVE \E k \in TagPositions(c) : c[k] = b[i]
            OBVIOUS
        <3>1. i \in 1 .. p + q + n /\ b[i] \in TagTokens
            BY <1>4, <1>8, <2>1
        <3>2. PICK k \in 1 .. p + n : g[k] = i
            BY <1>1, <1>19, <3>1
        <3>3. c[k] = b[i]
            BY <1>18, <3>2
        <3> QED
            BY <1>21, <3>1, <3>2, <3>3
    <2>3. \A k \in TagPositions(c) : g[k] \in TagPositions(b) /\ b[g[k]] = c[k]
        <3> SUFFICES ASSUME NEW k \in TagPositions(c)
                     PROVE  g[k] \in TagPositions(b) /\ b[g[k]] = c[k]
            OBVIOUS
        <3>1. k \in 1 .. p + n /\ c[k] \in TagTokens
            BY <1>3, <1>7, <2>1
        <3> QED
            BY <1>18, <1>21, <3>1
    <2> QED
        BY <2>2, <2>3 DEF TagsOf
<1> QED
    BY <1>5, <1>22 DEF B

\* A line without tag and code.
QuietLine == Seq(Quiet \ {"nl"})

LEMMA QuietLineIs ==
    ASSUME NEW l \in QuietLine
    PROVE  l \in Line /\ l \in Seq(Quiet)
<1>1. Quiet \subseteq Tokens
    BY QuietIsNoMark
<1> QED
    BY <1>1 DEF QuietLine, Line

LEMMA NoTagInQuiet ==
    ASSUME NEW b \in Seq(Quiet)
    PROVE  TagsOf(b) = {}
<1>1. \A i \in TagPositions(b) : b[i] \in TagTokens /\ b[i] \in Quiet
    BY ElementOfSeq DEF TagPositions
<1> QED
    BY <1>1, QuietIsNoMark DEF TagsOf

LEMMA LineAtEnd ==
    ASSUME NEW A \in Seq(Line), NEW l \in QuietLine
    PROVE  TagsOf(Join(Append(A, l))) = TagsOf(Join(A))
<1> DEFINE u == Leading(A)
           b == u \o l
           c == Join(A)
           B == Append(A, l)
           n == Len(A)
           nl == "nl"
<1>1. /\ l \in Line /\ l \in Seq(Quiet) /\ l \in Seq(Tokens) /\ nl \in Tokens /\ nl \in Quiet
      /\ "tick" \notin Quiet /\ Quiet \cap TagTokens = {}
    <2>1. "tick" \notin Quiet
        BY DEF Quiet
    <2> QED
        BY <2>1, QuietLineIs, LineIsText, Words, QuietIsNoMark
<1>2. c \in Seq(Tokens) /\ Join(B) = b /\ B \in Seq(Line)
    BY <1>1, JoinIsText, JoinMore
<1>3. CASE A = <<>>
    <2>1. u = <<>> /\ b = l
        <3>1. <<>> \o l = l
            BY <1>1, ConcatEmptySeq
        <3> QED
            BY <1>3, <3>1 DEF Leading
    <2>2. c = <<>>
        BY <1>3, JoinOfNothing
    <2>3. <<>> \in Seq(Quiet)
        OBVIOUS
    <2> HIDE DEF b, c
    <2>4. TagsOf(l) = {} /\ TagsOf(<<>>) = {}
        BY <1>1, <2>3, NoTagInQuiet
    <2> QED
        BY <1>2, <2>1, <2>2, <2>4 DEF b, c
<1>4. CASE A # <<>>
    <2>1. Lines(c) = A
        BY <1>4, LinesOfJoin
    <2>2. u = Append(c, nl)
        BY <1>4 DEF Leading
    <2> HIDE DEF c
    <2>3. /\ u \in Seq(Tokens) /\ Len(u) = Len(c) + 1 /\ u[Len(c) + 1] = nl
          /\ \A i \in 1 .. Len(c) : u[i] = c[i]
          /\ Len(c) \in Nat
        BY <1>1, <1>2, <2>2, AppendProperties
    <2> HIDE DEF u
    <2>4. /\ b \in Seq(Tokens) /\ Len(b) = Len(u) + Len(l) /\ Len(l) \in Nat
          /\ \A i \in 1 .. Len(u) : b[i] = u[i]
          /\ \A i \in 1 .. Len(l) : b[Len(u) + i] = l[i]
        <3>1. l \in Seq(Tokens) /\ u \in Seq(Tokens)
            BY <1>1, <2>3
        <3> QED
            BY <3>1, ConcatAt
    <2>5. /\ Len(B) = n + 1 /\ B[n + 1] = l /\ \A i \in 1 .. n : B[i] = A[i]
          /\ n \in Nat
        BY <1>1, AppendProperties
    <2>6. Lines(b) = B
        <3>1. B # <<>>
            <4>1. Len(<<>>) = 0
                OBVIOUS
            <4> HIDE DEF B
            <4> QED
                BY <2>5, <4>1
        <3>2. Lines(Join(B)) = B
            BY <1>2, <3>1, LinesOfJoin
        <3> HIDE DEF b, B
        <3> QED
            BY <1>2, <3>2
    <2> HIDE DEF b, B
    <2>7. \A i \in Len(c) + 1 .. Len(b) : b[i] \in Quiet
        <3> SUFFICES ASSUME NEW i \in Len(c) + 1 .. Len(b) PROVE b[i] \in Quiet
            OBVIOUS
        <3>1. CASE i = Len(c) + 1
            <4>1. i \in 1 .. Len(u)
                BY <2>3, <3>1
            <4> QED
                BY <1>1, <2>3, <2>4, <3>1, <4>1
        <3>2. CASE i # Len(c) + 1
            <4>0. Len(u) \in Nat /\ Len(u) = Len(c) + 1
                BY <2>3
            <4>1. i - Len(u) \in 1 .. Len(l) /\ i = Len(u) + (i - Len(u))
                BY <2>3, <2>4, <3>2, <4>0
            <4> DEFINE j == i - Len(u)
            <4>2. j \in 1 .. Len(l) /\ i = Len(u) + j
                BY <4>1
            <4> HIDE DEF j
            <4>3. l[j] \in Quiet
                BY <1>1, <4>2, ElementOfSeq
            <4> QED
                BY <2>4, <4>2, <4>3
        <3> QED
            BY <3>1, <3>2
    <2>8. FenceRun(l) = 0
        <3>1. l # <<>> => l[1] \in Quiet
            BY <1>1, ElementOfSeq, EmptySeq
        <3>2. l = <<>> \/ l[1] \notin Marks
            BY <3>1, QuietIsNoMark
        <3> QED
            BY <1>1, <3>2, FenceRunProperties
    <2>9. /\ Len(Lines(c)) <= Len(Lines(b))
          /\ \A k \in 1 .. Len(Lines(c)) : SameFence(Lines(c)[k], Lines(b)[k])
          /\ \A k \in Len(Lines(c)) + 1 .. Len(Lines(b)) : FenceRun(Lines(b)[k]) = 0
        <3>1. \A x : SameFence(x, x)
            BY DEF SameFence
        <3>2. \A k \in n + 1 .. n + 1 : k = n + 1
            BY <2>5
        <3> QED
            BY <2>1, <2>5, <2>6, <2>8, <3>1, <3>2
    <2>10. \A i \in 1 .. Len(c) : c[i] = b[i]
        <3>1. \A i \in 1 .. Len(c) : i \in 1 .. Len(u)
            BY <2>3
        <3> QED
            BY <2>3, <2>4, <3>1
    <2>11. Len(c) <= Len(b)
        BY <2>3, <2>4
    <2>12. \A k \in 1 .. Len(c) : k \in TagPositions(c) <=> k \in TagPositions(b)
        <3>1. \A i \in Len(c) + 1 .. Len(b) : b[i] # "tick"
            BY <1>1, <2>7
        <3> QED
            BY <1>2, <2>4, <2>9, <2>10, <2>11, <3>1, BeginningEmbeds
    <2>13. TagPositions(b) \subseteq 1 .. Len(c) /\ TagPositions(c) \subseteq 1 .. Len(c)
        <3>1. \A s \in Seq(Tokens) : \A i \in TagPositions(s) : i \in 1 .. Len(s) /\ s[i] \in TagTokens
            BY DEF TagPositions
        <3>2. \A i \in 1 .. Len(b) : i \in 1 .. Len(c) \/ i \in Len(c) + 1 .. Len(b)
            BY <2>3, <2>11
        <3> QED
            BY <1>1, <1>2, <2>4, <2>7, <3>1, <3>2
    <2>14. TagsOf(b) = TagsOf(c)
        BY <2>10, <2>12, <2>13 DEF TagsOf
    <2> QED
        BY <1>2, <2>14 DEF B, c
<1> QED
    BY <1>3, <1>4

\* Lines without tag and code, wherever they are, bring no tag and take none.
LEMMA LinesInserted ==
    ASSUME NEW A \in Seq(Line), NEW Y \in Seq(QuietLine), NEW Z \in Seq(Line)
    PROVE  /\ A \o Y \o Z \in Seq(Line)
           /\ TagsOf(Join(A \o Y \o Z)) = TagsOf(Join(A \o Z))
<1> DEFINE T == {y \in Seq(QuietLine) : /\ A \o y \in Seq(Line)
                                        /\ TagsOf(Join((A \o y) \o Z)) = TagsOf(Join(A \o Z))}
<1>1. <<>> \in T
    <2>1. A \o <<>> = A
        BY ConcatEmptySeq
    <2> QED
        BY <2>1
<1>2. ASSUME NEW y \in Seq(QuietLine), NEW l \in QuietLine, y \in T PROVE Append(y, l) \in T
    <2>1. l \in Line /\ l \in Seq(Quiet) /\ Append(y, l) \in Seq(QuietLine)
        BY QuietLineIs
    <2>2. y \in Seq(Line)
        BY QuietLineIs
    <2> DEFINE B == A \o y
    <2>3. B \in Seq(Line) /\ TagsOf(Join(B \o Z)) = TagsOf(Join(A \o Z))
        BY <1>2
    <2>4. A \o Append(y, l) = Append(B, l)
        BY <2>1, <2>2, ConcatLast
    <2> HIDE DEF B
    <2>5. Append(B, l) \in Seq(Line)
        BY <2>1, <2>3
    <2>6. TagsOf(Join(Append(B, l) \o Z)) = TagsOf(Join(B \o Z))
        <3>1. CASE Z = <<>>
            <4>1. Append(B, l) \o <<>> = Append(B, l) /\ B \o <<>> = B
                BY <2>3, <2>5, ConcatEmptySeq
            <4> QED
                BY <2>3, <3>1, <4>1, LineAtEnd
        <3>2. CASE Z # <<>>
            BY <2>1, <2>3, <3>2, LineInserted
        <3> QED
            BY <3>1, <3>2
    <2> QED
        BY <2>1, <2>3, <2>4, <2>5, <2>6
<1>3. Y \in T
    <2> HIDE DEF T
    <2>1. Seq(QuietLine) \subseteq T
        BY <1>1, <1>2, AllSequences
    <2> QED
        BY <2>1
<1>4. (A \o Y) \o Z \in Seq(Line)
    <2> DEFINE B == A \o Y
    <2>1. B \in Seq(Line)
        BY <1>3
    <2> HIDE DEF B
    <2> QED
        BY <2>1, ConcatProperties DEF B
<1> QED
    BY <1>3, <1>4

-----------------------------------------------------------------------------
(* Texts put together.                                                     *)

Cat(s, t) == s \o t

LEMMA CatAssociative ==
    ASSUME NEW X, NEW s \in Seq(X), NEW t \in Seq(X), NEW w \in Seq(X)
    PROVE  Cat(Cat(s, t), w) = Cat(s, Cat(t, w)) /\ Cat(s, t) \in Seq(X)
<1>1. s \o t \in Seq(X)
    OBVIOUS
<1>2. (s \o t) \o w = s \o (t \o w)
    OBVIOUS
<1> QED
    BY <1>1, <1>2 DEF Cat

LEMMA RegroupedAround ==
    ASSUME NEW X, NEW a \in Seq(X), NEW b \in Seq(X), NEW c \in Seq(X), NEW e \in Seq(X)
    PROVE  Cat(Cat(Cat(Cat(a, b), c), b), e) = Cat(Cat(a, b), Cat(Cat(c, b), e))
BY CatAssociative, SMT

LEMMA ConcatLastLine ==
    ASSUME NEW X, NEW P \in Seq(Seq(X)), NEW q \in Seq(Seq(X)), NEW x \in Seq(X)
    PROVE P \o Append(q, x) = Append(P \o q, x)
<1> DEFINE S == Seq(X)
<1>2. \A s, t \in Seq(S), z \in S : s \o Append(t, z) = Append(s \o t, z)
    <2> HIDE DEF S
    <2> QED
        BY ConcatLast
<1>3. P \in Seq(S) /\ q \in Seq(S) /\ x \in S
    OBVIOUS
<1> HIDE DEF S
<1> QED
    BY <1>2, <1>3
LEMMA JoinedConcat ==
    ASSUME NEW X, NEW sep \in X, NEW P \in Seq(Seq(X)), P # <<>>,
           NEW Q \in Seq(Seq(X)), Q # <<>>
    PROVE  Joined(P \o Q, sep) = Joined(P, sep) \o <<sep>> \o Joined(Q, sep)
<1> DEFINE Both(q) == IF q = <<>> THEN Joined(P, sep)
                      ELSE Joined(P, sep) \o <<sep>> \o Joined(q, sep)
           T == {q \in Seq(Seq(X)) : P \o q \in Seq(Seq(X)) /\ Joined(P \o q, sep) = Both(q)}
           p == Joined(P, sep)
           one == <<sep>>
<1>1. p \in Seq(X) /\ one \in Seq(X)
    BY JoinedType
<1>2. <<>> \in T
    <2>1. P \o <<>> = P
        BY ConcatEmptySeq
    <2> QED
        BY <2>1
<1>3. ASSUME NEW q \in Seq(Seq(X)), NEW x \in Seq(X), q \in T PROVE Append(q, x) \in T
    <2> DEFINE Pq == P \o q
               y == Joined(q, sep)
    <2>1. Pq \in Seq(Seq(X)) /\ Joined(Pq, sep) = Both(q) /\ Pq # <<>>
        <3>1. Len(Pq) = Len(P) + Len(q) /\ Len(P) \in Nat /\ Len(q) \in Nat
            BY ConcatProperties
        <3>2. Len(P) # 0
            BY EmptySeq
        <3>3. Len(<<>>) = 0
            OBVIOUS
        <3>4. Pq \in Seq(Seq(X)) /\ Joined(Pq, sep) = Both(q)
            BY <1>3
        <3> HIDE DEF Pq, Both
        <3> QED
            BY <3>1, <3>2, <3>3, <3>4
    <2>2. P \o Append(q, x) = Append(Pq, x)
        <3> HIDE <1>1, <1>2, <1>3, <2>1
        <3> QED
            OBVIOUS
    <2> HIDE DEF Pq
    <2>3. Append(Pq, x) \in Seq(Seq(X)) /\ Append(q, x) \in Seq(Seq(X)) /\ Append(q, x) # <<>>
        <3>1. Len(Append(q, x)) = Len(q) + 1 /\ Len(q) \in Nat
            BY AppendProperties
        <3>2. Len(<<>>) = 0
            OBVIOUS
        <3>0. Len(q) + 1 # 0
            BY <3>1
        <3>3. Append(q, x) # <<>>
            BY <3>0, <3>1, <3>2, Zenon
        <3>4. Append(Pq, x) \in Seq(Seq(X)) /\ Append(q, x) \in Seq(Seq(X))
            BY <2>1, AppendProperties
        <3> QED
            BY <3>3, <3>4
    <2>4. Joined(Append(Pq, x), sep) = Both(q) \o one \o x
        <3>1. Joined(Append(Pq, x), sep) = IF Pq = <<>> THEN x ELSE Joined(Pq, sep) \o <<sep>> \o x
            BY <2>1, JoinedAppend
        <3> HIDE DEF Both
        <3> QED
            BY <2>1, <3>1
    <2>5. Joined(Append(q, x), sep) = IF q = <<>> THEN x ELSE y \o one \o x
        BY JoinedAppend
    <2>6. Both(q) \o one \o x = p \o one \o Joined(Append(q, x), sep)
        <3>1. CASE q = <<>>
            BY <2>5, <3>1
        <3>2. CASE q # <<>>
            <4>1. y \in Seq(X)
                BY JoinedType
            <4>2. Both(q) = p \o one \o y /\ Joined(Append(q, x), sep) = y \o one \o x
                BY <2>5, <3>2
            <4> HIDE DEF Both, p, one, y
            <4>3. /\ Both(q) = Cat(Cat(p, one), y)
                  /\ Joined(Append(q, x), sep) = Cat(Cat(y, one), x)
                BY <4>2 DEF Cat
            <4>0. Cat(Cat(Cat(Cat(p, one), y), one), x) = Cat(Cat(p, one), Cat(Cat(y, one), x))
                BY <1>1, <4>1, RegroupedAround
            <4>4. Cat(Cat(Both(q), one), x) = Cat(Cat(p, one), Joined(Append(q, x), sep))
                BY <4>0, <4>3, Zenon
            <4> QED
                BY <4>4 DEF Cat
        <3> QED
            BY <3>1, <3>2
    <2>7. Both(Append(q, x)) = p \o one \o Joined(Append(q, x), sep)
        BY <2>3
    <2>8. Joined(P \o Append(q, x), sep) = Both(Append(q, x))
        <3> HIDE DEF Both, p, one
        <3> QED
            BY <2>2, <2>4, <2>6, <2>7
    <2> QED
        BY <2>2, <2>3, <2>8
<1>4. Q \in T
    <2> HIDE DEF T
    <2>1. Seq(Seq(X)) \subseteq T
        BY <1>2, <1>3, AllSequences
    <2> QED
        BY <2>1
<1> QED
    BY <1>4

LEMMA TwoParts ==
    ASSUME NEW X, NEW s \in Seq(X), NEW k \in 0 .. Len(s)
    PROVE  LET A == SubSeq(s, 1, k)
               Z == SubSeq(s, k + 1, Len(s))
           IN  /\ A \in Seq(X) /\ Z \in Seq(X) /\ Len(A) = k /\ Len(Z) = Len(s) - k
               /\ s = A \o Z
               /\ \A i \in 1 .. k : A[i] = s[i]
<1> DEFINE n == Len(s)
           A == SubSeq(s, 1, k)
           Z == SubSeq(s, k + 1, n)
           v == A \o Z
<1>1. n \in Nat /\ k \in Nat /\ k \in 0 .. n /\ \A i \in 1 .. n : s[i] \in X
    BY ElementOfSeq
<1>2. A \in Seq(X) /\ Len(A) = k /\ \A i \in 1 .. k : A[i] = s[i]
    <2>1. \A i \in 1 .. k : s[i] \in X
        BY <1>1
    <2> QED
        BY <1>1, <2>1, SubSeqProperties
<1>3. Z \in Seq(X) /\ Len(Z) = n - k /\ \A i \in 1 .. n - k : Z[i] = s[k + i]
    <2>1. \A i \in k + 1 .. n : s[i] \in X
        BY <1>1
    <2>2. /\ Z \in Seq(X)
          /\ Len(Z) = IF k + 1 <= n THEN n - (k + 1) + 1 ELSE 0
          /\ \A i \in 1 .. n - (k + 1) + 1 : Z[i] = s[k + 1 + i - 1]
        BY <1>1, <2>1, SubSeqProperties
    <2> HIDE DEF Z, n
    <2>3. n - (k + 1) + 1 = n - k
        BY <1>1
    <2>4. Len(Z) = n - k
        BY <1>1, <2>2
    <2>5. ASSUME NEW i \in 1 .. n - k PROVE Z[i] = s[k + i]
        <3>1. k + 1 + i - 1 = k + i
            BY <1>1
        <3> QED
            BY <2>2, <2>3, <3>1
    <2> QED
        BY <2>2, <2>4, <2>5
<1> HIDE DEF A, Z, n
<1>4. /\ v \in Seq(X) /\ Len(v) = Len(A) + Len(Z)
      /\ \A i \in 1 .. Len(A) : v[i] = A[i]
      /\ \A i \in 1 .. Len(Z) : v[Len(A) + i] = Z[i]
    <2>1. A \in Seq(X) /\ Z \in Seq(X)
        BY <1>2, <1>3
    <2> QED
        BY <2>1, ConcatAt
<1> HIDE DEF v
<1>5. Len(v) = n
    BY <1>1, <1>2, <1>3, <1>4
<1>6. ASSUME NEW i \in 1 .. n PROVE v[i] = s[i]
    <2>1. CASE i <= k
        <3>1. i \in 1 .. k
            BY <1>1, <2>1
        <3> QED
            BY <1>2, <1>4, <3>1
    <2>2. CASE ~(i <= k)
        <3> DEFINE j == i - k
        <3>1. j \in 1 .. n - k /\ i = k + j
            BY <1>1, <2>2
        <3> HIDE DEF j
        <3>2. v[k + j] = Z[j] /\ Z[j] = s[k + j]
            BY <1>2, <1>3, <1>4, <3>1
        <3> QED
            BY <3>1, <3>2
    <2> QED
        BY <2>1, <2>2
<1>7. v = s
    <2>1. Len(s) = n
        BY DEF n
    <2> QED
        BY <1>4, <1>5, <1>6, <2>1, SeqEqual
<1> QED
    BY <1>2, <1>3, <1>7 DEF A, Z, n, v

-----------------------------------------------------------------------------
(* Frontmatter and status.                                                 *)

Divider == <<"---">>
StatusLine(l) == l # <<>> /\ Head(l) = "status:"
Bland(l) == l # Divider /\ ~StatusLine(l)

LEMMA FrontIs ==
    ASSUME NEW ls \in Seq(Line), ls # <<>>
    PROVE  LET e == FrontmatterEnd(ls)
           IN  /\ e \in 0 .. Len(ls) /\ Len(ls) \in Nat \ {0}
               /\ e # 0 => /\ 1 < e /\ ls[1] = Divider /\ ls[e] = Divider
                           /\ \A j \in 1 .. Len(ls) : 1 < j /\ j < e => ls[j] # Divider
               /\ e = 0 => ls[1] # Divider \/ \A j \in 1 .. Len(ls) : 1 < j => ls[j] # Divider
<1> DEFINE n == Len(ls)
           ends == {j \in 2 .. n : ls[j] = Divider}
           e == FrontmatterEnd(ls)
<1>1. n \in Nat \ {0}
    BY EmptySeq
<1>2. e = IF ls[1] = Divider /\ ends # {} THEN Least(ends) ELSE 0
    BY DEF FrontmatterEnd, Divider
<1>3. ends \in SUBSET Nat
    BY <1>1
<1>4. CASE ls[1] = Divider /\ ends # {}
    <2>1. Least(ends) \in ends /\ \A m \in ends : Least(ends) <= m
        BY <1>3, <1>4, LeastProperties
    <2>2. e = Least(ends)
        BY <1>2, <1>4
    <2> HIDE DEF e
    <2>3. e \in 2 .. n /\ ls[e] = Divider
        BY <2>1, <2>2
    <2>4. ASSUME NEW j \in 1 .. n, 1 < j, j < e, ls[j] = Divider PROVE FALSE
        <3>1. j \in ends
            BY <1>1, <2>4
        <3>2. e <= j
            BY <2>1, <2>2, <3>1
        <3> QED
            BY <1>1, <2>3, <2>4, <3>2
    <2> QED
        BY <1>1, <1>4, <2>3, <2>4 DEF e
<1>5. CASE ~(ls[1] = Divider /\ ends # {})
    <2>1. e = 0
        BY <1>2, <1>5
    <2>2. ASSUME ends = {}, NEW j \in 1 .. n, 1 < j PROVE ls[j] # Divider
        BY <1>1, <2>2
    <2> QED
        BY <1>1, <1>5, <2>1, <2>2
<1> QED
    BY <1>4, <1>5

\* Two texts alike but for lines in the middle that are no part of a frontmatter.
Around(ls, ms, a, w, y, z) ==
    /\ Len(ls) = a + w + z /\ Len(ms) = a + y + z
    /\ \A i \in 1 .. a : ls[i] = ms[i]
    /\ \A i \in 1 .. z : ls[a + w + i] = ms[a + y + i]
    /\ \A i \in 1 .. w : Bland(ls[a + i])
    /\ \A i \in 1 .. y : Bland(ms[a + i])

\* No line after the middle is the first of either text.
Held(a, w, y, z) == a # 0 \/ z = 0 \/ (w # 0 /\ y # 0)

LEMMA AroundBack ==
    ASSUME NEW ls, NEW ms, NEW a, NEW w, NEW y, NEW z, Around(ls, ms, a, w, y, z)
    PROVE  Around(ms, ls, a, y, w, z)
BY DEF Around

\* What is not bland in one is in the other, before or after the middle.
LEMMA AroundAt ==
    ASSUME NEW a \in Nat, NEW w \in Nat, NEW y \in Nat, NEW z \in Nat,
           NEW ls, NEW ms, Around(ls, ms, a, w, y, z), NEW i \in 1 .. Len(ls), ~Bland(ls[i])
    PROVE  \/ i <= a /\ i \in 1 .. Len(ms) /\ ms[i] = ls[i]
           \/ /\ a + w < i /\ (i - w) + y \in 1 .. Len(ms)
              /\ a + y < (i - w) + y /\ ms[(i - w) + y] = ls[i]
<1>1. /\ Len(ls) = a + w + z /\ Len(ms) = a + y + z
      /\ \A k \in 1 .. a : ls[k] = ms[k]
      /\ \A k \in 1 .. z : ls[a + w + k] = ms[a + y + k]
      /\ \A k \in 1 .. w : Bland(ls[a + k])
    BY DEF Around
<1>2. i \in 1 .. a + w + z
    BY <1>1
<1>3. CASE i <= a
    <2>1. i \in 1 .. a /\ i \in 1 .. a + y + z
        BY <1>2, <1>3
    <2> QED
        BY <1>1, <1>3, <2>1
<1>4. CASE a < i /\ i <= a + w
    <2> DEFINE k == i - a
    <2>1. k \in 1 .. w /\ a + k = i
        BY <1>2, <1>4
    <2> HIDE DEF k
    <2>2. Bland(ls[a + k])
        BY <1>1, <2>1
    <2> QED
        BY <2>1, <2>2
<1>5. CASE a + w < i
    <2> DEFINE k == i - (a + w)
    <2>1. k \in 1 .. z /\ a + w + k = i /\ a + y + k = (i - w) + y
          /\ (i - w) + y \in 1 .. a + y + z /\ a + y < (i - w) + y
        BY <1>2, <1>5
    <2> HIDE DEF k
    <2>2. ls[a + w + k] = ms[a + y + k]
        BY <1>1, <2>1
    <2> QED
        BY <1>1, <1>5, <2>1, <2>2
<1> QED
    BY <1>2, <1>3, <1>4, <1>5

LEMMA FrontMovesTo ==
    ASSUME NEW a \in Nat, NEW w \in Nat, NEW y \in Nat, NEW z \in Nat,
           NEW ls \in Seq(Line), ls # <<>>, NEW ms \in Seq(Line), ms # <<>>,
           Around(ls, ms, a, w, y, z), Held(a, w, y, z), FrontmatterEnd(ls) # 0
    PROVE  LET e == FrontmatterEnd(ls)
               d == FrontmatterEnd(ms)
           IN  \/ e <= a /\ d = e
               \/ a + w < e /\ d = (e - w) + y
<1> DEFINE e == FrontmatterEnd(ls)
           d == FrontmatterEnd(ms)
           n == Len(ls)
           m == Len(ms)
<1>1. /\ e \in 1 .. n /\ n \in Nat /\ 1 < e /\ ls[1] = Divider /\ ls[e] = Divider
      /\ \A j \in 1 .. n : 1 < j /\ j < e => ls[j] # Divider
    BY FrontIs
<1>2. /\ d \in 0 .. m /\ m \in Nat \ {0}
      /\ d # 0 => /\ 1 < d /\ ms[1] = Divider /\ ms[d] = Divider
                  /\ \A j \in 1 .. m : 1 < j /\ j < d => ms[j] # Divider
      /\ d = 0 => ms[1] # Divider \/ \A j \in 1 .. m : 1 < j => ms[j] # Divider
    BY FrontIs
<1>3. n = a + w + z /\ m = a + y + z
    BY DEF Around
<1> HIDE DEF e, d, n, m
<1>4. \A l : l = Divider => ~Bland(l)
    BY DEF Bland
<1>5. \A i \in 1 .. n : ls[i] = Divider =>
          \/ i <= a /\ i \in 1 .. m /\ ms[i] = ls[i]
          \/ /\ a + w < i /\ (i - w) + y \in 1 .. m
             /\ a + y < (i - w) + y /\ ms[(i - w) + y] = ls[i]
    BY <1>4, AroundAt DEF n, m
<1>6. \A i \in 1 .. m : ms[i] = Divider =>
          \/ i <= a /\ i \in 1 .. n /\ ls[i] = ms[i]
          \/ /\ a + y < i /\ (i - y) + w \in 1 .. n
             /\ a + w < (i - y) + w /\ ls[(i - y) + w] = ms[i]
    BY <1>4, AroundAt, AroundBack DEF n, m
<1>7. a # 0
    <2>1. SUFFICES ASSUME a = 0 PROVE FALSE
        OBVIOUS
    <2>2. z = 0 \/ w # 0
        BY <2>1 DEF Held
    <2>3. 1 \in 1 .. n
        BY <1>1
    <2>4. 1 <= a \/ a + w < 1
        BY <1>1, <1>5, <2>3
    <2>5. 1 <= w
        BY <1>1, <1>3, <2>1, <2>2
    <2> QED
        BY <2>1, <2>4, <2>5
<1>8. ms[1] = Divider
    <2>1. 1 \in 1 .. n
        BY <1>1
    <2> QED
        BY <1>1, <1>3, <1>5, <1>7, <2>1
<1>9. PICK k \in 1 .. m : /\ ms[k] = Divider /\ 1 < k
                          /\ \/ e <= a /\ k = e
                             \/ a + w < e /\ k = (e - w) + y
    <2>1. CASE e <= a /\ e \in 1 .. m /\ ms[e] = ls[e]
        BY <1>1, <2>1
    <2>2. CASE /\ a + w < e /\ (e - w) + y \in 1 .. m
               /\ a + y < (e - w) + y /\ ms[(e - w) + y] = ls[e]
        <3> DEFINE q == (e - w) + y
        <3>1. q \in 1 .. m /\ ms[q] = Divider
            BY <1>1, <2>2
        <3>2. 1 < q
            BY <1>1, <1>7, <2>2
        <3>3. q = (e - w) + y
            OBVIOUS
        <3> HIDE DEF q
        <3> QED
            BY <2>2, <3>1, <3>2, <3>3
    <2> QED
        BY <1>1, <1>5, <2>1, <2>2
<1>10. d # 0
    BY <1>2, <1>8, <1>9
<1>11. ~(k < d)
    BY <1>2, <1>9, <1>10
<1>12. ~(d < k)
    <2>1. SUFFICES ASSUME d < k PROVE FALSE
        OBVIOUS
    <2>2. d \in 1 .. m /\ ms[d] = Divider /\ 1 < d
        BY <1>2, <1>10
    <2>3. CASE d <= a /\ d \in 1 .. n /\ ls[d] = ms[d]
        <3>1. d < e
            BY <1>1, <1>9, <2>1, <2>2, <2>3
        <3> QED
            BY <1>1, <2>2, <2>3, <3>1
    <2>4. CASE /\ a + y < d /\ (d - y) + w \in 1 .. n
               /\ a + w < (d - y) + w /\ ls[(d - y) + w] = ms[d]
        <3> DEFINE q == (d - y) + w
        <3>1. q < e /\ 1 < q
            BY <1>1, <1>7, <1>9, <2>1, <2>2, <2>4
        <3>2. q \in 1 .. n /\ ls[q] = Divider
            BY <2>2, <2>4
        <3> HIDE DEF q
        <3> QED
            BY <1>1, <3>1, <3>2
    <2> QED
        BY <1>6, <2>2, <2>3, <2>4
<1>13. d = k
    BY <1>2, <1>11, <1>12
<1> QED
    BY <1>9, <1>13 DEF e, d

\* The end of the frontmatter stays where it is, or goes with the lines after the middle.
LEMMA FrontMoves ==
    ASSUME NEW a \in Nat, NEW w \in Nat, NEW y \in Nat, NEW z \in Nat,
           NEW ls \in Seq(Line), ls # <<>>, NEW ms \in Seq(Line), ms # <<>>,
           Around(ls, ms, a, w, y, z), Held(a, w, y, z)
    PROVE  LET e == FrontmatterEnd(ls)
               d == FrontmatterEnd(ms)
           IN  \/ e <= a /\ d = e
               \/ a + w < e /\ d = (e - w) + y
<1> DEFINE e == FrontmatterEnd(ls)
           d == FrontmatterEnd(ms)
<1>1. e \in Nat /\ d \in Nat
    BY FrontIs
<1>2. e # 0 => \/ e <= a /\ d = e
               \/ a + w < e /\ d = (e - w) + y
    BY FrontMovesTo
<1>3. d # 0 => \/ d <= a /\ e = d
               \/ a + y < d /\ e = (d - y) + w
    <2>1. Held(a, y, w, z)
        BY DEF Held
    <2> QED
        BY <2>1, AroundBack, FrontMovesTo
<1> HIDE DEF e, d
<1>4. CASE e = 0
    <2>1. d = 0
        BY <1>1, <1>3, <1>4
    <2> QED
        BY <1>4, <2>1 DEF e, d
<1> QED
    BY <1>2, <1>4 DEF e, d

\* Line i is the last of a frontmatter that ends at e to set a status.
SetsStatus(ls, e, i) ==
    /\ i \in 1 .. Len(ls) /\ 1 < i /\ i < e /\ StatusLine(ls[i])
    /\ \A j \in 1 .. Len(ls) : i < j /\ j < e => ~StatusLine(ls[j])

LEMMA StatusIs ==
    ASSUME NEW b \in Seq(Tokens)
    PROVE  LET ls == Lines(b)
               e == FrontmatterEnd(ls)
           IN  \/ /\ Status(b) = <<"none">>
                  /\ \A i \in 1 .. Len(ls) : 1 < i /\ i < e => ~StatusLine(ls[i])
               \/ \E i : SetsStatus(ls, e, i) /\ Status(b) = Trim(Tail(ls[i]))
<1> DEFINE ls == Lines(b)
           e == FrontmatterEnd(ls)
           front == SubSeq(ls, 2, e - 1)
           set == {j \in DOMAIN front : front[j] # <<>> /\ Head(front[j]) = "status:"}
           pick == CHOOSE j \in set : \A k \in set : k <= j
           n == Len(ls)
<1>1. ls \in Seq(Line) /\ ls # <<>> /\ n \in Nat \ {0}
    BY LinesType
<1>2. e \in 0 .. n /\ (e # 0 => 1 < e)
    BY <1>1, FrontIs
<1>3. Status(b) = IF set = {} THEN <<"none">> ELSE Trim(Tail(front[pick]))
    BY DEF Status
<1> HIDE DEF ls, n
<1>4. n = Len(ls)
    BY DEF n
<1> HIDE DEF e
<1>5. \A i \in 1 .. n : ls[i] \in Line
    BY <1>1, <1>4, ElementOfSeq
<1>6. /\ front \in Seq(Line) /\ Len(front) = IF 2 <= e - 1 THEN e - 2 ELSE 0
      /\ \A j \in 1 .. e - 2 : front[j] = ls[j + 1]
    <2>1. \A i \in 2 .. e - 1 : ls[i] \in Line
        BY <1>1, <1>2, <1>5
    <2>2. /\ front \in Seq(Line)
          /\ Len(front) = IF 2 <= e - 1 THEN e - 1 - 2 + 1 ELSE 0
          /\ \A j \in 1 .. e - 1 - 2 + 1 : front[j] = ls[2 + j - 1]
        BY <1>2, <2>1, SubSeqProperties
    <2> HIDE DEF front
    <2>3. e - 1 - 2 + 1 = e - 2 /\ \A j \in 1 .. e - 2 : 2 + j - 1 = j + 1
        BY <1>2
    <2> QED
        BY <1>2, <2>2, <2>3
<1> HIDE DEF front
<1>7. DOMAIN front = 1 .. Len(front) /\ Len(front) \in Nat
    BY <1>6
<1>8. \A j \in Nat : j \in set <=> j \in 1 .. e - 2 /\ StatusLine(ls[j + 1])
    <2>1. SUFFICES ASSUME NEW j \in Nat
                   PROVE  j \in set <=> j \in 1 .. e - 2 /\ StatusLine(ls[j + 1])
        OBVIOUS
    <2>2. j \in DOMAIN front <=> j \in 1 .. e - 2
        BY <1>2, <1>6, <1>7
    <2> QED
        BY <1>6, <2>2 DEF StatusLine
<1>9. set \subseteq 0 .. Len(front)
    BY <1>7
<1> HIDE DEF set
<1>10. CASE set = {}
    <2>1. ASSUME NEW i \in 1 .. n, 1 < i, i < e, StatusLine(ls[i]) PROVE FALSE
        <3> DEFINE j == i - 1
        <3>1. j \in Nat /\ j \in 1 .. e - 2 /\ j + 1 = i
            BY <1>1, <1>2, <2>1
        <3> HIDE DEF j
        <3> QED
            BY <1>8, <1>10, <2>1, <3>1
    <2> QED
        BY <1>3, <1>4, <1>10, <2>1 DEF ls, e
<1>11. CASE set # {}
    <2>1. \E k \in set : \A j \in set : j <= k
        BY <1>7, <1>9, <1>11, Greatest
    <2>2. pick \in set /\ \A k \in set : k <= pick
        BY <2>1
    <2>3. Status(b) = Trim(Tail(front[pick]))
        BY <1>3, <1>11
    <2> HIDE DEF pick
    <2>4. pick \in Nat
        BY <1>7, <1>9, <2>2
    <2>5. pick \in 1 .. e - 2 /\ StatusLine(ls[pick + 1])
        BY <1>8, <2>2, <2>4
    <2> DEFINE i == pick + 1
    <2>6. i \in 1 .. n /\ 1 < i /\ i < e
        BY <1>1, <1>2, <2>4, <2>5
    <2>7. ASSUME NEW j \in 1 .. n, i < j, j < e, StatusLine(ls[j]) PROVE FALSE
        <3> DEFINE k == j - 1
        <3>1. k \in Nat /\ k \in 1 .. e - 2 /\ k + 1 = j /\ pick < k
            BY <1>1, <1>2, <2>4, <2>7
        <3> HIDE DEF k
        <3>2. k \in set
            BY <1>8, <2>7, <3>1
        <3> QED
            BY <2>2, <2>4, <3>1, <3>2
    <2>8. SetsStatus(ls, e, i)
        BY <1>4, <2>5, <2>6, <2>7 DEF SetsStatus
    <2>9. Status(b) = Trim(Tail(ls[i]))
        BY <1>6, <2>3, <2>5
    <2> QED
        BY <2>8, <2>9 DEF ls, e
<1> QED
    BY <1>10, <1>11

LEMMA SetsStatusOnce ==
    ASSUME NEW ls \in Seq(Line), NEW e \in Nat, NEW i, NEW k,
           SetsStatus(ls, e, i), SetsStatus(ls, e, k)
    PROVE  i = k
BY DEF SetsStatus

LEMMA StatusMoves ==
    ASSUME NEW a \in Nat, NEW w \in Nat, NEW y \in Nat, NEW z \in Nat,
           NEW b \in Seq(Tokens), NEW c \in Seq(Tokens),
           Around(Lines(b), Lines(c), a, w, y, z), Held(a, w, y, z)
    PROVE  Status(c) = Status(b)
<1> DEFINE ls == Lines(b)
           ms == Lines(c)
           e == FrontmatterEnd(ls)
           d == FrontmatterEnd(ms)
           n == Len(ls)
           m == Len(ms)
<1>1. /\ ls \in Seq(Line) /\ ls # <<>> /\ n \in Nat \ {0}
      /\ ms \in Seq(Line) /\ ms # <<>> /\ m \in Nat \ {0}
    BY LinesType
<1>2. e \in 0 .. n /\ d \in 0 .. m
    BY <1>1, FrontIs
<1>3. \/ e <= a /\ d = e
      \/ a + w < e /\ d = (e - w) + y
    BY <1>1, FrontMoves
<1>4. \/ /\ Status(b) = <<"none">>
         /\ \A i \in 1 .. n : 1 < i /\ i < e => ~StatusLine(ls[i])
      \/ \E i : SetsStatus(ls, e, i) /\ Status(b) = Trim(Tail(ls[i]))
    BY StatusIs
<1>5. \/ /\ Status(c) = <<"none">>
         /\ \A i \in 1 .. m : 1 < i /\ i < d => ~StatusLine(ms[i])
      \/ \E i : SetsStatus(ms, d, i) /\ Status(c) = Trim(Tail(ms[i]))
    BY StatusIs
<1>a. n = a + w + z /\ m = a + y + z
    BY DEF Around
<1> HIDE DEF e, d
<1>6. \A l : StatusLine(l) => ~Bland(l)
    BY DEF Bland
<1>7. \A i \in 1 .. n : StatusLine(ls[i]) =>
          \/ i <= a /\ i \in 1 .. m /\ ms[i] = ls[i]
          \/ /\ a + w < i /\ (i - w) + y \in 1 .. m
             /\ a + y < (i - w) + y /\ ms[(i - w) + y] = ls[i]
    BY <1>6, AroundAt
<1>8. \A i \in 1 .. m : StatusLine(ms[i]) =>
          \/ i <= a /\ i \in 1 .. n /\ ls[i] = ms[i]
          \/ /\ a + y < i /\ (i - y) + w \in 1 .. n
             /\ a + w < (i - y) + w /\ ls[(i - y) + w] = ms[i]
    BY <1>6, AroundAt, AroundBack
<1> HIDE DEF ls, ms, n, m
<1>9. CASE \A i \in 1 .. n : 1 < i /\ i < e => ~StatusLine(ls[i])
    <2>1. ASSUME NEW j \in 1 .. m, 1 < j, j < d, StatusLine(ms[j]) PROVE FALSE
        <3>1. CASE j <= a /\ j \in 1 .. n /\ ls[j] = ms[j]
            <4>1. j < e
                BY <1>1, <1>2, <1>3, <2>1, <3>1
            <4> QED
                BY <1>9, <2>1, <3>1, <4>1
        <3>2. CASE /\ a + y < j /\ (j - y) + w \in 1 .. n
                   /\ a + w < (j - y) + w /\ ls[(j - y) + w] = ms[j]
            <4> DEFINE q == (j - y) + w
            <4>1. a # 0 \/ w # 0
                <5>1. SUFFICES ASSUME a = 0, w = 0 PROVE FALSE
                    OBVIOUS
                <5>2. z = 0
                    BY <5>1 DEF Held
                <5>3. m = y
                    BY <1>a, <5>1, <5>2
                <5> QED
                    BY <1>1, <2>1, <3>2, <5>1, <5>3
            <4>2. 1 < q /\ q < e
                BY <1>1, <1>2, <1>3, <2>1, <3>2, <4>1
            <4>3. q \in 1 .. n /\ StatusLine(ls[q])
                BY <2>1, <3>2
            <4> HIDE DEF q
            <4> QED
                BY <1>9, <4>2, <4>3
        <3> QED
            BY <1>8, <2>1, <3>1, <3>2
    <2>2. ~\E i : SetsStatus(ms, d, i)
        BY <2>1 DEF SetsStatus, m
    <2>3. ~\E i : SetsStatus(ls, e, i)
        BY <1>9 DEF SetsStatus, n
    <2> QED
        BY <1>4, <1>5, <2>2, <2>3
<1>10. CASE \E i : SetsStatus(ls, e, i) /\ Status(b) = Trim(Tail(ls[i]))
    <2>1. PICK i : SetsStatus(ls, e, i) /\ Status(b) = Trim(Tail(ls[i]))
        BY <1>10
    <2>2. /\ i \in 1 .. n /\ 1 < i /\ i < e /\ StatusLine(ls[i])
          /\ \A j \in 1 .. n : i < j /\ j < e => ~StatusLine(ls[j])
        BY <2>1 DEF SetsStatus, n
    <2>3. PICK k \in 1 .. m : /\ ms[k] = ls[i] /\ 1 < k /\ k < d
                              /\ \/ i <= a /\ k = i
                                 \/ a + w < i /\ k = (i - w) + y
        <3>1. CASE i <= a /\ i \in 1 .. m /\ ms[i] = ls[i]
            <4>1. i < d
                BY <1>1, <1>2, <1>3, <2>2, <3>1
            <4> QED
                BY <2>2, <3>1, <4>1
        <3>2. CASE /\ a + w < i /\ (i - w) + y \in 1 .. m
                   /\ a + y < (i - w) + y /\ ms[(i - w) + y] = ls[i]
            <4> DEFINE q == (i - w) + y
            <4>0. a # 0 \/ y # 0
                <5>1. SUFFICES ASSUME a = 0, y = 0 PROVE FALSE
                    OBVIOUS
                <5>2. z = 0
                    BY <5>1 DEF Held
                <5>3. n = w
                    BY <1>a, <5>1, <5>2
                <5> QED
                    BY <1>1, <2>2, <3>2, <5>1, <5>3
            <4>1. 1 < q /\ q < d
                BY <1>1, <1>2, <1>3, <2>2, <3>2, <4>0
            <4>2. q \in 1 .. m /\ ms[q] = ls[i] /\ q = (i - w) + y
                BY <3>2
            <4> HIDE DEF q
            <4> QED
                BY <3>2, <4>1, <4>2
        <3> QED
            BY <1>7, <2>2, <3>1, <3>2
    <2>4. ASSUME NEW j \in 1 .. m, k < j, j < d, StatusLine(ms[j]) PROVE FALSE
        <3>1. CASE j <= a /\ j \in 1 .. n /\ ls[j] = ms[j]
            <4>1. i < j /\ j < e
                BY <1>1, <1>2, <1>3, <2>2, <2>3, <2>4, <3>1
            <4> QED
                BY <2>2, <2>4, <3>1, <4>1
        <3>2. CASE /\ a + y < j /\ (j - y) + w \in 1 .. n
                   /\ a + w < (j - y) + w /\ ls[(j - y) + w] = ms[j]
            <4> DEFINE q == (j - y) + w
            <4>1. i < q /\ q < e
                BY <1>1, <1>2, <1>3, <2>2, <2>3, <2>4, <3>2
            <4>2. q \in 1 .. n /\ StatusLine(ls[q])
                BY <2>4, <3>2
            <4> HIDE DEF q
            <4> QED
                BY <2>2, <4>1, <4>2
        <3> QED
            BY <1>8, <2>4, <3>1, <3>2
    <2>5. SetsStatus(ms, d, k)
        BY <2>2, <2>3, <2>4 DEF SetsStatus, m
    <2>6. \E j : SetsStatus(ms, d, j) /\ Status(c) = Trim(Tail(ms[j]))
        BY <1>5, <2>5 DEF SetsStatus, m
    <2>7. Status(c) = Trim(Tail(ms[k]))
        <3>1. PICK j : SetsStatus(ms, d, j) /\ Status(c) = Trim(Tail(ms[j]))
            BY <2>6
        <3>2. d \in Nat
            BY <1>1, <1>2
        <3>3. j = k
            BY <1>1, <2>5, <3>1, <3>2, SetsStatusOnce
        <3> QED
            BY <3>1, <3>3
    <2> QED
        BY <2>1, <2>3, <2>7
<1> QED
    BY <1>4, <1>9, <1>10

-----------------------------------------------------------------------------
(* The title, and lines that bring nothing.                                *)

\* What a title line gives.
Titled(l) ==
    LET line == Trim(l)
    IN  IF Len(line) > 1 /\ line[1] = "h" /\ line[2] = "sp"
        THEN Trim(SubSeq(line, 3, Len(line)))
        ELSE line

FirstUsable(S, i) ==
    /\ i \in 1 .. Len(S) /\ Usable(S[i])
    /\ \A j \in 1 .. Len(S) : j < i => ~Usable(S[j])

LEMMA TitleIs ==
    ASSUME NEW S \in Seq(Line)
    PROVE  \/ /\ Title(Join(S)) = <<>>
              /\ \A i \in 1 .. Len(S) : ~Usable(S[i])
           \/ \E i : FirstUsable(S, i) /\ Title(Join(S)) = Titled(S[i])
<1> DEFINE b == Join(S)
           ls == Lines(b)
           usable == {n \in DOMAIN ls : Usable(ls[n])}
           i == Least(usable)
<1>1. ls \in Seq(Line) /\ Len(ls) \in Nat /\ DOMAIN ls = 1 .. Len(ls)
    BY JoinIsText, LinesType
<1>2. Title(b) = IF usable = {} THEN <<>> ELSE Titled(ls[i])
    BY DEF Title, Titled
<1>3. CASE S = <<>>
    <2>1. b = <<>>
        BY <1>3, JoinOfNothing
    <2>2. ls = <<<<>>>>
        <3>1. <<>> \in Line
            BY DEF Line
        <3> QED
            BY <2>1, <3>1, LinesOfLine
    <2>3. usable = {}
        <3>1. \A n \in DOMAIN ls : ls[n] = <<>>
            BY <2>2
        <3> QED
            BY <3>1 DEF Usable
    <2> QED
        BY <1>2, <1>3, <2>3
<1>4. CASE S # <<>>
    <2>1. ls = S
        BY <1>4, LinesOfJoin
    <2> HIDE DEF b, ls
    <2>2. CASE usable = {}
        <3>1. Title(b) = <<>>
            BY <1>2, <2>2
        <3>2. \A n \in 1 .. Len(S) : ~Usable(S[n])
            BY <1>1, <2>1, <2>2
        <3> QED
            BY <3>1, <3>2 DEF b
    <2>3. CASE usable # {}
        <3>1. usable \in SUBSET Nat
            BY <1>1
        <3>2. i \in usable /\ \A m \in usable : i <= m
            BY <2>3, <3>1, LeastProperties
        <3> DEFINE k == i
        <3>5. k \in 1 .. Len(S) /\ Usable(S[k])
            BY <1>1, <2>1, <3>2
        <3>6. ASSUME NEW j \in 1 .. Len(S), j < k, Usable(S[j]) PROVE FALSE
            <4>1. j \in usable
                BY <1>1, <2>1, <3>6
            <4>2. k <= j
                BY <3>2, <4>1
            <4> HIDE DEF k
            <4> QED
                BY <1>1, <2>1, <3>5, <3>6, <4>2
        <3>3. FirstUsable(S, k)
            <4> HIDE DEF k
            <4> QED
                BY <3>5, <3>6 DEF FirstUsable
        <3>4. Title(b) = Titled(S[i])
            BY <1>2, <2>1, <2>3
        <3> QED
            BY <3>3, <3>4 DEF b
    <2> QED
        BY <2>2, <2>3
<1> QED
    BY <1>3, <1>4

LEMMA DropFront ==
    ASSUME NEW X, NEW s \in Seq(X), NEW t \in Seq(X)
    PROVE  SubSeq(s \o t, Len(s) + 1, Len(s \o t)) = t
<1> DEFINE v == s \o t
           m == Len(s)
           n == Len(t)
           q == SubSeq(v, m + 1, m + n)
<1>1. /\ v \in Seq(X) /\ m \in Nat /\ n \in Nat /\ Len(v) = m + n
      /\ \A i \in 1 .. n : v[m + i] = t[i]
    BY ConcatAt
<1> HIDE DEF v
<1>2. \A i \in m + 1 .. m + n : v[i] \in X
    BY <1>1, ElementOfSeq
<1>3. /\ q \in Seq(X) /\ Len(q) = IF m + 1 <= m + n THEN m + n - (m + 1) + 1 ELSE 0
      /\ \A i \in 1 .. m + n - (m + 1) + 1 : q[i] = v[m + 1 + i - 1]
    BY <1>1, <1>2, SubSeqProperties
<1> HIDE DEF q
<1>4. Len(q) = n
    BY <1>1, <1>3
<1>5. ASSUME NEW i \in 1 .. n PROVE q[i] = t[i]
    <2>1. i \in 1 .. m + n - (m + 1) + 1 /\ m + 1 + i - 1 = m + i
        BY <1>1
    <2>2. q[i] = v[m + 1 + i - 1]
        BY <1>3, <2>1
    <2>3. q[i] = v[m + i]
        BY <2>1, <2>2
    <2> QED
        BY <1>1, <2>3
<1>6. q = t
    <2>1. n = Len(t)
        OBVIOUS
    <2> QED
        BY <1>3, <1>4, <1>5, <2>1, SeqEqual
<1> QED
    BY <1>1, <1>6 DEF q, v

\* Lines put between A and Z.
Put(A, Y, Z) == Cat(Cat(A, Y), Z)

LEMMA PutProperties ==
    ASSUME NEW A \in Seq(Line), NEW Y \in Seq(Line), NEW Z \in Seq(Line)
    PROVE  /\ Put(A, Y, Z) \in Seq(Line)
           /\ Len(A) \in Nat /\ Len(Y) \in Nat /\ Len(Z) \in Nat
           /\ Len(Put(A, Y, Z)) = Len(A) + Len(Y) + Len(Z)
           /\ \A i \in 1 .. Len(A) : Put(A, Y, Z)[i] = A[i]
           /\ \A i \in 1 .. Len(Y) : Put(A, Y, Z)[Len(A) + i] = Y[i]
           /\ \A i \in 1 .. Len(Z) : Put(A, Y, Z)[Len(A) + Len(Y) + i] = Z[i]
<1> DEFINE u == A \o Y
           v == u \o Z
           a == Len(A)
           y == Len(Y)
           z == Len(Z)
<1>1. /\ u \in Seq(Line) /\ a \in Nat /\ y \in Nat /\ Len(u) = a + y
      /\ \A i \in 1 .. a : u[i] = A[i]
      /\ \A i \in 1 .. y : u[a + i] = Y[i]
    BY ConcatAt
<1> HIDE DEF u
<1>2. /\ v \in Seq(Line) /\ z \in Nat /\ Len(v) = Len(u) + z
      /\ \A i \in 1 .. Len(u) : v[i] = u[i]
      /\ \A i \in 1 .. z : v[Len(u) + i] = Z[i]
    <2>1. u \in Seq(Line)
        BY <1>1
    <2> QED
        BY <2>1, ConcatAt
<1> HIDE DEF v
<1>3. Put(A, Y, Z) = v
    BY DEF Put, Cat, v, u
<1> HIDE DEF a, y, z
<1>4. \A i \in 1 .. a : v[i] = A[i]
    BY <1>1, <1>2
<1>5. ASSUME NEW i \in 1 .. y PROVE v[a + i] = Y[i]
    <2>1. a + i \in 1 .. Len(u)
        BY <1>1
    <2> QED
        BY <1>1, <1>2, <2>1
<1> QED
    BY <1>1, <1>2, <1>3, <1>4, <1>5 DEF a, y, z

\* Text that brings no tag, no code and no frontmatter.
Fresh == Quiet \ {"---", "status:"}
FreshLine == Seq(Fresh \ {"nl"})

LEMMA FreshIsBland ==
    ASSUME NEW l \in FreshLine
    PROVE  l \in QuietLine /\ l \in Line /\ Bland(l)
<1>1. l \in Seq(Fresh \ {"nl"})
    BY DEF FreshLine
<1>2. l \in QuietLine
    BY <1>1 DEF QuietLine, Fresh
<1>3. l # <<>> => l[1] \in Fresh /\ Head(l) = l[1]
    <2>1. \A i \in 1 .. Len(l) : l[i] \in Fresh
        BY <1>1, ElementOfSeq
    <2>2. l # <<>> => Len(l) \in Nat /\ Len(l) # 0
        BY <1>1, EmptySeq
    <2> QED
        BY <1>1, <2>1, <2>2
<1>4. ~StatusLine(l)
    BY <1>3 DEF StatusLine, Fresh
<1>5. l # Divider
    <2>1. Divider # <<>> /\ Divider[1] = "---"
        BY DEF Divider
    <2> QED
        BY <1>3, <2>1 DEF Fresh
<1> QED
    BY <1>2, <1>4, <1>5, QuietLineIs DEF Bland

LEMMA FreshLines ==
    ASSUME NEW Y \in Seq(FreshLine)
    PROVE  /\ Y \in Seq(Line) /\ Y \in Seq(QuietLine)
           /\ \A i \in 1 .. Len(Y) : Bland(Y[i])
<1>1. \A l \in FreshLine : l \in QuietLine /\ l \in Line /\ Bland(l)
    BY FreshIsBland
<1>2. Y \in Seq(Line) /\ Y \in Seq(QuietLine)
    BY <1>1
<1>3. \A i \in 1 .. Len(Y) : Y[i] \in FreshLine
    BY ElementOfSeq
<1> QED
    BY <1>1, <1>2, <1>3

LEMMA AroundPut ==
    ASSUME NEW A \in Seq(Line), NEW Z \in Seq(Line),
           NEW W \in Seq(FreshLine), NEW Y \in Seq(FreshLine)
    PROVE  Around(Put(A, W, Z), Put(A, Y, Z), Len(A), Len(W), Len(Y), Len(Z))
<1> DEFINE ls == Put(A, W, Z)
           ms == Put(A, Y, Z)
           a == Len(A)
           w == Len(W)
           y == Len(Y)
           z == Len(Z)
<1>1. /\ W \in Seq(Line) /\ \A i \in 1 .. w : Bland(W[i])
      /\ Y \in Seq(Line) /\ \A i \in 1 .. y : Bland(Y[i])
    BY FreshLines
<1>2. /\ a \in Nat /\ w \in Nat /\ z \in Nat
      /\ Len(ls) = a + w + z
      /\ \A i \in 1 .. a : ls[i] = A[i]
      /\ \A i \in 1 .. w : ls[a + i] = W[i]
      /\ \A i \in 1 .. z : ls[a + w + i] = Z[i]
    <2>1. W \in Seq(Line)
        BY <1>1
    <2> QED
        BY <2>1, PutProperties
<1>3. /\ y \in Nat
      /\ Len(ms) = a + y + z
      /\ \A i \in 1 .. a : ms[i] = A[i]
      /\ \A i \in 1 .. y : ms[a + i] = Y[i]
      /\ \A i \in 1 .. z : ms[a + y + i] = Z[i]
    <2>1. Y \in Seq(Line)
        BY <1>1
    <2> QED
        BY <2>1, PutProperties
<1> HIDE DEF ls, ms, a, w, y, z
<1>4. Around(ls, ms, a, w, y, z)
    BY <1>1, <1>2, <1>3 DEF Around
<1> QED
    BY <1>4 DEF ls, ms, a, w, y, z

\* What comes after the first e lines.
Past(S, e) == SubSeq(S, e + 1, Len(S))

LEMMA RestOfPut ==
    ASSUME NEW b \in Seq(Tokens), NEW A \in Seq(Line), NEW Y \in Seq(Line), NEW Z \in Seq(Line),
           Lines(b) = Put(A, Y, Z)
    PROVE  LET e == FrontmatterEnd(Lines(b))
               j == e - (Len(A) + Len(Y))
           IN  /\ e <= Len(A) => /\ Rest(b) = Join(Put(Past(A, e), Y, Z))
                                 /\ Past(A, e) \in Seq(Line) /\ Len(Past(A, e)) = Len(A) - e
                                 /\ \A i \in 1 .. Len(A) - e : Past(A, e)[i] = A[e + i]
               /\ Len(A) + Len(Y) < e => Rest(b) = Join(Past(Z, j))
<1> DEFINE ls == Lines(b)
           e == FrontmatterEnd(ls)
           j == e - (Len(A) + Len(Y))
           a == Len(A)
           y == Len(Y)
           z == Len(Z)
<1>1. ls \in Seq(Line) /\ e \in 0 .. Len(ls)
    BY LinesType, FrontIs
<1>2. a \in Nat /\ y \in Nat /\ z \in Nat /\ Len(ls) = a + y + z
    BY PutProperties
<1>3. Rest(b) = Join(Past(ls, e))
    BY DEF Rest, Past
<1>0. ls = Put(A, Y, Z)
    OBVIOUS
<1> HIDE DEF ls, e
<1>4. CASE e <= a
    <2> DEFINE P == SubSeq(A, 1, e)
               Q == SubSeq(A, e + 1, Len(A))
    <2>1. e \in 0 .. Len(A)
        BY <1>1, <1>2, <1>4
    <2>2. P \in Seq(Line) /\ Q \in Seq(Line) /\ Len(P) = e /\ A = P \o Q /\ Len(Q) = a - e
        BY <2>1, TwoParts
    <2> HIDE DEF P, Q
    <2>3. Put(A, Y, Z) = Cat(P, Put(Q, Y, Z)) /\ Put(Q, Y, Z) \in Seq(Line)
        <3>1. P \in Seq(Line) /\ Q \in Seq(Line)
            BY <2>2
        <3>2. A = Cat(P, Q)
            BY <2>2 DEF Cat
        <3>3. /\ Cat(Cat(P, Q), Y) = Cat(P, Cat(Q, Y)) /\ Cat(Q, Y) \in Seq(Line)
            BY <3>1, CatAssociative
        <3>4. /\ Cat(Cat(P, Cat(Q, Y)), Z) = Cat(P, Cat(Cat(Q, Y), Z))
              /\ Cat(Cat(Q, Y), Z) \in Seq(Line)
            BY <3>1, <3>3, CatAssociative
        <3> QED
            BY <3>2, <3>3, <3>4 DEF Put
    <2> DEFINE S == Put(Q, Y, Z)
    <2>4. ls = P \o S /\ S \in Seq(Line)
        BY <1>0, <2>3 DEF Cat
    <2> HIDE DEF S
    <2>5. SubSeq(P \o S, Len(P) + 1, Len(P \o S)) = S
        BY <2>2, <2>4, DropFront
    <2>6. Past(ls, e) = S
        BY <2>2, <2>4, <2>5 DEF Past
    <2>7. Q = Past(A, e)
        BY DEF Past, Q
    <2>8. \A i \in 1 .. a - e : Q[i] = A[e + i]
        <3>1. /\ P \o Q \in Seq(Line)
              /\ \A i \in 1 .. Len(Q) : (P \o Q)[Len(P) + i] = Q[i]
            <4>1. P \in Seq(Line) /\ Q \in Seq(Line)
                BY <2>2
            <4> QED
                BY <4>1, ConcatAt
        <3> QED
            BY <2>2, <3>1
    <2>9. Rest(b) = Join(Put(Q, Y, Z))
        BY <1>3, <2>6 DEF S
    <2>10. ~(a + y < e)
        BY <1>1, <1>2, <1>4
    <2> QED
        BY <2>2, <2>7, <2>8, <2>9, <2>10 DEF e, ls
<1>5. CASE a + y < e
    <2> DEFINE P == SubSeq(Z, 1, j)
               Q == SubSeq(Z, j + 1, Len(Z))
               B == Cat(A, Y)
    <2>1. j \in 0 .. Len(Z)
        BY <1>1, <1>2, <1>5
    <2>0. e = (a + y) + j
        BY <1>1, <1>2
    <2> HIDE DEF j
    <2>2. P \in Seq(Line) /\ Q \in Seq(Line) /\ Len(P) = j /\ Z = P \o Q
        BY <2>1, TwoParts
    <2>3. B \in Seq(Line) /\ Len(B) = a + y
        BY ConcatAt DEF Cat
    <2> HIDE DEF P, Q, B
    <2> DEFINE C == Cat(B, P)
    <2>4. /\ Cat(C, Q) = Cat(B, Cat(P, Q)) /\ C \in Seq(Line)
        BY <2>2, <2>3, CatAssociative
    <2>5. Len(C) = e
        <3>1. Len(B \o P) = Len(B) + Len(P)
            BY <2>2, <2>3, ConcatAt
        <3> QED
            BY <2>0, <2>2, <2>3, <3>1 DEF Cat
    <2>6. ls = C \o Q
        <3>1. ls = Cat(B, Z)
            BY <1>0 DEF Put, B
        <3>2. Z = Cat(P, Q)
            BY <2>2 DEF Cat
        <3>3. ls = Cat(C, Q)
            BY <2>4, <3>1, <3>2
        <3> QED
            BY <3>3 DEF Cat
    <2> HIDE DEF C
    <2>7. SubSeq(C \o Q, Len(C) + 1, Len(C \o Q)) = Q
        BY <2>2, <2>4, DropFront
    <2>8. Past(ls, e) = Q
        BY <2>5, <2>6, <2>7 DEF Past
    <2>9. Q = Past(Z, j)
        BY DEF Past, Q
    <2>10. ~(e <= a)
        BY <1>1, <1>2, <1>5
    <2> QED
        BY <1>3, <2>8, <2>9, <2>10 DEF e, ls, j
<1>6. CASE a < e /\ e <= a + y
    BY <1>1, <1>2, <1>6 DEF e, ls
<1> QED
    BY <1>1, <1>2, <1>4, <1>5, <1>6

\* One text is the other with fresh lines after lines whose last is more than a divider.
Grows(ls, ms, A, W, Y, Z) ==
    /\ A \in Seq(Line) /\ Z \in Seq(Line) /\ W \in Seq({<<>>}) /\ Y \in Seq(FreshLine)
    /\ ls = Put(A, W, Z) /\ ms = Put(A, Y, Z)
    /\ Z # <<>> => A # <<>> /\ Usable(A[Len(A)])

LEMMA UsableIsNoDivider ==
    ASSUME NEW l, Usable(l)
    PROVE  l # Divider
BY DEF Usable, Divider

\* No line of W is more than a divider; what stands before Z ends with one that is.
Empty(W) == \A m \in 1 .. Len(W) : ~Usable(W[m])
Firm(Q, Z) == Z # <<>> => Q # <<>> /\ Usable(Q[Len(Q)])

LEMMA TitlePut ==
    ASSUME NEW Q \in Seq(Line), NEW Z \in Seq(Line), NEW W \in Seq(Line), NEW Y \in Seq(Line),
           Empty(W), Firm(Q, Z),
           Title(Join(Put(Q, W, Z))) # <<>>
    PROVE  Title(Join(Put(Q, Y, Z))) = Title(Join(Put(Q, W, Z)))
<1> DEFINE S == Put(Q, W, Z)
           T == Put(Q, Y, Z)
           q == Len(Q)
           w == Len(W)
           z == Len(Z)
<1>1. /\ S \in Seq(Line) /\ q \in Nat /\ w \in Nat /\ z \in Nat /\ Len(S) = q + w + z
      /\ \A i \in 1 .. q : S[i] = Q[i]
      /\ \A i \in 1 .. w : S[q + i] = W[i]
    <2>1. Q \in Seq(Line) /\ W \in Seq(Line) /\ Z \in Seq(Line)
        OBVIOUS
    <2>2. /\ Put(Q, W, Z) \in Seq(Line)
          /\ Len(Q) \in Nat /\ Len(W) \in Nat /\ Len(Z) \in Nat
          /\ Len(Put(Q, W, Z)) = Len(Q) + Len(W) + Len(Z)
          /\ \A i \in 1 .. Len(Q) : Put(Q, W, Z)[i] = Q[i]
          /\ \A i \in 1 .. Len(W) : Put(Q, W, Z)[Len(Q) + i] = W[i]
        <3>1. /\ Put(Q, W, Z) \in Seq(Line)
              /\ Len(Q) \in Nat /\ Len(W) \in Nat /\ Len(Z) \in Nat
              /\ Len(Put(Q, W, Z)) = Len(Q) + Len(W) + Len(Z)
              /\ \A i \in 1 .. Len(Q) : Put(Q, W, Z)[i] = Q[i]
            BY <2>1, PutProperties
        <3>2. \A i \in 1 .. Len(W) : Put(Q, W, Z)[Len(Q) + i] = W[i]
            BY <2>1, PutProperties
        <3> QED
            BY <3>1, <3>2
    <2>3. S = Put(Q, W, Z) /\ q = Len(Q) /\ w = Len(W) /\ z = Len(Z)
        OBVIOUS
    <2> HIDE DEF S, q, w, z
    <2> QED
        BY <2>2, <2>3
<1>2. /\ T \in Seq(Line) /\ Len(T) \in Nat /\ q <= Len(T)
      /\ \A i \in 1 .. q : T[i] = Q[i]
    <2>1. Q \in Seq(Line) /\ Y \in Seq(Line) /\ Z \in Seq(Line)
        OBVIOUS
    <2>2. /\ Put(Q, Y, Z) \in Seq(Line)
          /\ Len(Q) \in Nat /\ Len(Y) \in Nat /\ Len(Z) \in Nat
          /\ Len(Put(Q, Y, Z)) = Len(Q) + Len(Y) + Len(Z)
          /\ \A i \in 1 .. Len(Q) : Put(Q, Y, Z)[i] = Q[i]
        BY <2>1, PutProperties
    <2> HIDE DEF T
    <2>3. T = Put(Q, Y, Z) /\ q = Len(Q)
        BY DEF T
    <2> HIDE DEF q
    <2> QED
        BY <2>2, <2>3
<1>3. PICK i : FirstUsable(S, i) /\ Title(Join(S)) = Titled(S[i])
    BY <1>1, TitleIs
<1>4. \/ /\ Title(Join(T)) = <<>>
         /\ \A k \in 1 .. Len(T) : ~Usable(T[k])
      \/ \E k : FirstUsable(T, k) /\ Title(Join(T)) = Titled(T[k])
    BY <1>2, TitleIs
<1> HIDE DEF S, T
<1>5. i \in 1 .. q + w + z /\ Usable(S[i]) /\ \A j \in 1 .. q + w + z : j < i => ~Usable(S[j])
    BY <1>1, <1>3 DEF FirstUsable
<1>6. ~(q < i /\ i <= q + w)
    <2>1. SUFFICES ASSUME q < i, i <= q + w PROVE FALSE
        OBVIOUS
    <2> DEFINE k == i - q
    <2>2. k \in 1 .. w /\ q + k = i
        BY <1>1, <1>5, <2>1
    <2> HIDE DEF k
    <2>3. \A m \in 1 .. w : ~Usable(W[m])
        BY DEF Empty
    <2>4. ~Usable(S[i])
        BY <1>1, <2>2, <2>3
    <2> QED
        BY <1>5, <2>4
<1>7. ~(q + w < i)
    <2>1. SUFFICES ASSUME q + w < i PROVE FALSE
        OBVIOUS
    <2>2. Z # <<>>
        <3>1. z # 0
            BY <1>1, <1>5, <2>1
        <3> QED
            BY <3>1
    <2>3. Q # <<>> /\ Usable(Q[q])
        BY <2>2 DEF Firm
    <2>4. q # 0
        <3>1. \A s \in Seq(Line) : s # <<>> => Len(s) \in Nat \ {0}
            BY EmptySeq
        <3> QED
            BY <2>3, <3>1
    <2>5. q \in 1 .. q /\ q \in 1 .. q + w + z /\ q < i
        BY <1>1, <1>5, <2>1, <2>4
    <2> QED
        BY <1>1, <1>5, <2>3, <2>5
<1>8. i \in 1 .. q
    BY <1>1, <1>5, <1>6, <1>7
<1>9. FirstUsable(T, i)
    <2>1. i \in 1 .. Len(T)
        BY <1>1, <1>2, <1>8
    <2>2. T[i] = S[i]
        BY <1>1, <1>2, <1>8
    <2>3. ASSUME NEW j \in 1 .. Len(T), j < i PROVE ~Usable(T[j])
        <3>1. j \in 1 .. q /\ j \in 1 .. q + w + z
            BY <1>1, <1>2, <1>8, <2>3
        <3> QED
            BY <1>1, <1>2, <1>5, <2>3, <3>1
    <2> QED
        BY <1>5, <2>1, <2>2, <2>3 DEF FirstUsable
<1>10. Title(Join(T)) = Titled(T[i])
    <2>1. PICK k : FirstUsable(T, k) /\ Title(Join(T)) = Titled(T[k])
        BY <1>4, <1>9 DEF FirstUsable
    <2>2. k = i
        BY <1>2, <1>9, <2>1 DEF FirstUsable
    <2> QED
        BY <2>1, <2>2
<1>11. T[i] = S[i]
    BY <1>1, <1>2, <1>8
<1> QED
    BY <1>3, <1>10, <1>11 DEF S, T

LEMMA GrowsKeeps ==
    ASSUME NEW b \in Seq(Tokens), NEW c \in Seq(Tokens), NEW A, NEW W, NEW Y, NEW Z,
           Grows(Lines(b), Lines(c), A, W, Y, Z)
    PROVE  /\ Status(c) = Status(b) /\ TagsOf(Rest(c)) = TagsOf(Rest(b))
           /\ Title(Rest(b)) # <<>> => Title(Rest(c)) = Title(Rest(b))
<1> DEFINE ls == Lines(b)
           ms == Lines(c)
           e == FrontmatterEnd(ls)
           d == FrontmatterEnd(ms)
           a == Len(A)
           w == Len(W)
           y == Len(Y)
           z == Len(Z)
<1>1. /\ A \in Seq(Line) /\ Z \in Seq(Line) /\ W \in Seq({<<>>}) /\ Y \in Seq(FreshLine)
      /\ ls = Put(A, W, Z) /\ ms = Put(A, Y, Z)
      /\ Z # <<>> => A # <<>> /\ Usable(A[Len(A)])
    BY DEF Grows
<1>2. /\ ls \in Seq(Line) /\ ls # <<>> /\ ms \in Seq(Line) /\ ms # <<>>
    BY LinesType
<1>3. W \in Seq(FreshLine)
    <2>1. <<>> \in FreshLine
        BY DEF FreshLine
    <2>2. {<<>>} \subseteq FreshLine
        BY <2>1
    <2>3. W \in Seq({<<>>})
        BY <1>1
    <2> QED
        BY <2>2, <2>3, SeqMonotonic
<1>4. /\ W \in Seq(Line) /\ W \in Seq(QuietLine)
      /\ Y \in Seq(Line) /\ Y \in Seq(QuietLine)
    BY <1>1, <1>3, FreshLines
<1>5. a \in Nat /\ w \in Nat /\ y \in Nat /\ z \in Nat
    BY <1>1, <1>4
<1>6. Held(a, w, y, z)
    <2>1. \A s \in Seq(Line) : s # <<>> => Len(s) \in Nat \ {0}
        BY EmptySeq
    <2>2. Z = <<>> => z = 0
        OBVIOUS
    <2> QED
        BY <1>1, <2>1, <2>2 DEF Held
<1>7. Around(ls, ms, a, w, y, z)
    <2>1. A \in Seq(Line) /\ Z \in Seq(Line) /\ W \in Seq(FreshLine) /\ Y \in Seq(FreshLine)
        BY <1>1, <1>3
    <2>2. Around(Put(A, W, Z), Put(A, Y, Z), a, w, y, z)
        BY <2>1, AroundPut
    <2> QED
        BY <1>1, <2>2
<1>8. Status(c) = Status(b)
    BY <1>5, <1>6, <1>7, StatusMoves
<1>9. \/ e <= a /\ d = e
      \/ a + w < e /\ d = (e - w) + y
    BY <1>2, <1>5, <1>6, <1>7, FrontMoves
<1>10. e \in 0 .. Len(ls) /\ Len(ls) \in Nat /\ d \in Nat
       /\ (e # 0 => ls[e] = Divider)
    BY <1>2, FrontIs
<1>11. /\ e <= a => /\ Rest(b) = Join(Put(Past(A, e), W, Z))
                    /\ Past(A, e) \in Seq(Line) /\ Len(Past(A, e)) = Len(A) - e
                    /\ \A i \in 1 .. Len(A) - e : Past(A, e)[i] = A[e + i]
       /\ a + w < e => Rest(b) = Join(Past(Z, e - (a + w)))
    <2>1. A \in Seq(Line) /\ Z \in Seq(Line) /\ W \in Seq(Line)
        BY <1>1, <1>4
    <2> QED
        BY <1>1, <2>1, RestOfPut
<1>12. /\ d <= a => Rest(c) = Join(Put(Past(A, d), Y, Z))
       /\ a + y < d => Rest(c) = Join(Past(Z, d - (a + y)))
    <2>1. A \in Seq(Line) /\ Z \in Seq(Line) /\ Y \in Seq(Line)
        BY <1>1, <1>4
    <2> QED
        BY <1>1, <2>1, RestOfPut
<1>13. CASE a + w < e /\ d = (e - w) + y
    <2> HIDE DEF e, d
    <2>1. a + y < d /\ d - (a + y) = e - (a + w)
        BY <1>5, <1>10, <1>13
    <2>2. Rest(c) = Rest(b)
        BY <1>11, <1>12, <1>13, <2>1
    <2> QED
        BY <1>8, <2>2
<1>14. CASE e <= a /\ d = e
    <2> DEFINE Q == Past(A, e)
    <2>1. /\ Rest(b) = Join(Put(Q, W, Z)) /\ Rest(c) = Join(Put(Q, Y, Z))
          /\ Q \in Seq(Line) /\ Len(Q) = a - e
          /\ \A i \in 1 .. a - e : Q[i] = A[e + i]
        BY <1>11, <1>12, <1>14
    <2>2. Z # <<>> => Q # <<>> /\ Usable(Q[Len(Q)])
        <3>1. SUFFICES ASSUME Z # <<>> PROVE Q # <<>> /\ Usable(Q[Len(Q)])
            OBVIOUS
        <3>2. A # <<>> /\ Usable(A[a])
            BY <1>1, <3>1
        <3>3. a # 0
            <4>1. \A s \in Seq(Line) : s # <<>> => Len(s) \in Nat \ {0}
                BY EmptySeq
            <4> QED
                BY <1>1, <3>2, <4>1
        <3>4. e # a
            <4>1. SUFFICES ASSUME e = a PROVE FALSE
                OBVIOUS
            <4>2. ls[a] = Divider
                BY <1>10, <3>3, <4>1
            <4>3. \A i \in 1 .. a : ls[i] = A[i]
                <5>1. A \in Seq(Line) /\ W \in Seq(Line) /\ Z \in Seq(Line)
                    BY <1>1, <1>4
                <5>2. \A i \in 1 .. a : Put(A, W, Z)[i] = A[i]
                    BY <5>1, PutProperties
                <5> QED
                    BY <1>1, <5>2
            <4>4. a \in 1 .. a
                BY <1>5, <3>3
            <4> QED
                BY <3>2, <4>2, <4>3, <4>4, UsableIsNoDivider
        <3> HIDE DEF e, Q
        <3>5. a - e \in 1 .. a - e /\ e + (a - e) = a
            BY <1>5, <1>10, <1>14, <3>4
        <3>6. Q[Len(Q)] = A[a]
            BY <2>1, <3>5
        <3>7. Len(Q) # 0
            BY <2>1, <3>5
        <3>8. Q # <<>>
            BY <3>7
        <3> QED
            BY <3>2, <3>6, <3>8
    <2> HIDE DEF Q
    <2>3. Title(Rest(b)) # <<>> => Title(Rest(c)) = Title(Rest(b))
        <3>1. Empty(W) /\ Firm(Q, Z)
            <4>1. \A m \in 1 .. Len(W) : W[m] \in {<<>>}
                BY <1>1, ElementOfSeq
            <4>2. ~Usable(<<>>)
                BY DEF Usable
            <4>3. \A m \in 1 .. Len(W) : ~Usable(W[m])
                BY <4>1, <4>2
            <4> QED
                BY <2>2, <4>3 DEF Empty, Firm
        <3>2. W \in Seq(Line) /\ Y \in Seq(Line) /\ Z \in Seq(Line) /\ Q \in Seq(Line)
            BY <1>1, <1>4, <2>1
        <3>3. Title(Join(Put(Q, W, Z))) # <<>> =>
                  Title(Join(Put(Q, Y, Z))) = Title(Join(Put(Q, W, Z)))
            BY <3>1, <3>2, TitlePut
        <3> QED
            BY <2>1, <3>3
    <2>4. /\ TagsOf(Join(Q \o W \o Z)) = TagsOf(Join(Q \o Z))
          /\ TagsOf(Join(Q \o Y \o Z)) = TagsOf(Join(Q \o Z))
        <3>1. Q \in Seq(Line) /\ Z \in Seq(Line) /\ W \in Seq(QuietLine) /\ Y \in Seq(QuietLine)
            BY <1>1, <1>4, <2>1
        <3> QED
            BY <3>1, LinesInserted
    <2>5. TagsOf(Rest(c)) = TagsOf(Rest(b))
        BY <2>1, <2>4 DEF Put, Cat
    <2> QED
        BY <1>8, <2>3, <2>5
<1> QED
    BY <1>9, <1>13, <1>14

-----------------------------------------------------------------------------
(* A todo added.                                                           *)

\* The lines of c are those of b with fresh ones put in.
Grown(b, c) == \E A, W, Y, Z : Grows(Lines(b), Lines(c), A, W, Y, Z)

LEMMA FreshItem ==
    ASSUME NEW text \in Seq(Fresh)
    PROVE  /\ NewItem(text) \in Seq(Tokens) /\ Lines(NewItem(text)) \in Seq(FreshLine)
           /\ Lines(NewItem(text)) # <<>>
<1> DEFINE box == "[ ]"
           sp == "sp"
           nl == "nl"
           item == NewItem(text)
<1>1. box \in Fresh /\ sp \in Fresh /\ nl \in Fresh /\ Fresh \subseteq Tokens
    <2>1. box \in Tokens /\ sp \in Tokens /\ nl \in Tokens
        BY Words
    <2>2. box \notin TagTokens /\ sp \notin TagTokens /\ nl \notin TagTokens
        BY TagsAreNoOther DEF Plain, White, Boxes
    <2> QED
        BY <2>1, <2>2 DEF Fresh, Quiet
<1>2. NewText(text) \in Seq(Fresh)
    BY NewTextProperties
<1>3. item \in Seq(Fresh)
    <2>1. item = <<box, sp>> \o NewText(text)
        BY DEF NewItem
    <2> HIDE DEF item
    <2>2. \A x, y \in Fresh, t \in Seq(Fresh) : <<x, y>> \o t \in Seq(Fresh)
        BY TwoBefore
    <2>3. <<box, sp>> \o NewText(text) \in Seq(Fresh)
        <3> DEFINE t == NewText(text)
        <3>1. box \in Fresh /\ sp \in Fresh /\ t \in Seq(Fresh)
            BY <1>1, <1>2
        <3> HIDE DEF t, box, sp
        <3>2. <<box, sp>> \o t \in Seq(Fresh)
            BY <2>2, <3>1, Zenon
        <3> QED
            BY <3>2 DEF t
    <2> QED
        BY <2>1, <2>3
<1> HIDE DEF item
<1>4. item \in Seq(Tokens)
    BY <1>1, <1>3, SeqMonotonic
<1>5. Split(item, nl) \in Parts(Fresh, nl)
    BY <1>1, <1>3, SplitType
<1>6. Split(item, nl) \in Seq(FreshLine) /\ Split(item, nl) # <<>>
    BY <1>5 DEF Parts, FreshLine
<1> QED
    BY <1>4, <1>6 DEF Lines, item

LEMMA NothingPut ==
    ASSUME NEW A \in Seq(Line), NEW Z \in Seq(Line)
    PROVE  /\ Put(A, <<>>, Z) = A \o Z
           /\ Put(A, Z, <<>>) = A \o Z
           /\ Put(<<>>, A, <<>>) = A
<1>1. A \o <<>> = A /\ <<>> \o A = A
    BY ConcatEmptySeq
<1>2. A \o Z \in Seq(Line)
    BY ConcatProperties
<1>3. (A \o Z) \o <<>> = A \o Z
    BY <1>2, ConcatEmptySeq
<1> QED
    BY <1>1, <1>3 DEF Put, Cat

\* A text in place of a line stands there with all its lines.
LEMMA JoinedInside ==
    ASSUME NEW A \in Seq(Line), A # <<>>, NEW Z \in Seq(Line), NEW t \in Seq(Tokens)
    PROVE  /\ Join(A \o <<t>> \o Z) = Join(Put(A, Lines(t), Z))
<1> DEFINE nl == "nl"
           I == Lines(t)
           S == Seq(Tokens)
           one == <<t>>
           p == Joined(A, nl)
<1>1. nl \in Tokens /\ I \in Seq(Line) /\ I # <<>>
    BY Words, LinesType
<1>2. A \in Seq(S) /\ Z \in Seq(S) /\ I \in Seq(S) /\ one \in Seq(S)
    <2>1. Line \subseteq S
        BY LineIsText
    <2>2. A \in Seq(S) /\ Z \in Seq(S) /\ I \in Seq(S)
        BY <1>1, <2>1, SeqMonotonic
    <2> QED
        BY <2>2
<1>3. Joined(I, nl) = t
    BY JoinOfLines DEF Join
<1>4. Joined(one, nl) = t /\ one # <<>>
    <2>1. Joined(Append(<<>>, t), nl) = t
        <3>1. <<>> \in Seq(S)
            OBVIOUS
        <3> QED
            BY <1>1, <3>1, JoinedAppend
    <2>2. Append(<<>>, t) = one
        OBVIOUS
    <2> QED
        BY <2>1, <2>2
<1> HIDE DEF I, one, nl
<1>5. /\ Joined(A \o one, nl) = p \o <<nl>> \o Joined(one, nl)
      /\ Joined(A \o I, nl) = p \o <<nl>> \o Joined(I, nl)
    BY <1>1, <1>2, <1>4, JoinedConcat
<1>6. Joined(A \o one, nl) = Joined(A \o I, nl)
    BY <1>3, <1>4, <1>5, Zenon
<1>7. /\ A \o one \in Seq(S) /\ A \o one # <<>>
      /\ A \o I \in Seq(S) /\ A \o I # <<>>
    <2> HIDE DEF S
    <2>1. /\ A \o one \in Seq(S) /\ Len(A) \in Nat /\ Len(one) \in Nat
          /\ Len(A \o one) = Len(A) + Len(one)
        BY <1>2, ConcatProperties
    <2>2. /\ A \o I \in Seq(S) /\ Len(I) \in Nat
          /\ Len(A \o I) = Len(A) + Len(I)
        BY <1>2, ConcatProperties
    <2>3. Len(A) # 0
        <3>1. \A s \in Seq(Line) : s # <<>> => Len(s) \in Nat \ {0}
            BY EmptySeq
        <3> QED
            BY <3>1
    <2>4. Len(A \o one) # 0 /\ Len(A \o I) # 0
        BY <2>1, <2>2, <2>3
    <2>5. Len(<<>>) = 0
        OBVIOUS
    <2>6. A \o one # <<>> /\ A \o I # <<>>
        BY <2>4, <2>5, Zenon
    <2> QED
        BY <2>1, <2>2, <2>6
<1>8. CASE Z = <<>>
    <2>1. (A \o one) \o <<>> = A \o one /\ (A \o I) \o <<>> = A \o I
        <3> HIDE DEF S
        <3> QED
            BY <1>7, ConcatEmptySeq
    <2> QED
        BY <1>6, <1>8, <2>1 DEF Put, Cat, Join, one, I, nl
<1>9. CASE Z # <<>>
    <2>1. /\ Joined((A \o one) \o Z, nl) = Joined(A \o one, nl) \o <<nl>> \o Joined(Z, nl)
          /\ Joined((A \o I) \o Z, nl) = Joined(A \o I, nl) \o <<nl>> \o Joined(Z, nl)
        BY <1>1, <1>2, <1>7, <1>9, JoinedConcat
    <2>2. Joined((A \o one) \o Z, nl) = Joined((A \o I) \o Z, nl)
        BY <1>6, <2>1, Zenon
    <2> QED
        BY <2>2 DEF Put, Cat, Join, one, I, nl
<1> QED
    BY <1>8, <1>9

\* Line breaks after a text are empty lines after its own.
LEMMA BreaksAfter ==
    ASSUME NEW t \in Seq(Tokens), NEW w \in Seq({"nl"})
    PROVE  \E W \in Seq({<<>>}) : Lines(t \o w) = Lines(t) \o W
<1> DEFINE nl == "nl"
           E == {<<>>}
           T == {s \in Seq({nl}) : t \o s \in Seq(Tokens) /\ \E W \in Seq(E) : Lines(t \o s) = Lines(t) \o W}
<1>0. Lines(t) \in Seq(Line) /\ nl \in Tokens
    BY LinesType, Words
<1>1. <<>> \in T
    <2>1. t \o <<>> = t /\ Lines(t) \o <<>> = Lines(t)
        BY <1>0, ConcatEmptySeq
    <2>2. <<>> \in Seq(E) /\ <<>> \in Seq({nl})
        OBVIOUS
    <2>3. Lines(t \o <<>>) = Lines(t) \o <<>>
        BY <2>1
    <2>4. t \o <<>> \in Seq(Tokens)
        BY <2>1
    <2>5. \E W \in Seq(E) : Lines(t \o <<>>) = Lines(t) \o W
        BY <2>2, <2>3, Zenon
    <2> QED
        BY <2>2, <2>4, <2>5
<1>2. ASSUME NEW s \in Seq({nl}), NEW x \in {nl}, s \in T PROVE Append(s, x) \in T
    <2>1. PICK W \in Seq(E) : Lines(t \o s) = Lines(t) \o W
        BY <1>2
    <2>2. t \o s \in Seq(Tokens) /\ s \in Seq(Tokens) /\ x = nl
        <3>1. {nl} \subseteq Tokens
            BY <1>0
        <3>2. s \in Seq(Tokens)
            BY <3>1, SeqMonotonic
        <3> QED
            BY <1>2, <3>2
    <2> DEFINE u == t \o s
    <2>3. t \o Append(s, nl) = Append(u, nl)
        BY <1>0, <2>2, ConcatLast
    <2>4. u \in Seq(Tokens) /\ Lines(u) = Lines(t) \o W
        BY <2>1, <2>2
    <2> HIDE DEF u
    <2>5. Append(u, nl) \in Seq(Tokens) /\ Append(u, nl) = u \o <<nl>> \o <<>>
        <3>1. Append(u, nl) \in Seq(Tokens) /\ Append(u, nl) = u \o <<nl>>
            BY <1>0, <2>4, AppendIsConcat, AppendProperties
        <3>2. Append(u, nl) \o <<>> = Append(u, nl)
            BY <3>1, ConcatEmptySeq
        <3> QED
            BY <3>1, <3>2
    <2>6. Lines(Append(u, nl)) = Lines(u) \o Lines(<<>>)
        <3>1. <<>> \in Seq(Tokens)
            OBVIOUS
        <3> QED
            BY <2>4, <2>5, <3>1, LinesOfConcat
    <2>7. Lines(<<>>) = <<<<>>>>
        <3>1. <<>> \in Line
            BY DEF Line
        <3> QED
            BY <3>1, LinesOfLine
    <2>8. (Lines(t) \o W) \o <<<<>>>> = Lines(t) \o Append(W, <<>>)
        <3>1. Lines(t) \in Seq(Line) /\ W \in Seq(Line) /\ <<>> \in Line
            <4>1. E \subseteq Line /\ <<>> \in Line
                BY DEF Line
            <4> QED
                BY <1>0, <2>1, <4>1, SeqMonotonic
        <3>2. Lines(t) \o Append(W, <<>>) = Append(Lines(t) \o W, <<>>)
            BY <3>1, ConcatLast
        <3>3. Lines(t) \o W \in Seq(Line)
            BY <3>1, ConcatProperties
        <3>4. Append(Lines(t) \o W, <<>>) = (Lines(t) \o W) \o <<<<>>>>
            BY <3>1, <3>3, AppendIsConcat
        <3> QED
            BY <3>2, <3>4, Zenon
    <2>9. Append(W, <<>>) \in Seq(E) /\ Append(s, nl) \in Seq({nl})
        BY <1>2, <2>1, AppendProperties
    <2>10. Lines(t \o Append(s, nl)) = Lines(t) \o Append(W, <<>>)
        BY <2>3, <2>4, <2>6, <2>7, <2>8, Zenon
    <2>11. t \o Append(s, nl) \in Seq(Tokens)
        BY <2>3, <2>5
    <2> QED
        BY <2>2, <2>9, <2>10, <2>11
<1>3. Seq({nl}) \subseteq T
    <2> HIDE DEF T
    <2> QED
        BY <1>1, <1>2, AllSequences
<1> QED
    BY <1>3

LEMMA ItemIsUsable ==
    ASSUME NEW l \in Line, IsItem(l)
    PROVE  Usable(l)
<1> DEFINE k == First(l, {"sp"})
<1>1. k \in 1 .. Len(l) /\ l[k] \in Boxes
    BY ItemHasBox
<1>2. DOMAIN l = 1 .. Len(l)
    BY LenProperties DEF Line
<1> HIDE DEF k
<1>3. l[k] \notin {"sp", "---"}
    BY <1>1 DEF Boxes
<1> QED
    BY <1>1, <1>2, <1>3 DEF Usable

LEMMA AppendGrows ==
    ASSUME NEW b \in Seq(Tokens), NEW text \in Seq(Fresh)
    PROVE  Grown(b, AppendTodo(b, text))
<1> DEFINE ls == Lines(b)
           item == NewItem(text)
           I == Lines(item)
           new == AppendTodo(b, text)
           S == Items(ls)
           at == CHOOSE i \in S : \A j \in S : j <= i
           ms == InsertAt(ls, at + 1, item)
           t == TrimEnd(b, {"nl"})
           none == <<>>
<1>1. ls \in Seq(Line) /\ ls # <<>> /\ Len(ls) \in Nat
    BY LinesType
<1>2. item \in Seq(Tokens) /\ I \in Seq(FreshLine) /\ I # <<>> /\ I \in Seq(Line)
    BY FreshItem, LinesType
<1>3. new = IF S # {} THEN Join(ms) ELSE IF b = <<>> THEN item ELSE t \o <<"nl">> \o item
    BY DEF AppendTodo, NewItem
<1>0. none \in Seq({<<>>}) /\ none \in Seq(Line) /\ none \in Line
    BY DEF Line
<1> HIDE DEF ls, item, new
<1>4. S \in SUBSET (1 .. Len(ls)) /\ S = {i \in 1 .. Len(ls) : IsItem(ls[i])}
    <2>1. DOMAIN ls = 1 .. Len(ls)
        BY <1>1, LenProperties
    <2> QED
        BY <2>1 DEF Items
<1>5. CASE S # {}
    <2>1. at \in S /\ \A j \in S : j <= at
        <3> HIDE DEF S
        <3>1. S \in SUBSET (0 .. Len(ls))
            BY <1>1, <1>4
        <3>2. \E i \in S : \A j \in S : j <= i
            BY <1>1, <1>5, <3>1, Greatest
        <3> QED
            BY <3>2
    <2>2. new = Join(ms)
        BY <1>3, <1>5
    <2> HIDE DEF S, at
    <2>3. at \in 1 .. Len(ls) /\ IsItem(ls[at]) /\ at \in 0 .. Len(ls) /\ ls[at] \in Line
        BY <1>1, <1>4, <2>1
    <2> DEFINE A == SubSeq(ls, 1, at)
               Z == SubSeq(ls, at + 1, Len(ls))
    <2>4. /\ A \in Seq(Line) /\ Z \in Seq(Line) /\ Len(A) = at
          /\ ls = A \o Z /\ \A i \in 1 .. at : A[i] = ls[i]
        BY <1>1, <2>3, TwoParts
    <2>5. ms = A \o <<item>> \o Z
        <3>1. (at + 1) - 1 = at
            BY <2>3
        <3> QED
            BY <3>1 DEF InsertAt
    <2> HIDE DEF A, Z, ms
    <2>6. A # <<>> /\ Usable(A[Len(A)])
        <3>1. Len(A) # 0
            BY <2>3, <2>4
        <3>2. A # <<>>
            BY <3>1
        <3>3. A[Len(A)] = ls[at]
            BY <2>3, <2>4
        <3> QED
            BY <2>3, <3>2, <3>3, ItemIsUsable
    <2>7. Join(ms) = Join(Put(A, I, Z))
        BY <1>2, <2>4, <2>5, <2>6, JoinedInside
    <2>8. Put(A, I, Z) \in Seq(Line) /\ Put(A, I, Z) # <<>>
        <3>1. /\ Put(A, I, Z) \in Seq(Line) /\ Len(A) \in Nat /\ Len(I) \in Nat /\ Len(Z) \in Nat
              /\ Len(Put(A, I, Z)) = Len(A) + Len(I) + Len(Z)
            BY <1>2, <2>4, PutProperties
        <3>2. Len(Put(A, I, Z)) # 0
            BY <2>3, <2>4, <3>1
        <3> QED
            BY <3>1, <3>2
    <2>9. Lines(new) = Put(A, I, Z)
        BY <2>2, <2>7, <2>8, LinesOfJoin
    <2>10. ls = Put(A, none, Z)
        BY <2>4, NothingPut
    <2>11. Grows(ls, Lines(new), A, none, I, Z)
        BY <1>0, <1>2, <2>4, <2>6, <2>9, <2>10 DEF Grows
    <2> QED
        BY <2>11 DEF Grown, ls, new
<1>6. CASE S = {} /\ b = <<>>
    <2>1. new = item
        BY <1>3, <1>6
    <2>2. ls = <<<<>>>>
        BY <1>0, <1>6, LinesOfLine DEF ls
    <2> DEFINE W == <<<<>>>>
    <2>3. W \in Seq({<<>>}) /\ W \in Seq(Line)
        BY <1>0
    <2>4. ls = Put(none, W, none) /\ Lines(new) = Put(none, I, none)
        <3> HIDE DEF W
        <3> QED
            BY <1>2, <2>1, <2>2, <2>3, NothingPut DEF W
    <2>5. Grows(ls, Lines(new), none, W, I, none)
        BY <1>0, <1>2, <2>3, <2>4 DEF Grows
    <2> QED
        BY <2>5 DEF Grown, ls, new
<1>7. CASE S = {} /\ b # <<>>
    <2>1. new = t \o <<"nl">> \o item
        BY <1>3, <1>7
    <2>2. t \in Seq(Tokens) /\ Cut(b, t, {"nl"})
        BY TrimmedIs
    <2> HIDE DEF t
    <2>3. PICK w \in Seq({"nl"}) : b = t \o w
        BY <2>2 DEF Cut
    <2>4. PICK W \in Seq({<<>>}) : Lines(t \o w) = Lines(t) \o W
        BY <2>2, BreaksAfter
    <2> DEFINE A == Lines(t)
    <2>5. A \in Seq(Line) /\ W \in Seq(Line)
        <3>1. {<<>>} \subseteq Line
            BY <1>0
        <3>2. W \in Seq(Line)
            BY <2>4, <3>1, SeqMonotonic
        <3> QED
            BY <2>2, <3>2, LinesType
    <2>6. Lines(new) = A \o I
        BY <1>2, <2>1, <2>2, LinesOfConcat
    <2>7. ls = A \o W
        BY <2>3, <2>4 DEF ls
    <2> HIDE DEF A
    <2>8. ls = Put(A, W, none) /\ Lines(new) = Put(A, I, none)
        BY <1>2, <2>5, <2>6, <2>7, NothingPut
    <2>9. Grows(ls, Lines(new), A, W, I, none)
        BY <1>0, <1>2, <2>4, <2>5, <2>8 DEF Grows
    <2> QED
        BY <2>9 DEF Grown, ls, new
<1> QED
    BY <1>5, <1>6, <1>7

\* A todo added with a fresh text takes no status, tag or title, and brings none.
LEMMA AppendedTodoKeeps ==
    ASSUME NEW b \in Seq(Tokens), NEW text \in Seq(Fresh)
    PROVE  LET c == AppendTodo(b, text)
           IN  /\ Status(c) = Status(b) /\ TagsOf(Rest(c)) = TagsOf(Rest(b))
               /\ Title(Rest(b)) # <<>> => Title(Rest(c)) = Title(Rest(b))
<1> DEFINE c == AppendTodo(b, text)
<1>1. text \in Seq(Tokens)
    <2>1. Fresh \subseteq Tokens
        BY DEF Fresh, Quiet
    <2> QED
        BY <2>1, SeqMonotonic
<1>2. c \in Seq(Tokens)
    BY <1>1, AppendedIsRead
<1>3. PICK A, W, Y, Z : Grows(Lines(b), Lines(c), A, W, Y, Z)
    BY AppendGrows DEF Grown
<1> HIDE DEF c
<1>4. /\ Status(c) = Status(b) /\ TagsOf(Rest(c)) = TagsOf(Rest(b))
      /\ Title(Rest(b)) # <<>> => Title(Rest(c)) = Title(Rest(b))
    BY <1>2, <1>3, GrowsKeeps
<1> QED
    BY <1>4 DEF c

-----------------------------------------------------------------------------
(* A box turned.                                                           *)

\* Two texts alike but for the state of their boxes.
Reboxed(b, c) ==
    /\ Len(c) = Len(b)
    /\ \A i \in 1 .. Len(b) : c[i] = b[i] \/ (c[i] \in Boxes /\ b[i] \in Boxes)

LEMMA BoxIsNoOther ==
    ASSUME NEW x \in Boxes
    PROVE  /\ x \in Tokens /\ x # "nl" /\ x # "tick" /\ x # "sp" /\ x # "~~~" /\ x # "---"
           /\ x # "status:" /\ x \notin White /\ x \notin TagTokens
BY TagsAreNoOther, Words DEF Boxes, White, Plain

LEMMA ReboxedTags ==
    ASSUME NEW b \in Seq(Tokens), NEW c \in Seq(Tokens), Reboxed(b, c),
           Len(Lines(c)) = Len(Lines(b)),
           \A k \in 1 .. Len(Lines(c)) : SameFence(Lines(c)[k], Lines(b)[k])
    PROVE  TagsOf(c) = TagsOf(b)
<1> DEFINE m == Len(c)
           mm == Len(Lines(c))
           g == [k \in 1 .. m |-> k]
           h == [k \in 1 .. mm |-> k]
<1>1. /\ m \in Nat /\ Len(b) = m /\ mm \in Nat /\ Len(Lines(b)) = mm
      /\ \A i \in 1 .. m : c[i] = b[i] \/ (c[i] \in Boxes /\ b[i] \in Boxes)
    BY LinesType DEF Reboxed
<1>2. /\ \A k \in 1 .. m : g[k] = k
      /\ \A k \in 1 .. mm : h[k] = k
    OBVIOUS
<1>3. Rises(g, m, Len(b)) /\ Rises(h, mm, Len(Lines(b)))
    BY <1>1 DEF Rises
<1> HIDE DEF g, h
<1>4. \A i \in 1 .. m : /\ c[i] = "tick" <=> b[i] = "tick"
                        /\ c[i] = "nl" <=> b[i] = "nl"
                        /\ c[i] \in White <=> b[i] \in White
                        /\ c[i] # b[i] => c[i] \notin TagTokens /\ b[i] \notin TagTokens
    <2>1. \A x \in Boxes : x # "nl" /\ x # "tick" /\ x \notin White /\ x \notin TagTokens
        BY BoxIsNoOther
    <2> QED
        BY <1>1, <2>1
<1>5. \A k \in 1 .. m - 1 : k \in 1 .. m /\ k + 1 \in 1 .. m
    BY <1>1
<1>6. \A k \in 1 .. mm : SameFence(Lines(c)[k], Lines(b)[k])
    OBVIOUS
<1>7. Embeds(b, c, g, h)
    <2>1. \A k \in 1 .. m : c[k] = "tick" <=> b[g[k]] = "tick"
        BY <1>2, <1>4
    <2>2. \A i \in 1 .. Len(b) : b[i] = "tick" => \E k \in 1 .. m : g[k] = i
        BY <1>1, <1>2
    <2>3. \A k \in 1 .. m - 1 : g[k + 1] = g[k] + 1
        BY <1>2, <1>5
    <2>4. \A k \in 1 .. mm : SameFence(Lines(c)[k], Lines(b)[h[k]])
        BY <1>2, <1>6
    <2>5. \A i \in 1 .. Len(Lines(b)) : FenceRun(Lines(b)[i]) # 0 => \E k \in 1 .. mm : h[k] = i
        BY <1>1, <1>2
    <2> HIDE DEF m, mm
    <2> QED
        BY <1>3, <2>1, <2>2, <2>3, <2>4, <2>5 DEF Embeds, m, mm
<1>8. ASSUME NEW k \in 1 .. m, c[k] = b[k]
      PROVE  k \in TagPositions(c) <=> k \in TagPositions(b)
    <2>2. Begins(c, k) <=> Begins(b, k)
        <3>1. k > 1 => (c[k - 1] \in White <=> b[k - 1] \in White)
            BY <1>1, <1>4
        <3> QED
            BY <3>1 DEF Begins
    <2>3. LineOf(c, k) = LineOf(b, k)
        <3>1. \A j \in 1 .. k - 1 : c[j] = "nl" <=> b[j] = "nl"
            BY <1>1, <1>4
        <3>2. {j \in 1 .. k - 1 : c[j] = "nl"} = {j \in 1 .. k - 1 : b[j] = "nl"}
            BY <3>1
        <3> QED
            BY <3>2 DEF LineOf
    <2>4. h[LineOf(c, k)] = LineOf(b, k)
        <3>1. LineOf(c, k) \in 1 .. mm
            BY LineOfIs
        <3> QED
            BY <1>2, <2>3, <3>1
    <2>5. c[k] = b[g[k]] /\ (Begins(c, k) <=> Begins(b, g[k])) /\ h[LineOf(c, k)] = LineOf(b, g[k])
        BY <1>2, <1>8, <2>2, <2>4
    <2>6. k \in TagPositions(c) <=> g[k] \in TagPositions(b)
        BY <1>7, <2>5, TagsKept
    <2> QED
        BY <1>2, <2>6
<1>9. ASSUME NEW k \in 1 .. m, c[k] # b[k]
      PROVE  k \notin TagPositions(c) /\ k \notin TagPositions(b)
    BY <1>4, <1>9 DEF TagPositions
<1>10. TagPositions(c) \subseteq 1 .. m /\ TagPositions(b) \subseteq 1 .. m
    <2>1. DOMAIN c = 1 .. m /\ DOMAIN b = 1 .. m
        BY <1>1, LenProperties
    <2> QED
        BY <2>1 DEF TagPositions
<1>11. TagPositions(c) = TagPositions(b) /\ \A k \in TagPositions(c) : c[k] = b[k]
    BY <1>8, <1>9, <1>10
<1> QED
    BY <1>11 DEF TagsOf

\* One box of a line is turned, the first that is not space.
TurnedAt(l, m, k) ==
    /\ Len(m) = Len(l) /\ k \in 1 .. Len(l)
    /\ l[k] \in Boxes /\ m[k] \in Boxes
    /\ \A j \in 1 .. Len(l) : j # k => m[j] = l[j]
    /\ \A j \in 1 .. k - 1 : l[j] = "sp"

LEMMA TurnedIs ==
    ASSUME NEW l \in Line, NEW m \in Line, NEW k, TurnedAt(l, m, k)
    PROVE  Bland(l) /\ Bland(m) /\ SameFence(m, l)
<1> DEFINE First1(s) == s # <<>> /\ s[1] \in {"sp"} \cup Boxes
<1>1. First1(l) /\ First1(m)
    <2>1. Len(l) \in Nat /\ Len(l) # 0 /\ Len(m) # 0 /\ 1 \in 1 .. Len(l)
        BY DEF TurnedAt, Line
    <2>2. l # <<>> /\ m # <<>>
        BY <2>1
    <2>3. l[1] \in {"sp"} \cup Boxes /\ m[1] \in {"sp"} \cup Boxes
        <3>1. CASE k = 1
            BY <3>1 DEF TurnedAt
        <3>2. CASE k # 1
            <4>1. 1 \in 1 .. k - 1
                BY <2>1, <3>2 DEF TurnedAt
            <4> QED
                BY <2>1, <3>2, <4>1 DEF TurnedAt
        <3> QED
            BY <3>1, <3>2
    <2> QED
        BY <2>2, <2>3
<1>2. ASSUME NEW s \in Line, First1(s) PROVE Bland(s) /\ FenceRun(s) = 0
    <2>1. \A x \in {"sp"} \cup Boxes : x # "---" /\ x # "status:" /\ x \notin Marks
        BY DEF Boxes, Marks
    <2>2. Head(s) = s[1]
        BY <1>2 DEF Line
    <2>3. s # Divider
        <3>1. Divider[1] = "---"
            BY DEF Divider
        <3> QED
            BY <1>2, <2>1, <3>1
    <2>4. Bland(s)
        BY <1>2, <2>1, <2>2, <2>3 DEF Bland, StatusLine
    <2>5. FenceRun(s) = 0
        BY <1>2, <2>1, FenceRunProperties
    <2> QED
        BY <2>4, <2>5
<1>3. Bland(l) /\ Bland(m) /\ FenceRun(l) = 0 /\ FenceRun(m) = 0
    BY <1>1, <1>2
<1> QED
    BY <1>3 DEF SameFence

LEMMA LineSet ==
    ASSUME NEW P \in Seq(Line), NEW Q \in Seq(Line), NEW l \in Line
    PROVE  /\ <<l>> \in Seq(Line)
           /\ Put(P, <<l>>, Q) \in Seq(Line) /\ Put(P, <<l>>, Q) # <<>>
           /\ Lines(Join(Put(P, <<l>>, Q))) = Put(P, <<l>>, Q)
           /\ Len(P) \in Nat /\ Len(Q) \in Nat
           /\ Len(Put(P, <<l>>, Q)) = Len(P) + 1 + Len(Q)
           /\ \A i \in 1 .. Len(P) : Put(P, <<l>>, Q)[i] = P[i]
           /\ Put(P, <<l>>, Q)[Len(P) + 1] = l
           /\ \A i \in 1 .. Len(Q) : Put(P, <<l>>, Q)[Len(P) + 1 + i] = Q[i]
<1> DEFINE Y == <<l>>
           S == Put(P, Y, Q)
<1>1. Y \in Seq(Line) /\ Len(Y) = 1 /\ Y[1] = l /\ 1 \in 1 .. Len(Y)
    OBVIOUS
<1> HIDE DEF Y
<1>2. /\ S \in Seq(Line)
      /\ Len(P) \in Nat /\ Len(Y) \in Nat /\ Len(Q) \in Nat
      /\ Len(S) = Len(P) + Len(Y) + Len(Q)
      /\ \A i \in 1 .. Len(P) : S[i] = P[i]
      /\ \A i \in 1 .. Len(Y) : S[Len(P) + i] = Y[i]
      /\ \A i \in 1 .. Len(Q) : S[Len(P) + Len(Y) + i] = Q[i]
    <2>1. Y \in Seq(Line)
        BY <1>1
    <2> QED
        BY <2>1, PutProperties
<1> HIDE DEF S
<1>3. Len(S) # 0
    BY <1>1, <1>2
<1>4. S # <<>>
    BY <1>3
<1>5. Lines(Join(S)) = S
    BY <1>2, <1>4, LinesOfJoin
<1>6. S[Len(P) + 1] = l
    BY <1>1, <1>2
<1> QED
    BY <1>1, <1>2, <1>4, <1>5, <1>6 DEF S, Y

LEMMA ReboxedConcat ==
    ASSUME NEW u \in Seq(Tokens), NEW r \in Seq(Tokens), NEW l \in Seq(Tokens), NEW m \in Seq(Tokens),
           Reboxed(l, m)
    PROVE  Reboxed((u \o l) \o r, (u \o m) \o r)
<1> DEFINE ul == u \o l
           um == u \o m
           b == ul \o r
           c == um \o r
           p == Len(u)
           n == Len(l)
           z == Len(r)
<1>1. Len(m) = n /\ n \in Nat /\ \A i \in 1 .. n : m[i] = l[i] \/ (m[i] \in Boxes /\ l[i] \in Boxes)
    BY DEF Reboxed
<1>2. /\ ul \in Seq(Tokens) /\ p \in Nat /\ Len(ul) = p + n
      /\ \A i \in 1 .. p : ul[i] = u[i]
      /\ \A i \in 1 .. n : ul[p + i] = l[i]
    BY ConcatAt
<1>3. /\ um \in Seq(Tokens) /\ Len(um) = p + n
      /\ \A i \in 1 .. p : um[i] = u[i]
      /\ \A i \in 1 .. n : um[p + i] = m[i]
    <2>1. /\ um \in Seq(Tokens) /\ Len(um) = p + Len(m)
          /\ \A i \in 1 .. p : um[i] = u[i]
          /\ \A i \in 1 .. Len(m) : um[p + i] = m[i]
        BY ConcatAt
    <2> QED
        BY <1>1, <2>1
<1> HIDE DEF ul, um
<1>4. /\ b \in Seq(Tokens) /\ z \in Nat /\ Len(b) = (p + n) + z
      /\ \A i \in 1 .. p + n : b[i] = ul[i]
      /\ \A i \in 1 .. z : b[(p + n) + i] = r[i]
    <2>1. ul \in Seq(Tokens)
        BY <1>2
    <2>2. /\ b \in Seq(Tokens) /\ z \in Nat /\ Len(b) = Len(ul) + z
          /\ \A i \in 1 .. Len(ul) : b[i] = ul[i]
          /\ \A i \in 1 .. z : b[Len(ul) + i] = r[i]
        BY <2>1, ConcatAt
    <2> HIDE DEF b, z
    <2> QED
        BY <1>2, <2>2
<1>5. /\ c \in Seq(Tokens) /\ Len(c) = (p + n) + z
      /\ \A i \in 1 .. p + n : c[i] = um[i]
      /\ \A i \in 1 .. z : c[(p + n) + i] = r[i]
    <2>1. um \in Seq(Tokens)
        BY <1>3
    <2>2. /\ c \in Seq(Tokens) /\ Len(c) = Len(um) + z
          /\ \A i \in 1 .. Len(um) : c[i] = um[i]
          /\ \A i \in 1 .. z : c[Len(um) + i] = r[i]
        BY <2>1, ConcatAt
    <2> HIDE DEF c, z
    <2> QED
        BY <1>3, <2>2
<1>0. p \in Nat /\ n \in Nat /\ z \in Nat
    BY <1>1, <1>2, <1>4
<1> HIDE DEF b, c, p, n, z
<1>6. ASSUME NEW i \in 1 .. (p + n) + z
      PROVE  c[i] = b[i] \/ (c[i] \in Boxes /\ b[i] \in Boxes)
    <2>1. CASE i <= p
        <3>1. i \in 1 .. p /\ i \in 1 .. p + n
            BY <1>1, <1>2, <1>4, <2>1
        <3> QED
            BY <1>2, <1>3, <1>4, <1>5, <3>1
    <2>2. CASE p < i /\ i <= p + n
        <3> DEFINE j == i - p
        <3>1. j \in 1 .. n /\ p + j = i /\ i \in 1 .. p + n
            BY <1>1, <1>2, <1>4, <2>2
        <3> HIDE DEF j
        <3>2. b[i] = l[j] /\ c[i] = m[j]
            BY <1>2, <1>3, <1>4, <1>5, <3>1
        <3> QED
            BY <1>1, <3>1, <3>2
    <2>3. CASE p + n < i
        <3> DEFINE j == i - (p + n)
        <3>1. j \in 1 .. z /\ (p + n) + j = i
            BY <1>0, <2>3
        <3> HIDE DEF j
        <3>2. b[(p + n) + j] = r[j] /\ c[(p + n) + j] = r[j]
            BY <1>4, <1>5, <3>1
        <3> QED
            BY <3>1, <3>2
    <2> QED
        BY <1>1, <1>2, <1>4, <2>1, <2>2, <2>3
<1>7. Reboxed(b, c)
    BY <1>4, <1>5, <1>6 DEF Reboxed
<1> QED
    BY <1>7 DEF b, c, ul, um

LEMMA ReboxedLine ==
    ASSUME NEW P \in Seq(Line), NEW Q \in Seq(Line), NEW l \in Line, NEW m \in Line,
           Reboxed(l, m)
    PROVE  Reboxed(Join(Put(P, <<l>>, Q)), Join(Put(P, <<m>>, Q)))
<1> DEFINE u == Leading(P)
           nl == "nl"
<1>1. l \in Seq(Tokens) /\ m \in Seq(Tokens) /\ nl \in Tokens
    BY LineIsText, Words
<1>2. u \in Seq(Tokens)
    <2>1. <<>> \in Seq(Tokens)
        OBVIOUS
    <2> QED
        BY <2>1, LeadingProperties
<1>3. \A s \in Line : /\ Put(P, <<s>>, Q) = Append(P, s) \o Q
                      /\ Append(P, s) \in Seq(Line)
                      /\ Join(Append(P, s)) = u \o s
                      /\ Leading(Append(P, s)) = Append(u \o s, nl)
    <2>1. SUFFICES ASSUME NEW s \in Line
                   PROVE  /\ Put(P, <<s>>, Q) = Append(P, s) \o Q
                          /\ Append(P, s) \in Seq(Line)
                          /\ Join(Append(P, s)) = u \o s
                          /\ Leading(Append(P, s)) = Append(u \o s, nl)
        OBVIOUS
    <2>2. Append(P, s) = P \o <<s>>
        BY AppendIsConcat
    <2>3. Put(P, <<s>>, Q) = Append(P, s) \o Q
        BY <2>2 DEF Put, Cat
    <2> QED
        BY <2>3, JoinMore
<1> HIDE DEF u
<1>4. CASE Q = <<>>
    <2>1. \A s \in Line : Put(P, <<s>>, Q) = Append(P, s)
        <3>1. \A t \in Seq(Line) : t \o <<>> = t
            BY ConcatEmptySeq
        <3> QED
            BY <1>3, <1>4, <3>1
    <2>2. Join(Put(P, <<l>>, Q)) = u \o l /\ Join(Put(P, <<m>>, Q)) = u \o m
        BY <1>3, <2>1
    <2>3. Reboxed((u \o l) \o <<>>, (u \o m) \o <<>>)
        <3>1. <<>> \in Seq(Tokens)
            OBVIOUS
        <3> QED
            BY <1>1, <1>2, <3>1, ReboxedConcat
    <2>4. (u \o l) \o <<>> = u \o l /\ (u \o m) \o <<>> = u \o m
        <3>1. u \o l \in Seq(Tokens) /\ u \o m \in Seq(Tokens)
            BY <1>1, <1>2, ConcatProperties
        <3> QED
            BY <3>1, ConcatEmptySeq
    <2> QED
        BY <2>2, <2>3, <2>4
<1>5. CASE Q # <<>>
    <2> DEFINE q == Join(Q)
               r == <<nl>> \o q
    <2>1. q \in Seq(Tokens)
        BY JoinIsText
    <2> HIDE DEF q
    <2>2. r \in Seq(Tokens) /\ <<nl>> \in Seq(Tokens)
        BY <1>1, <2>1, ConcatProperties
    <2>3. ASSUME NEW s \in Line, s \in Seq(Tokens)
          PROVE  Join(Put(P, <<s>>, Q)) = (u \o s) \o r
        <3> DEFINE B == Append(P, s)
                   v == u \o s
        <3>1. Join(Put(P, <<s>>, Q)) = Leading(B) \o q
            <4>1. B \in Seq(Line) /\ Put(P, <<s>>, Q) = B \o Q
                BY <1>3
            <4> HIDE DEF B
            <4> QED
                BY <1>5, <4>1, JoinAfter DEF q
        <3>2. Leading(B) = Append(v, nl)
            BY <1>3
        <3>3. v \in Seq(Tokens)
            BY <1>2, <2>3, ConcatProperties
        <3> HIDE DEF v, B
        <3>4. Append(v, nl) = v \o <<nl>>
            BY <1>1, <3>3, AppendIsConcat
        <3>5. Cat(Cat(v, <<nl>>), q) = Cat(v, Cat(<<nl>>, q))
            <4> DEFINE one == <<nl>>
            <4>1. one \in Seq(Tokens)
                BY <2>2
            <4> HIDE DEF one
            <4>2. Cat(Cat(v, one), q) = Cat(v, Cat(one, q))
                BY <2>1, <3>3, <4>1, CatAssociative
            <4> QED
                BY <4>2 DEF one
        <3>6. (v \o <<nl>>) \o q = v \o r
            BY <3>5 DEF Cat
        <3> QED
            BY <3>1, <3>2, <3>4, <3>6 DEF v
    <2> HIDE DEF r
    <2>4. Reboxed((u \o l) \o r, (u \o m) \o r)
        BY <1>1, <1>2, <2>2, ReboxedConcat
    <2> QED
        BY <1>1, <2>3, <2>4
<1> QED
    BY <1>4, <1>5

\* Turning the box of a line changes no tag.
LEMMA TurnedTags ==
    ASSUME NEW P \in Seq(Line), NEW Q \in Seq(Line), NEW l \in Line, NEW m \in Line,
           NEW k, TurnedAt(l, m, k)
    PROVE  TagsOf(Join(Put(P, <<m>>, Q))) = TagsOf(Join(Put(P, <<l>>, Q)))
<1> DEFINE S == Put(P, <<l>>, Q)
           T == Put(P, <<m>>, Q)
           p == Len(P)
           q == Len(Q)
<1>1. /\ S \in Seq(Line) /\ Lines(Join(S)) = S /\ Len(S) = p + 1 + q
      /\ p \in Nat /\ q \in Nat
      /\ \A i \in 1 .. p : S[i] = P[i]
      /\ S[p + 1] = l
      /\ \A i \in 1 .. q : S[p + 1 + i] = Q[i]
    <2>1. /\ S \in Seq(Line) /\ Lines(Join(S)) = S
          /\ Len(P) \in Nat /\ Len(Q) \in Nat
          /\ Len(S) = Len(P) + 1 + Len(Q)
        BY LineSet
    <2>3. \A i \in 1 .. Len(P) : S[i] = P[i]
        BY LineSet
    <2>4. S[Len(P) + 1] = l
        BY LineSet
    <2>2. \A i \in 1 .. Len(Q) : S[Len(P) + 1 + i] = Q[i]
        <3> HIDE DEF p, q
        <3> QED
            BY LineSet
    <2> HIDE DEF S
    <2> QED
        BY <2>1, <2>2, <2>3, <2>4
<1>2. /\ T \in Seq(Line) /\ Lines(Join(T)) = T /\ Len(T) = p + 1 + q
      /\ \A i \in 1 .. p : T[i] = P[i]
      /\ T[p + 1] = m
      /\ \A i \in 1 .. q : T[p + 1 + i] = Q[i]
    <2>1. /\ T \in Seq(Line) /\ Lines(Join(T)) = T
          /\ Len(P) \in Nat /\ Len(Q) \in Nat
          /\ Len(T) = Len(P) + 1 + Len(Q)
        BY LineSet
    <2>3. \A i \in 1 .. Len(P) : T[i] = P[i]
        BY LineSet
    <2>4. T[Len(P) + 1] = m
        BY LineSet
    <2>2. \A i \in 1 .. Len(Q) : T[Len(P) + 1 + i] = Q[i]
        <3> HIDE DEF p, q
        <3> QED
            BY LineSet
    <2> HIDE DEF T
    <2> QED
        BY <2>1, <2>2, <2>3, <2>4
<1>3. SameFence(m, l)
    BY TurnedIs
<1>4. Reboxed(l, m)
    <2>1. \A j \in 1 .. Len(l) : m[j] = l[j] \/ (m[j] \in Boxes /\ l[j] \in Boxes)
        BY DEF TurnedAt
    <2> QED
        BY <2>1 DEF TurnedAt, Reboxed
<1>5. Reboxed(Join(S), Join(T))
    BY <1>4, ReboxedLine
<1>6. Join(S) \in Seq(Tokens) /\ Join(T) \in Seq(Tokens)
    BY <1>1, <1>2, JoinIsText
<1> HIDE DEF S, T, p, q
<1>7. ASSUME NEW i \in 1 .. p + 1 + q PROVE SameFence(T[i], S[i])
    <2>0. \A s : SameFence(s, s)
        BY DEF SameFence
    <2>1. CASE i = p + 1
        BY <1>1, <1>2, <1>3, <2>1
    <2>2. CASE i <= p
        <3>1. i \in 1 .. p
            BY <1>1, <2>2
        <3> QED
            BY <1>1, <1>2, <2>0, <3>1
    <2>3. CASE p + 1 < i
        <3> DEFINE j == i - (p + 1)
        <3>1. j \in 1 .. q /\ p + 1 + j = i
            BY <1>1, <2>3
        <3> HIDE DEF j
        <3> QED
            BY <1>1, <1>2, <2>0, <3>1
    <2> QED
        BY <1>1, <2>1, <2>2, <2>3
<1>8. TagsOf(Join(T)) = TagsOf(Join(S))
    BY <1>1, <1>2, <1>5, <1>6, <1>7, ReboxedTags
<1> QED
    BY <1>8 DEF S, T

\* A turned box is the first of a line's trimmed text, and all that differs.
LEMMA TurnedTrim ==
    ASSUME NEW l \in Line, NEW m \in Line, NEW k, TurnedAt(l, m, k)
    PROVE  Reboxed(Titled(l), Titled(m)) /\ (Usable(l) <=> Usable(m))
<1> DEFINE n == Len(l)
           s == SubSeq(l, k, n)
           t == SubSeq(m, k, n)
           sp == {"sp"}
<1>1. /\ l \in Seq(Tokens) /\ m \in Seq(Tokens) /\ n \in Nat /\ Len(m) = n
      /\ k \in 1 .. n /\ l[k] \in Boxes /\ m[k] \in Boxes
      /\ \A j \in 1 .. n : j # k => m[j] = l[j]
      /\ \A j \in 1 .. k - 1 : l[j] = "sp"
    BY LineIsText, LenProperties DEF TurnedAt
<1>2. \A x \in Boxes : x # "sp" /\ x # "h" /\ x # "---"
    BY DEF Boxes
<1>3. /\ \A j \in 1 .. n : l[j] \in Tokens /\ m[j] \in Tokens
      /\ \A j \in 1 .. k - 1 : m[j] = "sp"
    <2>1. \A j \in 1 .. n : l[j] \in Tokens /\ m[j] \in Tokens
        BY <1>1, ElementOfSeq
    <2>2. ASSUME NEW j \in 1 .. k - 1 PROVE m[j] = "sp"
        <3>1. j \in 1 .. n /\ j # k
            BY <1>1
        <3> QED
            BY <1>1, <3>1
    <2> QED
        BY <2>1, <2>2
<1> HIDE DEF n
<1>4. First(l, sp) = k /\ First(m, sp) = k
    <2>1. k \in 1 .. Len(l) + 1 /\ k \in 1 .. Len(m) + 1
        BY <1>1 DEF n
    <2>2. l[k] \notin sp /\ m[k] \notin sp
        BY <1>1, <1>2
    <2> QED
        BY <1>1, <1>3, <2>1, <2>2, FirstIs
<1> DEFINE v == n - k + 1
<1>5. /\ s \in Seq(Tokens) /\ Len(s) = v /\ \A i \in 1 .. v : s[i] = l[k + i - 1]
      /\ t \in Seq(Tokens) /\ Len(t) = v /\ \A i \in 1 .. v : t[i] = m[k + i - 1]
      /\ v \in Nat /\ 1 \in 1 .. v
    <2>1. \A j \in k .. n : l[j] \in Tokens /\ m[j] \in Tokens
        BY <1>1, <1>3
    <2> QED
        BY <1>1, <2>1, SubSeqProperties
<1>6. TrimStart(l, sp) = s /\ TrimStart(m, sp) = t
    BY <1>1, <1>4 DEF TrimStart, n
<1>7. /\ s[1] \in Boxes /\ t[1] \in Boxes
      /\ \A i \in 1 .. v : i # 1 => t[i] = s[i]
    <2>1. k + 1 - 1 = k
        BY <1>1
    <2>2. ASSUME NEW i \in 1 .. v, i # 1 PROVE t[i] = s[i]
        <3>1. k + i - 1 \in 1 .. n /\ k + i - 1 # k
            BY <1>1, <2>2
        <3> QED
            BY <1>1, <1>5, <3>1
    <2> QED
        BY <1>1, <1>5, <2>1, <2>2
<1> HIDE DEF s, t, v
<1> DEFINE H == {i \in 1 .. v : s[i] # "sp"}
<1>8. PICK h \in H : \A i \in H : i <= h
    <2>1. 1 \in H
        BY <1>2, <1>5, <1>7
    <2>2. H \in SUBSET (0 .. v) /\ H # {}
        BY <1>5, <2>1
    <2> HIDE DEF H
    <2> QED
        BY <1>5, <2>2, Greatest
<1>9. /\ h \in 1 .. v /\ h \in 0 .. v /\ s[h] # "sp" /\ t[h] # "sp"
      /\ \A i \in h + 1 .. v : s[i] = "sp" /\ t[i] = "sp"
    <2>1. h \in 1 .. v /\ h \in 0 .. v /\ s[h] # "sp"
        BY <1>5, <1>8
    <2>2. t[h] # "sp"
        BY <1>2, <1>7, <2>1
    <2>3. ASSUME NEW i \in h + 1 .. v PROVE s[i] = "sp" /\ t[i] = "sp"
        <3>1. i \in 1 .. v /\ i # 1 /\ ~(i <= h)
            BY <1>5, <2>1
        <3> QED
            BY <1>7, <1>8, <3>1
    <2> QED
        BY <2>1, <2>2, <2>3
<1>10. TrimEnd(s, sp) = SubSeq(s, 1, h) /\ TrimEnd(t, sp) = SubSeq(t, 1, h)
    <2>1. h \in 0 .. Len(s) /\ h \in 0 .. Len(t)
        BY <1>5, <1>9
    <2>2. s[h] \notin sp /\ t[h] \notin sp
        BY <1>9
    <2>3. /\ \A i \in h + 1 .. Len(s) : s[i] \in sp
          /\ \A i \in h + 1 .. Len(t) : t[i] \in sp
        BY <1>5, <1>9
    <2> QED
        BY <1>5, <2>1, <2>2, <2>3, TrimEndIs
<1> DEFINE x == SubSeq(s, 1, h)
           y == SubSeq(t, 1, h)
<1>11. Trim(l) = x /\ Trim(m) = y
    BY <1>6, <1>10 DEF Trim
<1>12. /\ Len(x) = h /\ \A i \in 1 .. h : x[i] = s[i]
       /\ Len(y) = h /\ \A i \in 1 .. h : y[i] = t[i]
       /\ h \in Nat /\ 1 \in 1 .. h
    <2>1. \A i \in 1 .. h : s[i] \in Tokens /\ t[i] \in Tokens
        <3>1. \A i \in 1 .. h : i \in 1 .. Len(s) /\ i \in 1 .. Len(t)
            BY <1>5, <1>9
        <3> QED
            BY <1>5, <3>1, ElementOfSeq
    <2>2. h \in Nat /\ 1 \in 1 .. h /\ h - 1 + 1 = h
        BY <1>5, <1>9
    <2> QED
        BY <2>1, <2>2, SubSeqProperties
<1> HIDE DEF x, y
<1>13. Titled(l) = x /\ Titled(m) = y
    <2>1. x[1] # "h" /\ y[1] # "h"
        BY <1>2, <1>7, <1>12
    <2> QED
        BY <1>11, <2>1 DEF Titled
<1>14. Reboxed(x, y)
    <2>1. ASSUME NEW i \in 1 .. h PROVE y[i] = x[i] \/ (y[i] \in Boxes /\ x[i] \in Boxes)
        <3>1. i \in 1 .. v
            BY <1>5, <1>9
        <3> QED
            BY <1>7, <1>12, <3>1
    <2> QED
        BY <1>12, <2>1 DEF Reboxed
<1>15. Usable(l) /\ Usable(m)
    <2>1. DOMAIN l = 1 .. n /\ DOMAIN m = 1 .. n
        BY <1>1, LenProperties DEF n
    <2> QED
        BY <1>1, <1>2, <2>1 DEF Usable
<1> QED
    BY <1>13, <1>14, <1>15

\* A turned box is all that may differ in a title.
LEMMA TitleTurned ==
    ASSUME NEW P \in Seq(Line), NEW Q \in Seq(Line), NEW l \in Line, NEW m \in Line,
           NEW k, TurnedAt(l, m, k)
    PROVE  Reboxed(Title(Join(Put(P, <<l>>, Q))), Title(Join(Put(P, <<m>>, Q))))
<1> DEFINE S == Put(P, <<l>>, Q)
           T == Put(P, <<m>>, Q)
           p == Len(P)
           q == Len(Q)
           n == p + 1 + q
<1>1. /\ S \in Seq(Line) /\ Len(S) = n /\ p \in Nat /\ q \in Nat
      /\ \A i \in 1 .. p : S[i] = P[i]
      /\ S[p + 1] = l
      /\ \A i \in 1 .. q : S[p + 1 + i] = Q[i]
    <2>1. /\ S \in Seq(Line) /\ Len(P) \in Nat /\ Len(Q) \in Nat
          /\ Len(S) = Len(P) + 1 + Len(Q)
        BY LineSet
    <2>3. \A i \in 1 .. Len(P) : S[i] = P[i]
        BY LineSet
    <2>4. S[Len(P) + 1] = l
        BY LineSet
    <2>2. \A i \in 1 .. Len(Q) : S[Len(P) + 1 + i] = Q[i]
        <3> HIDE DEF p, q
        <3> QED
            BY LineSet
    <2> HIDE DEF S
    <2> QED
        BY <2>1, <2>2, <2>3, <2>4
<1>2. /\ T \in Seq(Line) /\ Len(T) = n
      /\ \A i \in 1 .. p : T[i] = P[i]
      /\ T[p + 1] = m
      /\ \A i \in 1 .. q : T[p + 1 + i] = Q[i]
    <2>1. /\ T \in Seq(Line) /\ Len(P) \in Nat /\ Len(Q) \in Nat
          /\ Len(T) = Len(P) + 1 + Len(Q)
        BY LineSet
    <2>3. \A i \in 1 .. Len(P) : T[i] = P[i]
        BY LineSet
    <2>4. T[Len(P) + 1] = m
        BY LineSet
    <2>2. \A i \in 1 .. Len(Q) : T[Len(P) + 1 + i] = Q[i]
        <3> HIDE DEF p, q
        <3> QED
            BY LineSet
    <2> HIDE DEF T
    <2> QED
        BY <2>1, <2>2, <2>3, <2>4
<1>3. Reboxed(Titled(l), Titled(m)) /\ (Usable(l) <=> Usable(m))
    BY TurnedTrim
<1>4. /\ \/ Title(Join(S)) = <<>> /\ \A i \in 1 .. Len(S) : ~Usable(S[i])
         \/ \E i : FirstUsable(S, i) /\ Title(Join(S)) = Titled(S[i])
      /\ \/ Title(Join(T)) = <<>> /\ \A i \in 1 .. Len(T) : ~Usable(T[i])
         \/ \E i : FirstUsable(T, i) /\ Title(Join(T)) = Titled(T[i])
    BY <1>1, <1>2, TitleIs
<1> HIDE DEF S, T, p, q
<1>5. ASSUME NEW i \in 1 .. n
      PROVE  (i = p + 1 /\ S[i] = l /\ T[i] = m) \/ S[i] = T[i]
    <2>1. CASE i = p + 1
        BY <1>1, <1>2, <2>1
    <2>2. CASE i <= p
        <3>1. i \in 1 .. p
            BY <1>1, <2>2
        <3> QED
            BY <1>1, <1>2, <3>1
    <2>3. CASE p + 1 < i
        <3> DEFINE j == i - (p + 1)
        <3>1. j \in 1 .. q /\ p + 1 + j = i
            BY <1>1, <2>3
        <3> HIDE DEF j
        <3>2. S[p + 1 + j] = Q[j] /\ T[p + 1 + j] = Q[j]
            BY <1>1, <1>2, <3>1
        <3> QED
            BY <3>1, <3>2
    <2> QED
        BY <1>1, <2>1, <2>2, <2>3
<1>6. /\ n \in Nat
      /\ \A i \in 1 .. n : Usable(S[i]) <=> Usable(T[i])
    BY <1>1, <1>3, <1>5
<1>7. ASSUME NEW x PROVE Reboxed(x, x)
    BY DEF Reboxed
<1>8. CASE Title(Join(S)) = <<>> /\ \A i \in 1 .. Len(S) : ~Usable(S[i])
    <2>1. ~\E i : FirstUsable(T, i)
        BY <1>1, <1>2, <1>6, <1>8 DEF FirstUsable
    <2>2. Title(Join(T)) = <<>>
        BY <1>4, <2>1
    <2> QED
        BY <1>7, <1>8, <2>2 DEF S, T
<1>9. CASE \E i : FirstUsable(S, i) /\ Title(Join(S)) = Titled(S[i])
    <2>1. PICK i : FirstUsable(S, i) /\ Title(Join(S)) = Titled(S[i])
        BY <1>9
    <2>2. i \in 1 .. n /\ FirstUsable(T, i)
        BY <1>1, <1>2, <1>6, <2>1 DEF FirstUsable
    <2>3. PICK j : FirstUsable(T, j) /\ Title(Join(T)) = Titled(T[j])
        BY <1>4, <2>2 DEF FirstUsable
    <2>4. j = i
        BY <1>2, <1>6, <2>2, <2>3 DEF FirstUsable
    <2>5. Reboxed(Titled(S[i]), Titled(T[i]))
        BY <1>3, <1>5, <1>7, <2>2
    <2> QED
        BY <2>1, <2>3, <2>4, <2>5 DEF S, T
<1> QED
    BY <1>4, <1>8, <1>9

\* One text has the line m where the other has l, before the lines of Q.
OneFor(b, c, l, m, Q) == \E X \in Seq(Line) : b = Join(Put(X, <<l>>, Q)) /\ c = Join(Put(X, <<m>>, Q))

\* One line in place of another, outside or inside the frontmatter.
LEMMA OneLineKeeps ==
    ASSUME NEW b \in Seq(Tokens), NEW c \in Seq(Tokens), NEW P \in Seq(Line), NEW Q \in Seq(Line),
           NEW l \in Line, NEW m \in Line, Bland(l), Bland(m),
           Lines(b) = Put(P, <<l>>, Q), Lines(c) = Put(P, <<m>>, Q)
    PROVE  /\ Status(c) = Status(b)
           /\ Rest(c) = Rest(b) \/ OneFor(Rest(b), Rest(c), l, m, Q)
<1> DEFINE ls == Lines(b)
           ms == Lines(c)
           e == FrontmatterEnd(ls)
           d == FrontmatterEnd(ms)
           p == Len(P)
           q == Len(Q)
           L == <<l>>
           M == <<m>>
<1>1. L \in Seq(Line) /\ M \in Seq(Line) /\ Len(L) = 1 /\ Len(M) = 1 /\ L[1] = l /\ M[1] = m
    OBVIOUS
<1>2. p \in Nat /\ q \in Nat
    OBVIOUS
<1>3. ls = Put(P, L, Q) /\ ms = Put(P, M, Q)
    OBVIOUS
<1>4. /\ ls \in Seq(Line) /\ ls # <<>> /\ ms \in Seq(Line) /\ ms # <<>>
    BY LinesType
<1> HIDE DEF L, M
<1>5. /\ Len(ls) = p + 1 + q
      /\ \A i \in 1 .. p : ls[i] = P[i]
      /\ ls[p + 1] = l
      /\ \A i \in 1 .. q : ls[p + 1 + i] = Q[i]
    <2>1. /\ Len(Put(P, L, Q)) = Len(P) + Len(L) + Len(Q)
          /\ \A i \in 1 .. Len(P) : Put(P, L, Q)[i] = P[i]
        BY <1>1, PutProperties
    <2>2. \A i \in 1 .. Len(L) : Put(P, L, Q)[Len(P) + i] = L[i]
        BY <1>1, PutProperties
    <2>3. \A i \in 1 .. Len(Q) : Put(P, L, Q)[Len(P) + Len(L) + i] = Q[i]
        BY <1>1, PutProperties
    <2>4. 1 \in 1 .. Len(L)
        BY <1>1
    <2> HIDE DEF ls
    <2> QED
        BY <1>1, <1>2, <1>3, <2>1, <2>2, <2>3, <2>4
<1>6. /\ Len(ms) = p + 1 + q
      /\ \A i \in 1 .. p : ms[i] = P[i]
      /\ ms[p + 1] = m
      /\ \A i \in 1 .. q : ms[p + 1 + i] = Q[i]
    <2>1. /\ Len(Put(P, M, Q)) = Len(P) + Len(M) + Len(Q)
          /\ \A i \in 1 .. Len(P) : Put(P, M, Q)[i] = P[i]
        BY <1>1, PutProperties
    <2>2. \A i \in 1 .. Len(M) : Put(P, M, Q)[Len(P) + i] = M[i]
        BY <1>1, PutProperties
    <2>3. \A i \in 1 .. Len(Q) : Put(P, M, Q)[Len(P) + Len(M) + i] = Q[i]
        BY <1>1, PutProperties
    <2>4. 1 \in 1 .. Len(M)
        BY <1>1
    <2> HIDE DEF ms
    <2> QED
        BY <1>1, <1>2, <1>3, <2>1, <2>2, <2>3, <2>4
<1>7. Bland(l) /\ Bland(m)
    OBVIOUS
<1> DEFINE one == 1
<1>8. Around(ls, ms, p, one, one, q) /\ Held(p, one, one, q) /\ one \in Nat
    <2>1. \A i \in 1 .. 1 : i = 1
        OBVIOUS
    <2> HIDE DEF ls, ms, p, q
    <2> QED
        BY <1>5, <1>6, <1>7, <2>1 DEF Around, Held
<1>9. Status(c) = Status(b)
    <2> HIDE DEF one
    <2> QED
        BY <1>2, <1>8, StatusMoves
<1>10. \/ e <= p /\ d = e
       \/ p + one < e /\ d = (e - one) + one
    <2> HIDE DEF one
    <2> QED
        BY <1>2, <1>4, <1>8, FrontMoves
<1>11. e \in Nat /\ d \in Nat
    BY <1>4, FrontIs
<1> DEFINE r == e - (p + 1)
           t == d - (p + 1)
<1>12. /\ e <= p => Rest(b) = Join(Put(Past(P, e), L, Q)) /\ Past(P, e) \in Seq(Line)
       /\ p + 1 < e => Rest(b) = Join(Past(Q, r))
    <2>1. P \in Seq(Line) /\ L \in Seq(Line) /\ Q \in Seq(Line)
        BY <1>1
    <2>2. Lines(b) = Put(P, L, Q)
        BY <1>3
    <2>3. LET f == FrontmatterEnd(Lines(b))
              j == f - (Len(P) + Len(L))
          IN  /\ f <= Len(P) => Rest(b) = Join(Put(Past(P, f), L, Q)) /\ Past(P, f) \in Seq(Line)
              /\ Len(P) + Len(L) < f => Rest(b) = Join(Past(Q, j))
        BY <2>1, <2>2, RestOfPut
    <2> QED
        BY <1>1, <2>3
<1>13. /\ d <= p => Rest(c) = Join(Put(Past(P, d), M, Q))
       /\ p + 1 < d => Rest(c) = Join(Past(Q, t))
    <2>1. P \in Seq(Line) /\ M \in Seq(Line) /\ Q \in Seq(Line)
        BY <1>1
    <2>2. Lines(c) = Put(P, M, Q)
        BY <1>3
    <2>3. LET f == FrontmatterEnd(Lines(c))
              j == f - (Len(P) + Len(M))
          IN  /\ f <= Len(P) => Rest(c) = Join(Put(Past(P, f), M, Q)) /\ Past(P, f) \in Seq(Line)
              /\ Len(P) + Len(M) < f => Rest(c) = Join(Past(Q, j))
        BY <2>1, <2>2, RestOfPut
    <2> QED
        BY <1>1, <2>3
<1> HIDE DEF e, d
<1>14. CASE e <= p /\ d = e
    BY <1>9, <1>12, <1>13, <1>14 DEF L, M, OneFor
<1>15. CASE p + one < e /\ d = (e - one) + one
    <2>1. d = e /\ p + 1 < e
        BY <1>2, <1>11, <1>15
    <2> QED
        BY <1>9, <1>12, <1>13, <2>1
<1> QED
    BY <1>10, <1>14, <1>15

\* A turned box takes no status and no tag, and of the title only the box.
LEMMA TurnedKeeps ==
    ASSUME NEW b \in Seq(Tokens), NEW c \in Seq(Tokens), NEW P \in Seq(Line), NEW Q \in Seq(Line),
           NEW l \in Line, NEW m \in Line, NEW k, TurnedAt(l, m, k),
           Lines(b) = Put(P, <<l>>, Q), Lines(c) = Put(P, <<m>>, Q)
    PROVE  /\ Status(c) = Status(b) /\ TagsOf(Rest(c)) = TagsOf(Rest(b))
           /\ Reboxed(Title(Rest(b)), Title(Rest(c)))
<1>1. Bland(l) /\ Bland(m)
    BY TurnedIs
<1>2. /\ Status(c) = Status(b)
      /\ Rest(c) = Rest(b) \/ OneFor(Rest(b), Rest(c), l, m, Q)
    BY <1>1, OneLineKeeps, Zenon
<1>3. CASE Rest(c) = Rest(b)
    BY <1>2, <1>3 DEF Reboxed
<1>4. CASE OneFor(Rest(b), Rest(c), l, m, Q)
    <2>1. PICK X \in Seq(Line) : /\ Rest(b) = Join(Put(X, <<l>>, Q))
                                 /\ Rest(c) = Join(Put(X, <<m>>, Q))
        BY <1>4 DEF OneFor
    <2>2. /\ TagsOf(Join(Put(X, <<m>>, Q))) = TagsOf(Join(Put(X, <<l>>, Q)))
          /\ Reboxed(Title(Join(Put(X, <<l>>, Q))), Title(Join(Put(X, <<m>>, Q))))
        BY TurnedTags, TitleTurned
    <2> QED
        BY <1>2, <2>1, <2>2
<1> QED
    BY <1>2, <1>3, <1>4

\* One fresh line for another takes no status and no tag.
LEMMA FreshLineKeeps ==
    ASSUME NEW b \in Seq(Tokens), NEW c \in Seq(Tokens), NEW P \in Seq(Line), NEW Q \in Seq(Line),
           NEW l \in FreshLine, NEW m \in FreshLine,
           Lines(b) = Put(P, <<l>>, Q), Lines(c) = Put(P, <<m>>, Q)
    PROVE  Status(c) = Status(b) /\ TagsOf(Rest(c)) = TagsOf(Rest(b))
<1>1. /\ Bland(l) /\ Bland(m) /\ l \in Line /\ m \in Line
      /\ l \in QuietLine /\ m \in QuietLine
    BY FreshIsBland
<1>2. /\ Status(c) = Status(b)
      /\ Rest(c) = Rest(b) \/ OneFor(Rest(b), Rest(c), l, m, Q)
    BY <1>1, OneLineKeeps, Zenon
<1>3. CASE OneFor(Rest(b), Rest(c), l, m, Q)
    <2>1. PICK X \in Seq(Line) : /\ Rest(b) = Join(Put(X, <<l>>, Q))
                                 /\ Rest(c) = Join(Put(X, <<m>>, Q))
        BY <1>3 DEF OneFor
    <2>2. <<l>> \in Seq(QuietLine) /\ <<m>> \in Seq(QuietLine)
        BY <1>1
    <2>3. /\ TagsOf(Join(X \o <<l>> \o Q)) = TagsOf(Join(X \o Q))
          /\ TagsOf(Join(X \o <<m>> \o Q)) = TagsOf(Join(X \o Q))
        BY <2>2, LinesInserted
    <2> QED
        BY <1>2, <2>1, <2>3 DEF Put, Cat
<1> QED
    BY <1>2, <1>3

LEMMA LineIn ==
    ASSUME NEW ls \in Seq(Line), NEW at \in 1 .. Len(ls), NEW m \in Line
    PROVE  LET P == SubSeq(ls, 1, at - 1)
               Q == SubSeq(ls, at + 1, Len(ls))
           IN  /\ P \in Seq(Line) /\ Q \in Seq(Line)
               /\ ls = Put(P, <<ls[at]>>, Q)
               /\ [ls EXCEPT ![at] = m] = Put(P, <<m>>, Q)
<1> DEFINE n == Len(ls)
           P == SubSeq(ls, 1, at - 1)
           Q == SubSeq(ls, at + 1, n)
           ms == [ls EXCEPT ![at] = m]
           p == at - 1
           q == n - at
<1>1. /\ n \in Nat /\ at \in Nat /\ p \in Nat /\ q \in Nat /\ p + 1 = at /\ at \in 1 .. n
      /\ \A i \in 1 .. n : ls[i] \in Line
    BY ElementOfSeq
<1>2. P \in Seq(Line) /\ Len(P) = p /\ \A i \in 1 .. p : P[i] = ls[i]
    <2>1. \A i \in 1 .. p : ls[i] \in Line
        BY <1>1
    <2> QED
        BY <1>1, <2>1, SubSeqProperties
<1>3. Q \in Seq(Line) /\ Len(Q) = q /\ \A i \in 1 .. q : Q[i] = ls[at + i]
    <2>1. \A i \in at + 1 .. n : ls[i] \in Line
        BY <1>1
    <2>2. /\ Q \in Seq(Line)
          /\ Len(Q) = IF at + 1 <= n THEN n - (at + 1) + 1 ELSE 0
          /\ \A i \in 1 .. n - (at + 1) + 1 : Q[i] = ls[at + 1 + i - 1]
        BY <1>1, <2>1, SubSeqProperties
    <2> HIDE DEF Q, n
    <2>3. n - (at + 1) + 1 = q
        BY <1>1
    <2>4. Len(Q) = q
        BY <1>1, <2>2
    <2>5. ASSUME NEW i \in 1 .. q PROVE Q[i] = ls[at + i]
        <3>1. at + 1 + i - 1 = at + i
            BY <1>1
        <3> QED
            BY <2>2, <2>3, <3>1
    <2> QED
        BY <2>2, <2>4, <2>5
<1>4. /\ ms \in Seq(Line) /\ Len(ms) = n
      /\ \A i \in 1 .. n : ms[i] = IF i = at THEN m ELSE ls[i]
    BY ExceptSeq
<1> HIDE DEF P, Q, ms
<1>5. ASSUME NEW s \in Seq(Line), Len(s) = n, NEW x \in Line, s[at] = x,
             \A i \in 1 .. n : i # at => s[i] = ls[i]
      PROVE  s = Put(P, <<x>>, Q)
    <2> DEFINE t == Put(P, <<x>>, Q)
    <2>a. P \in Seq(Line) /\ Q \in Seq(Line)
        BY <1>2, <1>3
    <2>1. /\ t \in Seq(Line) /\ Len(t) = Len(P) + 1 + Len(Q)
          /\ \A i \in 1 .. Len(P) : t[i] = P[i]
        BY <2>a, LineSet
    <2>2. t[Len(P) + 1] = x
        BY <2>a, LineSet
    <2>3. \A i \in 1 .. Len(Q) : t[Len(P) + 1 + i] = Q[i]
        BY <2>a, LineSet
    <2> HIDE DEF t, n, p, q
    <2>0. n = p + 1 + q
        BY <1>1 DEF p, q
    <2>4. Len(t) = n
        BY <1>2, <1>3, <2>0, <2>1
    <2>5. ASSUME NEW i \in 1 .. n PROVE t[i] = s[i]
        <3>1. CASE i = at
            BY <1>1, <1>2, <1>5, <2>2, <3>1
        <3>2. CASE i < at
            <4>1. i \in 1 .. p /\ i # at
                BY <1>1, <3>2
            <4> QED
                BY <1>2, <1>5, <2>1, <4>1
        <3>3. CASE at < i
            <4> DEFINE j == i - at
            <4>1. j \in 1 .. q /\ at + j = i /\ p + 1 + j = i /\ i # at
                BY <1>1, <2>0, <3>3
            <4> HIDE DEF j
            <4>2. t[p + 1 + j] = Q[j] /\ Q[j] = ls[at + j]
                BY <1>2, <1>3, <2>3, <4>1
            <4> QED
                BY <1>5, <4>1, <4>2
        <3> QED
            BY <1>1, <3>1, <3>2, <3>3
    <2>6. t = s
        BY <1>5, <2>1, <2>4, <2>5, SeqEqual
    <2> QED
        BY <2>6 DEF t
<1>6. ls = Put(P, <<ls[at]>>, Q)
    BY <1>1, <1>5
<1>7. ms = Put(P, <<m>>, Q)
    BY <1>1, <1>4, <1>5
<1> QED
    BY <1>2, <1>3, <1>6, <1>7 DEF P, Q, ms

\* A todo that is checked or not changes no status and no tag, and of the title
\* at most a box.
LEMMA CheckedTodoKeeps ==
    ASSUME NEW b \in Seq(Tokens), NEW n \in DOMAIN Todos(b), NEW c \in BOOLEAN
    PROVE  LET d == SetTodoChecked(b, n, c)
           IN  /\ Status(d) = Status(b) /\ TagsOf(Rest(d)) = TagsOf(Rest(b))
               /\ Reboxed(Title(Rest(b)), Title(Rest(d)))
<1> DEFINE ls == Lines(b)
           at == ItemLine(ls, n)
           l == ls[at]
           k == First(l, {"sp"})
           v == IF c THEN "[x]" ELSE "[ ]"
           w == [l EXCEPT ![k] = v]
           ms == [ls EXCEPT ![at] = w]
           d == SetTodoChecked(b, n, c)
<1>1. ls \in Seq(Line) /\ ls # <<>>
    BY LinesType
<1>2. Todos(b) = ListOf(ls)
    BY TodosAreListed
<1>3. d = Join(ms)
    BY DEF SetTodoChecked
<1>a. d \in Seq(Tokens)
    BY CheckedIsRead
<1> HIDE DEF ls, d
<1>4. n \in 1 .. Cardinality(Items(ls))
    BY <1>1, <1>2, ItemsProperties
<1>5. at \in 1 .. Len(ls) /\ l \in Line /\ IsItem(l)
    BY <1>1, <1>4, ItemsProperties
<1> HIDE DEF at
<1>6. k \in 1 .. Len(l) /\ l[k] \in Boxes /\ \A i \in 1 .. k - 1 : l[i] = "sp"
    BY <1>5, ItemHasBox
<1>7. v \in Tokens \ {"nl"} /\ v \in Boxes
    BY Words DEF Boxes
<1> HIDE DEF k, v
<1>8. /\ w \in Line /\ Len(w) = Len(l) /\ Len(l) \in Nat
      /\ \A j \in 1 .. Len(l) : w[j] = IF j = k THEN v ELSE l[j]
    <2> HIDE DEF l
    <2> QED
        BY <1>5, <1>6, <1>7, ExceptSeq, LenProperties DEF Line
<1> HIDE DEF w, l
<1>9. TurnedAt(l, w, k)
    BY <1>6, <1>7, <1>8 DEF TurnedAt
<1>10. PICK P \in Seq(Line), Q \in Seq(Line) : ls = Put(P, <<l>>, Q) /\ ms = Put(P, <<w>>, Q)
    <2> DEFINE A == SubSeq(ls, 1, at - 1)
               Z == SubSeq(ls, at + 1, Len(ls))
    <2>1. /\ A \in Seq(Line) /\ Z \in Seq(Line)
          /\ ls = Put(A, <<ls[at]>>, Z)
          /\ [ls EXCEPT ![at] = w] = Put(A, <<w>>, Z)
        BY <1>1, <1>5, <1>8, LineIn
    <2> HIDE DEF A, Z
    <2> QED
        BY <2>1 DEF l
<1> HIDE DEF ms
<1>11. Lines(d) = ms
    <2>1. Put(P, <<w>>, Q) \in Seq(Line) /\ Put(P, <<w>>, Q) # <<>>
        BY <1>8, LineSet
    <2> QED
        BY <1>3, <1>10, <2>1, LinesOfJoin
<1>12. Lines(b) = Put(P, <<l>>, Q) /\ Lines(d) = Put(P, <<w>>, Q)
    BY <1>10, <1>11 DEF ls
<1>13. /\ Status(d) = Status(b) /\ TagsOf(Rest(d)) = TagsOf(Rest(b))
       /\ Reboxed(Title(Rest(b)), Title(Rest(d)))
    BY <1>a, <1>5, <1>8, <1>9, <1>12, TurnedKeeps
<1> QED
    BY <1>13 DEF d

LEMMA FreshParts ==
    /\ "sp" \in Fresh \ {"nl"}
    /\ Boxes \subseteq Fresh \ {"nl"}
    /\ Fresh \subseteq Tokens
<1>1. "sp" \in Tokens /\ Boxes \subseteq Tokens
    BY Words DEF Boxes
<1>2. "sp" \notin TagTokens /\ Boxes \cap TagTokens = {}
    BY TagsAreNoOther DEF Plain, White
<1>3. /\ "sp" \notin {"tick", "~~~", "---", "status:", "nl"}
      /\ Boxes \cap {"tick", "~~~", "---", "status:", "nl"} = {}
    BY DEF Boxes
<1> QED
    BY <1>1, <1>2, <1>3 DEF Fresh, Quiet

\* What an item's text is, as a part of its line.
LEMMA ItemText ==
    ASSUME NEW l \in Line, IsItem(l)
    PROVE  /\ Item(l).text \in Seq(Tokens)
           /\ Item(l).text \in Seq(Fresh) => l \in FreshLine
<1> DEFINE n == Len(l)
           k == First(l, {"sp"})
           r == SubSeq(l, k + 1, n)
           f == First(r, {"sp"})
           t == Item(l).text
           v == n - k
           X == Fresh \ {"nl"}
<1>1. /\ l \in Seq(Tokens) /\ n \in Nat /\ \A i \in 1 .. n : l[i] \in Tokens \ {"nl"}
    <2>1. \A i \in 1 .. n : l[i] \in Tokens \ {"nl"}
        BY ElementOfSeq DEF Line
    <2> QED
        BY <2>1, LineIsText, LenProperties
<1>2. k \in 1 .. n /\ l[k] \in Boxes /\ \A i \in 1 .. k - 1 : l[i] = "sp"
    BY ItemHasBox
<1>3. t = TrimStart(r, {"sp"})
    BY DEF Item
<1> HIDE DEF k, t
<1>4. /\ r \in Seq(Tokens) /\ Len(r) = v /\ v \in Nat
      /\ \A i \in 1 .. v : r[i] = l[k + i]
    <2>1. \A i \in k + 1 .. n : l[i] \in Tokens
        BY <1>1, <1>2
    <2>2. /\ r \in Seq(Tokens)
          /\ Len(r) = IF k + 1 <= n THEN n - (k + 1) + 1 ELSE 0
          /\ \A i \in 1 .. n - (k + 1) + 1 : r[i] = l[(k + 1) + i - 1]
        BY <1>1, <1>2, <2>1, SubSeqProperties
    <2> HIDE DEF r, n
    <2>3. v \in Nat /\ n - (k + 1) + 1 = v /\ Len(r) = v
        BY <1>1, <1>2, <2>2
    <2>4. ASSUME NEW i \in 1 .. v PROVE r[i] = l[k + i]
        <3>1. (k + 1) + i - 1 = k + i
            BY <1>1, <1>2
        <3> QED
            BY <2>2, <2>3, <3>1
    <2> QED
        BY <2>2, <2>3, <2>4
<1> HIDE DEF r
<1>5. t \in Seq(Tokens)
    BY <1>3, <1>4, TrimStartType
<1>6. f \in 1 .. v + 1 /\ \A i \in 1 .. f - 1 : r[i] = "sp"
    <2>1. f \in 1 .. Len(r) + 1 /\ \A i \in 1 .. f - 1 : r[i] \in {"sp"}
        BY <1>4, FirstProperties
    <2> QED
        BY <1>4, <2>1
<1>7. t = SubSeq(r, f, Len(r))
    BY <1>3 DEF TrimStart
<1> HIDE DEF f, n
<1>8. ASSUME t \in Seq(Fresh), NEW i \in 1 .. n PROVE l[i] \in X
    <2>1. "sp" \in X /\ Boxes \subseteq X
        BY FreshParts
    <2>2. CASE i <= k
        <3>1. i = k \/ i \in 1 .. k - 1
            BY <1>1, <1>2, <2>2
        <3> QED
            BY <1>2, <2>1, <3>1
    <2>3. CASE k < i
        <3> DEFINE j == i - k
        <3>1. j \in 1 .. v /\ k + j = i
            BY <1>1, <1>2, <2>3
        <3> HIDE DEF j
        <3>2. l[i] = r[j]
            BY <1>4, <3>1
        <3>3. CASE j < f
            <4>1. j \in 1 .. f - 1
                BY <1>4, <1>6, <3>1, <3>3
            <4> QED
                BY <1>6, <2>1, <3>2, <4>1
        <3>4. CASE f <= j
            <4> DEFINE h == j - f + 1
            <4>1. /\ Len(t) = v - f + 1 /\ \A x \in 1 .. v - f + 1 : t[x] = r[f + x - 1]
                <5>1. \A x \in f .. v : r[x] \in Tokens
                    <6>1. \A x \in f .. v : x \in 1 .. Len(r)
                        BY <1>4, <1>6
                    <6> QED
                        BY <1>4, <6>1, ElementOfSeq
                <5>2. f \in Int /\ v \in Int /\ f <= v
                    BY <1>4, <1>6, <3>1, <3>4
                <5>3. /\ Len(SubSeq(r, f, v)) = IF f <= v THEN v - f + 1 ELSE 0
                      /\ \A x \in 1 .. v - f + 1 : SubSeq(r, f, v)[x] = r[f + x - 1]
                    BY <1>6, <5>1, <5>2, SubSeqProperties
                <5> QED
                    BY <1>4, <1>7, <5>2, <5>3
            <4>2. h \in 1 .. v - f + 1 /\ f + h - 1 = j
                BY <1>4, <1>6, <3>1, <3>4
            <4> HIDE DEF h
            <4>3. l[i] = t[h] /\ h \in 1 .. Len(t)
                BY <3>2, <4>1, <4>2
            <4>4. t[h] \in Fresh
                BY <1>8, <4>3, ElementOfSeq
            <4> QED
                BY <1>1, <4>3, <4>4
        <3> QED
            BY <1>4, <1>6, <3>1, <3>3, <3>4
    <2> QED
        BY <1>1, <1>2, <2>2, <2>3
<1>9. ASSUME t \in Seq(Fresh) PROVE l \in FreshLine
    <2>1. l = [i \in 1 .. n |-> l[i]]
        BY <1>1 DEF n
    <2>2. \A i \in 1 .. n : l[i] \in X
        BY <1>8, <1>9
    <2> HIDE DEF X
    <2>3. [i \in 1 .. n |-> l[i]] \in Seq(X)
        BY <1>1, <2>2
    <2> QED
        BY <2>1, <2>3 DEF X, FreshLine
<1> QED
    BY <1>5, <1>9 DEF t

\* A todo renamed from a fresh text to a fresh one takes no status and no tag.
LEMMA RenamedTodoKeeps ==
    ASSUME NEW b \in Seq(Tokens), NEW n \in DOMAIN Todos(b), NEW text \in Seq(Fresh),
           Todos(b)[n].text \in Seq(Fresh)
    PROVE  LET d == SetTodoText(b, n, text)
           IN  Status(d) = Status(b) /\ TagsOf(Rest(d)) = TagsOf(Rest(b))
<1> DEFINE ls == Lines(b)
           at == ItemLine(ls, n)
           l == ls[at]
           k == First(l, {"sp"})
           t == Trim(Flat(text))
           w == SubSeq(l, 1, k) \o <<"sp">> \o t
           ms == [ls EXCEPT ![at] = w]
           d == SetTodoText(b, n, text)
           X == Fresh \ {"nl"}
<1>1. ls \in Seq(Line) /\ ls # <<>>
    BY LinesType
<1>2. Todos(b) = ListOf(ls)
    BY TodosAreListed
<1>3. d = Join(ms)
    BY DEF SetTodoText, Flat
<1>0. text \in Seq(Tokens)
    BY FreshParts, SeqMonotonic
<1>a. d \in Seq(Tokens)
    BY <1>0, RenamedIsRead
<1> HIDE DEF ls, d
<1>4. n \in 1 .. Cardinality(Items(ls))
    BY <1>1, <1>2, ItemsProperties
<1>5. at \in 1 .. Len(ls) /\ l \in Line /\ IsItem(l) /\ ListOf(ls)[n] = Item(l)
    BY <1>1, <1>4, ItemsProperties
<1>6. l \in FreshLine /\ l \in Seq(X)
    <2>1. Item(l).text \in Seq(Fresh)
        BY <1>2, <1>5
    <2> HIDE DEF at, l
    <2>2. l \in FreshLine
        BY <1>5, <2>1, ItemText
    <2> QED
        BY <2>2 DEF FreshLine
<1> HIDE DEF at, l
<1>7. k \in 1 .. Len(l) /\ Len(l) \in Nat
    BY <1>5, ItemHasBox, LenProperties DEF Line
<1> HIDE DEF k
<1>8. t \in Seq(X)
    <2> DEFINE u == Flat(text)
    <2>1. u \in Seq(X)
        <3>1. DOMAIN text = 1 .. Len(text) /\ Len(text) \in Nat
            BY LenProperties
        <3>2. \A i \in 1 .. Len(text) : text[i] \in Fresh
            BY ElementOfSeq
        <3>3. "sp" \in X
            BY FreshParts
        <3>4. \A i \in 1 .. Len(text) : (IF text[i] = "nl" THEN "sp" ELSE text[i]) \in X
            BY <3>2, <3>3
        <3>5. u = [i \in 1 .. Len(text) |-> IF text[i] = "nl" THEN "sp" ELSE text[i]]
            BY <3>1 DEF Flat
        <3> DEFINE m == Len(text)
        <3> HIDE DEF X, u
        <3>6. [i \in 1 .. m |-> IF text[i] = "nl" THEN "sp" ELSE text[i]] \in Seq(X)
            BY <3>1, <3>4
        <3> QED
            BY <3>5, <3>6
    <2> HIDE DEF u, X
    <2> QED
        BY <2>1, TrimProperties DEF u
<1> DEFINE p == SubSeq(l, 1, k)
           u == <<"sp">>
<1>9. w \in FreshLine
    <2>1. \A i \in 1 .. k : l[i] \in X
        <3>1. \A i \in 1 .. k : i \in 1 .. Len(l)
            BY <1>7
        <3> HIDE DEF X
        <3> QED
            BY <1>6, <3>1, ElementOfSeq
    <2>2. "sp" \in X
        BY FreshParts
    <2>3. u \in Seq(X)
        BY <2>2
    <2>4. p \in Seq(X)
        <3> HIDE DEF X
        <3> QED
            BY <1>7, <2>1, SubSeqProperties
    <2>5. w = (p \o u) \o t
        OBVIOUS
    <2> HIDE DEF X, p, u, t, w
    <2>6. p \o u \in Seq(X)
        BY <2>3, <2>4, ConcatProperties
    <2>7. (p \o u) \o t \in Seq(X)
        BY <1>8, <2>6, ConcatProperties
    <2>8. w \in Seq(X)
        BY <2>5, <2>7
    <2> QED
        BY <2>8 DEF X, FreshLine
<1>10. w \in Line
    BY <1>9, FreshIsBland
<1> HIDE DEF w
<1>11. PICK P \in Seq(Line), Q \in Seq(Line) : ls = Put(P, <<l>>, Q) /\ ms = Put(P, <<w>>, Q)
    <2> DEFINE A == SubSeq(ls, 1, at - 1)
               Z == SubSeq(ls, at + 1, Len(ls))
    <2>1. /\ A \in Seq(Line) /\ Z \in Seq(Line)
          /\ ls = Put(A, <<ls[at]>>, Z)
          /\ [ls EXCEPT ![at] = w] = Put(A, <<w>>, Z)
        BY <1>1, <1>5, <1>10, LineIn
    <2> HIDE DEF A, Z
    <2> QED
        BY <2>1 DEF l
<1> HIDE DEF ms
<1>12. Lines(d) = ms
    <2>1. Put(P, <<w>>, Q) \in Seq(Line) /\ Put(P, <<w>>, Q) # <<>>
        BY <1>10, LineSet
    <2> QED
        BY <1>3, <1>11, <2>1, LinesOfJoin
<1>13. Lines(b) = Put(P, <<l>>, Q) /\ Lines(d) = Put(P, <<w>>, Q)
    BY <1>11, <1>12 DEF ls
<1>14. Status(d) = Status(b) /\ TagsOf(Rest(d)) = TagsOf(Rest(b))
    BY <1>a, <1>6, <1>9, <1>13, FreshLineKeeps
<1> QED
    BY <1>14 DEF d

\* A title is a text.
LEMMA TitleType ==
    ASSUME NEW b \in Seq(Tokens)
    PROVE  Title(b) \in Seq(Tokens)
<1> DEFINE ls == Lines(b)
           usable == {n \in DOMAIN ls : Usable(ls[n])}
           i == Least(usable)
           l == ls[i]
<1>1. ls \in Seq(Line) /\ Len(ls) \in Nat /\ DOMAIN ls = 1 .. Len(ls)
    BY LinesType, LenProperties
<1>2. Title(b) = IF usable = {} THEN <<>> ELSE Titled(l)
    BY DEF Title, Titled
<1>3. CASE usable = {}
    BY <1>2, <1>3
<1>4. CASE usable # {}
    <2>1. usable \subseteq Nat
        BY <1>1
    <2>2. i \in usable
        <3> HIDE DEF usable
        <3> QED
            BY <1>4, <2>1, LeastProperties
    <2>3. l \in Line
        BY <1>1, <2>2, ElementOfSeq
    <2> HIDE DEF l
    <2>4. Trim(l) \in Seq(Tokens)
        <3>1. l \in Seq(Tokens)
            BY <2>3, SeqMonotonic DEF Line
        <3> QED
            BY <3>1, TrimProperties
    <2> DEFINE t == Trim(l)
    <2>5. t \in Seq(Tokens) /\ Len(t) \in Nat
        BY <2>4, LenProperties
    <2> HIDE DEF t
    <2>6. Len(t) > 1 => SubSeq(t, 3, Len(t)) \in Seq(Tokens)
        BY <2>5
    <2>7. Len(t) > 1 => Trim(SubSeq(t, 3, Len(t))) \in Seq(Tokens)
        BY <2>6, TrimProperties
    <2>8. Titled(l) = IF Len(t) > 1 /\ t[1] = "h" /\ t[2] = "sp"
                      THEN Trim(SubSeq(t, 3, Len(t))) ELSE t
        BY DEF Titled, t
    <2>9. Titled(l) \in Seq(Tokens)
        BY <2>5, <2>7, <2>8
    <2> QED
        BY <1>2, <1>4, <2>9
<1> QED
    BY <1>3, <1>4

\* Texts alike but for their boxes are the same with all boxes empty.
LEMMA UncheckedAlike ==
    ASSUME NEW b \in Seq(Tokens), NEW c \in Seq(Tokens), Reboxed(b, c)
    PROVE  Unchecked(c) = Unchecked(b)
<1> DEFINE n == Len(b)
<1>1. DOMAIN b = 1 .. n /\ DOMAIN c = 1 .. n
    BY LenProperties DEF Reboxed
<1>2. \A i \in 1 .. n : c[i] = b[i] \/ (c[i] \in Boxes /\ b[i] \in Boxes)
    BY DEF Reboxed
<1> HIDE DEF n
<1>3. [i \in 1 .. n |-> IF c[i] \in Boxes THEN "[ ]" ELSE c[i]]
        = [i \in 1 .. n |-> IF b[i] \in Boxes THEN "[ ]" ELSE b[i]]
    BY <1>2
<1> QED
    BY <1>1, <1>3 DEF Unchecked

-----------------------------------------------------------------------------
(* A tag removed, and what an added one keeps.                              *)

\* The lines of the first n tokens of a text.
LinesUpTo(b, n) == Lines(SubSeq(b, 1, n))

LEMMA LinesUpToNothing ==
    ASSUME NEW b \in Seq(Tokens)
    PROVE  Len(LinesUpTo(b, 0)) = 1 /\ LinesUpTo(b, 0)[1] = <<>>
<1>1. SubSeq(b, 1, 0) = <<>>
    OBVIOUS
<1> DEFINE e == <<>>
<1>2. e \in Line
    BY DEF Line
<1>3. Lines(<<>>) = <<e>>
    BY <1>2, LinesOfLine DEF e
<1> HIDE DEF e
<1>4. Len(<<e>>) = 1 /\ <<e>>[1] = e
    OBVIOUS
<1> QED
    BY <1>1, <1>3, <1>4 DEF LinesUpTo, e

\* What one more token does to them.
LEMMA LinesUpToNext ==
    ASSUME NEW b \in Seq(Tokens), NEW n \in 0 .. Len(b) - 1
    PROVE  LET P == LinesUpTo(b, n)
               R == LinesUpTo(b, n + 1)
               y == Len(P)
               t == b[n + 1]
           IN  /\ t \in Tokens /\ P \in Seq(Line) /\ R \in Seq(Line) /\ y \in Nat \ {0}
               /\ LineOf(b, n + 1) = y
               /\ t = "nl" => /\ Len(R) = y + 1 /\ R[y + 1] = <<>>
                              /\ \A i \in 1 .. y : R[i] = P[i]
               /\ t # "nl" => /\ Len(R) = y /\ R[y] = Append(P[y], t)
                              /\ \A i \in 1 .. y - 1 : R[i] = P[i]
<1> DEFINE s == SubSeq(b, 1, n)
           t == b[n + 1]
<1>1. /\ s \in Seq(Tokens) /\ t \in Tokens /\ n + 1 \in 1 .. Len(b)
      /\ SubSeq(b, 1, n + 1) = Append(s, t)
    BY Prefix
<1>2. LineOf(b, n + 1) = Len(Lines(s))
    <2>1. n + 1 - 1 = n
        OBVIOUS
    <2>2. LineOf(b, n + 1) = Len(Lines(SubSeq(b, 1, n + 1 - 1)))
        BY <1>1, LineOfIs
    <2> QED
        BY <2>1, <2>2
<1>3. LinesUpTo(b, n) = Lines(s) /\ LinesUpTo(b, n + 1) = Lines(Append(s, t))
    BY <1>1 DEF LinesUpTo
<1> HIDE DEF s
<1>4. LET P == Lines(s)
          R == Lines(Append(s, t))
          y == Len(P)
      IN  /\ P \in Seq(Line) /\ R \in Seq(Line) /\ y \in Nat \ {0}
          /\ t = "nl" => /\ Len(R) = y + 1 /\ R[y + 1] = <<>>
                         /\ \A i \in 1 .. y : R[i] = P[i]
          /\ t # "nl" => /\ Len(R) = y /\ R[y] = Append(P[y], t)
                         /\ \A i \in 1 .. y - 1 : R[i] = P[i]
    <2> HIDE DEF t
    <2> QED
        BY <1>1, LinesOfAppend
<1> QED
    BY <1>1, <1>2, <1>3, <1>4, Zenon

\* One list of lines begins as the other does, up to the last line of it.
Starts(P, L) ==
    /\ Len(P) <= Len(L)
    /\ \A i \in 1 .. Len(P) - 1 : P[i] = L[i]
    /\ P[Len(P)] # <<>> => L[Len(P)] # <<>> /\ L[Len(P)][1] = P[Len(P)][1]

LEMMA LinesUpToStart ==
    ASSUME NEW b \in Seq(Tokens), NEW n \in 0 .. Len(b)
    PROVE  Starts(LinesUpTo(b, n), Lines(b))
<1> DEFINE N == Len(b)
           P == LinesUpTo(b, n)
           y == Len(P)
           R(e) == LinesUpTo(b, n + e)
           T == {e \in Nat : n + e <= N => Starts(P, R(e))}
<1>0. N \in Nat /\ n \in Nat /\ n <= N
    OBVIOUS
<1>1. ASSUME NEW e \in Nat, n + e <= N
      PROVE  R(e) \in Seq(Line) /\ Len(R(e)) \in Nat \ {0}
    <2>1. SubSeq(b, 1, n + e) \in Seq(Tokens)
        <3>1. CASE n + e = N
            BY <3>1
        <3>2. CASE n + e # N
            <4>1. n + e \in 0 .. N - 1
                BY <1>0, <1>1, <3>2
            <4> HIDE DEF N
            <4> QED
                BY <4>1, Prefix DEF N
        <3> QED
            BY <3>1, <3>2
    <2> QED
        BY <2>1, LinesType DEF LinesUpTo
<1>2. n + 0 = n
    BY <1>0
<1>3. P \in Seq(Line) /\ y \in Nat \ {0}
    <2>1. n + 0 <= N
        BY <1>0
    <2> QED
        BY <1>1, <1>2, <2>1
<1>4. 0 \in T
    BY <1>2, <1>3 DEF Starts
<1>5. ASSUME NEW e \in Nat, e \in T PROVE e + 1 \in T
    <2> SUFFICES ASSUME n + (e + 1) <= N PROVE Starts(P, R(e + 1))
        OBVIOUS
    <2> DEFINE k == n + e
               t == b[k + 1]
               S == R(e)
               U == R(e + 1)
               z == Len(S)
    <2>1. k \in 0 .. N - 1 /\ n + (e + 1) = k + 1 /\ n + e <= N
        BY <1>0
    <2>2. Starts(P, S)
        BY <1>5, <2>1
    <2>3. /\ t \in Tokens /\ S \in Seq(Line) /\ z \in Nat \ {0}
          /\ t = "nl" => /\ Len(U) = z + 1 /\ U[z + 1] = <<>>
                         /\ \A i \in 1 .. z : U[i] = S[i]
          /\ t # "nl" => /\ Len(U) = z /\ U[z] = Append(S[z], t)
                         /\ \A i \in 1 .. z - 1 : U[i] = S[i]
        BY <2>1, LinesUpToNext
    <2> HIDE DEF S, U, P, t, N, k
    <2>4. y <= z /\ \A i \in 1 .. y - 1 : P[i] = S[i]
        BY <2>2 DEF Starts
    <2>5. CASE t = "nl"
        <3>1. Len(U) = z + 1 /\ \A i \in 1 .. z : U[i] = S[i]
            BY <2>3, <2>5
        <3>2. y <= Len(U) /\ y \in 1 .. z /\ \A i \in 1 .. y - 1 : i \in 1 .. z
            BY <1>3, <2>3, <2>4, <3>1
        <3>3. U[y] = S[y] /\ \A i \in 1 .. y - 1 : P[i] = U[i]
            BY <2>4, <3>1, <3>2
        <3> QED
            BY <2>2, <3>2, <3>3 DEF Starts, U, R
    <2>6. CASE t # "nl"
        <3>1. Len(U) = z /\ U[z] = Append(S[z], t) /\ \A i \in 1 .. z - 1 : U[i] = S[i]
            BY <2>3, <2>6
        <3>2. y <= Len(U) /\ \A i \in 1 .. y - 1 : i \in 1 .. z - 1
            BY <1>3, <2>3, <2>4, <3>1
        <3>3. \A i \in 1 .. y - 1 : P[i] = U[i]
            BY <2>4, <3>1, <3>2
        <3>4. ASSUME P[y] # <<>> PROVE U[y] # <<>> /\ U[y][1] = P[y][1]
            <4>1. S[y] # <<>> /\ S[y][1] = P[y][1]
                BY <2>2, <3>4 DEF Starts
            <4>2. CASE y < z
                <5>1. y \in 1 .. z - 1
                    BY <1>3, <2>3, <4>2
                <5> QED
                    BY <3>1, <4>1, <5>1
            <4>3. CASE y = z
                <5> DEFINE l == S[z]
                <5>1. l \in Seq(Tokens)
                    <6>1. l \in Line
                        BY <2>3, ElementOfSeq
                    <6> QED
                        BY <6>1, LineIsText
                <5> HIDE DEF l
                <5>2. l # <<>> /\ l[1] = P[y][1]
                    BY <4>1, <4>3 DEF l
                <5>3. Append(l, t) # <<>> /\ Append(l, t)[1] = l[1]
                    <6>1. Len(l) \in Nat /\ Len(l) # 0
                        BY <5>1, <5>2, EmptySeq
                    <6> QED
                        BY <2>3, <5>1, <6>1, AppendProperties
                <5> QED
                    BY <3>1, <4>3, <5>2, <5>3 DEF l
            <4> QED
                BY <1>3, <2>3, <2>4, <4>2, <4>3
        <3> QED
            BY <3>2, <3>3, <3>4 DEF Starts, U, R
    <2> QED
        BY <2>5, <2>6
<1>6. Nat \subseteq T
    <2> HIDE DEF T
    <2> QED
        BY <1>4, <1>5, AllNumbers
<1>7. N - n \in Nat /\ n + (N - n) = N
    BY <1>0
<1>8. Starts(P, LinesUpTo(b, N))
    BY <1>6, <1>7
<1>9. SubSeq(b, 1, N) = b
    OBVIOUS
<1> QED
    BY <1>8, <1>9 DEF LinesUpTo

\* How many of the first n places are in K, and where each member of K stands.
KeptUpTo(K, n) == Cardinality(Upto(K, n))
Places(K) == [k \in 1 .. Cardinality(K) |-> Nth(K, k)]

LEMMA KeptIs ==
    ASSUME NEW N \in Nat, NEW K \in SUBSET (1 .. N)
    PROVE  /\ Cardinality(K) \in Nat /\ KeptUpTo(K, 0) = 0 /\ KeptUpTo(K, N) = Cardinality(K)
           /\ \A n \in 0 .. N : KeptUpTo(K, n) \in 0 .. Cardinality(K)
           /\ \A n \in 0 .. N - 1 : /\ n + 1 \in K => KeptUpTo(K, n + 1) = KeptUpTo(K, n) + 1
                                    /\ n + 1 \notin K => KeptUpTo(K, n + 1) = KeptUpTo(K, n)
<1>1. /\ IsFiniteSet(K) /\ Cardinality(K) \in Nat
      /\ \A i \in Int : IsFiniteSet(Upto(K, i)) /\ Cardinality(Upto(K, i)) \in Nat
      /\ Cardinality(Upto(K, 0)) = 0
      /\ Upto(K, N) = K
      /\ \A i \in 1 .. N : Cardinality(Upto(K, i)) =
            Cardinality(Upto(K, i - 1)) + (IF i \in K THEN 1 ELSE 0)
    BY UptoProperties
<1>2. \A n \in 0 .. N : KeptUpTo(K, n) \in 0 .. Cardinality(K)
    <2>1. SUFFICES ASSUME NEW n \in 0 .. N PROVE KeptUpTo(K, n) \in 0 .. Cardinality(K)
        OBVIOUS
    <2>2. Upto(K, n) \subseteq K
        BY DEF Upto
    <2>3. Cardinality(Upto(K, n)) <= Cardinality(K)
        BY <1>1, <2>2, FS_Subset
    <2>4. n \in Int
        OBVIOUS
    <2> QED
        BY <1>1, <2>3, <2>4 DEF KeptUpTo
<1>3. ASSUME NEW n \in 0 .. N - 1
      PROVE  KeptUpTo(K, n + 1) = KeptUpTo(K, n) + (IF n + 1 \in K THEN 1 ELSE 0)
    <2>1. n + 1 \in 1 .. N /\ (n + 1) - 1 = n
        OBVIOUS
    <2>2. KeptUpTo(K, n + 1) = KeptUpTo(K, (n + 1) - 1) + (IF n + 1 \in K THEN 1 ELSE 0)
        BY <1>1, <2>1 DEF KeptUpTo
    <2> QED
        BY <2>1, <2>2
<1>4. \A n \in 0 .. N - 1 : n \in 0 .. N
    OBVIOUS
<1> QED
    BY <1>1, <1>2, <1>3, <1>4 DEF KeptUpTo

LEMMA PlacesAre ==
    ASSUME NEW N \in Nat, NEW K \in SUBSET (1 .. N)
    PROVE  LET g == Places(K)
               m == Cardinality(K)
           IN  /\ Rises(g, m, N) /\ m \in Nat
               /\ \A k \in 1 .. m : g[k] \in K
               /\ \A i \in K : KeptUpTo(K, i) \in 1 .. m /\ g[KeptUpTo(K, i)] = i
               /\ \A k \in 1 .. m : KeptUpTo(K, g[k]) = k
<1> DEFINE g == Places(K)
           m == Cardinality(K)
<1>1. m \in Nat /\ \A i \in K : i \in 1 .. N /\ i \in Int
    <2>1. \A i \in K : i \in 1 .. N /\ i \in Int
        OBVIOUS
    <2> QED
        BY <2>1, KeptIs
<1>2. ASSUME NEW k \in 1 .. m PROVE g[k] \in K /\ KeptUpTo(K, g[k]) = k
    <2>1. Nth(K, k) \in K /\ Cardinality(Upto(K, Nth(K, k))) = k
        BY NthProperties
    <2> QED
        BY <2>1 DEF Places, KeptUpTo
<1>3. g \in [1 .. m -> 1 .. N]
    <2>1. g = [k \in 1 .. m |-> g[k]]
        BY DEF Places
    <2> HIDE DEF g
    <2> QED
        BY <1>1, <1>2, <2>1
<1> HIDE DEF g, m
<1>4. ASSUME NEW j \in 1 .. m, NEW k \in 1 .. m, j < k PROVE g[j] < g[k]
    <2>0. g[j] \in Int /\ g[k] \in Int /\ \A i \in K : i \in Int
        <3>1. g[j] \in K /\ g[k] \in K
            BY <1>2
        <3> QED
            BY <1>1, <3>1
    <2> SUFFICES ASSUME g[k] <= g[j] PROVE FALSE
        BY <2>0
    <2>1. Upto(K, g[k]) \subseteq Upto(K, g[j])
        <3>1. \A a \in K : a <= g[k] => a <= g[j]
            BY <2>0
        <3> QED
            BY <3>1 DEF Upto
    <2>2. IsFiniteSet(Upto(K, g[j])) /\ IsFiniteSet(Upto(K, g[k]))
        BY <2>0, UptoProperties
    <2>3. Cardinality(Upto(K, g[k])) <= Cardinality(Upto(K, g[j]))
        BY <2>1, <2>2, FS_Subset
    <2>4. k <= j
        BY <1>2, <2>3 DEF KeptUpTo
    <2> QED
        BY <1>1, <1>4, <2>4
<1>5. Rises(g, m, N)
    BY <1>3, <1>4 DEF Rises
<1>6. ASSUME NEW i \in K PROVE KeptUpTo(K, i) \in 1 .. m /\ g[KeptUpTo(K, i)] = i
    <2> DEFINE n == KeptUpTo(K, i)
    <2>1. n \in Nat /\ n <= m
        <3>1. i \in 0 .. N
            BY <1>1
        <3> QED
            BY <3>1, KeptIs DEF m
    <2>2. n # 0
        <3>1. i - 1 \in 0 .. N - 1 /\ (i - 1) + 1 = i /\ i - 1 \in 0 .. N
            BY <1>1
        <3>2. KeptUpTo(K, i - 1) \in Nat /\ n = KeptUpTo(K, i - 1) + 1
            <4>1. \A a \in 0 .. N : KeptUpTo(K, a) \in Nat
                BY <1>1, KeptIs DEF m
            <4>2. KeptUpTo(K, (i - 1) + 1) = KeptUpTo(K, i - 1) + 1
                BY <3>1, KeptIs
            <4> QED
                BY <3>1, <4>1, <4>2
        <3> QED
            BY <3>2
    <2>3. n \in 1 .. m
        BY <1>1, <2>1, <2>2
    <2>4. Nth(K, n) = i
        BY NthIs DEF KeptUpTo
    <2> QED
        BY <2>3, <2>4 DEF g, Places, m
<1> QED
    BY <1>1, <1>2, <1>5, <1>6 DEF g, m

\* The text of the kept places.
LEMMA PickedIs ==
    ASSUME NEW b \in Seq(Tokens), NEW K \in SUBSET (1 .. Len(b))
    PROVE  LET c == Picked(b, K)
           IN  /\ c \in Seq(Tokens) /\ Len(c) = Cardinality(K)
               /\ \A k \in 1 .. Len(c) : c[k] = b[Places(K)[k]]
<1> DEFINE m == Cardinality(K)
           c == Picked(b, K)
           g == Places(K)
<1>1. Len(b) \in Nat
    OBVIOUS
<1>2. m \in Nat /\ \A k \in 1 .. m : g[k] \in 1 .. Len(b)
    BY <1>1, PlacesAre
<1>3. c = [k \in 1 .. m |-> b[g[k]]]
    BY DEF Picked, Places
<1> HIDE DEF g, m, c
<1>4. \A k \in 1 .. m : b[g[k]] \in Tokens
    BY <1>2, ElementOfSeq
<1>5. [k \in 1 .. m |-> b[g[k]]] \in Seq(Tokens)
    BY <1>2, <1>4
<1>6. Len(c) = m
    BY <1>2, <1>3
<1> QED
    BY <1>3, <1>5, <1>6 DEF g, m, c

\* Between two places that follow one another, and before the first, none is kept.
LEMMA BetweenPlaces ==
    ASSUME NEW N \in Nat, NEW K \in SUBSET (1 .. N), NEW k \in 1 .. Cardinality(K)
    PROVE  LET g == Places(K)
           IN  /\ k > 1 => /\ k - 1 \in 1 .. Cardinality(K) /\ g[k - 1] < g[k]
                           /\ \A i \in g[k - 1] + 1 .. g[k] - 1 : i \notin K
               /\ k = 1 => \A i \in 1 .. g[k] - 1 : i \notin K
<1> DEFINE g == Places(K)
           m == Cardinality(K)
<1>1. /\ Rises(g, m, N) /\ m \in Nat
      /\ \A i \in K : KeptUpTo(K, i) \in 1 .. m /\ g[KeptUpTo(K, i)] = i
      /\ \A i \in K : i \in Nat
    <2>1. \A i \in K : i \in Nat
        OBVIOUS
    <2> QED
        BY <2>1, PlacesAre
<1> HIDE DEF g
<1>2. ASSUME NEW i \in K, i < g[k] PROVE KeptUpTo(K, i) < k
    <2>1. KeptUpTo(K, i) \in 1 .. m /\ g[KeptUpTo(K, i)] = i
        BY <1>1
    <2> QED
        BY <1>1, <1>2, <2>1, RisesOrder DEF m
<1>3. ASSUME k > 1, NEW i \in K, g[k - 1] < i PROVE k - 1 < KeptUpTo(K, i)
    <2>1. KeptUpTo(K, i) \in 1 .. m /\ g[KeptUpTo(K, i)] = i /\ k - 1 \in 1 .. m
        BY <1>1, <1>3
    <2> QED
        BY <1>1, <1>3, <2>1, RisesOrder
<1>4. /\ \A i \in K : KeptUpTo(K, i) \in Nat
      /\ g[k] \in Nat
      /\ k > 1 => k - 1 \in 1 .. m /\ g[k - 1] \in Nat /\ g[k - 1] < g[k]
    <2>1. k > 1 => k - 1 \in 1 .. m /\ k - 1 < k
        BY <1>1
    <2> QED
        BY <1>1, <2>1 DEF Rises
<1>5. k > 1 => \A i \in g[k - 1] + 1 .. g[k] - 1 : i \notin K
    <2> SUFFICES ASSUME k > 1, NEW i \in g[k - 1] + 1 .. g[k] - 1, i \in K PROVE FALSE
        OBVIOUS
    <2>1. g[k - 1] < i /\ i < g[k]
        BY <1>1, <1>4
    <2>2. KeptUpTo(K, i) < k /\ k - 1 < KeptUpTo(K, i)
        BY <1>2, <1>3, <2>1
    <2> QED
        BY <1>4, <2>2
<1>6. k = 1 => \A i \in 1 .. g[k] - 1 : i \notin K
    <2> SUFFICES ASSUME k = 1, NEW i \in 1 .. g[k] - 1, i \in K PROVE FALSE
        OBVIOUS
    <2>1. i < g[k]
        BY <1>4
    <2>2. KeptUpTo(K, i) < k /\ KeptUpTo(K, i) >= 1
        BY <1>1, <1>2, <2>1
    <2> QED
        BY <1>4, <2>2
<1> QED
    BY <1>4, <1>5, <1>6 DEF g, m

\* Lines Q are what is left of the first y lines of L: h says which line each is
\* of, the last of the last; all fences but that of line y are among them.
Tracks(h, Q, y, L) ==
    /\ Rises(h, Len(Q), y) /\ h[Len(Q)] = y
    /\ \A j \in 1 .. Len(Q) - 1 : SameFence(Q[j], L[h[j]])
    /\ \A i \in 1 .. y - 1 : FenceRun(L[i]) # 0 => \E j \in 1 .. Len(Q) : h[j] = i

\* What is left of a line that is full, or of one that is no fence.
Left(q, p, l) == q = p \/ (FenceRun(l) = 0 /\ FenceRun(q) = 0)

\* R is P with a break at its end; R is P with a token at its end.
Broken(R, P) ==
    /\ Len(R) = Len(P) + 1 /\ R[Len(P) + 1] = <<>>
    /\ \A i \in 1 .. Len(P) : R[i] = P[i]
OneLonger(R, P, t) ==
    /\ Len(R) = Len(P) /\ R[Len(P)] = Append(P[Len(P)], t)
    /\ \A i \in 1 .. Len(P) - 1 : R[i] = P[i]

\* A line more on both sides.
OneOnBoth(h, x, y) == [j \in 1 .. x + 1 |-> IF j = x + 1 THEN y + 1 ELSE h[j]]

LEMMA BothBreak ==
    ASSUME NEW Q, NEW S, NEW L, NEW y \in Nat \ {0}, Len(Q) \in Nat \ {0},
           NEW h, Tracks(h, Q, y, L), Left(Q[Len(Q)], L[y], L[y]), Broken(S, Q)
    PROVE  Tracks(OneOnBoth(h, Len(Q), y), S, y + 1, L)
<1> DEFINE x == Len(Q)
           f == OneOnBoth(h, x, y)
<1>1. /\ Rises(h, x, y) /\ h[x] = y /\ x \in Nat \ {0}
      /\ \A j \in 1 .. x - 1 : SameFence(Q[j], L[h[j]])
      /\ \A i \in 1 .. y - 1 : FenceRun(L[i]) # 0 => \E j \in 1 .. x : h[j] = i
    BY DEF Tracks
<1>2. Len(S) = x + 1 /\ \A j \in 1 .. x : S[j] = Q[j]
    BY DEF Broken
<1> HIDE DEF x
<1>3. /\ f = [j \in 1 .. x + 1 |-> IF j = x + 1 THEN y + 1 ELSE h[j]]
      /\ \A j \in 1 .. x : h[j] \in 1 .. y
    BY <1>1 DEF OneOnBoth, Rises
<1>4. f[x + 1] = y + 1 /\ \A j \in 1 .. x : f[j] = h[j]
    BY <1>1, <1>3
<1>5. f \in [1 .. x + 1 -> 1 .. y + 1]
    <2>1. \A j \in 1 .. x + 1 : (IF j = x + 1 THEN y + 1 ELSE h[j]) \in 1 .. y + 1
        BY <1>1, <1>3
    <2> HIDE DEF f
    <2> QED
        BY <1>3, <2>1
<1> HIDE DEF f
<1>6. Rises(f, x + 1, y + 1)
    <2>1. ASSUME NEW j \in 1 .. x + 1, NEW k \in 1 .. x + 1, j < k PROVE f[j] < f[k]
        <3>1. j \in 1 .. x
            BY <1>1, <2>1
        <3>2. CASE k = x + 1
            <4>1. h[j] \in 1 .. y
                BY <1>3, <3>1
            <4> QED
                BY <1>4, <3>1, <3>2, <4>1
        <3>3. CASE k # x + 1
            <4>1. k \in 1 .. x
                BY <1>1, <3>3
            <4>2. h[j] < h[k]
                BY <1>1, <2>1, <3>1, <4>1 DEF Rises
            <4> QED
                BY <1>4, <3>1, <4>1, <4>2
        <3> QED
            BY <3>2, <3>3
    <2> QED
        BY <1>5, <2>1 DEF Rises
<1>7. \A j \in 1 .. x : SameFence(S[j], L[f[j]])
    <2>1. SUFFICES ASSUME NEW j \in 1 .. x PROVE SameFence(S[j], L[f[j]])
        OBVIOUS
    <2>2. S[j] = Q[j] /\ f[j] = h[j]
        BY <1>2, <1>4
    <2>3. CASE j = x
        <3>1. SameFence(Q[x], L[y])
            BY DEF Left, SameFence, x
        <3> QED
            BY <1>1, <2>2, <2>3, <3>1
    <2>4. CASE j # x
        <3>1. j \in 1 .. x - 1
            BY <1>1, <2>4
        <3> QED
            BY <1>1, <2>2, <3>1
    <2> QED
        BY <2>3, <2>4
<1>8. ASSUME NEW i \in 1 .. y, FenceRun(L[i]) # 0 PROVE \E j \in 1 .. x + 1 : f[j] = i
    <2>1. \E j \in 1 .. x : h[j] = i
        <3>1. CASE i = y
            BY <1>1, <3>1
        <3>2. CASE i # y
            <4>1. i \in 1 .. y - 1
                BY <3>2
            <4> QED
                BY <1>1, <1>8, <4>1
        <3> QED
            BY <3>1, <3>2
    <2>2. \A j \in 1 .. x : j \in 1 .. x + 1
        BY <1>1
    <2> QED
        BY <1>4, <2>1, <2>2
<1>9. (x + 1) - 1 = x /\ (y + 1) - 1 = y
    BY <1>1
<1>10. Tracks(f, S, y + 1, L)
    BY <1>2, <1>4, <1>6, <1>7, <1>8, <1>9 DEF Tracks
<1> QED
    BY <1>10 DEF f, x

LEMMA BothGrow ==
    ASSUME NEW Q, NEW S, NEW L, NEW y, NEW t, NEW h, Tracks(h, Q, y, L), OneLonger(S, Q, t)
    PROVE  Tracks(h, S, y, L)
BY DEF Tracks, OneLonger

LEMMA OneBreaks ==
    ASSUME NEW Q, NEW L, NEW y \in Nat \ {0}, Len(Q) \in Nat \ {0},
           NEW h, Tracks(h, Q, y, L), FenceRun(L[y]) = 0
    PROVE  LET f == [h EXCEPT ![Len(Q)] = y + 1]
           IN  /\ Tracks(f, Q, y + 1, L)
               /\ \A j \in 1 .. Len(Q) - 1 : f[j] = h[j]
<1> DEFINE x == Len(Q)
           f == [h EXCEPT ![x] = y + 1]
<1>1. /\ Rises(h, x, y) /\ h[x] = y /\ x \in Nat \ {0}
      /\ \A j \in 1 .. x - 1 : SameFence(Q[j], L[h[j]])
      /\ \A i \in 1 .. y - 1 : FenceRun(L[i]) # 0 => \E j \in 1 .. x : h[j] = i
    BY DEF Tracks
<1> HIDE DEF x
<1>2. h \in [1 .. x -> 1 .. y]
    BY <1>1 DEF Rises
<1>3. f[x] = y + 1 /\ \A j \in 1 .. x - 1 : f[j] = h[j]
    BY <1>1, <1>2
<1>4. f \in [1 .. x -> 1 .. y + 1]
    <2>1. 1 .. y \subseteq 1 .. y + 1 /\ y + 1 \in 1 .. y + 1
        OBVIOUS
    <2>2. h \in [1 .. x -> 1 .. y + 1]
        BY <1>2, <2>1
    <2> QED
        BY <2>1, <2>2
<1> HIDE DEF f
<1>5. Rises(f, x, y + 1)
    <2>1. ASSUME NEW j \in 1 .. x, NEW k \in 1 .. x, j < k PROVE f[j] < f[k]
        <3>1. j \in 1 .. x - 1 /\ h[j] \in 1 .. y
            BY <1>1, <1>2, <2>1
        <3>2. CASE k = x
            BY <1>3, <3>1, <3>2
        <3>3. CASE k # x
            <4>1. k \in 1 .. x - 1
                BY <1>1, <3>3
            <4>2. h[j] < h[k]
                BY <1>1, <2>1 DEF Rises
            <4> QED
                BY <1>3, <3>1, <4>1, <4>2
        <3> QED
            BY <3>2, <3>3
    <2> QED
        BY <1>4, <2>1 DEF Rises
<1>6. \A j \in 1 .. x - 1 : SameFence(Q[j], L[f[j]])
    BY <1>1, <1>3
<1>7. ASSUME NEW i \in 1 .. y, FenceRun(L[i]) # 0 PROVE \E j \in 1 .. x : f[j] = i
    <2>1. i # y /\ i \in 1 .. y - 1
        BY <1>7
    <2>2. PICK j \in 1 .. x : h[j] = i
        BY <1>1, <1>7, <2>1
    <2>3. j # x
        BY <1>1, <2>1, <2>2
    <2>4. j \in 1 .. x - 1
        BY <1>1, <2>3
    <2> QED
        BY <1>3, <2>2, <2>4
<1>8. (y + 1) - 1 = y
    OBVIOUS
<1>9. Tracks(f, Q, y + 1, L)
    BY <1>3, <1>5, <1>6, <1>7, <1>8 DEF Tracks, x
<1> QED
    BY <1>3, <1>9 DEF f, x

LEMMA LinesUpToType ==
    ASSUME NEW b \in Seq(Tokens), NEW n \in 0 .. Len(b)
    PROVE  LET P == LinesUpTo(b, n)
           IN  P \in Seq(Line) /\ Len(P) \in Nat \ {0} /\ P[Len(P)] \in Line
<1>1. SubSeq(b, 1, n) \in Seq(Tokens)
    <2>1. CASE n = Len(b)
        BY <2>1
    <2>2. CASE n # Len(b)
        <3>1. n \in 0 .. Len(b) - 1
            BY <2>2
        <3> QED
            BY <3>1, Prefix
    <2> QED
        BY <2>1, <2>2
<1> DEFINE P == LinesUpTo(b, n)
<1>2. P \in Seq(Line) /\ Len(P) \in Nat \ {0}
    BY <1>1, LinesType DEF LinesUpTo
<1> HIDE DEF P
<1>3. Len(P) \in 1 .. Len(P)
    BY <1>2
<1>4. P[Len(P)] \in Line
    BY <1>2, <1>3, ElementOfSeq
<1> QED
    BY <1>2, <1>4 DEF P

\* A line that is no fence becomes none by a token after others.
LEMMA NoFenceGrows ==
    ASSUME NEW l \in Line, NEW t \in Tokens, t # "nl", FenceRun(l) = 0, l # <<>> \/ t \notin Marks
    PROVE  FenceRun(Append(l, t)) = 0
<1> DEFINE m == Append(l, t)
           n == Len(l)
<1>1. /\ m \in Line /\ Len(m) = n + 1 /\ m[n + 1] = t /\ \A i \in 1 .. n : m[i] = l[i]
      /\ n \in Nat
    <2>1. t \in Tokens \ {"nl"}
        OBVIOUS
    <2> QED
        BY <2>1, AppendProperties DEF Line
<1> HIDE DEF m
<1>2. l = <<>> \/ l[1] \notin Marks
    BY FenceRunProperties
<1>3. m[1] \notin Marks
    <2>1. CASE l = <<>>
        BY <1>1, <2>1, EmptySeq
    <2>2. CASE l # <<>>
        <3>1. n # 0
            BY <2>2, EmptySeq DEF Line
        <3>2. 1 \in 1 .. n
            BY <1>1, <3>1
        <3> QED
            BY <1>1, <1>2, <2>2, <3>2
    <2> QED
        BY <2>1, <2>2
<1>4. FenceRun(m) = 0
    BY <1>1, <1>3, FenceRunProperties
<1> QED
    BY <1>4 DEF m

\* What K leaves out of b may go: it is on lines that are no fence, a break goes
\* with its line, and no mark comes to stand first on a line.
Removes(b, K) ==
    /\ \A j \in 1 .. Len(b) : j \notin K => FenceRun(Lines(b)[LineOf(b, j)]) = 0
    /\ \A j \in 1 .. Len(b) : j \notin K /\ b[j] = "nl" =>
          \A p \in K : p < j => \E k \in p .. j - 1 : b[k] = "nl"
    /\ \A q \in 1 .. Len(b) - 1 : q + 1 \in K /\ q \notin K /\ b[q + 1] \in Marks => b[q] = "nl"

\* Up to place n, the lines of what is left trace those of the text.
Standing(b, K, n, h) ==
    LET c == Picked(b, K)
        x == Len(LinesUpTo(c, KeptUpTo(K, n)))
    IN  \A k \in 1 .. KeptUpTo(K, n) :
            /\ LineOf(c, k) \in 1 .. x
            /\ h[LineOf(c, k)] = LineOf(b, Places(K)[k])
            /\ LineOf(c, k) = x => \A i \in Places(K)[k] .. n : b[i] # "nl"

LastLines(b, K, n) ==
    LET c == Picked(b, K)
        P == LinesUpTo(b, n)
        Q == LinesUpTo(c, KeptUpTo(K, n))
    IN  /\ Left(Q[Len(Q)], P[Len(P)], Lines(b)[Len(P)])
        /\ Q[Len(Q)] = <<>> /\ P[Len(P)] # <<>> => n \notin K /\ b[n] # "nl"
        /\ Q[Len(Q)] # <<>> => \E k \in 1 .. KeptUpTo(K, n) : LineOf(c, k) = Len(Q)

Traced(b, K, n, h) ==
    /\ Tracks(h, LinesUpTo(Picked(b, K), KeptUpTo(K, n)), Len(LinesUpTo(b, n)), Lines(b))
    /\ LastLines(b, K, n)
    /\ Standing(b, K, n, h)

LEMMA TracedAtFirst ==
    ASSUME NEW b \in Seq(Tokens), NEW K \in SUBSET (1 .. Len(b))
    PROVE  \E h : Traced(b, K, 0, h)
<1> DEFINE c == Picked(b, K)
           P == LinesUpTo(b, 0)
           Q == LinesUpTo(c, 0)
           h == [k \in 1 .. 1 |-> 1]
<1>1. KeptUpTo(K, 0) = 0
    <2>1. Len(b) \in Nat
        OBVIOUS
    <2> QED
        BY <2>1, KeptIs
<1>2. c \in Seq(Tokens)
    BY PickedIs
<1> HIDE DEF c
<1>3. Len(P) = 1 /\ P[1] = <<>> /\ Len(Q) = 1 /\ Q[1] = <<>>
    BY <1>2, LinesUpToNothing
<1> HIDE DEF P, Q
<1>4. Tracks(h, Q, Len(P), Lines(b))
    <2>1. h \in [1 .. 1 -> 1 .. 1] /\ h[1] = 1
        OBVIOUS
    <2> HIDE DEF h
    <2>2. Rises(h, 1, 1)
        BY <2>1 DEF Rises
    <2>3. 1 .. 1 - 1 = {}
        OBVIOUS
    <2> QED
        BY <1>3, <2>1, <2>2, <2>3 DEF Tracks
<1>5. LastLines(b, K, 0)
    BY <1>1, <1>3 DEF LastLines, Left, P, Q, c
<1>6. 1 .. 0 = {}
    OBVIOUS
<1>7. Standing(b, K, 0, h)
    BY <1>1, <1>6 DEF Standing
<1>8. Traced(b, K, 0, h)
    BY <1>1, <1>4, <1>5, <1>7 DEF Traced, P, Q, c
<1> QED
    BY <1>8

\* What holds of a text and of what is kept of it, where both go on.
LEMMA NextKept ==
    ASSUME NEW b \in Seq(Tokens), NEW K \in SUBSET (1 .. Len(b)), NEW n \in 0 .. Len(b) - 1,
           n + 1 \in K
    PROVE  LET c == Picked(b, K)
               a == KeptUpTo(K, n)
           IN  /\ c \in Seq(Tokens) /\ a \in 0 .. Len(c) - 1 /\ KeptUpTo(K, n + 1) = a + 1
               /\ Places(K)[a + 1] = n + 1 /\ c[a + 1] = b[n + 1]
<1> DEFINE c == Picked(b, K)
           g == Places(K)
           m == Cardinality(K)
           N == Len(b)
           a == KeptUpTo(K, n)
<1>1. N \in Nat /\ n \in 0 .. N
    OBVIOUS
<1>2. m \in Nat /\ a \in 0 .. m /\ KeptUpTo(K, n + 1) = a + 1
    <2>1. Cardinality(K) \in Nat /\ \A i \in 0 .. N : KeptUpTo(K, i) \in 0 .. Cardinality(K)
        BY <1>1, KeptIs
    <2>2. KeptUpTo(K, n + 1) = KeptUpTo(K, n) + 1
        BY <1>1, KeptIs
    <2> QED
        BY <1>1, <2>1, <2>2
<1>3. c \in Seq(Tokens) /\ Len(c) = m /\ \A k \in 1 .. m : c[k] = b[g[k]]
    BY PickedIs
<1>4. KeptUpTo(K, n + 1) \in 1 .. m /\ g[KeptUpTo(K, n + 1)] = n + 1
    BY <1>1, PlacesAre
<1> HIDE DEF c, g, m, a, N
<1>5. a + 1 \in 1 .. m /\ g[a + 1] = n + 1
    BY <1>2, <1>4
<1>6. c[a + 1] = b[n + 1]
    BY <1>3, <1>5
<1>7. a \in 0 .. Len(c) - 1
    BY <1>2, <1>3, <1>5
<1> QED
    BY <1>2, <1>3, <1>5, <1>6, <1>7 DEF c, g, a

LEMMA TracedKept ==
    ASSUME NEW b \in Seq(Tokens), NEW K \in SUBSET (1 .. Len(b)), Removes(b, K),
           NEW n \in 0 .. Len(b) - 1, NEW h, Traced(b, K, n, h), n + 1 \in K
    PROVE  \E f : Traced(b, K, n + 1, f)
<1> DEFINE N == Len(b)
           L == Lines(b)
           c == Picked(b, K)
           g == Places(K)
           a == KeptUpTo(K, n)
           P == LinesUpTo(b, n)
           R == LinesUpTo(b, n + 1)
           Q == LinesUpTo(c, a)
           S == LinesUpTo(c, a + 1)
           t == b[n + 1]
           x == Len(Q)
           y == Len(P)
<1>0. N \in Nat /\ n \in Nat /\ n + 1 <= N /\ n \in 0 .. N /\ n + 1 \in 0 .. N
    OBVIOUS
<1>1. /\ c \in Seq(Tokens) /\ a \in 0 .. Len(c) - 1 /\ KeptUpTo(K, n + 1) = a + 1
      /\ g[a + 1] = n + 1 /\ c[a + 1] = t
    BY NextKept
<1>2. /\ t \in Tokens /\ y \in Nat \ {0} /\ LineOf(b, n + 1) = y
      /\ t = "nl" => Broken(R, P)
      /\ t # "nl" => OneLonger(R, P, t)
    BY LinesUpToNext DEF Broken, OneLonger
<1>3. /\ x \in Nat \ {0} /\ LineOf(c, a + 1) = x
      /\ t = "nl" => Broken(S, Q)
      /\ t # "nl" => OneLonger(S, Q, t)
    <2> HIDE DEF c, a, t
    <2>1. LET u == c[a + 1]
          IN  /\ x \in Nat \ {0} /\ LineOf(c, a + 1) = x
              /\ u = "nl" => Broken(S, Q)
              /\ u # "nl" => OneLonger(S, Q, u)
        BY <1>1, LinesUpToNext DEF Broken, OneLonger
    <2> QED
        BY <1>1, <2>1
<1>4. Tracks(h, Q, y, L) /\ a \in Nat
    BY <1>1 DEF Traced
<1>5. /\ Left(Q[x], P[y], L[y])
      /\ Q[x] = <<>> /\ P[y] # <<>> => n \notin K /\ b[n] # "nl"
    BY DEF Traced, LastLines
<1>6. \A k \in 1 .. a :
         /\ LineOf(c, k) \in 1 .. x
         /\ h[LineOf(c, k)] = LineOf(b, g[k])
         /\ LineOf(c, k) = x => \A i \in g[k] .. n : b[i] # "nl"
    BY DEF Traced, Standing
<1>7. \A k \in 1 .. a : g[k] \in 1 .. N
    <2>1. Rises(g, Cardinality(K), N) /\ a \in 0 .. Cardinality(K) /\ Cardinality(K) \in Nat
        BY <1>0, PlacesAre, KeptIs
    <2>2. \A k \in 1 .. a : k \in 1 .. Cardinality(K)
        BY <2>1
    <2> QED
        BY <2>1, <2>2 DEF Rises
<1>8. Starts(R, L)
    BY <1>0, LinesUpToStart
<1>9. Q[x] \in Line /\ P[y] \in Line
    <2>1. Q[x] \in Line
        <3>1. a \in 0 .. Len(c)
            BY <1>1
        <3> HIDE DEF c, a
        <3> QED
            BY <1>1, <3>1, LinesUpToType
    <2> QED
        BY <1>0, <2>1, LinesUpToType
<1>10. \A f : Traced(b, K, n + 1, f) <=>
          /\ Tracks(f, S, Len(R), L)
          /\ LastLines(b, K, n + 1)
          /\ Standing(b, K, n + 1, f)
    BY <1>1 DEF Traced
<1>11. LastLines(b, K, n + 1) <=>
          /\ Left(S[Len(S)], R[Len(R)], L[Len(R)])
          /\ S[Len(S)] = <<>> /\ R[Len(R)] # <<>> => n + 1 \notin K /\ b[n + 1] # "nl"
          /\ S[Len(S)] # <<>> => \E k \in 1 .. a + 1 : LineOf(c, k) = Len(S)
    BY <1>1 DEF LastLines
<1>12. \A f : Standing(b, K, n + 1, f) <=>
          \A k \in 1 .. a + 1 :
             /\ LineOf(c, k) \in 1 .. Len(S)
             /\ f[LineOf(c, k)] = LineOf(b, g[k])
             /\ LineOf(c, k) = Len(S) => \A i \in g[k] .. n + 1 : b[i] # "nl"
    BY <1>1 DEF Standing
<1>13. h[x] = y
    BY <1>4 DEF Tracks
<1>14. n = 0 => P[y] = <<>>
    BY LinesUpToNothing
<1> HIDE DEF c, g, a, P, Q, R, S, L, N, t, x, y
<1>15. CASE t = "nl"
    <2> DEFINE f == OneOnBoth(h, x, y)
    <2>1. Broken(R, P) /\ Broken(S, Q)
        BY <1>2, <1>3, <1>15
    <2>2. /\ Len(R) = y + 1 /\ R[y + 1] = <<>> /\ R[y] = P[y]
          /\ Len(S) = x + 1 /\ S[x + 1] = <<>>
        <3>1. y \in 1 .. y
            BY <1>2
        <3> QED
            BY <2>1, <3>1 DEF Broken, x, y
    <2>3. P[y] = L[y]
        <3>1. y \in 1 .. Len(R) - 1
            BY <1>2, <2>2
        <3> QED
            BY <1>8, <2>2, <3>1 DEF Starts
    <2>4. Tracks(f, S, y + 1, L) /\ \A j \in 1 .. x : f[j] = h[j]
        <3>1. y \in Nat \ {0} /\ Len(Q) \in Nat \ {0}
            BY <1>2, <1>3 DEF x
        <3>2. Left(Q[Len(Q)], L[y], L[y]) /\ Tracks(h, Q, y, L) /\ Broken(S, Q)
            BY <1>4, <1>5, <2>1, <2>3 DEF x
        <3>3. Tracks(OneOnBoth(h, Len(Q), y), S, y + 1, L)
            BY <3>1, <3>2, BothBreak
        <3>4. \A j \in 1 .. x : f[j] = h[j]
            BY <1>3 DEF OneOnBoth
        <3> HIDE DEF f
        <3> QED
            BY <3>3, <3>4 DEF f, x
    <2> HIDE DEF f
    <2>5. LastLines(b, K, n + 1)
        BY <1>11, <2>2 DEF Left
    <2>6. ASSUME NEW k \in 1 .. a + 1
          PROVE  /\ LineOf(c, k) \in 1 .. x
                 /\ f[LineOf(c, k)] = LineOf(b, g[k])
        <3>1. CASE k = a + 1
            <4>1. x \in 1 .. x
                BY <1>3
            <4> QED
                BY <1>1, <1>2, <1>3, <1>13, <2>4, <3>1, <4>1
        <3>2. CASE k # a + 1
            <4>1. k \in 1 .. a
                BY <1>4, <3>2
            <4> QED
                BY <1>6, <2>4, <4>1
        <3> QED
            BY <3>1, <3>2
    <2>7. \A j \in 1 .. x : j \in 1 .. x + 1 /\ j # x + 1
        BY <1>3
    <2>8. Standing(b, K, n + 1, f)
        BY <1>12, <2>2, <2>6, <2>7
    <2> QED
        BY <1>10, <2>2, <2>4, <2>5, <2>8
<1>16. CASE t # "nl"
    <2>1. OneLonger(R, P, t) /\ OneLonger(S, Q, t)
        BY <1>2, <1>3, <1>16
    <2>2. /\ Len(R) = y /\ R[y] = Append(P[y], t)
          /\ Len(S) = x /\ S[x] = Append(Q[x], t)
        BY <2>1 DEF OneLonger, x, y
    <2>3. Tracks(h, S, y, L)
        BY <1>4, <2>1, BothGrow
    <2>4. S[x] # <<>>
        <3> DEFINE l == Q[x]
        <3>1. l \in Line
            BY <1>9
        <3>2. l \in Seq(Tokens)
            BY <3>1, LineIsText
        <3> HIDE DEF l
        <3>3. Len(Append(l, t)) = Len(l) + 1 /\ Len(l) \in Nat
            BY <1>2, <3>2, AppendProperties
        <3>4. Len(<<>>) = 0
            OBVIOUS
        <3>5. Len(Append(l, t)) # 0
            BY <3>3
        <3>6. Append(l, t) # <<>>
            BY <3>4, <3>5, Zenon
        <3> QED
            BY <2>2, <3>6 DEF l
    <2>5. Left(S[x], R[y], L[y])
        <3>1. CASE Q[x] = P[y]
            BY <2>2, <3>1 DEF Left
        <3>2. CASE Q[x] # P[y]
            <4>1. FenceRun(L[y]) = 0 /\ FenceRun(Q[x]) = 0
                BY <1>5, <3>2 DEF Left
            <4>2. Q[x] # <<>> \/ t \notin Marks
                <5> SUFFICES ASSUME Q[x] = <<>> PROVE t \notin Marks
                    OBVIOUS
                <5>1. P[y] # <<>>
                    BY <3>2
                <5>2. n \notin K /\ b[n] # "nl" /\ n # 0
                    BY <1>5, <1>14, <5>1
                <5>3. n \in 1 .. N - 1
                    BY <1>0, <5>2
                <5>4. b[n + 1] \in Marks => b[n] = "nl"
                    BY <5>2, <5>3 DEF Removes, N
                <5> QED
                    BY <5>2, <5>4 DEF t
            <4>3. FenceRun(Append(Q[x], t)) = 0
                <5> DEFINE l == Q[x]
                <5> HIDE DEF l
                <5>1. l \in Line /\ FenceRun(l) = 0 /\ (l # <<>> \/ t \notin Marks)
                    BY <1>9, <4>1, <4>2 DEF l
                <5>2. FenceRun(Append(l, t)) = 0
                    BY <1>2, <1>16, <5>1, NoFenceGrows
                <5> QED
                    BY <5>2 DEF l
            <4> QED
                BY <2>2, <4>1, <4>3 DEF Left
        <3> QED
            BY <3>1, <3>2
    <2>6. a + 1 \in 1 .. a + 1 /\ LineOf(c, a + 1) = x
        BY <1>3, <1>4
    <2>7. LastLines(b, K, n + 1)
        BY <1>11, <2>2, <2>4, <2>5, <2>6
    <2>8. ASSUME NEW k \in 1 .. a + 1
          PROVE  /\ LineOf(c, k) \in 1 .. x
                 /\ h[LineOf(c, k)] = LineOf(b, g[k])
                 /\ LineOf(c, k) = x => \A i \in g[k] .. n + 1 : b[i] # "nl"
        <3>1. CASE k = a + 1
            <4>1. x \in 1 .. x /\ \A i \in n + 1 .. n + 1 : i = n + 1
                BY <1>0, <1>3
            <4> QED
                BY <1>1, <1>2, <1>3, <1>13, <1>16, <3>1, <4>1 DEF t
        <3>2. CASE k # a + 1
            <4>1. k \in 1 .. a
                BY <1>4, <3>2
            <4>2. g[k] \in Nat /\ \A i \in g[k] .. n + 1 : i \in g[k] .. n \/ i = n + 1
                <5>1. g[k] \in Nat
                    BY <1>0, <1>7, <4>1
                <5> QED
                    BY <1>0, <5>1
            <4> QED
                BY <1>6, <1>16, <4>1, <4>2 DEF t
        <3> QED
            BY <3>1, <3>2
    <2>9. Standing(b, K, n + 1, h)
        BY <1>12, <2>2, <2>8
    <2> QED
        BY <1>10, <2>2, <2>3, <2>7, <2>9
<1> QED
    BY <1>15, <1>16

\* The first places of K are the first ones.
LEMMA PlacesUpTo ==
    ASSUME NEW N \in Nat, NEW K \in SUBSET (1 .. N), NEW n \in 0 .. N,
           NEW k \in 1 .. KeptUpTo(K, n)
    PROVE  k \in 1 .. Cardinality(K) /\ Places(K)[k] \in K /\ Places(K)[k] \in 1 .. n
<1> DEFINE g == Places(K)
           m == Cardinality(K)
           i == g[k]
<1>1. m \in Nat /\ \A j \in 0 .. N : KeptUpTo(K, j) \in 0 .. m
    BY KeptIs
<1>2. k \in 1 .. m
    BY <1>1
<1>3. i \in K /\ KeptUpTo(K, i) = k
    BY <1>2, PlacesAre
<1> HIDE DEF i, m
<1>4. i \in 1 .. N
    BY <1>3
<1>5. i - 1 \in 0 .. N - 1 /\ (i - 1) + 1 = i /\ i - 1 \in 0 .. N
    BY <1>4
<1>6. KeptUpTo(K, i) = KeptUpTo(K, i - 1) + 1
    <2>1. (i - 1) + 1 \in K => KeptUpTo(K, (i - 1) + 1) = KeptUpTo(K, i - 1) + 1
        BY <1>5, KeptIs
    <2> QED
        BY <1>3, <1>5, <2>1
<1>7. ASSUME n < i PROVE FALSE
    <2>1. Upto(K, n) \subseteq Upto(K, i - 1)
        <3>1. \A j \in K : j <= n => j <= i - 1
            BY <1>4, <1>7
        <3> QED
            BY <3>1 DEF Upto
    <2>2. n \in Int /\ i - 1 \in Int
        BY <1>4
    <2>3. IsFiniteSet(Upto(K, i - 1))
        BY <2>2, UptoProperties
    <2>4. KeptUpTo(K, n) <= KeptUpTo(K, i - 1)
        BY <2>1, <2>3, FS_Subset DEF KeptUpTo
    <2>5. KeptUpTo(K, n) \in Nat /\ KeptUpTo(K, i - 1) \in Nat
        BY <1>1, <1>5
    <2> QED
        BY <1>3, <1>6, <2>4, <2>5
<1>8. i \in 1 .. n
    BY <1>4, <1>7
<1> QED
    BY <1>2, <1>3, <1>8 DEF i, m

LEMMA TracedGone ==
    ASSUME NEW b \in Seq(Tokens), NEW K \in SUBSET (1 .. Len(b)), Removes(b, K),
           NEW n \in 0 .. Len(b) - 1, NEW h, Traced(b, K, n, h), n + 1 \notin K
    PROVE  \E f : Traced(b, K, n + 1, f)
<1> DEFINE N == Len(b)
           L == Lines(b)
           c == Picked(b, K)
           g == Places(K)
           a == KeptUpTo(K, n)
           P == LinesUpTo(b, n)
           R == LinesUpTo(b, n + 1)
           Q == LinesUpTo(c, a)
           t == b[n + 1]
           x == Len(Q)
           y == Len(P)
<1>0. N \in Nat /\ n \in Nat /\ n + 1 <= N /\ n \in 0 .. N /\ n + 1 \in 0 .. N /\ n + 1 \in 1 .. N
    OBVIOUS
<1>1. c \in Seq(Tokens) /\ a \in 0 .. Len(c) /\ KeptUpTo(K, n + 1) = a
    <2>1. Cardinality(K) \in Nat /\ \A i \in 0 .. N : KeptUpTo(K, i) \in 0 .. Cardinality(K)
        BY <1>0, KeptIs
    <2>2. KeptUpTo(K, n + 1) = KeptUpTo(K, n)
        BY <1>0, KeptIs
    <2>3. c \in Seq(Tokens) /\ Len(c) = Cardinality(K)
        BY PickedIs
    <2> QED
        BY <1>0, <2>1, <2>2, <2>3
<1>2. /\ t \in Tokens /\ y \in Nat \ {0} /\ LineOf(b, n + 1) = y
      /\ t = "nl" => Broken(R, P)
      /\ t # "nl" => OneLonger(R, P, t)
    BY LinesUpToNext DEF Broken, OneLonger
<1>3. x \in Nat \ {0}
    <2> HIDE DEF c, a
    <2> QED
        BY <1>1, LinesUpToType
<1>4. Tracks(h, Q, y, L) /\ a \in Nat
    BY <1>1 DEF Traced
<1>5. /\ Left(Q[x], P[y], L[y])
      /\ Q[x] # <<>> => \E k \in 1 .. a : LineOf(c, k) = x
    BY DEF Traced, LastLines
<1>6. \A k \in 1 .. a :
         /\ LineOf(c, k) \in 1 .. x
         /\ h[LineOf(c, k)] = LineOf(b, g[k])
         /\ LineOf(c, k) = x => \A i \in g[k] .. n : b[i] # "nl"
    BY DEF Traced, Standing
<1>7. \A k \in 1 .. a : g[k] \in K /\ g[k] \in 1 .. n
    BY <1>0, PlacesUpTo
<1>8. Starts(P, L) /\ P[y] \in Line /\ L \in Seq(Line)
    BY <1>0, LinesUpToStart, LinesUpToType, LinesType
<1>9. FenceRun(L[y]) = 0
    BY <1>0, <1>2 DEF Removes
<1>10. \A f : Traced(b, K, n + 1, f) <=>
          /\ Tracks(f, Q, Len(R), L)
          /\ LastLines(b, K, n + 1)
          /\ Standing(b, K, n + 1, f)
    BY <1>1 DEF Traced
<1>11. LastLines(b, K, n + 1) <=>
          /\ Left(Q[x], R[Len(R)], L[Len(R)])
          /\ Q[x] = <<>> /\ R[Len(R)] # <<>> => n + 1 \notin K /\ b[n + 1] # "nl"
          /\ Q[x] # <<>> => \E k \in 1 .. a : LineOf(c, k) = x
    BY <1>1 DEF LastLines
<1>12. \A f : Standing(b, K, n + 1, f) <=>
          \A k \in 1 .. a :
             /\ LineOf(c, k) \in 1 .. x
             /\ f[LineOf(c, k)] = LineOf(b, g[k])
             /\ LineOf(c, k) = x => \A i \in g[k] .. n + 1 : b[i] # "nl"
    BY <1>1 DEF Standing
<1>13. t = "nl" => \A p \in K : p < n + 1 => \E k \in p .. n : b[k] = "nl"
    <2>1. (n + 1) - 1 = n
        BY <1>0
    <2>2. t = "nl" => \A p \in K : p < n + 1 => \E k \in p .. (n + 1) - 1 : b[k] = "nl"
        BY <1>0 DEF Removes
    <2> QED
        BY <2>1, <2>2
<1> HIDE DEF c, g, a, P, Q, R, L, N, t, x, y
<1>15. CASE t = "nl"
    <2> DEFINE f == [h EXCEPT ![x] = y + 1]
    <2>2. Len(R) = y + 1 /\ R[y + 1] = <<>>
        BY <1>2, <1>15 DEF Broken, y
    <2>3. \A k \in 1 .. a : LineOf(c, k) \in 1 .. x - 1
        <3>1. SUFFICES ASSUME NEW k \in 1 .. a PROVE LineOf(c, k) \in 1 .. x - 1
            OBVIOUS
        <3>2. g[k] \in K /\ g[k] < n + 1
            BY <1>0, <1>7
        <3>3. \E i \in g[k] .. n : b[i] = "nl"
            BY <1>13, <1>15, <3>2
        <3>4. LineOf(c, k) # x /\ LineOf(c, k) \in 1 .. x
            BY <1>6, <3>3
        <3> QED
            BY <1>3, <3>4
    <2>4. \A k \in 1 .. a : LineOf(c, k) # x
        BY <1>3, <2>3
    <2>5. Q[x] = <<>>
        BY <1>5, <2>4
    <2>6. Tracks(f, Q, y + 1, L)
        <3>1. y \in Nat \ {0} /\ Len(Q) \in Nat \ {0} /\ Tracks(h, Q, y, L) /\ FenceRun(L[y]) = 0
            BY <1>2, <1>3, <1>4, <1>9 DEF x
        <3>2. Tracks([h EXCEPT ![Len(Q)] = y + 1], Q, y + 1, L)
            BY <3>1, OneBreaks
        <3> QED
            BY <3>2 DEF x
    <2>7. \A j \in 1 .. x - 1 : f[j] = h[j]
        <3>1. DOMAIN h = 1 .. x
            BY <1>4 DEF Tracks, Rises, x
        <3> QED
            BY <1>3, <3>1
    <2> HIDE DEF f
    <2>8. LastLines(b, K, n + 1)
        BY <1>11, <2>2, <2>5 DEF Left
    <2>9. Standing(b, K, n + 1, f)
        <3>1. \A k \in 1 .. a : /\ LineOf(c, k) \in 1 .. x
                                /\ f[LineOf(c, k)] = LineOf(b, g[k])
                                /\ LineOf(c, k) # x
            BY <1>6, <2>3, <2>4, <2>7
        <3> QED
            BY <1>12, <3>1
    <2> QED
        BY <1>10, <2>2, <2>6, <2>8, <2>9
<1>16. CASE t # "nl"
    <2>1. Len(R) = y
        BY <1>2, <1>16 DEF OneLonger, y
    <2>2. FenceRun(Q[x]) = 0
        <3>1. CASE Q[x] = P[y]
            <4>1. y \in 1 .. Len(L)
                <5>1. Len(L) \in Nat
                    BY <1>8
                <5> QED
                    BY <1>2, <1>8, <5>1 DEF Starts, y
            <4>2. L[y] \in Line
                BY <1>8, <4>1, ElementOfSeq
            <4>3. P[y] = <<>> \/ P[y][1] \notin Marks
                <5>1. P[y] # <<>> => L[y] # <<>> /\ L[y][1] = P[y][1]
                    BY <1>8 DEF Starts, y
                <5>2. L[y] = <<>> \/ L[y][1] \notin Marks
                    <6> DEFINE l == L[y]
                    <6> HIDE DEF l
                    <6>1. l \in Line /\ FenceRun(l) = 0
                        BY <1>9, <4>2 DEF l
                    <6>2. l = <<>> \/ l[1] \notin Marks
                        BY <6>1, FenceRunProperties
                    <6> QED
                        BY <6>2 DEF l
                <5> QED
                    BY <5>1, <5>2
            <4>4. FenceRun(P[y]) = 0
                <5> DEFINE l == P[y]
                <5> HIDE DEF l
                <5>1. l \in Line /\ (l = <<>> \/ l[1] \notin Marks)
                    BY <1>8, <4>3 DEF l
                <5>2. FenceRun(l) = 0
                    BY <5>1, FenceRunProperties
                <5> QED
                    BY <5>2 DEF l
            <4> QED
                BY <3>1, <4>4
        <3>2. CASE Q[x] # P[y]
            BY <1>5, <3>2 DEF Left
        <3> QED
            BY <3>1, <3>2
    <2>3. LastLines(b, K, n + 1)
        <3>1. Left(Q[x], R[y], L[y])
            BY <1>9, <2>2 DEF Left
        <3> QED
            BY <1>5, <1>11, <1>16, <2>1, <3>1 DEF t
    <2>4. Standing(b, K, n + 1, h)
        <3>1. ASSUME NEW k \in 1 .. a, LineOf(c, k) = x, NEW i \in g[k] .. n + 1
              PROVE  b[i] # "nl"
            <4>1. g[k] \in 1 .. n
                BY <1>7
            <4>2. i \in g[k] .. n \/ i = n + 1
                BY <1>0, <4>1
            <4> QED
                BY <1>6, <1>16, <3>1, <4>2 DEF t
        <3> QED
            BY <1>6, <1>12, <3>1
    <2> QED
        BY <1>4, <1>10, <2>1, <2>3, <2>4
<1> QED
    BY <1>15, <1>16

LEMMA TracedToTheEnd ==
    ASSUME NEW b \in Seq(Tokens), NEW K \in SUBSET (1 .. Len(b)), Removes(b, K)
    PROVE  \E h : Traced(b, K, Len(b), h)
<1> DEFINE N == Len(b)
           T == {n \in Nat : n <= N => \E h : Traced(b, K, n, h)}
<1>1. N \in Nat
    OBVIOUS
<1>2. 0 \in T
    BY TracedAtFirst
<1>3. ASSUME NEW n \in Nat, n \in T PROVE n + 1 \in T
    <2> SUFFICES ASSUME n + 1 <= N PROVE \E f : Traced(b, K, n + 1, f)
        OBVIOUS
    <2>1. n \in 0 .. Len(b) - 1
        BY <1>1
    <2>2. PICK h : Traced(b, K, n, h)
        BY <1>1, <1>3
    <2> QED
        BY <2>1, <2>2, TracedKept, TracedGone
<1>4. Nat \subseteq T
    <2> HIDE DEF T
    <2> QED
        BY <1>2, <1>3, AllNumbers
<1> QED
    BY <1>1, <1>4

\* The lines of all that is kept trace those of the whole text.
LEMMA TraceIsWhole ==
    ASSUME NEW b \in Seq(Tokens), NEW K \in SUBSET (1 .. Len(b)), Removes(b, K)
    PROVE  LET c == Picked(b, K)
               L == Lines(b)
               M == Lines(c)
           IN  \E h : /\ Rises(h, Len(M), Len(L))
                      /\ \A k \in 1 .. Len(M) : SameFence(M[k], L[h[k]])
                      /\ \A i \in 1 .. Len(L) : FenceRun(L[i]) # 0 =>
                            \E k \in 1 .. Len(M) : h[k] = i
                      /\ \A k \in 1 .. Len(c) : h[LineOf(c, k)] = LineOf(b, Places(K)[k])
<1> DEFINE c == Picked(b, K)
           L == Lines(b)
           M == Lines(c)
           N == Len(b)
           x == Len(M)
           y == Len(L)
<1>1. N \in Nat
    OBVIOUS
<1>2. c \in Seq(Tokens) /\ Len(c) = Cardinality(K) /\ KeptUpTo(K, N) = Len(c)
    BY <1>1, PickedIs, KeptIs
<1>w. ASSUME NEW s \in Seq(Tokens) PROVE LinesUpTo(s, Len(s)) = Lines(s)
    <2>1. SubSeq(s, 1, Len(s)) = s
        OBVIOUS
    <2> QED
        BY <2>1 DEF LinesUpTo
<1>3. LinesUpTo(b, N) = L
    BY <1>w
<1> HIDE DEF c
<1>4. LinesUpTo(c, Len(c)) = M
    BY <1>2, <1>w
<1>5. x \in Nat \ {0} /\ y \in Nat \ {0} /\ M \in Seq(Line) /\ L \in Seq(Line)
    BY <1>2, LinesType
<1>6. PICK h : Traced(b, K, N, h)
    BY TracedToTheEnd
<1>7. /\ Tracks(h, M, y, L)
      /\ Left(M[x], L[y], L[y])
      /\ \A k \in 1 .. Len(c) : h[LineOf(c, k)] = LineOf(b, Places(K)[k])
    BY <1>2, <1>3, <1>4, <1>6 DEF Traced, LastLines, Standing, c
<1> HIDE DEF L, M, N, x, y
<1>8. /\ Rises(h, x, y) /\ h[x] = y
      /\ \A j \in 1 .. x - 1 : SameFence(M[j], L[h[j]])
      /\ \A i \in 1 .. y - 1 : FenceRun(L[i]) # 0 => \E j \in 1 .. x : h[j] = i
    BY <1>7 DEF Tracks, x
<1>9. ASSUME NEW k \in 1 .. x PROVE SameFence(M[k], L[h[k]])
    <2>1. CASE k = x
        <3>1. SameFence(M[x], L[y])
            BY <1>7 DEF Left, SameFence
        <3> QED
            BY <1>8, <2>1, <3>1
    <2>2. CASE k # x
        <3>1. k \in 1 .. x - 1
            BY <1>5, <2>2
        <3> QED
            BY <1>8, <3>1
    <2> QED
        BY <2>1, <2>2
<1>10. ASSUME NEW i \in 1 .. y, FenceRun(L[i]) # 0 PROVE \E k \in 1 .. x : h[k] = i
    <2>1. CASE i = y
        <3>1. x \in 1 .. x
            BY <1>5
        <3> QED
            BY <1>8, <2>1, <3>1
    <2>2. CASE i # y
        <3>1. i \in 1 .. y - 1
            BY <1>5, <2>2
        <3> QED
            BY <1>8, <1>10, <3>1
    <2> QED
        BY <2>1, <2>2
<1> QED
    BY <1>7, <1>8, <1>9, <1>10 DEF c, L, M, x, y

\* What K leaves out brings no tag: it has no backtick, and a tag or a backtick
\* that comes to stand behind something else stood, and stands, behind white space.
BringsNoTag(b, K) ==
    LET g == Places(K)
        begin == TagTokens \cup {"tick"}
    IN  /\ \A j \in 1 .. Len(b) : j \notin K => b[j] # "tick"
        /\ \A q \in 1 .. Len(b) - 1 : q \notin K /\ q + 1 \in K /\ b[q + 1] \in TagTokens => b[q] \in White
        /\ \A k \in 2 .. Cardinality(K) :
              g[k] # g[k - 1] + 1 /\ b[g[k]] \in begin => b[g[k - 1]] \in White

LEMMA RemovalEmbeds ==
    ASSUME NEW b \in Seq(Tokens), NEW K \in SUBSET (1 .. Len(b)), Removes(b, K), BringsNoTag(b, K)
    PROVE  \E h : /\ Embeds(b, Picked(b, K), Places(K), h)
                  /\ \A k \in 1 .. Len(Picked(b, K)) :
                        h[LineOf(Picked(b, K), k)] = LineOf(b, Places(K)[k])
<1> DEFINE c == Picked(b, K)
           g == Places(K)
           N == Len(b)
           m == Len(c)
<1>1. N \in Nat
    OBVIOUS
<1>2. /\ c \in Seq(Tokens) /\ m = Cardinality(K) /\ m \in Nat
      /\ \A k \in 1 .. m : c[k] = b[g[k]]
    BY <1>1, PickedIs, KeptIs
<1>3. /\ Rises(g, m, N)
      /\ \A k \in 1 .. m : g[k] \in K
      /\ \A i \in K : KeptUpTo(K, i) \in 1 .. m /\ g[KeptUpTo(K, i)] = i
    <2>1. /\ Rises(g, Cardinality(K), N)
          /\ \A k \in 1 .. Cardinality(K) : g[k] \in K
          /\ \A i \in K : KeptUpTo(K, i) \in 1 .. Cardinality(K) /\ g[KeptUpTo(K, i)] = i
        BY <1>1, PlacesAre
    <2> HIDE DEF g, m
    <2> QED
        BY <1>2, <2>1
<1>4. \A i \in 1 .. N : b[i] = "tick" => \E k \in 1 .. m : g[k] = i
    BY <1>3 DEF BringsNoTag
<1>5. ASSUME NEW k \in 1 .. m - 1, c[k] = "tick", c[k + 1] = "tick"
      PROVE  g[k + 1] = g[k] + 1
    <2>1. k + 1 \in 2 .. Cardinality(K) /\ (k + 1) - 1 = k /\ k \in 1 .. m /\ k + 1 \in 1 .. m
        BY <1>2
    <2>2. b[g[k]] = "tick" /\ b[g[k + 1]] = "tick"
        BY <1>2, <1>5, <2>1
    <2>3. "tick" \notin White
        BY DEF White
    <2>4. g[k + 1] # g[(k + 1) - 1] + 1 => b[g[(k + 1) - 1]] \in White
        BY <2>1, <2>2 DEF BringsNoTag
    <2> QED
        BY <2>1, <2>2, <2>3, <2>4
<1>6. PICK h : /\ Rises(h, Len(Lines(c)), Len(Lines(b)))
               /\ \A k \in 1 .. Len(Lines(c)) : SameFence(Lines(c)[k], Lines(b)[h[k]])
               /\ \A i \in 1 .. Len(Lines(b)) : FenceRun(Lines(b)[i]) # 0 =>
                      \E k \in 1 .. Len(Lines(c)) : h[k] = i
               /\ \A k \in 1 .. Len(c) : h[LineOf(c, k)] = LineOf(b, Places(K)[k])
    BY TraceIsWhole
<1>7. Embeds(b, c, g, h)
    <2>1. \A k \in 1 .. m : c[k] = "tick" <=> b[g[k]] = "tick"
        BY <1>2
    <2> HIDE DEF c, g
    <2> QED
        BY <1>3, <1>4, <1>5, <1>6, <2>1 DEF Embeds
<1> QED
    BY <1>6, <1>7

\* The tags of what is kept are those kept.
LEMMA RemovalKeepsTags ==
    ASSUME NEW b \in Seq(Tokens), NEW K \in SUBSET (1 .. Len(b)), Removes(b, K), BringsNoTag(b, K)
    PROVE  LET c == Picked(b, K)
           IN  /\ \A k \in 1 .. Len(c) : k \in TagPositions(c) <=> Places(K)[k] \in TagPositions(b)
               /\ TagsOf(c) = {b[i] : i \in TagPositions(b) \cap K}
<1> DEFINE c == Picked(b, K)
           g == Places(K)
           N == Len(b)
           m == Len(c)
<1>1. N \in Nat
    OBVIOUS
<1>2. /\ c \in Seq(Tokens) /\ m = Cardinality(K) /\ m \in Nat
      /\ \A k \in 1 .. m : c[k] = b[g[k]]
    BY <1>1, PickedIs, KeptIs
<1>3. /\ Rises(g, m, N)
      /\ \A k \in 1 .. m : g[k] \in K
      /\ \A i \in K : KeptUpTo(K, i) \in 1 .. m /\ g[KeptUpTo(K, i)] = i
    <2>1. /\ Rises(g, Cardinality(K), N)
          /\ \A k \in 1 .. Cardinality(K) : g[k] \in K
          /\ \A i \in K : KeptUpTo(K, i) \in 1 .. Cardinality(K) /\ g[KeptUpTo(K, i)] = i
        BY <1>1, PlacesAre
    <2> HIDE DEF g, m
    <2> QED
        BY <1>2, <2>1
<1>4. PICK h : Embeds(b, c, g, h) /\ \A k \in 1 .. m : h[LineOf(c, k)] = LineOf(b, g[k])
    BY RemovalEmbeds
<1>5. ASSUME NEW k \in 1 .. m PROVE k \in TagPositions(c) <=> g[k] \in TagPositions(b)
    <2>1. CASE b[g[k]] \in TagTokens
        <3>1. Begins(c, k) <=> Begins(b, g[k])
            <4>1. g[k] \in 1 .. N /\ g[k] \in K
                BY <1>3 DEF Rises
            <4>2. CASE k = 1
                <5>1. \A i \in 1 .. g[k] - 1 : i \notin K
                    <6>1. k \in 1 .. Cardinality(K)
                        BY <1>2
                    <6> QED
                        BY <1>1, <4>2, <6>1, BetweenPlaces
                <5>2. ASSUME g[k] > 1 PROVE b[g[k] - 1] \in White
                    <6> DEFINE q == g[k] - 1
                    <6>1. q \in 1 .. N - 1 /\ q + 1 = g[k] /\ q \notin K
                        BY <1>1, <4>1, <5>1, <5>2
                    <6> HIDE DEF q
                    <6>2. b[q] \in White
                        BY <2>1, <4>1, <6>1 DEF BringsNoTag
                    <6> QED
                        BY <6>2 DEF q
                <5> QED
                    BY <4>2, <5>2 DEF Begins
            <4>3. CASE k # 1
                <5>1. /\ k - 1 \in 1 .. m /\ g[k - 1] < g[k] /\ k > 1
                      /\ \A i \in g[k - 1] + 1 .. g[k] - 1 : i \notin K
                    <6>1. k \in 1 .. Cardinality(K) /\ k > 1
                        BY <1>2, <4>3
                    <6> QED
                        BY <1>1, <1>2, <6>1, BetweenPlaces
                <5>2. g[k - 1] \in 1 .. N
                    BY <1>3, <5>1 DEF Rises
                <5>3. Begins(c, k) <=> b[g[k - 1]] \in White
                    BY <1>2, <5>1 DEF Begins
                <5>4. CASE g[k] = g[k - 1] + 1
                    <6>1. g[k] > 1 /\ g[k] - 1 = g[k - 1]
                        BY <5>2, <5>4
                    <6> QED
                        BY <5>3, <6>1 DEF Begins
                <5>5. CASE g[k] # g[k - 1] + 1
                    <6> DEFINE q == g[k] - 1
                    <6>1. q \in 1 .. N - 1 /\ q + 1 = g[k] /\ q \notin K /\ g[k] > 1
                        <7>1. q \in g[k - 1] + 1 .. g[k] - 1
                            BY <4>1, <5>1, <5>2, <5>5
                        <7> QED
                            BY <1>1, <4>1, <5>1, <5>2, <7>1
                    <6>2. b[g[k - 1]] \in White
                        <7>1. k \in 2 .. Cardinality(K)
                            BY <1>2, <5>1
                        <7> QED
                            BY <2>1, <5>5, <7>1 DEF BringsNoTag
                    <6> HIDE DEF q
                    <6>3. b[q] \in White
                        BY <2>1, <4>1, <6>1 DEF BringsNoTag
                    <6> QED
                        BY <5>3, <6>1, <6>2, <6>3 DEF Begins, q
                <5> QED
                    BY <5>4, <5>5
            <4> QED
                BY <4>2, <4>3
        <3> HIDE DEF c, g
        <3>2. /\ c \in Seq(Tokens) /\ k \in 1 .. Len(c) /\ c[k] = b[g[k]]
              /\ h[LineOf(c, k)] = LineOf(b, g[k])
            BY <1>2, <1>4
        <3> QED
            BY <1>4, <3>1, <3>2, TagsKept
    <2>2. CASE b[g[k]] \notin TagTokens
        BY <1>2, <2>2 DEF TagPositions
    <2> QED
        BY <2>1, <2>2
<1>6. TagsOf(c) = {b[i] : i \in TagPositions(b) \cap K}
    <2>1. ASSUME NEW k \in TagPositions(c)
          PROVE  \E i \in TagPositions(b) \cap K : c[k] = b[i]
        <3>1. k \in 1 .. m
            BY <2>1, <1>2 DEF TagPositions
        <3> QED
            BY <1>2, <1>3, <1>5, <2>1, <3>1
    <2>2. ASSUME NEW i \in TagPositions(b) \cap K
          PROVE  \E k \in TagPositions(c) : c[k] = b[i]
        <3> DEFINE k == KeptUpTo(K, i)
        <3>1. k \in 1 .. m /\ g[k] = i
            BY <1>3, <2>2
        <3> HIDE DEF k
        <3> QED
            BY <1>2, <1>5, <2>2, <3>1
    <2> HIDE DEF c
    <2> QED
        BY <2>1, <2>2 DEF TagsOf
<1> QED
    BY <1>5, <1>6

\* What goes with a tag at i: its whole line, or the tag and at most one space.
WholeLine(b, i, R) ==
    \E f \in 1 .. i, t \in i .. Len(b) :
        /\ R = f .. t
        /\ f > 1 => b[f - 1] = "nl"
        /\ t < Len(b) => b[t] = "nl"
        /\ \A k \in f .. t : k # i => b[k] = "sp" \/ (k = t /\ b[k] = "nl")
WithSpaceAfter(b, i, R) == i < Len(b) /\ b[i + 1] = "sp" /\ R = {i, i + 1}
WithSpaceBefore(b, i, R) ==
    i > 1 /\ b[i - 1] = "sp" /\ R = {i - 1, i} /\ (i < Len(b) => b[i + 1] # "sp")
OnlyItself(i, R) == R = {i}

LEMMA RemovedWithIs ==
    ASSUME NEW b \in Seq(Tokens), NEW i \in 1 .. Len(b), b[i] \in TagTokens
    PROVE  LET R == RemovedWith(b, i)
           IN  \/ WholeLine(b, i, R) \/ WithSpaceAfter(b, i, R)
               \/ WithSpaceBefore(b, i, R) \/ OnlyItself(i, R)
<1> DEFINE N == Len(b)
           F == {j \in 1 .. i : \A k \in j .. i : b[k] # "nl"}
           E == {j \in i + 1 .. N : b[j] = "nl"} \cup {N + 1}
           from == Least(F)
           to == Least(E)
<1>1. N \in Nat /\ DOMAIN b = 1 .. N
    BY LenProperties
<1>2. b[i] # "nl"
    BY TagsAreNoOther DEF Plain, White
<1>3. from \in 1 .. i /\ (\A k \in from .. i : b[k] # "nl") /\ (from > 1 => b[from - 1] = "nl")
    <2>1. i \in F
        <3>1. \A k \in i .. i : k = i
            BY <1>1
        <3> QED
            BY <1>1, <1>2, <3>1
    <2>2. F \in SUBSET Nat
        OBVIOUS
    <2> HIDE DEF F
    <2>3. from \in F /\ \A j \in F : from <= j
        BY <2>1, <2>2, LeastProperties
    <2> HIDE DEF from
    <2>4. from \in 1 .. i /\ \A k \in from .. i : b[k] # "nl"
        BY <2>3 DEF F
    <2>5. ASSUME from > 1 PROVE b[from - 1] = "nl"
        <3> DEFINE j == from - 1
        <3>1. j \in 1 .. i /\ j < from /\ from = j + 1
            BY <1>1, <2>4, <2>5
        <3>2. j \notin F
            BY <2>3, <2>4, <3>1
        <3>3. PICK k \in j .. i : b[k] = "nl"
            BY <3>1, <3>2 DEF F
        <3>4. k = j \/ k \in from .. i
            BY <1>1, <2>4, <3>1, <3>3
        <3> QED
            BY <2>4, <3>3, <3>4
    <2> QED
        BY <2>4, <2>5
<1>4. to \in i + 1 .. N + 1 /\ (to <= N => b[to] = "nl")
    <2>1. E \in SUBSET Nat /\ N + 1 \in E
        BY <1>1
    <2> HIDE DEF E
    <2>2. to \in E
        BY <2>1, LeastProperties
    <2> QED
        BY <1>1, <2>2 DEF E
<1> DEFINE blank == \A k \in (from .. to - 1) \ {i} : b[k] = "sp"
<1>5. RemovedWith(b, i) =
         IF blank THEN (from .. to) \cap DOMAIN b
         ELSE IF i < Len(b) /\ b[i + 1] = "sp" THEN {i, i + 1}
         ELSE IF i > 1 /\ b[i - 1] = "sp" THEN {i - 1, i}
         ELSE {i}
    BY DEF RemovedWith
<1> HIDE DEF from, to
<1> DEFINE R == RemovedWith(b, i)
<1>6. CASE blank
    <2> DEFINE t == IF to <= N THEN to ELSE N
    <2>1. t \in i .. N /\ (t < N => b[t] = "nl") /\ ((t = to /\ b[t] = "nl") \/ t = to - 1)
        <3>1. CASE to <= N
            <4>1. t = to
                BY <3>1
            <4> HIDE DEF t
            <4> QED
                BY <1>1, <1>4, <3>1, <4>1
        <3>2. CASE ~(to <= N)
            <4>1. t = N /\ to = N + 1
                BY <1>1, <1>4, <3>2
            <4> HIDE DEF t
            <4> QED
                BY <1>1, <4>1
        <3> QED
            BY <3>1, <3>2
    <2>2. R = (from .. to) \cap 1 .. N
        BY <1>1, <1>5, <1>6
    <2> HIDE DEF R
    <2>3. (from .. to) \cap 1 .. N = from .. t
        BY <1>1, <1>3, <1>4
    <2> HIDE DEF t
    <2>4. ASSUME NEW k \in from .. t, k # i PROVE b[k] = "sp" \/ (k = t /\ b[k] = "nl")
        <3>1. k \in from .. to - 1 \/ (k = t /\ b[k] = "nl")
            BY <1>1, <1>3, <1>4, <2>1, <2>4
        <3> QED
            BY <1>6, <2>4, <3>1
    <2> HIDE DEF blank
    <2>5. WholeLine(b, i, R)
        BY <1>3, <2>1, <2>2, <2>3, <2>4 DEF WholeLine
    <2> QED
        BY <2>5 DEF R
<1>7. CASE ~blank
    <2> HIDE DEF blank
    <2> QED
        BY <1>5, <1>7 DEF WithSpaceAfter, WithSpaceBefore, OnlyItself
<1> QED
    BY <1>6, <1>7

\* The places on the way from one to another without a break are on one line.
LEMMA OnOneLine ==
    ASSUME NEW b \in Seq(Tokens), NEW i \in 1 .. Len(b), NEW j \in 1 .. Len(b), i <= j,
           \A k \in i .. j - 1 : b[k] # "nl"
    PROVE  LineOf(b, i) = LineOf(b, j)
<1>1. {k \in 1 .. i - 1 : b[k] = "nl"} = {k \in 1 .. j - 1 : b[k] = "nl"}
    <2>1. ASSUME NEW k \in 1 .. j - 1, b[k] = "nl" PROVE k \in 1 .. i - 1
        <3>1. k \in i .. j - 1 \/ k \in 1 .. i - 1
            OBVIOUS
        <3> QED
            BY <2>1, <3>1
    <2>2. \A k \in 1 .. i - 1 : k \in 1 .. j - 1
        OBVIOUS
    <2> QED
        BY <2>1, <2>2
<1> QED
    BY <1>1 DEF LineOf

\* All that goes with a tag is on its line, and white space but for the tag.
LEMMA RemovedWithProperties ==
    ASSUME NEW b \in Seq(Tokens), NEW i \in 1 .. Len(b), b[i] \in TagTokens
    PROVE  LET R == RemovedWith(b, i)
           IN  /\ R \subseteq 1 .. Len(b) /\ i \in R
               /\ \A j \in R : (j = i \/ b[j] \in White) /\ LineOf(b, j) = LineOf(b, i)
               /\ \A j \in R : b[j] = "nl" => WholeLine(b, i, R) /\ \A k \in R : k <= j
<1> DEFINE R == RemovedWith(b, i)
           N == Len(b)
<1>1. N \in Nat
    OBVIOUS
<1>2. b[i] # "nl" /\ b[i] # "sp"
    BY TagsAreNoOther DEF Plain, White
<1>3. WholeLine(b, i, R) \/ WithSpaceAfter(b, i, R) \/ WithSpaceBefore(b, i, R) \/ OnlyItself(i, R)
    BY RemovedWithIs
<1> HIDE DEF R
<1>4. CASE WholeLine(b, i, R)
    <2>1. PICK f \in 1 .. i, t \in i .. N :
              /\ R = f .. t
              /\ \A k \in f .. t : k # i => b[k] = "sp" \/ (k = t /\ b[k] = "nl")
        BY <1>4 DEF WholeLine
    <2>2. R \subseteq 1 .. N /\ i \in R
        BY <1>1, <2>1
    <2>3. ASSUME NEW j \in R PROVE LineOf(b, j) = LineOf(b, i)
        <3>1. j \in f .. t /\ j \in 1 .. N
            BY <2>1, <2>2
        <3>2. CASE j <= i
            <4>1. ASSUME NEW k \in j .. i - 1 PROVE b[k] # "nl"
                <5>1. k \in f .. t /\ k # i /\ k # t
                    BY <1>1, <2>1, <3>1, <3>2
                <5> QED
                    BY <2>1, <5>1
            <4> QED
                BY <3>1, <3>2, <4>1, OnOneLine
        <3>3. CASE i < j
            <4>1. ASSUME NEW k \in i .. j - 1 PROVE b[k] # "nl"
                <5>1. k \in f .. t /\ k # t
                    BY <1>1, <2>1, <3>1, <3>3
                <5> QED
                    BY <1>2, <2>1, <5>1
            <4>2. i <= j
                BY <3>1, <3>3
            <4>3. LineOf(b, i) = LineOf(b, j)
                BY <3>1, <4>1, <4>2, OnOneLine
            <4> QED
                BY <4>3
        <3>4. j <= i \/ i < j
            BY <1>1, <3>1
        <3> QED
            BY <3>2, <3>3, <3>4
    <2>4. \A j \in R : j = i \/ b[j] \in White
        BY <2>1 DEF White
    <2>5. ASSUME NEW j \in R, b[j] = "nl" PROVE \A k \in R : k <= j
        <3>1. j = t
            BY <1>2, <2>1, <2>5
        <3> QED
            BY <2>1, <3>1
    <2>6. \A j \in R : (j = i \/ b[j] \in White) /\ LineOf(b, j) = LineOf(b, i)
        BY <2>3, <2>4
    <2>7. \A j \in R : b[j] = "nl" => WholeLine(b, i, R) /\ \A k \in R : k <= j
        BY <1>4, <2>5
    <2> QED
        BY <2>2, <2>6, <2>7 DEF R
<1>5. ASSUME NEW j \in 1 .. N, R = {i, j}, j # i => (j = i + 1 \/ j = i - 1) /\ b[j] = "sp"
      PROVE  /\ R \subseteq 1 .. Len(b) /\ i \in R
             /\ \A k \in R : (k = i \/ b[k] \in White) /\ LineOf(b, k) = LineOf(b, i)
             /\ \A k \in R : b[k] = "nl" => WholeLine(b, i, R) /\ \A p \in R : p <= k
    <2>1. LineOf(b, j) = LineOf(b, i)
        <3>1. CASE j = i
            BY <3>1
        <3>2. CASE j # i /\ j = i + 1
            <4>1. i <= j /\ \A k \in i .. j - 1 : b[k] # "nl"
                BY <1>2, <3>2
            <4> QED
                BY <4>1, OnOneLine
        <3>3. CASE j # i /\ j = i - 1
            <4>1. j <= i /\ \A k \in j .. i - 1 : k = j
                BY <3>3
            <4>2. \A k \in j .. i - 1 : b[k] # "nl"
                BY <1>5, <3>3, <4>1
            <4> QED
                BY <4>1, <4>2, OnOneLine
        <3> QED
            BY <1>5, <3>1, <3>2, <3>3
    <2>2. \A k \in R : b[k] # "nl"
        BY <1>2, <1>5
    <2>3. "sp" \in White
        BY DEF White
    <2>4. \A k \in R : k = i \/ b[k] \in White
        BY <1>5, <2>3
    <2> QED
        BY <1>5, <2>1, <2>2, <2>4
<1>6. CASE WithSpaceAfter(b, i, R)
    <2>1. i + 1 \in 1 .. N /\ R = {i, i + 1} /\ b[i + 1] = "sp"
        BY <1>1, <1>6 DEF WithSpaceAfter
    <2> QED
        BY <1>5, <2>1 DEF R
<1>7. CASE WithSpaceBefore(b, i, R)
    <2>1. i - 1 \in 1 .. N /\ R = {i, i - 1} /\ b[i - 1] = "sp"
        BY <1>1, <1>7 DEF WithSpaceBefore
    <2> QED
        BY <1>5, <2>1 DEF R
<1>8. CASE OnlyItself(i, R)
    <2>1. i \in 1 .. N /\ R = {i, i}
        BY <1>8 DEF OnlyItself
    <2> QED
        BY <1>5, <2>1 DEF R
<1> QED
    BY <1>3, <1>4, <1>6, <1>7, <1>8

\* Where a tag counts, and what is kept when it goes.
Occurrences(b, tag) == {i \in TagPositions(b) : b[i] = tag}
KeptWithout(b, tag) == (1 .. Len(b)) \ UNION {RemovedWith(b, i) : i \in Occurrences(b, tag)}

\* Neither is a tag or a mark of code glued to the tag, nor a fence before it.
Unglued(b, tag) ==
    \A i \in Occurrences(b, tag) : i < Len(b) =>
        /\ b[i + 1] \notin TagTokens \cup Marks
        /\ i + 1 < Len(b) /\ b[i + 1] = "sp" => b[i + 2] \notin Marks
NotBehindFence(b, tag) ==
    \A i \in Occurrences(b, tag) : FenceRun(Lines(b)[LineOf(b, i)]) = 0

\* What goes, goes with an occurrence.
LEMMA GoneWith ==
    ASSUME NEW b \in Seq(Tokens), NEW tag \in TagTokens
    PROVE  /\ \A i \in Occurrences(b, tag) :
                 /\ i \in 1 .. Len(b) /\ b[i] \in TagTokens /\ i \in TagPositions(b) /\ b[i] = tag
                 /\ i \notin KeptWithout(b, tag)
           /\ \A j \in 1 .. Len(b) : j \notin KeptWithout(b, tag) =>
                 \E i \in Occurrences(b, tag) : j \in RemovedWith(b, i)
           /\ \A i \in Occurrences(b, tag) : \A j \in RemovedWith(b, i) :
                 j \in 1 .. Len(b) /\ j \notin KeptWithout(b, tag)
<1>1. DOMAIN b = 1 .. Len(b)
    BY LenProperties
<1>2. ASSUME NEW i \in Occurrences(b, tag)
      PROVE  i \in 1 .. Len(b) /\ b[i] \in TagTokens /\ i \in TagPositions(b) /\ b[i] = tag
    BY <1>1, <1>2 DEF Occurrences, TagPositions
<1>3. ASSUME NEW i \in Occurrences(b, tag) PROVE i \in RemovedWith(b, i) /\ RemovedWith(b, i) \subseteq 1 .. Len(b)
    BY <1>2, RemovedWithProperties
<1> QED
    BY <1>2, <1>3 DEF KeptWithout

LEMMA KeptRemoves ==
    ASSUME NEW b \in Seq(Tokens), NEW tag \in TagTokens, Unglued(b, tag), NotBehindFence(b, tag)
    PROVE  Removes(b, KeptWithout(b, tag))
<1> DEFINE K == KeptWithout(b, tag)
           N == Len(b)
<1>1. N \in Nat
    OBVIOUS
<1>2. ASSUME NEW j \in 1 .. N, j \notin K
      PROVE  \E i \in Occurrences(b, tag) :
                /\ i \in 1 .. N /\ b[i] \in TagTokens /\ j \in RemovedWith(b, i)
                /\ i \notin K /\ \A k \in RemovedWith(b, i) : k \notin K
                /\ LineOf(b, j) = LineOf(b, i)
                /\ b[j] = "nl" => WholeLine(b, i, RemovedWith(b, i))
                                  /\ \A k \in RemovedWith(b, i) : k <= j
    <2>1. PICK i \in Occurrences(b, tag) : j \in RemovedWith(b, i)
        BY <1>2, GoneWith
    <2>2. i \in 1 .. N /\ b[i] \in TagTokens /\ i \notin K /\ \A k \in RemovedWith(b, i) : k \notin K
        BY GoneWith
    <2> HIDE DEF K
    <2>3. LET R == RemovedWith(b, i)
          IN  /\ \A k \in R : LineOf(b, k) = LineOf(b, i)
              /\ \A k \in R : b[k] = "nl" => WholeLine(b, i, R) /\ \A p \in R : p <= k
        BY <2>2, RemovedWithProperties
    <2> QED
        BY <2>1, <2>2, <2>3
<1> HIDE DEF K
<1>3. ASSUME NEW j \in 1 .. N, j \notin K PROVE FenceRun(Lines(b)[LineOf(b, j)]) = 0
    BY <1>2, <1>3 DEF NotBehindFence
<1>4. ASSUME NEW j \in 1 .. N, j \notin K, b[j] = "nl", NEW p \in K, p < j, p \in 1 .. N
      PROVE  \E k \in p .. j - 1 : b[k] = "nl"
    <2>1. PICK i \in Occurrences(b, tag) :
              /\ i \in 1 .. N /\ j \in RemovedWith(b, i)
              /\ \A k \in RemovedWith(b, i) : k \notin K
              /\ WholeLine(b, i, RemovedWith(b, i))
        BY <1>2, <1>4
    <2>2. PICK f \in 1 .. i, t \in i .. N :
              RemovedWith(b, i) = f .. t /\ (f > 1 => b[f - 1] = "nl")
        BY <2>1 DEF WholeLine
    <2>3. p \notin f .. t /\ j \in f .. t
        BY <2>1, <2>2
    <2>4. p < f
        BY <1>1, <1>4, <2>1, <2>2, <2>3
    <2>5. f > 1 /\ f - 1 \in p .. j - 1
        BY <1>1, <1>4, <2>1, <2>2, <2>3, <2>4
    <2> QED
        BY <2>2, <2>5
<1>5. ASSUME NEW q \in 1 .. N - 1, q + 1 \in K, q \notin K, b[q + 1] \in Marks
      PROVE  b[q] = "nl"
    <2>1. q \in 1 .. N
        BY <1>1
    <2>2. PICK i \in Occurrences(b, tag) :
              /\ i \in 1 .. N /\ b[i] \in TagTokens /\ q \in RemovedWith(b, i)
              /\ i \notin K /\ \A k \in RemovedWith(b, i) : k \notin K
        BY <1>2, <1>5, <2>1
    <2> DEFINE R == RemovedWith(b, i)
    <2>3. WholeLine(b, i, R) \/ WithSpaceAfter(b, i, R) \/ WithSpaceBefore(b, i, R) \/ OnlyItself(i, R)
        BY <2>2, RemovedWithIs
    <2>4. q \in R /\ q + 1 \notin R
        BY <1>5, <2>2
    <2> HIDE DEF R
    <2>5. q # i
        <3>1. ASSUME q = i PROVE FALSE
            <4>1. i < Len(b) /\ b[i + 1] \in Marks
                BY <1>1, <1>5, <3>1
            <4> QED
                BY <4>1 DEF Unglued
        <3> QED
            BY <3>1
    <2>6. CASE WholeLine(b, i, R)
        <3>1. PICK f \in 1 .. i, t \in i .. N : R = f .. t /\ (t < N => b[t] = "nl")
            BY <2>6 DEF WholeLine
        <3>2. q = t /\ t < N
            BY <1>1, <2>2, <2>4, <3>1
        <3> QED
            BY <3>1, <3>2
    <2>7. CASE WithSpaceAfter(b, i, R)
        <3>1. i < Len(b) /\ b[i + 1] = "sp" /\ R = {i, i + 1}
            BY <2>7 DEF WithSpaceAfter
        <3>2. q = i + 1
            BY <2>4, <2>5, <3>1
        <3>3. i + 1 < Len(b) /\ b[i + 2] \in Marks
            <4>1. q + 1 = i + 2 /\ i + 1 < N
                BY <1>1, <2>2, <3>2
            <4>2. b[i + 2] \in Marks
                BY <1>5, <4>1
            <4> QED
                BY <4>1, <4>2
        <3> QED
            BY <3>1, <3>3 DEF Unglued
    <2>8. CASE WithSpaceBefore(b, i, R)
        <3>1. q = i - 1
            BY <2>4, <2>5, <2>8 DEF WithSpaceBefore
        <3>2. q + 1 = i /\ i \in R
            BY <2>2, <2>8, <3>1 DEF WithSpaceBefore
        <3> QED
            BY <2>4, <3>2
    <2>9. CASE OnlyItself(i, R)
        BY <2>4, <2>5, <2>9 DEF OnlyItself
    <2> QED
        BY <2>3, <2>6, <2>7, <2>8, <2>9
<1>6. K \subseteq 1 .. N
    BY DEF K, KeptWithout
<1> QED
    BY <1>3, <1>4, <1>5, <1>6 DEF Removes, K, N

LEMMA KeptBringsNoTag ==
    ASSUME NEW b \in Seq(Tokens), NEW tag \in TagTokens, Unglued(b, tag), NotBehindFence(b, tag)
    PROVE  BringsNoTag(b, KeptWithout(b, tag))
<1> DEFINE K == KeptWithout(b, tag)
           N == Len(b)
           g == Places(K)
           begin == TagTokens \cup {"tick"}
<1>1. N \in Nat /\ K \in SUBSET (1 .. N)
    BY DEF KeptWithout
<1>2. ASSUME NEW j \in 1 .. N, j \notin K
      PROVE  \E i \in Occurrences(b, tag) :
                j \in RemovedWith(b, i) /\ (j = i \/ b[j] \in White)
    <2>1. PICK i \in Occurrences(b, tag) : j \in RemovedWith(b, i)
        BY <1>2, GoneWith
    <2>2. i \in 1 .. N /\ b[i] \in TagTokens
        BY GoneWith
    <2>3. \A k \in RemovedWith(b, i) : k = i \/ b[k] \in White
        BY <2>2, RemovedWithProperties
    <2> QED
        BY <2>1, <2>3
<1>3. \A i \in Occurrences(b, tag) :
         /\ i \in 1 .. N /\ b[i] \in TagTokens /\ i \in TagPositions(b) /\ i \notin K
         /\ \A j \in RemovedWith(b, i) : j \in 1 .. N /\ j \notin K
    BY GoneWith
<1>4. "tick" \notin White /\ "tick" \notin TagTokens /\ TagTokens \cap White = {} /\ "nl" \in White /\ "tick" \in Marks
    BY TagsAreNoOther DEF White, Plain, Marks
<1> HIDE DEF K
<1>5. ASSUME NEW j \in 1 .. N, j \notin K PROVE b[j] # "tick"
    <2>1. PICK i \in Occurrences(b, tag) : j = i \/ b[j] \in White
        BY <1>2, <1>5
    <2>2. b[j] \in TagTokens \/ b[j] \in White
        BY <1>3, <2>1
    <2> QED
        BY <1>4, <2>2
<1>6. \A i \in Occurrences(b, tag) : i < N => b[i + 1] \notin begin
    BY <1>4 DEF Unglued
<1>7. ASSUME NEW q \in 1 .. N - 1, q \notin K, q + 1 \in K, b[q + 1] \in TagTokens PROVE b[q] \in White
    <2>1. q \in 1 .. N /\ q < N
        BY <1>1
    <2>2. PICK i \in Occurrences(b, tag) : q = i \/ b[q] \in White
        BY <1>2, <1>7, <2>1
    <2> QED
        BY <1>6, <1>7, <2>1, <2>2
<1>8. ASSUME NEW p \in K, NEW r \in K, p + 1 < r, \A i \in p + 1 .. r - 1 : i \notin K, b[r] \in begin
      PROVE  b[p] \in White
    <2>0. p \in 1 .. N /\ r \in 1 .. N /\ p + 1 \in 1 .. N /\ p + 1 \in p + 1 .. r - 1
        BY <1>1, <1>8
    <2>1. PICK i \in Occurrences(b, tag) : p + 1 \in RemovedWith(b, i)
        BY <1>2, <1>8, <2>0
    <2> DEFINE R == RemovedWith(b, i)
    <2>2. /\ i \in 1 .. N /\ b[i] \in TagTokens /\ i \in TagPositions(b) /\ i \notin K
          /\ p + 1 \in R /\ \A j \in R : j \notin K
        BY <1>3, <2>1
    <2>3. WholeLine(b, i, R) \/ WithSpaceAfter(b, i, R) \/ WithSpaceBefore(b, i, R) \/ OnlyItself(i, R)
        BY <2>2, RemovedWithIs
    <2>4. p # i /\ r # i /\ p \notin R
        BY <1>8, <2>2
    <2>5. ASSUME p + 1 = i PROVE b[p] \in White
        <3>1. i > 1 /\ i - 1 = p
            BY <2>0, <2>5
        <3>2. i > 1 => b[i - 1] \in White
            BY <2>2 DEF TagPositions
        <3> QED
            BY <3>1, <3>2
    <2> HIDE DEF R
    <2>6. CASE WholeLine(b, i, R)
        <3>1. PICK f \in 1 .. i, t \in i .. N : R = f .. t /\ (f > 1 => b[f - 1] = "nl")
            BY <2>6 DEF WholeLine
        <3>2. f = p + 1 /\ f > 1 /\ f - 1 = p
            BY <1>1, <2>0, <2>2, <2>4, <3>1
        <3> QED
            BY <1>4, <3>1, <3>2
    <2>7. CASE WithSpaceAfter(b, i, R)
        <3>1. p + 1 = i \/ p + 1 = i + 1
            BY <2>2, <2>7 DEF WithSpaceAfter
        <3>2. p + 1 = i
            BY <2>0, <2>2, <2>4, <3>1
        <3> QED
            BY <2>5, <3>2
    <2>8. CASE OnlyItself(i, R)
        BY <2>2, <2>5, <2>8 DEF OnlyItself
    <2>9. CASE WithSpaceBefore(b, i, R)
        <3>1. R = {i - 1, i} /\ (i < N => b[i + 1] # "sp")
            BY <2>9 DEF WithSpaceBefore
        <3>2. CASE p + 1 = i
            BY <2>5, <3>2
        <3>3. CASE p + 1 # i
            <4>1. p + 1 = i - 1
                BY <2>2, <3>1, <3>3
            <4>2. i < r /\ i < N /\ i + 1 \in 1 .. N
                <5>1. i <= r
                    BY <1>8, <2>0, <2>2, <4>1
                <5> QED
                    BY <1>1, <2>0, <2>2, <2>4, <5>1
            <4>3. b[i + 1] \notin begin /\ b[i + 1] # "sp"
                BY <1>6, <3>1, <4>2
            <4>4. i + 1 # r
                BY <1>8, <4>3
            <4>5. i + 1 \in p + 1 .. r - 1
                BY <2>0, <2>2, <4>1, <4>2, <4>4
            <4>6. i + 1 \notin K
                BY <1>8, <4>5
            <4>7. PICK j \in Occurrences(b, tag) :
                      i + 1 \in RemovedWith(b, j) /\ (i + 1 = j \/ b[i + 1] \in White)
                BY <1>2, <4>2, <4>6
            <4>8. j \in 1 .. N /\ b[j] \in TagTokens
                BY <1>3
            <4>9. i + 1 # j /\ b[i + 1] = "nl"
                BY <4>3, <4>7, <4>8 DEF White
            <4>10. WholeLine(b, j, RemovedWith(b, j)) /\ \A k \in RemovedWith(b, j) : k <= i + 1
                BY <4>7, <4>8, <4>9, RemovedWithProperties
            <4>11. PICK f \in 1 .. j, t \in j .. N :
                       /\ RemovedWith(b, j) = f .. t
                       /\ \A k \in f .. t : k # j => b[k] = "sp" \/ (k = t /\ b[k] = "nl")
                BY <4>10 DEF WholeLine
            <4>12. i # j
                <5>1. i + 1 \notin R
                    BY <2>2, <3>1
                <5> QED
                    BY <4>7, <5>1 DEF R
            <4>13. t = i + 1
                BY <4>7, <4>9, <4>11
            <4>14. i \in f .. t /\ i # t
                BY <2>2, <4>8, <4>9, <4>11, <4>12, <4>13
            <4>15. b[i] = "sp"
                BY <4>11, <4>12, <4>14
            <4> QED
                BY <1>4, <2>2, <4>15 DEF White
        <3> QED
            BY <3>2, <3>3
    <2> QED
        BY <2>3, <2>6, <2>7, <2>8, <2>9
<1>9. ASSUME NEW k \in 2 .. Cardinality(K), g[k] # g[k - 1] + 1, b[g[k]] \in begin
      PROVE  b[g[k - 1]] \in White
    <2>0. Cardinality(K) \in Nat
        BY <1>1, KeptIs
    <2>1. k \in 1 .. Cardinality(K) /\ k > 1
        BY <2>0
    <2>2. /\ k - 1 \in 1 .. Cardinality(K) /\ g[k - 1] < g[k]
          /\ \A i \in g[k - 1] + 1 .. g[k] - 1 : i \notin K
        BY <1>1, <2>1, BetweenPlaces
    <2>3. g[k] \in K /\ g[k - 1] \in K
        BY <1>1, <2>1, <2>2, PlacesAre
    <2> DEFINE p == g[k - 1]
               r == g[k]
    <2> HIDE DEF p, r
    <2>4. /\ p \in K /\ r \in K /\ p < r /\ r # p + 1 /\ b[r] \in begin
          /\ \A i \in p + 1 .. r - 1 : i \notin K
        BY <1>9, <2>2, <2>3 DEF p, r
    <2>5. p + 1 < r
        <3>1. p \in 1 .. N /\ r \in 1 .. N
            BY <1>1, <2>4
        <3> QED
            BY <2>4, <3>1
    <2>6. b[p] \in White
        BY <1>8, <2>4, <2>5
    <2> QED
        BY <2>6 DEF p
<1> QED
    BY <1>5, <1>7, <1>9 DEF BringsNoTag, g, K

\* The tags of the text that is left are all but the one removed.
LEMMA RemovedTagIsAlone ==
    ASSUME NEW b \in Seq(Tokens), NEW tag \in TagTokens, Unglued(b, tag), NotBehindFence(b, tag)
    PROVE  TagsOf(RemoveTag(b, tag)) = TagsOf(b) \ {tag}
<1> DEFINE K == KeptWithout(b, tag)
<1>1. RemoveTag(b, tag) = Picked(b, K)
    <2>1. DOMAIN b = 1 .. Len(b)
        BY LenProperties
    <2> QED
        BY <2>1 DEF RemoveTag, KeptWithout, Occurrences
<1>2. TagsOf(Picked(b, K)) = {b[i] : i \in TagPositions(b) \cap K}
    <2>1. K \in SUBSET (1 .. Len(b))
        BY DEF KeptWithout
    <2>2. Removes(b, K) /\ BringsNoTag(b, K)
        BY KeptRemoves, KeptBringsNoTag
    <2> HIDE DEF K
    <2> QED
        BY <2>1, <2>2, RemovalKeepsTags
<1>3. ASSUME NEW i \in TagPositions(b), b[i] # tag PROVE i \in K
    <2>1. i \in 1 .. Len(b) /\ b[i] \in TagTokens
        <3>1. DOMAIN b = 1 .. Len(b)
            BY LenProperties
        <3> QED
            BY <3>1 DEF TagPositions
    <2>2. ASSUME i \notin K PROVE FALSE
        <3>1. PICK j \in Occurrences(b, tag) : i \in RemovedWith(b, j)
            BY <2>1, <2>2, GoneWith
        <3>2. j \in 1 .. Len(b) /\ b[j] \in TagTokens /\ b[j] = tag
            BY GoneWith
        <3>3. i = j \/ b[i] \in White
            BY <3>1, <3>2, RemovedWithProperties
        <3>4. TagTokens \cap White = {}
            BY TagsAreNoOther DEF Plain
        <3> QED
            BY <1>3, <2>1, <3>2, <3>3, <3>4
    <2> QED
        BY <2>2
<1>4. ASSUME NEW i \in TagPositions(b), b[i] = tag PROVE i \notin K
    <2>1. i \in Occurrences(b, tag)
        BY <1>4 DEF Occurrences
    <2> QED
        BY <2>1, GoneWith
<1> HIDE DEF K
<1>5. {b[i] : i \in TagPositions(b) \cap K} = {b[i] : i \in TagPositions(b)} \ {tag}
    BY <1>3, <1>4
<1> QED
    BY <1>1, <1>2, <1>5 DEF TagsOf

\* White space that starts with a break is lines of space behind a text.
LEMMA SpacesAfter ==
    ASSUME NEW t \in Seq(Tokens), NEW w \in Seq(White), w # <<>>, w[1] = "nl"
    PROVE  \E W \in Seq(Seq({"sp"})) : Lines(t \o w) = Lines(t) \o W
<1> DEFINE nl == "nl"
           n == Len(w)
           r == SubSeq(w, 2, n)
           one == <<nl>>
<1>1. n \in Nat /\ n # 0 /\ \A i \in 1 .. n : w[i] \in White
    BY ElementOfSeq, EmptySeq
<1>2. r \in Seq(White) /\ Len(r) = n - 1 /\ \A i \in 1 .. n - 1 : r[i] = w[i + 1]
    <2>1. \A i \in 2 .. n : w[i] \in White
        BY <1>1
    <2>2. /\ r \in Seq(White)
          /\ Len(r) = IF 2 <= n THEN n - 2 + 1 ELSE 0
          /\ \A i \in 1 .. n - 2 + 1 : r[i] = w[2 + i - 1]
        BY <1>1, <2>1, SubSeqProperties
    <2> HIDE DEF r, n
    <2>3. Len(r) = n - 1 /\ n - 2 + 1 = n - 1
        BY <1>1, <2>2
    <2>4. ASSUME NEW i \in 1 .. n - 1 PROVE r[i] = w[i + 1]
        <3>1. 2 + i - 1 = i + 1
            BY <1>1
        <3> QED
            BY <2>2, <2>3, <3>1
    <2> QED
        BY <2>2, <2>3, <2>4
<1> HIDE DEF r
<1>3. nl \in White /\ White \subseteq Tokens /\ nl \in Tokens
    BY Words DEF White
<1>4. w = one \o r
    <2>1. /\ one \o r \in Seq(White) /\ Len(one \o r) = 1 + Len(r)
          /\ (one \o r)[1] = nl /\ \A i \in 1 .. Len(r) : (one \o r)[1 + i] = r[i]
        <3>1. nl \in White
            BY <1>3
        <3> HIDE DEF nl
        <3> QED
            BY <1>2, <3>1
    <2> DEFINE v == one \o r
    <2> HIDE DEF v
    <2>2. ASSUME NEW i \in 1 .. n PROVE w[i] = v[i]
        <3>1. CASE i = 1
            BY <2>1, <3>1 DEF v
        <3>2. CASE i # 1
            <4> DEFINE j == i - 1
            <4>1. j \in 1 .. n - 1 /\ i = 1 + j /\ i = j + 1
                <5>1. n \in Nat
                    BY <1>1
                <5> HIDE DEF n
                <5> QED
                    BY <3>2, <5>1
            <4> HIDE DEF j
            <4>2. v[1 + j] = r[j]
                BY <1>2, <2>1, <4>1 DEF v
            <4>3. r[j] = w[j + 1]
                BY <1>2, <4>1
            <4> QED
                BY <4>1, <4>2, <4>3
        <3> QED
            BY <3>1, <3>2
    <2>3. Len(v) = n /\ v \in Seq(White)
        BY <1>1, <1>2, <2>1 DEF v
    <2> HIDE DEF n
    <2>4. w = v
        BY <2>2, <2>3, SeqEqual DEF n
    <2> QED
        BY <2>4 DEF v
<1>5. Lines(r) \in Seq(Seq({"sp"}))
    <2>1. Split(r, nl) \in Parts(White, nl)
        BY <1>2, <1>3, SplitType
    <2>2. White \ {nl} = {"sp"}
        BY DEF White
    <2> QED
        BY <2>1, <2>2 DEF Parts, Lines
<1>6. Lines(t \o w) = Lines(t) \o Lines(r)
    <2>1. r \in Seq(Tokens)
        BY <1>2, <1>3, SeqMonotonic
    <2>2. one \in Seq(Tokens)
        BY <1>3
    <2>3. t \o (one \o r) = (t \o one) \o r
        <3> DEFINE T == t
        <3>1. T \in Seq(Tokens)
            OBVIOUS
        <3> HIDE DEF one, T
        <3>2. T \o (one \o r) = (T \o one) \o r
            BY <2>1, <2>2, <3>1
        <3> QED
            BY <3>2 DEF T
    <2>4. Lines((t \o one) \o r) = Lines(t) \o Lines(r)
        BY <2>1, LinesOfConcat
    <2> QED
        BY <1>4, <2>3, <2>4
<1> QED
    BY <1>5, <1>6

\* A tag alone on a line after an empty one.
LEMMA TagLines ==
    ASSUME NEW t \in Seq(Tokens), NEW tag \in TagTokens
    PROVE  \E Y \in Seq(Line) : /\ Lines(t \o <<"nl", "nl", tag>>) = Lines(t) \o Y
                                /\ \A i \in 1 .. Len(Y) : Bland(Y[i])
<1> DEFINE nl == "nl"
           none == <<>>
           l == <<tag>>
           one == <<nl>>
           Y == <<none>> \o <<l>>
           u == t \o one
<1>1. nl \in Tokens /\ tag \in Tokens /\ tag # nl /\ tag # "---" /\ tag # "status:"
    <2>1. tag # "status:"
        BY TagsAreNoOther DEF Plain
    <2> QED
        BY <2>1, TagIsNoOther
<1>2. none \in Line /\ l \in Line
    BY <1>1 DEF Line
<1>3. Bland(none) /\ Bland(l)
    <2>1. none # Divider /\ l # Divider
        <3>1. Divider = <<"---">>
            BY DEF Divider
        <3>2. Divider[1] = "---" /\ Len(Divider) = 1
            BY <3>1
        <3>4. l[1] = tag /\ Len(none) = 0
            OBVIOUS
        <3>3. tag # "---"
            BY <1>1
        <3>5. 0 # 1
            OBVIOUS
        <3> QED
            BY <3>2, <3>3, <3>4, <3>5, Zenon
    <2>2. Head(l) = tag
        OBVIOUS
    <2> QED
        BY <1>1, <2>1, <2>2 DEF Bland, StatusLine
<1>4. Y \in Seq(Line) /\ Len(Y) = 2 /\ Y[1] = none /\ Y[2] = l
    <2> HIDE DEF none, l
    <2> QED
        BY <1>2
<1>5. t \o <<nl, nl, tag>> = (u \o one) \o l
    BY <1>1
<1>6. u \in Seq(Tokens) /\ l \in Seq(Tokens)
    BY <1>1
<1>7. Lines((u \o one) \o l) = Lines(u) \o Lines(l)
    BY <1>6, LinesOfConcat
<1>8. Lines(u) = Lines(t) \o <<none>>
    <2>1. u = (t \o one) \o none
        <3>1. t \o one \in Seq(Tokens)
            BY <1>6
        <3> QED
            BY <3>1, ConcatEmptySeq
    <2>2. none \in Seq(Tokens)
        OBVIOUS
    <2>3. Lines((t \o one) \o none) = Lines(t) \o Lines(none)
        BY <2>2, LinesOfConcat
    <2>4. Lines(none) = <<none>>
        BY <1>2, LinesOfLine
    <2> QED
        BY <2>1, <2>3, <2>4
<1>9. Lines(l) = <<l>>
    BY <1>2, LinesOfLine
<1>10. (Lines(t) \o <<none>>) \o <<l>> = Lines(t) \o Y
    <2> DEFINE T == Lines(t)
               N == <<none>>
               L == <<l>>
    <2>1. T \in Seq(Line)
        BY LinesType
    <2>2. N \in Seq(Line) /\ L \in Seq(Line)
        <3>1. none \in Line /\ l \in Line
            BY <1>2
        <3> QED
            BY <3>1
    <2> HIDE DEF T, N, L
    <2>3. (T \o N) \o L = T \o (N \o L)
        BY <2>1, <2>2
    <2> QED
        BY <2>3 DEF T, N, L
<1>11. \A i \in 1 .. Len(Y) : Bland(Y[i])
    <2>1. \A i \in 1 .. 2 : i = 1 \/ i = 2
        OBVIOUS
    <2> HIDE DEF Y
    <2> QED
        BY <1>3, <1>4, <2>1
<1>12. Lines(t \o <<nl, nl, tag>>) = Lines(t) \o Y
    BY <1>5, <1>7, <1>8, <1>9, <1>10
<1> HIDE DEF Y
<1> QED
    BY <1>4, <1>11, <1>12

\* Lines that are A and then W.
AtEnd(A, W, ls) ==
    /\ Len(A) \in Nat /\ Len(W) \in Nat
    /\ Len(ls) = Len(A) + Len(W)
    /\ \A i \in 1 .. Len(A) : ls[i] = A[i]
    /\ \A i \in 1 .. Len(W) : ls[Len(A) + i] = W[i]

LEMMA PutAtEnd ==
    ASSUME NEW A \in Seq(Line), NEW W \in Seq(Line), NEW Z \in Seq(Line), Len(Z) = 0
    PROVE  AtEnd(A, W, Put(A, W, Z))
<1>1. Len(A) \in Nat /\ Len(W) \in Nat
    BY LenProperties
<1>2. Len(Put(A, W, Z)) = Len(A) + Len(W) + Len(Z)
    BY PutProperties
<1>3. \A i \in 1 .. Len(A) : Put(A, W, Z)[i] = A[i]
    BY PutProperties
<1>4. \A i \in 1 .. Len(W) : Put(A, W, Z)[Len(A) + i] = W[i]
    BY PutProperties
<1>5. Len(Put(A, W, Z)) = Len(A) + Len(W)
    BY <1>1, <1>2
<1> QED
    BY <1>1, <1>3, <1>4, <1>5, Zenon DEF AtEnd

\* The rest of a text with these lines.
RestIs(b, A, Y, Z) ==
    LET e == FrontmatterEnd(Lines(b))
    IN  e <= Len(A) => Rest(b) = Join(Put(Past(A, e), Y, Z)) /\ Past(A, e) \in Seq(Line)

LEMMA RestAtEnd ==
    ASSUME NEW A \in Seq(Line), NEW Y \in Seq(Line), NEW Z \in Seq(Line),
           NEW b \in Seq(Tokens), Lines(b) = Put(A, Y, Z)
    PROVE  RestIs(b, A, Y, Z)
BY RestOfPut DEF RestIs

\* What comes at the end behind a break and is no frontmatter takes no status, and no
\* title that was there, for what was there behind a break and was white.
AllBland(Y) == \A i \in 1 .. Len(Y) : Bland(Y[i])

LEMMA EndedKeeps ==
    ASSUME NEW b \in Seq(Tokens), NEW c \in Seq(Tokens), NEW A \in Seq(Line),
           NEW W \in Seq(Line), NEW Y \in Seq(Line), NEW Z \in Seq(Line), Len(Z) = 0,
           Lines(b) = Put(A, W, Z), Lines(c) = Put(A, Y, Z),
           AllBland(W), Empty(W), AllBland(Y)
    PROVE  /\ Status(c) = Status(b)
           /\ Title(Rest(b)) # <<>> => Title(Rest(c)) = Title(Rest(b))
<1> DEFINE a == Len(A)
           w == Len(W)
           y == Len(Y)
           z == 0
           ls == Lines(b)
           ms == Lines(c)
           e == FrontmatterEnd(ls)
           d == FrontmatterEnd(ms)
<1>0. A \in Seq(Line) /\ W \in Seq(Line) /\ Y \in Seq(Line) /\ Z \in Seq(Line)
    OBVIOUS
<1>00. Lines(b) = Put(A, W, Z) /\ Lines(c) = Put(A, Y, Z)
    OBVIOUS
<1>1. /\ a \in Nat /\ w \in Nat /\ y \in Nat /\ z \in Nat
      /\ Len(ls) = a + w + z /\ Len(ms) = a + y + z
      /\ \A i \in 1 .. a : ls[i] = A[i] /\ ms[i] = A[i]
      /\ \A i \in 1 .. w : ls[a + i] = W[i]
      /\ \A i \in 1 .. y : ms[a + i] = Y[i]
    <2>0. Len(Z) = 0
        OBVIOUS
    <2>1. AtEnd(A, W, Put(A, W, Z)) /\ AtEnd(A, Y, Put(A, Y, Z))
        BY <1>0, <2>0, PutAtEnd, Zenon
    <2>2. AtEnd(A, W, ls) /\ AtEnd(A, Y, ms)
        BY <1>00, <2>1, Zenon
    <2> HIDE DEF ls, ms
    <2> QED
        BY <2>2 DEF AtEnd
<1>2. ls \in Seq(Line) /\ ls # <<>> /\ ms \in Seq(Line) /\ ms # <<>>
    BY LinesType
<1>3. Around(ls, ms, a, w, y, z) /\ Held(a, w, y, z)
    <2> HIDE DEF ls, ms, a, w, y
    <2> QED
        BY <1>1 DEF Around, Held, AllBland, w, y
<1>4. a \in Nat /\ w \in Nat /\ y \in Nat /\ z \in Nat
    BY <1>1
<1>5. Status(c) = Status(b)
    <2> HIDE DEF a, w, y, z
    <2> QED
        BY <1>3, <1>4, StatusMoves
<1>6. \/ e <= a /\ d = e
      \/ a + w < e /\ d = (e - w) + y
    <2> HIDE DEF ls, ms, a, w, y, z
    <2>1. LET g == FrontmatterEnd(ls)
              h == FrontmatterEnd(ms)
          IN  \/ g <= a /\ h = g
              \/ a + w < g /\ h = (g - w) + y
        BY <1>2, <1>3, <1>4, FrontMoves, SMTT(60)
    <2> QED
        BY <2>1
<1>7. e \in 0 .. Len(ls)
    BY <1>2, FrontIs
<1>8. e <= a /\ d = e
    <2> HIDE DEF ls, ms, a, w, y, e, d
    <2> QED
        BY <1>1, <1>6, <1>7
<1>9. RestIs(b, A, W, Z) /\ RestIs(c, A, Y, Z)
    BY RestAtEnd, Zenon
<1>10. /\ Rest(b) = Join(Put(Past(A, e), W, Z)) /\ Past(A, e) \in Seq(Line)
       /\ Rest(c) = Join(Put(Past(A, d), Y, Z))
    BY <1>8, <1>9 DEF RestIs
<1> DEFINE Q == Past(A, e)
<1>11. Q \in Seq(Line) /\ Rest(b) = Join(Put(Q, W, Z)) /\ Rest(c) = Join(Put(Q, Y, Z))
    BY <1>8, <1>10
<1> HIDE DEF Q
<1>12. Firm(Q, Z)
    BY DEF Firm
<1>13. Title(Join(Put(Q, W, Z))) # <<>> =>
           Title(Join(Put(Q, Y, Z))) = Title(Join(Put(Q, W, Z)))
    BY <1>11, <1>12, TitlePut
<1> QED
    BY <1>5, <1>11, <1>13

\* Lines of space are bland and hold no word.
LEMMA SpacesAreBlank ==
    ASSUME NEW W \in Seq(Seq({"sp"}))
    PROVE  W \in Seq(Line) /\ AllBland(W) /\ Empty(W)
<1>1. Seq({"sp"}) \subseteq FreshLine
    <2>1. {"sp"} \subseteq Fresh \ {"nl"}
        BY FreshParts
    <2> QED
        BY <2>1, SeqMonotonic DEF FreshLine
<1>2. W \in Seq(FreshLine)
    BY <1>1, SeqMonotonic
<1>3. W \in Seq(Line) /\ \A i \in 1 .. Len(W) : Bland(W[i])
    BY <1>2, FreshLines
<1>4. ASSUME NEW i \in 1 .. Len(W) PROVE ~Usable(W[i])
    <2>1. W[i] \in Seq({"sp"})
        BY ElementOfSeq
    <2>2. \A j \in DOMAIN W[i] : W[i][j] = "sp"
        BY <2>1, ElementOfSeq, LenProperties
    <2> QED
        BY <2>2 DEF Usable
<1> QED
    BY <1>3, <1>4 DEF AllBland, Empty

\* An added tag takes no status, and no title that was there, where the white space
\* it replaces starts with a break.
LEMMA AddedTagKeeps ==
    ASSUME NEW b \in Seq(Tokens), NEW tag \in TagTokens, tag \notin TagsOf(b),
           LET kept == Len(TrimEnd(b, White)) IN kept = Len(b) \/ b[kept + 1] = "nl"
    PROVE  LET c == EnsureTag(b, tag)
           IN  /\ Status(c) = Status(b)
               /\ Title(Rest(b)) # <<>> => Title(Rest(c)) = Title(Rest(b))
<1> DEFINE t == TrimEnd(b, White)
           c == EnsureTag(b, tag)
           k == Len(t)
<1>1. t \in Seq(Tokens) /\ Cut(b, t, White)
    BY TrimmedIs
<1>2. PICK w \in Seq(White) : b = t \o w
    BY <1>1 DEF Cut
<1>3. k = Len(b) \/ b[k + 1] = "nl"
    OBVIOUS
<1>4. c = t \o <<"nl", "nl", tag>> /\ c \in Seq(Tokens)
    BY EnsureTagType DEF EnsureTag
<1> HIDE DEF t, c
<1>5. \E W \in Seq(Seq({"sp"})) : Lines(b) = Lines(t) \o W
    <2>1. CASE w = <<>>
        <3>1. b = t
            BY <1>1, <1>2, <2>1, ConcatEmptySeq
        <3>2. Lines(t) \o <<>> = Lines(t)
            BY <1>1, LinesType, ConcatEmptySeq
        <3>3. <<>> \in Seq(Seq({"sp"}))
            OBVIOUS
        <3> QED
            BY <3>1, <3>2, <3>3, Zenon
    <2>2. CASE w # <<>>
        <3>1. Len(w) \in Nat /\ Len(w) # 0
            BY <2>2, EmptySeq
        <3>2. w \in Seq(Tokens)
            <4>1. White \subseteq Tokens
                BY Words DEF White
            <4> QED
                BY <4>1, SeqMonotonic
        <3>3. Len(b) = Len(t) + Len(w) /\ Len(t) \in Nat /\ \A i \in 1 .. Len(w) : b[Len(t) + i] = w[i]
            BY <1>1, <1>2, <3>2, ConcatAt
        <3>4. w[1] = "nl"
            <4>1. 1 \in 1 .. Len(w) /\ k # Len(b)
                BY <3>1, <3>3
            <4> QED
                BY <1>3, <3>3, <4>1
        <3> QED
            BY <1>1, <1>2, <2>2, <3>4, SpacesAfter
    <2> QED
        BY <2>1, <2>2
<1>6. PICK W \in Seq(Seq({"sp"})) : Lines(b) = Lines(t) \o W
    BY <1>5
<1>7. PICK Y \in Seq(Line) : Lines(c) = Lines(t) \o Y /\ AllBland(Y)
    BY <1>1, <1>4, TagLines DEF AllBland
<1>8. Lines(t) \in Seq(Line)
    BY <1>1, LinesType
<1> DEFINE none == <<>>
<1>9. /\ Status(c) = Status(b)
      /\ Title(Rest(b)) # <<>> => Title(Rest(c)) = Title(Rest(b))
    <2>1. W \in Seq(Line) /\ AllBland(W) /\ Empty(W)
        BY SpacesAreBlank
    <2>2. none \in Seq(Line) /\ Len(none) = 0
        OBVIOUS
    <2>3. Lines(b) = Put(Lines(t), W, none) /\ Lines(c) = Put(Lines(t), Y, none)
        BY <1>6, <1>7, <1>8, <2>1, NothingPut
    <2> QED
        BY <1>4, <1>7, <1>8, <2>1, <2>2, <2>3, EndedKeeps
<1> QED
    BY <1>9 DEF c

-----------------------------------------------------------------------------
(* What is derived, after every edit.                                      *)

\* Nothing is brought by a text of fresh tokens.
LEMMA BringsNothing ==
    ASSUME NEW text \in Seq(Tokens), QuietText(text)
    PROVE  text \in Seq(Fresh)
<1>1. DOMAIN text = 1 .. Len(text) /\ Len(text) \in Nat /\ text \in [1 .. Len(text) -> Tokens]
    BY LenProperties
<1>2. \A i \in 1 .. Len(text) : text[i] \in Fresh
    <2>1. \A i \in 1 .. Len(text) : text[i] \in Tokens /\ text[i] \notin Brings
        BY <1>1 DEF QuietText, Range
    <2> QED
        BY <2>1 DEF Brings, Fresh, Quiet, Tokens
<1>3. text = [i \in 1 .. Len(text) |-> text[i]]
    BY <1>1
<1> DEFINE n == Len(text)
<1> HIDE DEF n
<1>4. [i \in 1 .. n |-> text[i]] \in Seq(Fresh)
    BY <1>1, <1>2 DEF n
<1> QED
    BY <1>3, <1>4 DEF n

\* The properties as statements about the body and the last edit.
KeepsDerived(l, b) ==
    /\ \/ l.do \in {"check", "uncheck"}
       \/ l.do = "append" /\ QuietText(l.text)
       \/ l.do = "text" /\ QuietText(l.text) /\ QuietText(Todos(l.from)[l.at].text)
       => Status(b) = Status(l.from) /\ TagsOf(Rest(b)) = TagsOf(Rest(l.from))
    /\ l.do \in {"check", "uncheck"} =>
         Unchecked(Title(Rest(b))) = Unchecked(Title(Rest(l.from)))
    /\ l.do = "append" /\ QuietText(l.text) /\ Title(Rest(l.from)) # <<>> =>
         Title(Rest(b)) = Title(Rest(l.from))

\* White space at the end of a text that starts with a break.
EndsInLines(b) == LET kept == Len(TrimEnd(b, White)) IN kept = Len(b) \/ b[kept + 1] = "nl"

AddsTag(l, b) ==
    l.do = "ensure" =>
        /\ TagsOf(b) = TagsOf(l.from) \cup {l.text[1]}
        /\ l.text[1] \in Derived(b).tags
        /\ EnsureTag(b, l.text[1]) = b
        /\ Len(Todos(b)) = Len(Todos(l.from))
        /\ EndsInLines(l.from) =>
             /\ Status(b) = Status(l.from)
             /\ Title(Rest(l.from)) # <<>> => Title(Rest(b)) = Title(Rest(l.from))

TakesTag(l, b) ==
    l.do = "remove" /\ Unglued(l.from, l.text[1]) /\ NotBehindFence(l.from, l.text[1]) =>
        TagsOf(b) = TagsOf(l.from) \ {l.text[1]}

DeriveInv == KeepsDerived(last, body) /\ AddsTag(last, body) /\ TakesTag(last, body)

\* The text of a todo.
LEMMA TodoTextType ==
    ASSUME NEW b \in Seq(Tokens), NEW n \in DOMAIN Todos(b)
    PROVE  Todos(b)[n].text \in Seq(Tokens)
<1> DEFINE ls == Lines(b)
           l == ls[ItemLine(ls, n)]
<1>1. ls \in Seq(Line) /\ Todos(b) = ListOf(ls)
    BY LinesType, TodosAreListed
<1> HIDE DEF ls
<1>2. n \in 1 .. Cardinality(Items(ls))
    BY <1>1, ItemsProperties
<1>3. l \in Line /\ IsItem(l) /\ ListOf(ls)[n] = Item(l)
    BY <1>1, <1>2, ItemsProperties, ElementOfSeq
<1> HIDE DEF l
<1> QED
    BY <1>1, <1>3, ItemText

\* As many todos as there are items.
LEMMA TodosCounted ==
    ASSUME NEW b \in Seq(Tokens)
    PROVE  Len(Todos(b)) = Cardinality(Items(Lines(b)))
<1>1. Lines(b) \in Seq(Line)
    BY LinesType
<1>2. Cardinality(Items(Lines(b))) \in Nat
    BY <1>1, ItemsProperties
<1> QED
    BY <1>2 DEF Todos

LEMMA DeriveInvInit ==
    ASSUME Init
    PROVE  DeriveInv
<1>1. last.do = "none"
    BY DEF Init, NoEdit
<1> QED
    BY <1>1 DEF DeriveInv, KeepsDerived, AddsTag, TakesTag

LEMMA DeriveInvStep ==
    ASSUME EditInv, DeriveInv, [Next]_vars
    PROVE  DeriveInv'
<1> SUFFICES /\ KeepsDerived(last', body')
             /\ AddsTag(last', body')
             /\ TakesTag(last', body')
    BY DEF DeriveInv, KeepsDerived, AddsTag, TakesTag
<1>0. body \in Seq(Tokens)
    BY DEF EditInv
<1>1. CASE Check
    <2>1. PICK n \in DOMAIN Todos(body), c \in BOOLEAN :
             Store(SetTodoChecked(body, n, c), IF c THEN "check" ELSE "uncheck", n, n, <<>>)
        <3>1. PICK n \in DOMAIN Todos(body) :
                 \/ Store(SetTodoChecked(body, n, TRUE), "check", n, n, <<>>)
                 \/ Store(SetTodoChecked(body, n, FALSE), "uncheck", n, n, <<>>)
            BY <1>1 DEF Check
        <3> QED
            BY <3>1
    <2> DEFINE new == SetTodoChecked(body, n, c)
               do == IF c THEN "check" ELSE "uncheck"
    <2>2. new \in Seq(Tokens)
        BY <1>0, CheckedIsRead
    <2>3. /\ Status(new) = Status(body) /\ TagsOf(Rest(new)) = TagsOf(Rest(body))
          /\ Unchecked(Title(Rest(new))) = Unchecked(Title(Rest(body)))
        <3>1. /\ Status(new) = Status(body) /\ TagsOf(Rest(new)) = TagsOf(Rest(body))
              /\ Reboxed(Title(Rest(body)), Title(Rest(new)))
            BY <1>0, CheckedTodoKeeps
        <3>2. Title(Rest(body)) \in Seq(Tokens) /\ Title(Rest(new)) \in Seq(Tokens)
            BY <1>0, <2>2, RestType, TitleType
        <3> HIDE DEF new
        <3>3. Unchecked(Title(Rest(new))) = Unchecked(Title(Rest(body)))
            BY <3>1, <3>2, UncheckedAlike, Zenon
        <3> QED
            BY <3>1, <3>3
    <2>4. Store(new, do, n, n, <<>>)
        BY <2>1
    <2>5. do # "append" /\ do # "text" /\ do # "ensure" /\ do # "remove"
        OBVIOUS
    <2> HIDE DEF new, do
    <2>6. /\ body' = new
          /\ last' = [do |-> do, at |-> n, to |-> n, text |-> <<>>, from |-> body]
        BY <1>0, <2>2, <2>4, StoreProperties
    <2>7. last'.do = do /\ last'.from = body
        BY <2>6
    <2>8. KeepsDerived(last', body')
        BY <2>3, <2>5, <2>6, <2>7, Zenon DEF KeepsDerived
    <2>9. AddsTag(last', body') /\ TakesTag(last', body')
        BY <2>5, <2>7 DEF AddsTag, TakesTag
    <2> QED
        BY <2>8, <2>9
<1>2. CASE Rename
    <2>1. PICK n \in DOMAIN Todos(body), text \in Texts :
             Store(SetTodoText(body, n, text), "text", n, n, text)
        BY <1>2 DEF Rename
    <2> DEFINE new == SetTodoText(body, n, text)
    <2>2. text \in Seq(Tokens)
        BY ContentAssumption
    <2>3. new \in Seq(Tokens)
        BY <1>0, <2>2, RenamedIsRead
    <2>4. QuietText(text) /\ QuietText(Todos(body)[n].text) =>
              Status(new) = Status(body) /\ TagsOf(Rest(new)) = TagsOf(Rest(body))
        <3> SUFFICES ASSUME QuietText(text), QuietText(Todos(body)[n].text)
                     PROVE  Status(new) = Status(body) /\ TagsOf(Rest(new)) = TagsOf(Rest(body))
            OBVIOUS
        <3>1. Todos(body)[n].text \in Seq(Tokens)
            BY <1>0, TodoTextType
        <3>2. text \in Seq(Fresh) /\ Todos(body)[n].text \in Seq(Fresh)
            BY <2>2, <3>1, BringsNothing
        <3> QED
            BY <1>0, <3>2, RenamedTodoKeeps
    <2>5. Store(new, "text", n, n, text)
        BY <2>1
    <2> HIDE DEF new
    <2>6. /\ body' = new
          /\ last' = [do |-> "text", at |-> n, to |-> n, text |-> text, from |-> body]
        BY <1>0, <2>3, <2>5, StoreProperties
    <2>7. /\ last'.do \notin {"check", "uncheck"} /\ last'.do # "append"
          /\ last'.do # "ensure" /\ last'.do # "remove"
          /\ last'.from = body /\ last'.text = text /\ last'.at = n
        BY <2>6
    <2>8. KeepsDerived(last', body')
        BY <2>4, <2>6, <2>7, Zenon DEF KeepsDerived
    <2>9. AddsTag(last', body') /\ TakesTag(last', body')
        BY <2>7 DEF AddsTag, TakesTag
    <2> QED
        BY <2>8, <2>9
<1>3. CASE Add
    <2>1. PICK text \in Texts : Store(AppendTodo(body, text), "append", 0, 0, text)
        BY <1>3 DEF Add
    <2> DEFINE new == AppendTodo(body, text)
    <2>2. text \in Seq(Tokens)
        BY ContentAssumption
    <2>3. new \in Seq(Tokens)
        BY <1>0, <2>2, AppendedIsRead
    <2>4. QuietText(text) =>
              /\ Status(new) = Status(body) /\ TagsOf(Rest(new)) = TagsOf(Rest(body))
              /\ Title(Rest(body)) # <<>> => Title(Rest(new)) = Title(Rest(body))
        BY <1>0, <2>2, BringsNothing, AppendedTodoKeeps
    <2>5. Store(new, "append", 0, 0, text)
        BY <2>1
    <2> HIDE DEF new
    <2>6. /\ body' = new
          /\ last' = [do |-> "append", at |-> 0, to |-> 0, text |-> text, from |-> body]
        BY <1>0, <2>3, <2>5, StoreProperties
    <2>7. /\ last'.do = "append" /\ last'.do # "ensure" /\ last'.do # "remove"
          /\ last'.do # "text"
          /\ last'.do \notin {"check", "uncheck"}
          /\ last'.from = body /\ last'.text = text
        BY <2>6
    <2>8. KeepsDerived(last', body')
        BY <2>4, <2>6, <2>7, Zenon DEF KeepsDerived
    <2>9. AddsTag(last', body') /\ TakesTag(last', body')
        BY <2>7 DEF AddsTag, TakesTag
    <2> QED
        BY <2>8, <2>9
<1>4. CASE Untag
    <2>1. PICK tag \in TagTokens : Store(RemoveTag(body, tag), "remove", 0, 0, <<tag>>)
        BY <1>4 DEF Untag
    <2> DEFINE new == RemoveTag(body, tag)
               text == <<tag>>
    <2>2. new \in Seq(Tokens)
        BY <1>0, RemoveTagType
    <2>3. Unglued(body, tag) /\ NotBehindFence(body, tag) => TagsOf(new) = TagsOf(body) \ {tag}
        BY <1>0, RemovedTagIsAlone
    <2>4. Store(new, "remove", 0, 0, text) /\ text[1] = tag
        BY <2>1
    <2> HIDE DEF new, text
    <2>5. /\ body' = new
          /\ last' = [do |-> "remove", at |-> 0, to |-> 0, text |-> text, from |-> body]
        BY <1>0, <2>2, <2>4, StoreProperties
    <2>6. /\ last'.do = "remove" /\ last'.from = body /\ last'.text[1] = tag
        BY <2>4, <2>5
    <2>7. KeepsDerived(last', body') /\ AddsTag(last', body')
        BY <2>6 DEF KeepsDerived, AddsTag
    <2>8. TakesTag(last', body')
        BY <2>3, <2>5, <2>6, Zenon DEF TakesTag
    <2> QED
        BY <2>7, <2>8
<1>5. CASE Tag
    <2>1. PICK tag \in TagTokens : /\ EnsureTag(body, tag) # body
                                   /\ Store(EnsureTag(body, tag), "ensure", 0, 0, <<tag>>)
        BY <1>5 DEF Tag
    <2>2. tag \notin TagsOf(body)
        BY <2>1 DEF EnsureTag
    <2> DEFINE new == EnsureTag(body, tag)
               text == <<tag>>
    <2>3. new \in Seq(Tokens)
        BY <1>0, EnsureTagType
    <2>4. /\ TagsOf(new) = TagsOf(body) \cup {tag}
          /\ EnsureTag(new, tag) = new
          /\ Items(Lines(new)) = Items(Lines(body))
        BY <1>0, <2>2, AddedTagIsAll
    <2>5. tag \in Derived(new).tags
        BY <1>0, <2>2, AddedTagCounts
    <2>5a. EndsInLines(body) =>
               /\ Status(new) = Status(body)
               /\ Title(Rest(body)) # <<>> => Title(Rest(new)) = Title(Rest(body))
        BY <1>0, <2>2, AddedTagKeeps DEF EndsInLines
    <2>6. Store(new, "ensure", 0, 0, text) /\ text[1] = tag
        BY <2>1
    <2> HIDE DEF new, text
    <2>7. Len(Todos(new)) = Len(Todos(body))
        BY <1>0, <2>3, <2>4, TodosCounted
    <2>8. /\ body' = new
          /\ last' = [do |-> "ensure", at |-> 0, to |-> 0, text |-> text, from |-> body]
        BY <1>0, <2>3, <2>6, StoreProperties
    <2>9. /\ last'.do \notin {"check", "uncheck"} /\ last'.do # "append"
          /\ last'.do # "text" /\ last'.do # "remove"
          /\ last'.from = body /\ last'.text[1] = tag
        BY <2>6, <2>8
    <2>10. KeepsDerived(last', body') /\ TakesTag(last', body')
        BY <2>9 DEF KeepsDerived, TakesTag
    <2>11. AddsTag(last', body')
        BY <2>4, <2>5, <2>5a, <2>7, <2>8, <2>9, Zenon DEF AddsTag
    <2> QED
        BY <2>10, <2>11
<1>6. CASE EditLines
    <2>1. PICK start \in DOMAIN Lines(body), end \in DOMAIN Lines(body), text \in Texts :
             Store(ReplaceLines(body, start, end, text), "replace", start, end, text)
        BY <1>6 DEF EditLines
    <2>2. last'.do = "replace"
        BY <2>1 DEF Store
    <2> QED
        BY <2>2 DEF KeepsDerived, AddsTag, TakesTag
<1>7. CASE UNCHANGED <<body, want, last>>
    BY <1>7 DEF DeriveInv
<1> QED
    <2>1. MakeTag \/ UNCHANGED vars => UNCHANGED <<body, want, last>>
        BY DEF MakeTag, vars
    <2> QED
        BY <1>1, <1>2, <1>3, <1>4, <1>5, <1>6, <1>7, <2>1 DEF Next

LEMMA DeriveInvAlways == Spec => []DeriveInv
<1>1. Init => DeriveInv
    BY DeriveInvInit
<1>2. EditInv /\ DeriveInv /\ [Next]_vars => DeriveInv'
    BY DeriveInvStep
<1> QED
    BY <1>1, <1>2, EditInvAlways, PTL DEF Spec

(* Work on the list of todos does not reach the status and the tags derived   *)
(* from the note, whatever the body: neither comes or goes with a check, nor   *)
(* with an addition or a renaming, as long as no text that comes or goes has a *)
(* tag, code or frontmatter of its own.  A check changes at most a box of the  *)
(* title, an addition no title that was there; of the title of a note whose    *)
(* item is renamed nothing is said (TodoEditsKeep; set_todo_checked,           *)
(* set_todo_text and append_todo in content/edits.rs).                         *)
THEOREM WorkOnTodosKeeps == Spec => []TodoEditsKeep
<1>1. DeriveInv => TodoEditsKeep
    <2> SUFFICES ASSUME DeriveInv PROVE TodoEditsKeep
        OBVIOUS
    <2>1. KeepsDerived(last, body)
        BY DEF DeriveInv
    <2>2. /\ Derived(body).status = Status(body) /\ Derived(body).tags = TagsOf(Rest(body))
          /\ Derived(body).title = Title(Rest(body))
          /\ Derived(last.from).status = Status(last.from)
          /\ Derived(last.from).tags = TagsOf(Rest(last.from))
          /\ Derived(last.from).title = Title(Rest(last.from))
        BY DEF Derived
    <2> QED
        BY <2>1, <2>2, Zenon DEF KeepsDerived, TodoEditsKeep
<1> QED
    BY <1>1, DeriveInvAlways, PTL

(* An added tag counts in the body and among what is derived from the note,   *)
(* with all tags the note had, and to add it again changes nothing; there are *)
(* as many todos as before.  The status and a title stay as well, unless the  *)
(* white space at the end of the body, which goes, starts behind other text   *)
(* of its line (TagAdded; ensure_tag in project.rs).                          *)
THEOREM AddedTagStays == Spec => []TagAdded
<1>1. DeriveInv => TagAdded
    <2> SUFFICES ASSUME DeriveInv PROVE TagAdded
        OBVIOUS
    <2>1. AddsTag(last, body)
        BY DEF DeriveInv
    <2>2. /\ Derived(body).status = Status(body) /\ Derived(body).title = Title(Rest(body))
          /\ Derived(last.from).status = Status(last.from)
          /\ Derived(last.from).title = Title(Rest(last.from))
        BY DEF Derived
    <2> QED
        BY <2>1, <2>2, Zenon DEF AddsTag, EndsInLines, TagAdded
<1> QED
    BY <1>1, DeriveInvAlways, PTL

(* A removed tag is gone, and every other tag of the note is still there and  *)
(* no new one (of title and status nothing is said), whatever the body, unless a tag or a mark of code was glued to *)
(* it or its line began with such a mark (TagRemoved; remove_tag in           *)
(* content/edits.rs).                                                         *)
THEOREM RemovedTagGoesAlone == Spec => []TagRemoved
<1>1. DeriveInv => TagRemoved
    <2> SUFFICES ASSUME DeriveInv PROVE TagRemoved
        OBVIOUS
    <2> DEFINE tag == last.text[1]
               before == last.from
               glued == \E i \in TagPositions(before) :
                   /\ before[i] = tag /\ i < Len(before)
                   /\ \/ before[i + 1] \in TagTokens \cup {"~~~", "tick"}
                      \/ /\ i + 1 < Len(before) /\ before[i + 1] = "sp"
                         /\ before[i + 2] \in {"~~~", "tick"}
               behind == \E i \in TagPositions(before) :
                   before[i] = tag /\ FenceRun(Lines(before)[LineOf(before, i)]) # 0
    <2>1. ~glued => Unglued(before, tag)
        BY DEF Unglued, Occurrences, Marks
    <2>2. ~behind => NotBehindFence(before, tag)
        BY DEF NotBehindFence, Occurrences
    <2>3. last.do = "remove" /\ Unglued(before, tag) /\ NotBehindFence(before, tag) =>
              TagsOf(body) = TagsOf(before) \ {tag}
        BY DEF DeriveInv, TakesTag
    <2> HIDE DEF glued, behind
    <2>4. last.do = "remove" /\ ~glued /\ ~behind => TagsOf(body) = TagsOf(before) \ {tag}
        BY <2>1, <2>2, <2>3
    <2> QED
        BY <2>4 DEF TagRemoved, glued, behind
<1> QED
    BY <1>1, DeriveInvAlways, PTL

(* What is derived from a note follows its edits, whatever the body, as far   *)
(* as its three parts say (DerivedFollows): work on todos, a removed tag, an   *)
(* added one.                                                                 *)
THEOREM DerivedIsFollowed == Spec => []DerivedFollows
<1>1. TodoEditsKeep /\ TagRemoved /\ TagAdded => DerivedFollows
    BY DEF DerivedFollows
<1> QED
    BY <1>1, WorkOnTodosKeeps, RemovedTagGoesAlone, AddedTagStays, PTL
=============================================================================
