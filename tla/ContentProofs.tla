---------------------------- MODULE ContentProofs ----------------------------
(***************************************************************************)
(* What edits do to the lines, the todos and the stored text of a body,     *)
(* whatever the body, for any number of edits; the tag of any name; and a   *)
(* second import of any directory.                                          *)
(***************************************************************************)
EXTENDS Content, Transfer, SequenceTheorems, FiniteSetTheorems, WellFoundedInduction, TLAPS

-----------------------------------------------------------------------------
(* Numbers: a property that 0 has and that n hands on to n + 1.             *)

LEMMA LeastNat ==
    ASSUME NEW T \in SUBSET Nat, T # {}
    PROVE  \E x \in T : \A y \in T : x <= y
<1>1. PICK R : R = OpToRel(<, Nat)
    OBVIOUS
<1>2. IsWellFoundedOn(R, Nat)
    BY <1>1, NatLessThanWellFounded, Zenon
<1>3. \A x, y \in Nat : x < y => <<x, y>> \in R
    BY <1>1 DEF OpToRel
<1>4. PICK x \in T : \A y \in T : ~(<<y, x>> \in R)
    BY <1>2, WFMin, Zenon
<1>5. ASSUME NEW y \in T PROVE x <= y
    <2>1. x \in Nat /\ y \in Nat
        OBVIOUS
    <2>2. ~(y < x)
        BY <1>3, <1>4, <2>1, Zenon
    <2> QED
        BY <2>1, <2>2
<1> QED
    BY <1>5

LEMMA AllNumbers ==
    ASSUME NEW T, 0 \in T, \A n \in Nat : n \in T => n + 1 \in T
    PROVE  Nat \subseteq T
<1> SUFFICES ASSUME ~(Nat \subseteq T) PROVE FALSE
    OBVIOUS
<1>1. PICK m \in Nat \ T : \A k \in Nat \ T : m <= k
    BY LeastNat
<1>2. m - 1 \in Nat /\ m - 1 \in T
    BY <1>1
<1> QED
    BY <1>1, <1>2

(* A set of numbers up to a bound has a greatest one: the most two texts     *)
(* share is well defined.                                                    *)
LEMMA Greatest ==
    ASSUME NEW n \in Nat, NEW K \in SUBSET (0 .. n), K # {}
    PROVE  \E k \in K : \A j \in K : j <= k
<1> DEFINE T == {n - k : k \in K}
<1>1. T \subseteq Nat /\ T # {}
    <2>1. PICK k \in K : TRUE
        OBVIOUS
    <2>2. n - k \in T
        OBVIOUS
    <2>3. \A j \in K : n - j \in Nat
        OBVIOUS
    <2> QED
        BY <2>2, <2>3
<1> HIDE DEF T
<1>2. PICK x \in T : \A y \in T : ~(y < x)
    <2>1. \E x \in T : \A y \in T : ~(<<y, x>> \in OpToRel(<, Nat))
        BY <1>1, WFMin, NatLessThanWellFounded
    <2>2. \A a, b \in Nat : a < b => <<a, b>> \in OpToRel(<, Nat)
        BY DEF OpToRel
    <2> QED
        BY <1>1, <2>1, <2>2, Zenon
<1>3. \A y \in T : x <= y
    BY <1>1, <1>2
<1>4. PICK k \in K : x = n - k
    BY DEF T
<1>5. \A j \in K : n - k <= n - j
    BY <1>3, <1>4 DEF T
<1> QED
    BY <1>4, <1>5

\* A function defined along 0 .. n by what it is at 0 and by a step.
Follows(f, base, n, step) ==
    f[0] = base /\ \A i \in 1 .. n : f[i] = step[<<f[i - 1], i>>]

LEMMA Recursion ==
    ASSUME NEW A, NEW base \in A, NEW n \in Nat, NEW step \in [A \X (1 .. n) -> A]
    PROVE  \E f \in [0 .. n -> A] : Follows(f, base, n, step)
<1> DEFINE Good(f, m) == f[0] = base /\ \A i \in 1 .. m : f[i] = step[<<f[i - 1], i>>]
           T == {m \in Nat : m > n \/ \E f \in [0 .. m -> A] : Good(f, m)}
<1>1. 0 \in T
    <2>1. [i \in 0 .. 0 |-> base] \in [0 .. 0 -> A] /\ Good([i \in 0 .. 0 |-> base], 0)
        OBVIOUS
    <2> QED
        BY <2>1
<1>2. ASSUME NEW m \in Nat, m \in T PROVE m + 1 \in T
    <2>1. CASE m + 1 > n
        BY <2>1
    <2>2. CASE m + 1 <= n
        <3>1. PICK f \in [0 .. m -> A] : Good(f, m)
            BY <1>2, <2>2
        <3>2. step[<<f[m], m + 1>>] \in A
            BY <2>2, <3>1
        <3> DEFINE g == [i \in 0 .. m + 1 |-> IF i = m + 1 THEN step[<<f[m], m + 1>>] ELSE f[i]]
        <3>3. g \in [0 .. m + 1 -> A]
            BY <3>1, <3>2
        <3>4. \A i \in 0 .. m : g[i] = f[i]
            OBVIOUS
        <3>5. g[0] = base
            BY <3>1, <3>4
        <3>6. ASSUME NEW i \in 1 .. m + 1 PROVE g[i] = step[<<g[i - 1], i>>]
            <4>1. CASE i = m + 1
                <5>1. g[i] = step[<<f[m], m + 1>>] /\ g[m] = f[m]
                    BY <4>1, <3>4
                <5>2. i - 1 = m
                    BY <4>1
                <5> QED
                    BY <4>1, <5>1, <5>2
            <4>2. CASE i \in 1 .. m
                <5>1. i \in 0 .. m /\ i - 1 \in 0 .. m
                    BY <4>2
                <5>2. g[i] = f[i] /\ g[i - 1] = f[i - 1]
                    BY <3>4, <5>1
                <5>3. f[i] = step[<<f[i - 1], i>>]
                    BY <3>1, <4>2
                <5> QED
                    BY <5>2, <5>3
            <4> QED
                BY <4>1, <4>2
        <3>7. Good(g, m + 1)
            BY <3>5, <3>6
        <3> HIDE DEF g
        <3> QED
            BY <3>3, <3>7
    <2> QED
        BY <2>1, <2>2
<1>3. n \in T
    <2> HIDE DEF T
    <2> QED
        BY <1>1, <1>2, AllNumbers
<1> QED
    BY <1>3 DEF Follows

-----------------------------------------------------------------------------
(* The splice from the old text to the new one.                             *)

(* SharedStart counts scalars that both texts begin with, and the next ones  *)
(* differ.                                                                   *)
LEMMA SharedStartProperties ==
    ASSUME NEW S, NEW old \in Seq(S), NEW new \in Seq(S)
    PROVE  LET k == SharedStart(old, new)
           IN  /\ k \in 0 .. Len(old) /\ k <= Len(new)
               /\ \A i \in 1 .. k : old[i] = new[i]
               /\ k < Len(old) /\ k < Len(new) => old[k + 1] # new[k + 1]
<1> DEFINE K == {k \in 0 .. Len(old) : k <= Len(new) /\ \A i \in 1 .. k : old[i] = new[i]}
<1>1. Len(old) \in Nat /\ Len(new) \in Nat
    OBVIOUS
<1>2. 0 \in K
    BY <1>1
<1>3. PICK k \in K : \A j \in K : j <= k
    <2> HIDE DEF K
    <2>1. K \in SUBSET (0 .. Len(old))
        BY DEF K
    <2> QED
        BY <1>1, <1>2, <2>1, Greatest
<1>4. ASSUME k < Len(old), k < Len(new) PROVE old[k + 1] # new[k + 1]
    <2> SUFFICES ASSUME old[k + 1] = new[k + 1] PROVE FALSE
        OBVIOUS
    <2>1. k + 1 \in K
        BY <1>1, <1>4
    <2> QED
        BY <1>1, <1>3, <2>1
<1>5. \E j \in 0 .. Len(old) :
         /\ j <= Len(new)
         /\ \A i \in 1 .. j : old[i] = new[i]
         /\ j < Len(old) /\ j < Len(new) => old[j + 1] # new[j + 1]
    BY <1>3, <1>4
<1> QED
    BY <1>5 DEF SharedStart

(* SharedEnd counts scalars that both texts end with beyond the shared start,*)
(* and the ones before them differ.                                          *)
LEMMA SharedEndProperties ==
    ASSUME NEW S, NEW old \in Seq(S), NEW new \in Seq(S), NEW pre \in Nat,
           pre <= Len(old), pre <= Len(new)
    PROVE  LET k == SharedEnd(old, new, pre)
           IN  /\ k \in 0 .. Len(old) - pre /\ k <= Len(new) - pre
               /\ \A i \in 0 .. k - 1 : old[Len(old) - i] = new[Len(new) - i]
               /\ k < Len(old) - pre /\ k < Len(new) - pre
                     => old[Len(old) - k] # new[Len(new) - k]
<1> DEFINE n == Len(old) - pre
           K == {k \in 0 .. n : /\ k <= Len(new) - pre
                                /\ \A i \in 0 .. k - 1 : old[Len(old) - i] = new[Len(new) - i]}
<1>1. Len(old) \in Nat /\ Len(new) \in Nat /\ n \in Nat
    OBVIOUS
<1>2. 0 \in K
    BY <1>1
<1>3. PICK k \in K : \A j \in K : j <= k
    <2>1. K \in SUBSET (0 .. n)
        OBVIOUS
    <2> HIDE DEF K, n
    <2> QED
        BY <1>1, <1>2, <2>1, Greatest
<1>4. ASSUME k < n, k < Len(new) - pre PROVE old[Len(old) - k] # new[Len(new) - k]
    <2> SUFFICES ASSUME old[Len(old) - k] = new[Len(new) - k] PROVE FALSE
        OBVIOUS
    <2>1. k + 1 \in K
        BY <1>1, <1>4
    <2> QED
        BY <1>1, <1>3, <2>1
<1>5. \E j \in 0 .. Len(old) - pre :
         /\ j <= Len(new) - pre
         /\ \A i \in 0 .. j - 1 : old[Len(old) - i] = new[Len(new) - i]
         /\ j < Len(old) - pre /\ j < Len(new) - pre
               => old[Len(old) - j] # new[Len(new) - j]
    BY <1>3, <1>4
<1> QED
    BY <1>5 DEF SharedEnd

(* body_splice is exact: splicing the old text with it gives the new text,   *)
(* for every pair of texts.                                                  *)
THEOREM SpliceGivesNew ==
    ASSUME NEW S, NEW old \in Seq(S), NEW new \in Seq(S)
    PROVE  Spliced(old, BodySplice(old, new)) = new
<1> DEFINE pre == SharedStart(old, new)
           suf == SharedEnd(old, new, pre)
           m == Len(old)
           n == Len(new)
<1>1. m \in Nat /\ n \in Nat
    OBVIOUS
<1>2. pre \in 0 .. m /\ pre <= n /\ \A i \in 1 .. pre : old[i] = new[i]
    BY SharedStartProperties
<1>3. /\ suf \in 0 .. m - pre /\ suf <= n - pre
      /\ \A i \in 0 .. suf - 1 : old[m - i] = new[n - i]
    <2> HIDE DEF pre
    <2> QED
        BY <1>1, <1>2, SharedEndProperties
<1> HIDE DEF pre, suf
<1>4. Spliced(old, BodySplice(old, new))
        = SubSeq(old, 1, pre) \o SubSeq(new, pre + 1, n - suf) \o SubSeq(old, m - suf + 1, m)
    <2>1. pre + (m - pre - suf) + 1 = m - suf + 1
        BY <1>1, <1>2, <1>3
    <2> QED
        BY <2>1 DEF Spliced, BodySplice, pre, suf
<1>5. SubSeq(old, 1, pre) = SubSeq(new, 1, pre)
    <2>1. \A i \in 1 .. pre : old[i] \in S /\ new[i] \in S
        BY <1>1, <1>2, ElementOfSeq
    <2>2. /\ SubSeq(old, 1, pre) \in Seq(S) /\ SubSeq(new, 1, pre) \in Seq(S)
          /\ Len(SubSeq(old, 1, pre)) = Len(SubSeq(new, 1, pre))
          /\ Len(SubSeq(old, 1, pre)) = pre
          /\ \A i \in 1 .. pre : SubSeq(old, 1, pre)[i] = old[i]
          /\ \A i \in 1 .. pre : SubSeq(new, 1, pre)[i] = new[i]
        BY <1>1, <1>2, <2>1
    <2> QED
        BY <1>2, <2>2, SeqEqual
<1>6. SubSeq(old, m - suf + 1, m) = SubSeq(new, n - suf + 1, n)
    <2>1. /\ SubSeq(old, m - suf + 1, m) \in Seq(S)
          /\ SubSeq(new, n - suf + 1, n) \in Seq(S)
          /\ Len(SubSeq(old, m - suf + 1, m)) = suf
          /\ Len(SubSeq(new, n - suf + 1, n)) = suf
        BY <1>1, <1>2, <1>3
    <2>2. ASSUME NEW i \in 1 .. suf
          PROVE  SubSeq(old, m - suf + 1, m)[i] = SubSeq(new, n - suf + 1, n)[i]
        <3>1. /\ SubSeq(old, m - suf + 1, m)[i] = old[m - (suf - i)]
              /\ SubSeq(new, n - suf + 1, n)[i] = new[n - (suf - i)]
            BY <1>1, <1>2, <1>3
        <3>2. suf - i \in 0 .. suf - 1
            BY <1>3
        <3> QED
            BY <1>3, <3>1, <3>2
    <2> QED
        BY <2>1, <2>2, SeqEqual
<1>7. SubSeq(new, 1, pre) \o SubSeq(new, pre + 1, n - suf) = SubSeq(new, 1, n - suf)
    <2>1. 1 \in 1 .. Len(new) + 1 /\ pre \in 1 - 1 .. Len(new) /\ n - suf \in pre .. Len(new)
        BY <1>1, <1>2, <1>3
    <2> HIDE DEF m, n
    <2> QED
        BY <2>1, ConcatAdjacentSubSeq
<1>8. SubSeq(new, 1, n - suf) \o SubSeq(new, n - suf + 1, n) = SubSeq(new, 1, n)
    <2> DEFINE k == n - suf
    <2>1. 1 \in 1 .. Len(new) + 1 /\ k \in 1 - 1 .. Len(new) /\ n \in k .. Len(new)
        BY <1>1, <1>2, <1>3
    <2> HIDE DEF k, m, n
    <2>2. SubSeq(new, 1, k) \o SubSeq(new, k + 1, n) = SubSeq(new, 1, n)
        BY <2>1, ConcatAdjacentSubSeq
    <2> QED
        BY <2>2 DEF k
<1>9. SubSeq(new, 1, n) = new
    BY SubSeqFull
<1> QED
    BY <1>4, <1>5, <1>6, <1>7, <1>8, <1>9

\* The ends of a part of a sequence.
LEMMA Middle ==
    ASSUME NEW S, NEW s \in Seq(S), NEW a \in Nat, NEW b \in a + 1 .. Len(s)
    PROVE  LET v == SubSeq(s, a + 1, b)
           IN  Len(v) = b - a /\ v[1] = s[a + 1] /\ v[b - a] = s[b]
OBVIOUS

(* The splice touches nothing both texts share at either end, for every pair *)
(* of texts: what it takes out and what it puts in differ in their first     *)
(* scalar and in their last (the second half of Content's SpliceExact).      *)
THEOREM SpliceLeavesSharedEnds ==
    ASSUME NEW S, NEW old \in Seq(S), NEW new \in Seq(S)
    PROVE  LET s   == BodySplice(old, new)
               out == SubSeq(old, s.pos + 1, s.pos + s.del)
           IN  s.insert # <<>> /\ out # <<>> =>
                   /\ Head(s.insert) # Head(out)
                   /\ s.insert[Len(s.insert)] # out[Len(out)]
<1> DEFINE pre == SharedStart(old, new)
           suf == SharedEnd(old, new, pre)
           m == Len(old)
           n == Len(new)
           insert == SubSeq(new, pre + 1, n - suf)
           out == SubSeq(old, pre + 1, m - suf)
<1>1. m \in Nat /\ n \in Nat
    OBVIOUS
<1>2. /\ pre \in 0 .. m /\ pre <= n
      /\ pre < m /\ pre < n => old[pre + 1] # new[pre + 1]
    BY SharedStartProperties
<1>3. /\ suf \in 0 .. m - pre /\ suf <= n - pre
      /\ suf < m - pre /\ suf < n - pre => old[m - suf] # new[n - suf]
    <2> HIDE DEF pre
    <2> QED
        BY <1>1, <1>2, SharedEndProperties
<1> HIDE DEF pre, suf
<1>4. ASSUME insert # <<>>, out # <<>>
      PROVE  Head(insert) # Head(out) /\ insert[Len(insert)] # out[Len(out)]
    <2>1. suf < n - pre
        <3> SUFFICES ASSUME n - suf < pre + 1 PROVE insert = <<>>
            BY <1>1, <1>2, <1>3, <1>4
        <3> QED
            BY <1>1, <1>2, <1>3
    <2>2. suf < m - pre
        <3> SUFFICES ASSUME m - suf < pre + 1 PROVE out = <<>>
            BY <1>1, <1>2, <1>3, <1>4
        <3> QED
            BY <1>1, <1>2, <1>3
    <2>3. /\ Len(insert) = n - suf - pre /\ Len(out) = m - suf - pre
          /\ insert[1] = new[pre + 1] /\ out[1] = old[pre + 1]
          /\ insert[n - suf - pre] = new[n - suf] /\ out[m - suf - pre] = old[m - suf]
        <3>1. /\ Len(insert) = n - suf - pre /\ insert[1] = new[pre + 1]
              /\ insert[n - suf - pre] = new[n - suf]
            <4> DEFINE k == n - suf
            <4>1. pre \in Nat /\ k \in pre + 1 .. Len(new)
                BY <1>1, <1>2, <1>3, <2>1
            <4> HIDE DEF k, m, n
            <4>2. LET v == SubSeq(new, pre + 1, k)
                  IN  Len(v) = k - pre /\ v[1] = new[pre + 1] /\ v[k - pre] = new[k]
                BY <4>1, Middle
            <4> QED
                BY <4>2 DEF k
        <3>2. /\ Len(out) = m - suf - pre /\ out[1] = old[pre + 1]
              /\ out[m - suf - pre] = old[m - suf]
            <4> DEFINE k == m - suf
            <4>1. pre \in Nat /\ k \in pre + 1 .. Len(old)
                BY <1>1, <1>2, <1>3, <2>2
            <4> HIDE DEF k, m, n
            <4>2. LET v == SubSeq(old, pre + 1, k)
                  IN  Len(v) = k - pre /\ v[1] = old[pre + 1] /\ v[k - pre] = old[k]
                BY <4>1, Middle
            <4> QED
                BY <4>2 DEF k
        <3> QED
            BY <3>1, <3>2
    <2>4. Head(insert) = insert[1] /\ Head(out) = out[1]
        <3>1. insert \in Seq(S) /\ out \in Seq(S)
            BY <1>1, <1>2, <1>3, <2>1, <2>2
        <3> HIDE DEF insert, out
        <3> QED
            BY <3>1
    <2>5. old[pre + 1] # new[pre + 1]
        BY <1>1, <1>2, <1>3, <2>1, <2>2
    <2> HIDE DEF insert, out
    <2>6. insert[Len(insert)] = new[n - suf] /\ out[Len(out)] = old[m - suf]
        BY <2>3, Zenon
    <2>7. old[m - suf] # new[n - suf]
        BY <1>3, <2>1, <2>2, Zenon
    <2>8. Head(insert) # Head(out)
        BY <2>3, <2>4, <2>5, Zenon
    <2> QED
        BY <2>6, <2>7, <2>8, Zenon
<1>5. /\ BodySplice(old, new).insert = insert
      /\ BodySplice(old, new).pos = pre
      /\ BodySplice(old, new).pos + BodySplice(old, new).del = m - suf
    <2>1. pre + (m - pre - suf) = m - suf
        BY <1>1, <1>2, <1>3
    <2> QED
        BY <2>1 DEF BodySplice, pre, suf
<1> DEFINE s == BodySplice(old, new)
<1>6. SubSeq(old, s.pos + 1, s.pos + s.del) = out
    BY <1>5
<1> HIDE DEF insert, out
<1> QED
    BY <1>4, <1>5, <1>6

-----------------------------------------------------------------------------
(* Split and Joined, by their recursive equations.                         *)

Parts(X, sep) == Seq(Seq(X \ {sep})) \ {<<>>}

Longer(ps, c, sep) ==
    IF c = sep THEN Append(ps, <<>>) ELSE [ps EXCEPT ![Len(ps)] = Append(@, c)]

\* What a function that splits s has at i, from what it has before.
After(f, s, sep, i) == IF i = 0 THEN <<<<>>>> ELSE Longer(f[i - 1], s[i], sep)

Splits(f, s, sep) ==
    /\ f[0] = <<<<>>>>
    /\ \A i \in 1 .. Len(s) : f[i] = Longer(f[i - 1], s[i], sep)

\* The last part has c more.
Lengthened(qs, ps, c) ==
    /\ Len(qs) = Len(ps) /\ qs[Len(ps)] = Append(ps[Len(ps)], c)
    /\ \A i \in 1 .. Len(ps) - 1 : qs[i] = ps[i]

LEMMA LongerType ==
    ASSUME NEW X, NEW sep \in X, NEW ps \in Parts(X, sep), NEW c \in X
    PROVE  /\ Longer(ps, c, sep) \in Parts(X, sep)
           /\ c = sep => Longer(ps, c, sep) = ps \o <<<<>>>>
           /\ c # sep => Lengthened(Longer(ps, c, sep), ps, c)
<1> DEFINE L == Seq(X \ {sep})
<1>1. ps \in Seq(L) /\ ps # <<>> /\ Len(ps) \in Nat \ {0} /\ Len(ps) \in 1 .. Len(ps)
    BY EmptySeq, LenProperties DEF Parts
<1>2. CASE c = sep
    <2>1. <<>> \in L
        OBVIOUS
    <2> HIDE DEF L
    <2>2. Append(ps, <<>>) \in Seq(L) /\ Append(ps, <<>>) # <<>>
        BY <1>1, <2>1
    <2>3. Append(ps, <<>>) = ps \o <<<<>>>>
        BY <1>1, <2>1, AppendIsConcat
    <2> QED
        BY <1>2, <2>2, <2>3 DEF Parts, Longer, L
<1>3. CASE c # sep
    <2>1. ps[Len(ps)] \in L
        BY <1>1, ElementOfSeq
    <2>2. Append(ps[Len(ps)], c) \in L
        BY <1>3, <2>1
    <2> HIDE DEF L
    <2> DEFINE new == [ps EXCEPT ![Len(ps)] = Append(ps[Len(ps)], c)]
    <2>3. new \in Seq(L) /\ Len(new) = Len(ps)
        BY <1>1, <2>2, ExceptSeq
    <2>4. new[Len(ps)] = Append(ps[Len(ps)], c)
        BY <1>1
    <2>5. \A i \in 1 .. Len(ps) - 1 : new[i] = ps[i]
        BY <1>1
    <2>6. new # <<>>
        BY <1>1, <2>3
    <2>7. Longer(ps, c, sep) = new
        BY <1>3 DEF Longer
    <2> HIDE DEF new
    <2> QED
        BY <1>3, <2>3, <2>4, <2>5, <2>6, <2>7 DEF Parts, L, Lengthened
<1> QED
    BY <1>2, <1>3

LEMMA SplitsExists ==
    ASSUME NEW X, NEW sep \in X, NEW s \in Seq(X)
    PROVE  \E f \in [0 .. Len(s) -> Parts(X, sep)] : Splits(f, s, sep)
<1> DEFINE A == Parts(X, sep)
           n == Len(s)
           step == [a \in A \X (1 .. n) |-> Longer(a[1], s[a[2]], sep)]
<1>1. n \in Nat
    OBVIOUS
<1>2. <<<<>>>> \in A
    BY DEF Parts
<1>3. \A p \in A, i \in 1 .. n : Longer(p, s[i], sep) \in A
    BY LongerType, ElementOfSeq
<1>4. step \in [A \X (1 .. n) -> A]
    BY <1>3
<1>5. ASSUME NEW p \in A, NEW i \in 1 .. n PROVE step[<<p, i>>] = Longer(p, s[i], sep)
    OBVIOUS
<1> HIDE DEF A, n, step
<1>6. PICK f \in [0 .. n -> A] :
         f[0] = <<<<>>>> /\ \A i \in 1 .. n : f[i] = step[<<f[i - 1], i>>]
    <2> DEFINE base == <<<<>>>>
    <2>1. base \in A
        BY <1>2
    <2> HIDE DEF base
    <2>2. \E f \in [0 .. n -> A] : Follows(f, base, n, step)
        BY <1>1, <1>4, <2>1, Recursion
    <2> QED
        BY <2>2 DEF base, Follows
<1>7. ASSUME NEW i \in 1 .. n PROVE f[i] = Longer(f[i - 1], s[i], sep)
    <2>1. f[i - 1] \in A
        BY <1>1, <1>6
    <2> QED
        BY <1>5, <1>6, <2>1
<1> QED
    BY <1>6, <1>7 DEF A, n, Splits

\* Two functions that follow the equations agree.
LEMMA SplitsUnique ==
    ASSUME NEW s, NEW n \in Nat, n = Len(s), NEW sep, NEW f, NEW g,
           Splits(f, s, sep), Splits(g, s, sep)
    PROVE  \A i \in 0 .. n : f[i] = g[i]
<1> DEFINE T == {i \in Nat : i <= n => f[i] = g[i]}
<1>1. 0 \in T
    BY DEF Splits
<1>2. ASSUME NEW i \in Nat, i \in T PROVE i + 1 \in T
    <2> SUFFICES ASSUME i + 1 <= n PROVE f[i + 1] = g[i + 1]
        OBVIOUS
    <2>1. f[i] = g[i] /\ i + 1 \in 1 .. n /\ (i + 1) - 1 = i
        BY <1>2
    <2> QED
        BY <2>1 DEF Splits
<1>3. Nat \subseteq T
    <2> HIDE DEF T
    <2> QED
        BY <1>1, <1>2, AllNumbers
<1> QED
    BY <1>3

\* Split is where the equations end.
LEMMA SplitIs ==
    ASSUME NEW X, NEW sep \in X, NEW s \in Seq(X), NEW f, Splits(f, s, sep)
    PROVE  Split(s, sep) = f[Len(s)] /\ Split(s, sep) \in Parts(X, sep)
<1> DEFINE n == Len(s)
           rec(g) == [i \in 0 .. n |-> After(g, s, sep, i)]
           upTo == CHOOSE g : g = rec(g)
<1>1. n \in Nat
    OBVIOUS
<1>2. PICK h \in [0 .. n -> Parts(X, sep)] : Splits(h, s, sep)
    BY SplitsExists
<1>3. h = rec(h)
    <2>1. h[0] = After(h, s, sep, 0)
        BY <1>2 DEF Splits, After
    <2>2. ASSUME NEW i \in 1 .. n PROVE h[i] = After(h, s, sep, i)
        BY <1>2, <2>2 DEF Splits, After
    <2>3. \A i \in 0 .. n : h[i] = After(h, s, sep, i)
        BY <1>1, <2>1, <2>2
    <2> QED
        BY <1>2, <2>3
<1>4. upTo = rec(upTo)
    BY <1>3
<1>5. Splits(upTo, s, sep)
    <2> HIDE DEF upTo
    <2>1. \A i \in 0 .. n : upTo[i] = After(upTo, s, sep, i)
        BY <1>4
    <2>2. upTo[0] = <<<<>>>>
        BY <1>1, <2>1 DEF After
    <2>3. ASSUME NEW i \in 1 .. n PROVE upTo[i] = Longer(upTo[i - 1], s[i], sep)
        BY <1>1, <2>1, <2>3 DEF After
    <2> QED
        BY <2>2, <2>3 DEF Splits
<1>6. Split(s, sep) = upTo[n]
    BY DEF Split, After, Longer
<1> HIDE DEF upTo
<1>7. upTo[n] = f[n] /\ upTo[n] = h[n]
    BY <1>1, <1>2, <1>5, SplitsUnique
<1> QED
    BY <1>1, <1>2, <1>6, <1>7

LEMMA SplitOfNothing ==
    ASSUME NEW X, NEW sep \in X
    PROVE  Split(<<>>, sep) = <<<<>>>>
<1> DEFINE f == [i \in 0 .. 0 |-> <<<<>>>>]
           s == <<>>
<1>1. s \in Seq(X) /\ Len(s) = 0
    OBVIOUS
<1>2. Splits(f, s, sep) /\ f[0] = <<<<>>>>
    BY <1>1 DEF Splits
<1> HIDE DEF f, s
<1>3. Split(s, sep) = f[Len(s)]
    BY <1>1, <1>2, SplitIs
<1> QED
    BY <1>1, <1>2, <1>3 DEF s

LEMMA SplitAppend ==
    ASSUME NEW X, NEW sep \in X, NEW s \in Seq(X), NEW c \in X
    PROVE  Split(Append(s, c), sep) = Longer(Split(s, sep), c, sep)
<1> DEFINE n == Len(s)
           t == Append(s, c)
<1>1. n \in Nat /\ t \in Seq(X) /\ Len(t) = n + 1 /\ t[n + 1] = c /\ \A i \in 1 .. n : t[i] = s[i]
    BY AppendProperties
<1>2. PICK f \in [0 .. n -> Parts(X, sep)] : Splits(f, s, sep)
    BY SplitsExists
<1> DEFINE g == [i \in 0 .. n + 1 |-> IF i = n + 1 THEN Longer(f[n], c, sep) ELSE f[i]]
<1>3. g[n + 1] = Longer(f[n], c, sep) /\ \A i \in 0 .. n : g[i] = f[i]
    BY <1>1
<1> HIDE DEF g, t
<1>4. Splits(g, t, sep)
    <2>1. g[0] = <<<<>>>>
        BY <1>1, <1>2, <1>3 DEF Splits
    <2>2. ASSUME NEW i \in 1 .. n + 1 PROVE g[i] = Longer(g[i - 1], t[i], sep)
        <3>1. CASE i = n + 1
            <4>1. i - 1 = n /\ n \in 0 .. n
                BY <1>1, <3>1
            <4> QED
                BY <1>1, <1>3, <3>1, <4>1
        <3>2. CASE i \in 1 .. n
            <4>1. i \in 0 .. n /\ i - 1 \in 0 .. n
                BY <1>1, <3>2
            <4> QED
                BY <1>1, <1>2, <1>3, <3>2, <4>1 DEF Splits
        <3> QED
            BY <1>1, <3>1, <3>2
    <2> QED
        BY <1>1, <2>1, <2>2 DEF Splits
<1>5. Split(t, sep) = g[n + 1]
    <2>1. Split(t, sep) = g[Len(t)]
        BY <1>1, <1>4, SplitIs
    <2> QED
        BY <1>1, <2>1
<1>6. Split(s, sep) = f[n]
    BY <1>2, SplitIs
<1> QED
    BY <1>3, <1>5, <1>6 DEF t

LEMMA SplitType ==
    ASSUME NEW X, NEW sep \in X, NEW s \in Seq(X)
    PROVE  Split(s, sep) \in Parts(X, sep)
<1>1. PICK f \in [0 .. Len(s) -> Parts(X, sep)] : Splits(f, s, sep)
    BY SplitsExists
<1> QED
    BY <1>1, SplitIs

Adds(t, ps, sep, i) == IF i = 1 THEN ps[1] ELSE t \o <<sep>> \o ps[i]

Joins(f, ps, sep) ==
    /\ f[0] = <<>>
    /\ \A i \in 1 .. Len(ps) : f[i] = Adds(f[i - 1], ps, sep, i)

Then(f, ps, sep, i) == IF i = 0 THEN <<>> ELSE Adds(f[i - 1], ps, sep, i)

LEMMA JoinsExists ==
    ASSUME NEW X, NEW sep \in X, NEW ps \in Seq(Seq(X))
    PROVE  \E f \in [0 .. Len(ps) -> Seq(X)] : Joins(f, ps, sep)
<1> DEFINE A == Seq(X)
           n == Len(ps)
           step == [a \in A \X (1 .. n) |-> Adds(a[1], ps, sep, a[2])]
           base == <<>>
<1>1. n \in Nat /\ base \in A
    OBVIOUS
<1>2. ASSUME NEW p \in A, NEW i \in 1 .. n PROVE Adds(p, ps, sep, i) \in A
    <2>1. n \in Nat /\ ps \in Seq(A) /\ 1 \in 1 .. n
        BY <1>2
    <2>2. ps[i] \in A /\ ps[1] \in A
        BY <2>1, ElementOfSeq
    <2>3. <<sep>> \in A
        OBVIOUS
    <2>4. p \o <<sep>> \o ps[i] \in A
        BY <2>2, <2>3, ConcatProperties
    <2> QED
        BY <2>2, <2>4 DEF Adds
<1>3. step \in [A \X (1 .. n) -> A]
    BY <1>2
<1>4. ASSUME NEW p \in A, NEW i \in 1 .. n PROVE step[<<p, i>>] = Adds(p, ps, sep, i)
    OBVIOUS
<1> HIDE DEF A, n, step, base
<1>5. PICK f \in [0 .. n -> A] : Follows(f, base, n, step)
    BY <1>1, <1>3, Recursion
<1>6. ASSUME NEW i \in 1 .. n PROVE f[i] = Adds(f[i - 1], ps, sep, i)
    <2>1. f[i - 1] \in A
        BY <1>1, <1>5
    <2> QED
        BY <1>4, <1>5, <2>1 DEF Follows
<1>7. Joins(f, ps, sep)
    BY <1>5, <1>6 DEF Follows, Joins, n, base
<1> QED
    BY <1>5, <1>7 DEF A, n

LEMMA JoinsUnique ==
    ASSUME NEW ps, NEW n \in Nat, n = Len(ps), NEW sep, NEW f, NEW g,
           Joins(f, ps, sep), Joins(g, ps, sep)
    PROVE  \A i \in 0 .. n : f[i] = g[i]
<1> DEFINE T == {i \in Nat : i <= n => f[i] = g[i]}
<1>1. 0 \in T
    BY DEF Joins
<1>2. ASSUME NEW i \in Nat, i \in T PROVE i + 1 \in T
    <2> SUFFICES ASSUME i + 1 <= n PROVE f[i + 1] = g[i + 1]
        OBVIOUS
    <2>1. f[i] = g[i] /\ i + 1 \in 1 .. n /\ (i + 1) - 1 = i
        BY <1>2
    <2> QED
        BY <2>1 DEF Joins
<1>3. Nat \subseteq T
    <2> HIDE DEF T
    <2> QED
        BY <1>1, <1>2, AllNumbers
<1> QED
    BY <1>3

LEMMA JoinedIs ==
    ASSUME NEW X, NEW sep \in X, NEW ps \in Seq(Seq(X)), NEW f, Joins(f, ps, sep)
    PROVE  Joined(ps, sep) = f[Len(ps)] /\ Joined(ps, sep) \in Seq(X)
<1> DEFINE n == Len(ps)
           rec(g) == [i \in 0 .. n |-> Then(g, ps, sep, i)]
           upTo == CHOOSE g : g = rec(g)
<1>1. n \in Nat
    OBVIOUS
<1>2. PICK h \in [0 .. n -> Seq(X)] : Joins(h, ps, sep)
    BY JoinsExists
<1>3. h = rec(h)
    <2>1. h[0] = Then(h, ps, sep, 0)
        BY <1>2 DEF Joins, Then
    <2>2. ASSUME NEW i \in 1 .. n PROVE h[i] = Then(h, ps, sep, i)
        BY <1>2, <2>2 DEF Joins, Then
    <2>3. \A i \in 0 .. n : h[i] = Then(h, ps, sep, i)
        BY <1>1, <2>1, <2>2
    <2> QED
        BY <1>2, <2>3
<1>4. upTo = rec(upTo)
    BY <1>3
<1>5. Joins(upTo, ps, sep)
    <2> HIDE DEF upTo
    <2>1. \A i \in 0 .. n : upTo[i] = Then(upTo, ps, sep, i)
        BY <1>4
    <2>2. upTo[0] = <<>>
        BY <1>1, <2>1 DEF Then
    <2>3. ASSUME NEW i \in 1 .. n PROVE upTo[i] = Adds(upTo[i - 1], ps, sep, i)
        BY <1>1, <2>1, <2>3 DEF Then
    <2> QED
        BY <2>2, <2>3 DEF Joins
<1>6. Joined(ps, sep) = upTo[n]
    BY DEF Joined, Then, Adds
<1> HIDE DEF upTo
<1>7. upTo[n] = f[n] /\ upTo[n] = h[n]
    BY <1>1, <1>2, <1>5, JoinsUnique
<1> QED
    BY <1>1, <1>2, <1>6, <1>7

LEMMA JoinedType ==
    ASSUME NEW X, NEW sep \in X, NEW ps \in Seq(Seq(X))
    PROVE  Joined(ps, sep) \in Seq(X)
<1>1. PICK f \in [0 .. Len(ps) -> Seq(X)] : Joins(f, ps, sep)
    BY JoinsExists
<1> QED
    BY <1>1, JoinedIs

\* A further part is set off by a separator, unless it is the first.
LEMMA JoinedAppend ==
    ASSUME NEW X, NEW sep \in X, NEW ps \in Seq(Seq(X)), NEW p \in Seq(X)
    PROVE  Joined(Append(ps, p), sep)
              = IF ps = <<>> THEN p ELSE Joined(ps, sep) \o <<sep>> \o p
<1> DEFINE n == Len(ps)
           qs == Append(ps, p)
<1>1. /\ n \in Nat /\ qs \in Seq(Seq(X)) /\ Len(qs) = n + 1
      /\ qs[n + 1] = p /\ \A i \in 1 .. n : qs[i] = ps[i]
    BY AppendProperties
<1>2. PICK f \in [0 .. n -> Seq(X)] : Joins(f, ps, sep)
    BY JoinsExists
<1> DEFINE g == [i \in 0 .. n + 1 |-> IF i = n + 1 THEN Adds(f[n], qs, sep, n + 1) ELSE f[i]]
<1>3. g[n + 1] = Adds(f[n], qs, sep, n + 1) /\ \A i \in 0 .. n : g[i] = f[i]
    BY <1>1
<1> HIDE DEF g, qs
<1>4. Joins(g, qs, sep)
    <2>1. g[0] = <<>>
        BY <1>1, <1>2, <1>3 DEF Joins
    <2>2. ASSUME NEW i \in 1 .. n + 1 PROVE g[i] = Adds(g[i - 1], qs, sep, i)
        <3>1. CASE i = n + 1
            <4>1. i - 1 = n /\ n \in 0 .. n
                BY <1>1, <3>1
            <4> QED
                BY <1>1, <1>3, <3>1, <4>1
        <3>2. CASE i \in 1 .. n
            <4>1. i \in 0 .. n /\ i - 1 \in 0 .. n /\ 1 \in 1 .. n
                BY <1>1, <3>2
            <4>2. Adds(f[i - 1], qs, sep, i) = Adds(f[i - 1], ps, sep, i)
                BY <1>1, <3>2, <4>1 DEF Adds
            <4> QED
                BY <1>2, <1>3, <3>2, <4>1, <4>2 DEF Joins
        <3> QED
            BY <1>1, <3>1, <3>2
    <2> QED
        BY <1>1, <2>1, <2>2 DEF Joins
<1>5. Joined(qs, sep) = g[n + 1]
    <2>1. Joined(qs, sep) = g[Len(qs)]
        BY <1>1, <1>4, JoinedIs
    <2> QED
        BY <1>1, <2>1
<1>6. Joined(ps, sep) = f[n]
    BY <1>2, JoinedIs
<1>7. ps = <<>> <=> n = 0
    BY EmptySeq
<1> QED
    BY <1>1, <1>3, <1>5, <1>6, <1>7 DEF qs, Adds

\* A text without a separator is one part.
LEMMA SplitWhole ==
    ASSUME NEW X, NEW sep \in X, NEW p \in Seq(X \ {sep})
    PROVE  Split(p, sep) = <<p>>
<1> DEFINE Y == X \ {sep}
           T == {n \in Nat : \A q \in Seq(Y) : Len(q) = n => Split(q, sep) = <<q>>}
<1>1. 0 \in T
    BY SplitOfNothing, EmptySeq
<1>2. ASSUME NEW n \in Nat, n \in T PROVE n + 1 \in T
    <2> SUFFICES ASSUME NEW q \in Seq(Y), Len(q) = n + 1 PROVE Split(q, sep) = <<q>>
        OBVIOUS
    <2>1. PICK r \in Seq(Y), c \in Y : q = Append(r, c)
        <3>1. q # <<>>
            BY EmptySeq
        <3> HIDE DEF Y
        <3> QED
            BY <3>1, SequenceEmptyOrAppend
    <2>2. Len(r) = n
        BY <2>1, AppendProperties
    <2>3. Split(r, sep) = <<r>>
        BY <1>2, <2>2
    <2>4. r \in Seq(X) /\ c \in X /\ c # sep
        BY <2>1
    <2>5. Split(q, sep) = Longer(<<r>>, c, sep)
        BY <2>1, <2>3, <2>4, SplitAppend
    <2>6. Longer(<<r>>, c, sep) = <<Append(r, c)>>
        BY <2>4 DEF Longer
    <2> QED
        BY <2>1, <2>5, <2>6
<1>3. Nat \subseteq T
    <2> HIDE DEF T
    <2> QED
        BY <1>1, <1>2, AllNumbers
<1>4. Len(p) \in T
    BY <1>3
<1> QED
    BY <1>4

\* What splits a text between two of its parts splits it there.
LEMMA LongerOfConcat ==
    ASSUME NEW X, NEW sep \in X, NEW ps \in Parts(X, sep), NEW qs \in Parts(X, sep), NEW c \in X
    PROVE  Longer(ps \o qs, c, sep) = ps \o Longer(qs, c, sep)
<1> DEFINE L == Seq(X \ {sep})
           m == Len(ps)
           n == Len(qs)
           w == ps \o qs
<1>1. ps \in Seq(L) /\ qs \in Seq(L) /\ m \in Nat /\ n \in Nat \ {0} /\ n \in 1 .. n
    BY EmptySeq DEF Parts
<1>2. w \in Seq(L) /\ Len(w) = m + n /\ w # <<>>
    BY <1>1, ConcatProperties, EmptySeq
<1>3. w \in Parts(X, sep)
    BY <1>2 DEF Parts
<1>4. CASE c = sep
    <2>1. Longer(w, c, sep) = w \o <<<<>>>> /\ Longer(qs, c, sep) = qs \o <<<<>>>>
        BY <1>3, <1>4, LongerType
    <2>2. <<<<>>>> \in Seq(L)
        OBVIOUS
    <2> HIDE DEF L
    <2> QED
        BY <1>1, <2>1, <2>2, ConcatAssociative
<1>5. CASE c # sep
    <2> DEFINE a == Longer(w, c, sep)
               q2 == Longer(qs, c, sep)
               b == ps \o q2
    <2>1. /\ a \in Seq(L) /\ Len(a) = Len(w) /\ a[Len(w)] = Append(w[Len(w)], c)
          /\ \A i \in 1 .. Len(w) - 1 : a[i] = w[i]
        <3> HIDE DEF w
        <3>1. a \in Parts(X, sep)
            BY <1>3, LongerType
        <3>2. Lengthened(a, w, c)
            BY <1>3, <1>5, LongerType
        <3> QED
            BY <3>1, <3>2 DEF Parts, Lengthened
    <2>2. /\ q2 \in Seq(L) /\ Len(q2) = n /\ q2[n] = Append(qs[n], c)
          /\ \A i \in 1 .. n - 1 : q2[i] = qs[i]
        <3>1. q2 \in Parts(X, sep)
            BY LongerType
        <3>2. Lengthened(q2, qs, c)
            BY <1>5, LongerType
        <3> QED
            BY <3>1, <3>2 DEF Parts, Lengthened
    <2> HIDE DEF L, a, q2, w
    <2>3. b \in Seq(L) /\ Len(b) = m + n
          /\ \A i \in 1 .. m + n : b[i] = IF i <= m THEN ps[i] ELSE q2[i - m]
        <3>1. ps \in Seq(L) /\ q2 \in Seq(L) /\ Len(q2) = n
            BY <1>1, <2>2
        <3> HIDE DEF n
        <3> QED
            BY <3>1, ConcatProperties
    <2>4. \A i \in 1 .. m + n : w[i] = IF i <= m THEN ps[i] ELSE qs[i - m]
        BY <1>1, ConcatProperties DEF w
    <2>5. ASSUME NEW i \in 1 .. m + n PROVE a[i] = b[i]
        <3>1. CASE i = m + n
            <4>1. a[i] = Append(w[m + n], c) /\ ~(m + n <= m) /\ (m + n) - m = n
                BY <1>1, <1>2, <2>1, <3>1
            <4>2. w[m + n] = qs[n]
                BY <1>1, <2>4, <4>1
            <4>3. b[i] = q2[n]
                BY <1>1, <2>3, <3>1
            <4> QED
                BY <2>2, <4>1, <4>2, <4>3
        <3>2. CASE i \in 1 .. m
            BY <1>1, <1>2, <2>1, <2>3, <2>4, <3>2
        <3>3. CASE i \in m + 1 .. m + n - 1
            <4>1. i - m \in 1 .. n - 1
                BY <1>1, <3>3
            <4>2. a[i] = qs[i - m]
                BY <1>1, <1>2, <2>1, <2>4, <3>3
            <4>3. b[i] = q2[i - m]
                BY <1>1, <2>3, <3>3
            <4> QED
                BY <2>2, <4>1, <4>2, <4>3
        <3>4. i = m + n \/ i \in 1 .. m \/ i \in m + 1 .. m + n - 1
            BY <1>1
        <3> QED
            BY <3>1, <3>2, <3>3, <3>4
    <2> HIDE DEF b
    <2>6. a = b
        BY <1>2, <2>1, <2>3, <2>5, SeqEqual
    <2> QED
        BY <2>6 DEF a, b, q2, w
<1> QED
    BY <1>4, <1>5

LEMMA SplitOfConcat ==
    ASSUME NEW X, NEW sep \in X, NEW x \in Seq(X), NEW y \in Seq(X)
    PROVE  Split(x \o <<sep>> \o y, sep) = Split(x, sep) \o Split(y, sep)
<1> DEFINE xs == x \o <<sep>>
           T == {n \in Nat : \A q \in Seq(X) :
                    Len(q) = n => Split(xs \o q, sep) = Split(x, sep) \o Split(q, sep)}
<1>1. xs \in Seq(X) /\ Split(xs, sep) = Split(x, sep) \o <<<<>>>>
    <2>1. xs = Append(x, sep) /\ xs \in Seq(X)
        BY AppendIsConcat, AppendProperties
    <2>2. Split(xs, sep) = Longer(Split(x, sep), sep, sep)
        BY <2>1, SplitAppend
    <2>3. Split(x, sep) \in Parts(X, sep)
        BY SplitType
    <2>4. Longer(Split(x, sep), sep, sep) = Split(x, sep) \o <<<<>>>>
        BY <2>3, LongerType
    <2> QED
        BY <2>1, <2>2, <2>4
<1> HIDE DEF xs
<1>2. 0 \in T
    <2> SUFFICES ASSUME NEW q \in Seq(X), Len(q) = 0
                 PROVE  Split(xs \o q, sep) = Split(x, sep) \o Split(q, sep)
        OBVIOUS
    <2>1. q = <<>>
        BY EmptySeq
    <2>2. xs \o q = xs
        BY <1>1, <2>1, ConcatEmptySeq
    <2>3. Split(q, sep) = <<<<>>>>
        BY <2>1, SplitOfNothing
    <2> QED
        BY <1>1, <2>2, <2>3
<1>3. ASSUME NEW n \in Nat, n \in T PROVE n + 1 \in T
    <2> SUFFICES ASSUME NEW q \in Seq(X), Len(q) = n + 1
                 PROVE  Split(xs \o q, sep) = Split(x, sep) \o Split(q, sep)
        OBVIOUS
    <2>1. PICK r \in Seq(X), c \in X : q = Append(r, c)
        <3>1. q # <<>>
            BY EmptySeq
        <3> QED
            BY <3>1, SequenceEmptyOrAppend
    <2>2. Len(r) = n
        BY <2>1, AppendProperties
    <2>3. Split(xs \o r, sep) = Split(x, sep) \o Split(r, sep)
        BY <1>3, <2>2
    <2>4. xs \o r \in Seq(X) /\ xs \o q = Append(xs \o r, c)
        <3>1. q = r \o <<c>> /\ <<c>> \in Seq(X)
            BY <2>1, AppendIsConcat
        <3>2. xs \o r \in Seq(X)
            BY <1>1, ConcatProperties
        <3>3. Append(xs \o r, c) = (xs \o r) \o <<c>>
            BY <3>2, AppendIsConcat
        <3> QED
            BY <1>1, <3>1, <3>2, <3>3, ConcatAssociative
    <2>5. Split(xs \o q, sep) = Longer(Split(xs \o r, sep), c, sep)
        BY <2>4, SplitAppend
    <2>6. Split(q, sep) = Longer(Split(r, sep), c, sep)
        BY <2>1, SplitAppend
    <2>7. Split(x, sep) \in Parts(X, sep) /\ Split(r, sep) \in Parts(X, sep)
        BY SplitType
    <2>8. Longer(Split(x, sep) \o Split(r, sep), c, sep) = Split(x, sep) \o Longer(Split(r, sep), c, sep)
        <3>1. \A ps, qs \in Parts(X, sep) : Longer(ps \o qs, c, sep) = ps \o Longer(qs, c, sep)
            BY LongerOfConcat, SMTT(60)
        <3> QED
            BY <2>7, <3>1, Zenon
    <2> QED
        BY <2>3, <2>5, <2>6, <2>8
<1>4. Nat \subseteq T
    <2> HIDE DEF T
    <2> QED
        BY <1>2, <1>3, AllNumbers
<1>5. Len(y) \in T
    BY <1>4
<1> QED
    BY <1>5 DEF xs

(* Splitting undoes joining: lines put together are read back as they were,  *)
(* for any number of them.                                                   *)
LEMMA SplitOfJoined ==
    ASSUME NEW X, NEW sep \in X, NEW ps \in Parts(X, sep)
    PROVE  Split(Joined(ps, sep), sep) = ps
<1> DEFINE L == Seq(X \ {sep})
           T == {n \in Nat : \A qs \in Seq(L) :
                    Len(qs) = n /\ n > 0 => Split(Joined(qs, sep), sep) = qs}
<1>1. 0 \in T
    OBVIOUS
<1>2. ASSUME NEW n \in Nat, n \in T PROVE n + 1 \in T
    <2> SUFFICES ASSUME NEW qs \in Seq(L), Len(qs) = n + 1
                 PROVE  Split(Joined(qs, sep), sep) = qs
        OBVIOUS
    <2>1. PICK r \in Seq(L), p \in L : qs = Append(r, p)
        <3> HIDE DEF L
        <3> QED
            BY EmptySeq, SequenceEmptyOrAppend
    <2>2. Len(r) = n
        BY <2>1, AppendProperties
    <2>3. L \subseteq Seq(X)
        OBVIOUS
    <2>4. p \in Seq(X) /\ r \in Seq(Seq(X))
        BY <2>3, SeqMonotonic
    <2>5. Joined(qs, sep) = IF r = <<>> THEN p ELSE Joined(r, sep) \o <<sep>> \o p
        BY <2>1, <2>4, JoinedAppend
    <2>6. Split(p, sep) = <<p>>
        BY SplitWhole
    <2>7. CASE r = <<>>
        <3>1. qs = <<p>>
            BY <2>1, <2>7
        <3> QED
            BY <2>5, <2>6, <2>7, <3>1
    <2>8. CASE r # <<>>
        <3>1. n > 0
            <4> HIDE DEF L
            <4> QED
                BY <2>2, <2>8, EmptySeq
        <3>2. Split(Joined(r, sep), sep) = r
            BY <1>2, <2>2, <3>1
        <3>3. Joined(r, sep) \in Seq(X)
            BY <2>4, JoinedType
        <3>4. Split(Joined(r, sep) \o <<sep>> \o p, sep) = r \o <<p>>
            <4> DEFINE x == Joined(r, sep)
            <4>1. x \in Seq(X) /\ Split(x, sep) = r
                BY <3>2, <3>3
            <4> HIDE DEF x
            <4>2. Split(x \o <<sep>> \o p, sep) = Split(x, sep) \o Split(p, sep)
                BY <2>4, <4>1, SplitOfConcat
            <4> QED
                BY <2>6, <4>1, <4>2 DEF x
        <3> HIDE DEF L
        <3>5. qs = r \o <<p>>
            BY <2>1, AppendIsConcat
        <3> QED
            BY <2>5, <2>8, <3>4, <3>5
    <2> QED
        BY <2>7, <2>8
<1>3. Nat \subseteq T
    <2> HIDE DEF T
    <2> QED
        BY <1>1, <1>2, AllNumbers
<1>4. ps \in Seq(L) /\ Len(ps) \in T /\ Len(ps) > 0
    <2>1. ps \in Seq(L) /\ Len(ps) \in Nat \ {0}
        BY EmptySeq DEF Parts
    <2> HIDE DEF L, T
    <2> QED
        BY <1>3, <2>1
<1> QED
    BY <1>4

-----------------------------------------------------------------------------
(* Numbers picked from a set: the least, and the n-th.                     *)

LEMMA LeastProperties ==
    ASSUME NEW T \in SUBSET Nat, T # {}
    PROVE  Least(T) \in T /\ \A m \in T : Least(T) <= m
<1>1. \E x \in T : \A y \in T : x <= y
    BY LeastNat
<1> QED
    BY <1>1 DEF Least

Upto(T, i) == {j \in T : j <= i}

LEMMA UptoProperties ==
    ASSUME NEW m \in Nat, NEW T \in SUBSET (1 .. m)
    PROVE  /\ IsFiniteSet(T) /\ Cardinality(T) \in Nat
           /\ \A i \in Int : IsFiniteSet(Upto(T, i)) /\ Cardinality(Upto(T, i)) \in Nat
           /\ Cardinality(Upto(T, 0)) = 0
           /\ Upto(T, m) = T
           /\ \A i \in 1 .. m : Cardinality(Upto(T, i)) =
                 Cardinality(Upto(T, i - 1)) + (IF i \in T THEN 1 ELSE 0)
<1>0. \A j \in T : j \in Int /\ 1 <= j /\ j <= m
    OBVIOUS
<1>1. IsFiniteSet(T)
    <2>1. IsFiniteSet(1 .. m)
        BY FS_Interval
    <2> QED
        BY <2>1, FS_Subset
<1>2. Cardinality(T) \in Nat
    BY <1>1, FS_CardinalityType
<1>3. ASSUME NEW i \in Int
      PROVE  IsFiniteSet(Upto(T, i)) /\ Cardinality(Upto(T, i)) \in Nat
    <2>1. Upto(T, i) \subseteq T
        BY DEF Upto
    <2> QED
        BY <1>1, <2>1, FS_Subset, FS_CardinalityType
<1>4. Cardinality(Upto(T, 0)) = 0
    <2>1. \A j \in T : ~(j <= 0)
        BY <1>0
    <2>2. Upto(T, 0) = {}
        BY <2>1, Zenon DEF Upto
    <2> QED
        BY <2>2, FS_EmptySet
<1>5. Upto(T, m) = T
    BY <1>0 DEF Upto
<1>6. ASSUME NEW i \in 1 .. m
      PROVE  Cardinality(Upto(T, i)) =
                Cardinality(Upto(T, i - 1)) + (IF i \in T THEN 1 ELSE 0)
    <2>1. IsFiniteSet(Upto(T, i - 1)) /\ Cardinality(Upto(T, i - 1)) \in Nat
        BY <1>3
    <2>2. CASE i \in T
        <3>0. /\ \A j \in T : j <= i <=> j <= i - 1 \/ j = i
              /\ ~(i <= i - 1)
            BY <1>0
        <3>1. Upto(T, i) = Upto(T, i - 1) \cup {i} /\ i \notin Upto(T, i - 1)
            BY <2>2, <3>0, Zenon DEF Upto
        <3>2. Cardinality(Upto(T, i - 1) \cup {i}) = Cardinality(Upto(T, i - 1)) + 1
            BY <2>1, <3>1, FS_AddElement
        <3> QED
            BY <2>2, <3>1, <3>2
    <2>3. CASE i \notin T
        <3>0. \A j \in T : j <= i <=> j <= i - 1
            BY <1>0, <2>3
        <3>1. Upto(T, i) = Upto(T, i - 1)
            BY <3>0, Zenon DEF Upto
        <3> QED
            BY <2>1, <2>3, <3>1
    <2> QED
        BY <2>2, <2>3
<1> QED
    BY <1>1, <1>2, <1>3, <1>4, <1>5, <1>6

(* The n-th number of a set is in it, and no two places have the same.       *)
LEMMA NthProperties ==
    ASSUME NEW m \in Nat, NEW T \in SUBSET (1 .. m), NEW n \in 1 .. Cardinality(T)
    PROVE  Nth(T, n) \in T /\ Cardinality(Upto(T, Nth(T, n))) = n
<1> DEFINE c(i) == Cardinality(Upto(T, i))
           R == {i \in 0 .. m : n <= c(i)}
<1>1. /\ c(0) = 0 /\ c(m) = Cardinality(T) /\ Cardinality(T) \in Nat
      /\ \A i \in 0 .. m : c(i) \in Nat
      /\ \A i \in 1 .. m : c(i) = c(i - 1) + (IF i \in T THEN 1 ELSE 0)
    <2>1. \A i \in 0 .. m : i \in Int
        OBVIOUS
    <2>2. /\ Cardinality(T) \in Nat /\ Cardinality(Upto(T, 0)) = 0 /\ Upto(T, m) = T
          /\ \A i \in Int : Cardinality(Upto(T, i)) \in Nat
          /\ \A i \in 1 .. m : Cardinality(Upto(T, i)) =
                Cardinality(Upto(T, i - 1)) + (IF i \in T THEN 1 ELSE 0)
        BY UptoProperties
    <2> QED
        BY <2>1, <2>2
<1> HIDE DEF c
<1>2. m \in R /\ R \subseteq Nat
    BY <1>1
<1>3. PICK i \in R : \A j \in R : i <= j
    <2> HIDE DEF R
    <2> QED
        BY <1>2, LeastNat
<1>4. i \in 1 .. m /\ i - 1 \in 0 .. m
    BY <1>1, <1>3
<1>5. ~(n <= c(i - 1))
    BY <1>3, <1>4
<1>6. i \in T /\ c(i) = n
    BY <1>1, <1>3, <1>4, <1>5
<1>7. \E k \in T : Cardinality({j \in T : j <= k}) = n
    BY <1>6 DEF c, Upto
<1> QED
    BY <1>7 DEF Nth, Upto

-----------------------------------------------------------------------------
(* Ends of a sequence.                                                     *)

LEMMA FirstProperties ==
    ASSUME NEW X, NEW s \in Seq(X), NEW S
    PROVE  /\ First(s, S) \in 1 .. Len(s) + 1
           /\ First(s, S) <= Len(s) => s[First(s, S)] \notin S
           /\ \A i \in 1 .. First(s, S) - 1 : s[i] \in S
<1> DEFINE T == {i \in DOMAIN s : s[i] \notin S} \cup {Len(s) + 1}
<1>1. Len(s) \in Nat /\ DOMAIN s = 1 .. Len(s)
    BY LenProperties
<1>2. T \in SUBSET Nat /\ T # {} /\ T \subseteq 1 .. Len(s) + 1
    BY <1>1
<1>3. First(s, S) \in T /\ \A i \in T : First(s, S) <= i
    <2> HIDE DEF T
    <2>1. Least(T) \in T /\ \A i \in T : Least(T) <= i
        BY <1>2, LeastProperties
    <2> QED
        BY <2>1 DEF First, T
<1>4. ASSUME NEW i \in 1 .. First(s, S) - 1 PROVE s[i] \in S
    <2>1. First(s, S) \in 1 .. Len(s) + 1
        BY <1>2, <1>3
    <2>2. i \in DOMAIN s /\ ~(First(s, S) <= i)
        BY <1>1, <2>1
    <2> QED
        BY <1>3, <2>2
<1> QED
    BY <1>1, <1>2, <1>3, <1>4

LEMMA TrimStartType ==
    ASSUME NEW X, NEW s \in Seq(X), NEW S
    PROVE  TrimStart(s, S) \in Seq(X)
<1>1. First(s, S) \in 1 .. Len(s) + 1 /\ Len(s) \in Nat
    BY FirstProperties
<1>2. \A i \in First(s, S) .. Len(s) : s[i] \in X
    BY <1>1, ElementOfSeq
<1> QED
    BY <1>1, <1>2, SubSeqProperties DEF TrimStart

LEMMA TrimEndType ==
    ASSUME NEW X, NEW s \in Seq(X), NEW S
    PROVE  /\ TrimEnd(s, S) \in Seq(X)
           /\ \E k \in 0 .. Len(s) : /\ TrimEnd(s, S) = SubSeq(s, 1, k)
                                     /\ \A i \in k + 1 .. Len(s) : s[i] \in S
<1> DEFINE r == Reverse(s)
           k == Len(s) + 1 - First(r, S)
<1>1. Len(s) \in Nat /\ DOMAIN s = 1 .. Len(s)
    BY LenProperties
<1>2. r \in Seq(X) /\ Len(r) = Len(s) /\ \A i \in 1 .. Len(s) : r[i] = s[Len(s) - i + 1]
    <2>1. r = [i \in 1 .. Len(s) |-> s[(Len(s) - i) + 1]]
        BY DEF Reverse
    <2>2. \A i \in 1 .. Len(s) : s[(Len(s) - i) + 1] \in X
        BY <1>1, ElementOfSeq
    <2> QED
        BY <1>1, <2>1, <2>2
<1> HIDE DEF r
<1>3. First(r, S) \in 1 .. Len(s) + 1 /\ \A i \in 1 .. First(r, S) - 1 : r[i] \in S
    BY <1>2, FirstProperties
<1>4. k \in 0 .. Len(s)
    BY <1>1, <1>3
<1>5. ASSUME NEW i \in k + 1 .. Len(s) PROVE s[i] \in S
    <2>1. Len(s) - i + 1 \in 1 .. First(r, S) - 1
        BY <1>1, <1>3
    <2>2. Len(s) - i + 1 \in 1 .. Len(s)
        BY <1>1, <1>3, <2>1
    <2>3. r[Len(s) - i + 1] = s[Len(s) - (Len(s) - i + 1) + 1]
        BY <1>2, <2>2
    <2>4. Len(s) - (Len(s) - i + 1) + 1 = i
        BY <1>1, <1>4
    <2> QED
        BY <1>3, <2>1, <2>3, <2>4
<1>6. TrimEnd(s, S) = SubSeq(s, 1, k)
    BY DEF TrimEnd, r
<1> HIDE DEF k
<1>7. SubSeq(s, 1, k) \in Seq(X)
    <2>1. \A i \in 1 .. k : s[i] \in X
        BY <1>1, <1>4, ElementOfSeq
    <2> QED
        BY <1>4, <2>1, SubSeqProperties
<1> QED
    BY <1>4, <1>5, <1>6, <1>7

-----------------------------------------------------------------------------
(* The lines of a body.                                                    *)

Line == Seq(Tokens \ {"nl"})

LEMMA Words == {"nl", "sp", "[ ]", "[x]"} \cup TagTokens \subseteq Tokens
BY DEF Tokens, Plain, White, Boxes

LEMMA LineIsText ==
    ASSUME NEW l \in Line
    PROVE  l \in Seq(Tokens)
BY SeqMonotonic DEF Line

LEMMA LinesType ==
    ASSUME NEW b \in Seq(Tokens)
    PROVE  Lines(b) \in Seq(Line) /\ Lines(b) # <<>> /\ Len(Lines(b)) \in Nat \ {0}
<1>1. "nl" \in Tokens
    BY Words
<1>2. Lines(b) \in Parts(Tokens, "nl")
    BY <1>1, SplitType DEF Lines
<1>3. Lines(b) \in Seq(Line) /\ Lines(b) # <<>>
    BY <1>2 DEF Parts, Line
<1> QED
    BY <1>3, EmptySeq

LEMMA JoinType ==
    ASSUME NEW ls \in Seq(Seq(Tokens))
    PROVE  Join(ls) \in Seq(Tokens)
<1>1. "nl" \in Tokens
    BY Words
<1> QED
    BY <1>1, JoinedType DEF Join

(* Lines that are joined are read back as they were, for every list of lines.*)
LEMMA LinesOfJoin ==
    ASSUME NEW ls \in Seq(Line), ls # <<>>
    PROVE  Lines(Join(ls)) = ls /\ Join(ls) \in Seq(Tokens)
<1>1. "nl" \in Tokens
    BY Words
<1>2. ls \in Parts(Tokens, "nl")
    BY DEF Parts, Line
<1>3. Line \subseteq Seq(Tokens)
    BY LineIsText
<1>4. ls \in Seq(Seq(Tokens))
    BY <1>3, SeqMonotonic
<1> QED
    BY <1>1, <1>2, <1>4, SplitOfJoined, JoinType DEF Lines, Join

LEMMA LinesOfConcat ==
    ASSUME NEW x \in Seq(Tokens), NEW y \in Seq(Tokens)
    PROVE  Lines(x \o <<"nl">> \o y) = Lines(x) \o Lines(y)
<1>1. "nl" \in Tokens
    BY Words
<1> QED
    BY <1>1, SplitOfConcat DEF Lines

LEMMA LinesOfLine ==
    ASSUME NEW l \in Line
    PROVE  Lines(l) = <<l>>
<1>1. "nl" \in Tokens
    BY Words
<1> QED
    BY <1>1, SplitWhole DEF Lines, Line

LEMMA JoinOfNothing == Join(<<>>) = <<>>
<1> DEFINE f == [i \in 0 .. 0 |-> <<>>]
           ps == <<>>
<1>0. "nl" \in Tokens
    BY Words
<1>1. ps \in Seq(Seq(Tokens)) /\ Len(ps) = 0 /\ "nl" \in Tokens
    BY <1>0
<1>2. Joins(f, ps, "nl") /\ f[0] = <<>>
    BY <1>1 DEF Joins
<1> HIDE DEF f, ps
<1>3. Joined(ps, "nl") = f[Len(ps)]
    BY <1>1, <1>2, JoinedIs
<1> QED
    BY <1>1, <1>2, <1>3 DEF ps, Join

-----------------------------------------------------------------------------
(* Trimmed text.                                                           *)

LEMMA FirstIs ==
    ASSUME NEW X, NEW s \in Seq(X), NEW S, NEW k \in 1 .. Len(s) + 1,
           k <= Len(s) => s[k] \notin S, \A i \in 1 .. k - 1 : s[i] \in S
    PROVE  First(s, S) = k
<1>1. /\ First(s, S) \in 1 .. Len(s) + 1
      /\ First(s, S) <= Len(s) => s[First(s, S)] \notin S
      /\ \A i \in 1 .. First(s, S) - 1 : s[i] \in S
    BY FirstProperties
<1>2. Len(s) \in Nat
    OBVIOUS
<1>3. ASSUME First(s, S) < k PROVE FALSE
    <2>1. First(s, S) \in 1 .. k - 1 /\ First(s, S) <= Len(s)
        BY <1>1, <1>2, <1>3
    <2> QED
        BY <1>1, <2>1
<1>4. ASSUME k < First(s, S) PROVE FALSE
    <2>1. k \in 1 .. First(s, S) - 1 /\ k <= Len(s)
        BY <1>1, <1>2, <1>4
    <2> QED
        BY <1>1, <2>1
<1> QED
    BY <1>1, <1>2, <1>3, <1>4

\* Nothing of S is left in front.
Bared(s, S) == s # <<>> => s[1] \notin S

LEMMA TrimStartBares ==
    ASSUME NEW X, NEW s \in Seq(X), NEW S
    PROVE  Bared(TrimStart(s, S), S)
<1> DEFINE k == First(s, S)
<1>1. k \in 1 .. Len(s) + 1 /\ Len(s) \in Nat /\ (k <= Len(s) => s[k] \notin S)
    BY FirstProperties
<1>2. TrimStart(s, S) = SubSeq(s, k, Len(s))
    BY DEF TrimStart
<1> HIDE DEF k
<1>3. CASE k <= Len(s)
    <2>1. \A i \in k .. Len(s) : s[i] \in X
        BY <1>1, ElementOfSeq
    <2>2. SubSeq(s, k, Len(s))[1] = s[k]
        BY <1>1, <1>3, <2>1, SubSeqProperties
    <2> QED
        BY <1>1, <1>2, <1>3, <2>2 DEF Bared
<1>4. CASE ~(k <= Len(s))
    <2>1. SubSeq(s, k, Len(s)) = <<>>
        BY <1>1, <1>4, SubSeqEmpty
    <2> QED
        BY <1>2, <2>1 DEF Bared
<1> QED
    BY <1>3, <1>4

LEMMA TrimProperties ==
    ASSUME NEW X, NEW l \in Seq(X)
    PROVE  Trim(l) \in Seq(X) /\ Bared(Trim(l), {"sp"})
<1> DEFINE t == TrimStart(l, {"sp"})
<1>1. t \in Seq(X) /\ Bared(t, {"sp"})
    BY TrimStartType, TrimStartBares
<1>2. Trim(l) = TrimEnd(t, {"sp"})
    BY DEF Trim
<1> HIDE DEF t
<1>3. PICK k \in 0 .. Len(t) : TrimEnd(t, {"sp"}) = SubSeq(t, 1, k)
    BY <1>1, TrimEndType
<1>4. Bared(SubSeq(t, 1, k), {"sp"})
    <2>1. Len(t) \in Nat
        BY <1>1
    <2>2. CASE k = 0
        <3>1. SubSeq(t, 1, k) = <<>>
            BY <2>2, SubSeqEmpty
        <3> QED
            BY <3>1 DEF Bared
    <2>3. CASE k \in 1 .. Len(t)
        <3>1. \A i \in 1 .. k : t[i] \in X
            BY <1>1, <2>1, <2>3, ElementOfSeq
        <3>2. SubSeq(t, 1, k)[1] = t[1]
            BY <2>1, <2>3, <3>1, SubSeqProperties
        <3>3. t # <<>>
            BY <2>3, EmptySeq
        <3> QED
            BY <1>1, <3>2, <3>3 DEF Bared
    <2> QED
        BY <1>3, <2>1, <2>2, <2>3
<1>5. TrimEnd(t, {"sp"}) \in Seq(X)
    BY <1>1, TrimEndType
<1> QED
    BY <1>2, <1>3, <1>4, <1>5

\* A space put before a trimmed text is trimmed again.
LEMMA SpaceIsTrimmed ==
    ASSUME NEW X, "sp" \in X, NEW t \in Seq(X), Bared(t, {"sp"})
    PROVE  TrimStart(<<"sp">> \o t, {"sp"}) = t
<1> DEFINE s == <<"sp">> \o t
<1>1. /\ s \in Seq(X) /\ Len(s) = Len(t) + 1 /\ Len(t) \in Nat
      /\ s[1] = "sp" /\ \A i \in 1 .. Len(t) : s[i + 1] = t[i]
    OBVIOUS
<1> HIDE DEF s
<1>2. First(s, {"sp"}) = 2
    <2>1. 2 <= Len(s) => s[2] \notin {"sp"}
        <3> SUFFICES ASSUME 2 <= Len(s) PROVE s[2] \notin {"sp"}
            OBVIOUS
        <3>1. 1 \in 1 .. Len(t) /\ t # <<>>
            BY <1>1
        <3>2. s[1 + 1] = t[1]
            BY <1>1, <3>1
        <3> QED
            BY <3>1, <3>2 DEF Bared
    <2>2. \A i \in 1 .. 2 - 1 : s[i] \in {"sp"}
        BY <1>1
    <2>3. 2 \in 1 .. Len(s) + 1
        BY <1>1
    <2> QED
        BY <1>1, <2>1, <2>2, <2>3, FirstIs
<1>3. SubSeq(s, 2, Len(s)) = t
    <2>1. \A i \in 2 .. Len(s) : s[i] \in X
        BY <1>1, ElementOfSeq
    <2>2. /\ SubSeq(s, 2, Len(s)) \in Seq(X) /\ Len(SubSeq(s, 2, Len(s))) = Len(t)
          /\ \A i \in 1 .. Len(t) : SubSeq(s, 2, Len(s))[i] = s[2 + i - 1]
        BY <1>1, <2>1, SubSeqProperties
    <2>3. \A i \in 1 .. Len(t) : SubSeq(s, 2, Len(s))[i] = t[i]
        BY <1>1, <2>2
    <2> QED
        BY <2>2, <2>3, SeqEqual
<1>4. TrimStart(s, {"sp"}) = t
    BY <1>2, <1>3 DEF TrimStart
<1> QED
    BY <1>4 DEF s

-----------------------------------------------------------------------------
(* Todo items.                                                             *)

\* The list of the items of a list of lines.
ListOf(ls) == [n \in 1 .. Cardinality(Items(ls)) |-> Item(ls[ItemLine(ls, n)])]

LEMMA TodosAreListed ==
    ASSUME NEW b
    PROVE  Todos(b) = ListOf(Lines(b))
BY DEF Todos, ListOf

LEMMA ItemsProperties ==
    ASSUME NEW ls \in Seq(Line)
    PROVE  /\ Items(ls) \in SUBSET (1 .. Len(ls)) /\ Len(ls) \in Nat
           /\ Cardinality(Items(ls)) \in Nat
           /\ DOMAIN ListOf(ls) = 1 .. Cardinality(Items(ls))
           /\ \A n \in 1 .. Cardinality(Items(ls)) :
                 /\ ItemLine(ls, n) \in 1 .. Len(ls)
                 /\ ls[ItemLine(ls, n)] \in Line /\ IsItem(ls[ItemLine(ls, n)])
                 /\ ListOf(ls)[n] = Item(ls[ItemLine(ls, n)])
                 /\ Cardinality(Upto(Items(ls), ItemLine(ls, n))) = n
<1>1. Len(ls) \in Nat /\ DOMAIN ls = 1 .. Len(ls)
    BY LenProperties
<1>2. Items(ls) \in SUBSET (1 .. Len(ls)) /\ \A i \in Items(ls) : IsItem(ls[i])
    BY <1>1 DEF Items
<1>3. Cardinality(Items(ls)) \in Nat
    BY <1>1, <1>2, UptoProperties
<1>4. DOMAIN ListOf(ls) = 1 .. Cardinality(Items(ls))
    BY DEF ListOf
<1>5. ASSUME NEW n \in 1 .. Cardinality(Items(ls))
      PROVE  /\ ItemLine(ls, n) \in 1 .. Len(ls)
             /\ ls[ItemLine(ls, n)] \in Line /\ IsItem(ls[ItemLine(ls, n)])
             /\ ListOf(ls)[n] = Item(ls[ItemLine(ls, n)])
             /\ Cardinality(Upto(Items(ls), ItemLine(ls, n))) = n
    <2>1. /\ ItemLine(ls, n) \in Items(ls)
          /\ Cardinality(Upto(Items(ls), ItemLine(ls, n))) = n
        BY <1>1, <1>2, NthProperties DEF ItemLine
    <2>2. ListOf(ls)[n] = Item(ls[ItemLine(ls, n)])
        BY DEF ListOf
    <2>3. ItemLine(ls, n) \in 1 .. Len(ls)
        BY <1>2, <2>1
    <2>4. ls[ItemLine(ls, n)] \in Line
        BY <2>3, ElementOfSeq
    <2> QED
        BY <1>2, <2>1, <2>2, <2>3, <2>4
<1> QED
    BY <1>1, <1>2, <1>3, <1>4, <1>5

(* Another item written in the line of the n-th is the n-th of the list, and *)
(* the others stay what and where they were.                                 *)
LEMMA ItemReplaced ==
    ASSUME NEW ls \in Seq(Line), NEW n \in 1 .. Cardinality(Items(ls)),
           NEW l \in Line, IsItem(l)
    PROVE  LET ms == [ls EXCEPT ![ItemLine(ls, n)] = l]
           IN  ms \in Seq(Line) /\ ListOf(ms) = [ListOf(ls) EXCEPT ![n] = Item(l)]
<1> DEFINE at == ItemLine(ls, n)
           ms == [ls EXCEPT ![at] = l]
           c == Cardinality(Items(ls))
<1>1. /\ at \in 1 .. Len(ls) /\ Len(ls) \in Nat /\ c \in Nat
      /\ Items(ls) \in SUBSET (1 .. Len(ls))
      /\ DOMAIN ListOf(ls) = 1 .. c
      /\ \A k \in 1 .. c : /\ ItemLine(ls, k) \in 1 .. Len(ls)
                           /\ ListOf(ls)[k] = Item(ls[ItemLine(ls, k)])
                           /\ Cardinality(Upto(Items(ls), ItemLine(ls, k))) = k
      /\ IsItem(ls[at])
    BY ItemsProperties
<1>2. /\ ms \in Seq(Line) /\ Len(ms) = Len(ls)
      /\ \A j \in 1 .. Len(ls) : ms[j] = IF j = at THEN l ELSE ls[j]
    BY <1>1, ExceptSeq
<1> HIDE DEF ms, at, c
<1>3. Items(ms) = Items(ls)
    <2>1. Items(ms) = {i \in 1 .. Len(ls) : IsItem(ms[i])}
        BY <1>1, <1>2, LenProperties DEF Items
    <2>2. Items(ls) = {i \in 1 .. Len(ls) : IsItem(ls[i])}
        BY <1>1, LenProperties DEF Items
    <2>3. \A i \in 1 .. Len(ls) : IsItem(ms[i]) <=> IsItem(ls[i])
        BY <1>1, <1>2
    <2> QED
        BY <2>1, <2>2, <2>3, Zenon
<1>4. \A k : ItemLine(ms, k) = ItemLine(ls, k)
    BY <1>3 DEF ItemLine
<1>5. ListOf(ms) = [k \in 1 .. c |-> Item(ms[ItemLine(ls, k)])]
    BY <1>3, <1>4 DEF ListOf, c
<1>6. ASSUME NEW k \in 1 .. c
      PROVE  Item(ms[ItemLine(ls, k)]) = IF k = n THEN Item(l) ELSE ListOf(ls)[k]
    <2>1. CASE k = n
        BY <1>1, <1>2, <2>1 DEF at
    <2>2. CASE k # n
        <3>1. ItemLine(ls, k) # at
            BY <1>1, <2>2 DEF at, c
        <3>2. ms[ItemLine(ls, k)] = ls[ItemLine(ls, k)]
            BY <1>1, <1>2, <3>1
        <3> QED
            BY <1>1, <2>2, <3>2
    <2> QED
        BY <2>1, <2>2
<1>7. ListOf(ms) = [ListOf(ls) EXCEPT ![n] = Item(l)]
    <2>1. [ListOf(ls) EXCEPT ![n] = Item(l)]
             = [k \in 1 .. c |-> IF k = n THEN Item(l) ELSE ListOf(ls)[k]]
        BY <1>1
    <2> QED
        BY <1>5, <1>6, <2>1
<1> QED
    BY <1>2, <1>7 DEF ms, at

\* A line that is an item, by the place of its box.
LEMMA ItemAt ==
    ASSUME NEW l \in Line, NEW k \in 1 .. Len(l), l[k] \in Boxes,
           \A i \in 1 .. k - 1 : l[i] = "sp"
    PROVE  /\ First(l, {"sp"}) = k /\ IsItem(l)
           /\ Item(l) = [checked |-> l[k] = "[x]",
                         text |-> TrimStart(SubSeq(l, k + 1, Len(l)), {"sp"})]
<1>1. l \in Seq(Tokens) /\ Len(l) \in Nat
    BY LineIsText, EmptySeq
<1>2. l[k] \notin {"sp"}
    BY DEF Boxes
<1>3. First(l, {"sp"}) = k
    <2>1. \A i \in 1 .. k - 1 : l[i] \in {"sp"}
        OBVIOUS
    <2>2. k \in 1 .. Len(l) + 1
        BY <1>1
    <2> QED
        BY <1>1, <1>2, <2>1, <2>2, FirstIs
<1> QED
    BY <1>1, <1>3 DEF IsItem, Item

LEMMA ItemHasBox ==
    ASSUME NEW l \in Line, IsItem(l)
    PROVE  LET k == First(l, {"sp"})
           IN  /\ k \in 1 .. Len(l) /\ l[k] \in Boxes
               /\ \A i \in 1 .. k - 1 : l[i] = "sp"
<1>1. l \in Seq(Tokens) /\ Len(l) \in Nat
    BY LineIsText, EmptySeq
<1>2. /\ First(l, {"sp"}) \in 1 .. Len(l) + 1
      /\ \A i \in 1 .. First(l, {"sp"}) - 1 : l[i] \in {"sp"}
    BY <1>1, FirstProperties
<1>3. First(l, {"sp"}) <= Len(l) /\ l[First(l, {"sp"})] \in Boxes
    BY DEF IsItem
<1> QED
    BY <1>1, <1>2, <1>3

-----------------------------------------------------------------------------
(* The edits of an item.                                                   *)

(* Checking or unchecking an item changes its box and nothing else of the    *)
(* list read back from the new body, whatever the body.                      *)
LEMMA CheckedIsRead ==
    ASSUME NEW b \in Seq(Tokens), NEW n \in DOMAIN Todos(b), NEW c \in BOOLEAN
    PROVE  /\ SetTodoChecked(b, n, c) \in Seq(Tokens)
           /\ Todos(SetTodoChecked(b, n, c)) = [Todos(b) EXCEPT ![n].checked = c]
<1> DEFINE ls == Lines(b)
           at == ItemLine(ls, n)
           l == ls[at]
           k == First(l, {"sp"})
           v == IF c THEN "[x]" ELSE "[ ]"
           w == [l EXCEPT ![k] = v]
           ms == [ls EXCEPT ![at] = w]
<1>1. ls \in Seq(Line) /\ ls # <<>>
    BY LinesType
<1>2. Todos(b) = ListOf(ls)
    BY TodosAreListed
<1>3. SetTodoChecked(b, n, c) = Join(ms)
    BY DEF SetTodoChecked
<1> HIDE DEF ls
<1>4. n \in 1 .. Cardinality(Items(ls))
    BY <1>1, <1>2, ItemsProperties
<1>5. at \in 1 .. Len(ls) /\ l \in Line /\ IsItem(l) /\ ListOf(ls)[n] = Item(l)
    BY <1>1, <1>4, ItemsProperties
<1> HIDE DEF at, l
<1>6. k \in 1 .. Len(l) /\ l[k] \in Boxes /\ \A i \in 1 .. k - 1 : l[i] = "sp"
    BY <1>5, ItemHasBox
<1> HIDE DEF k
<1>7. v \in Tokens \ {"nl"} /\ v \in Boxes /\ (v = "[x]" <=> c)
    BY Words DEF Boxes
<1> HIDE DEF v
<1>8. /\ w \in Line /\ Len(w) = Len(l) /\ Len(l) \in Nat
      /\ \A j \in 1 .. Len(l) : w[j] = IF j = k THEN v ELSE l[j]
    BY <1>5, <1>6, <1>7, ExceptSeq, LenProperties DEF Line
<1> HIDE DEF w
<1>9. /\ k \in 1 .. Len(w) /\ w[k] \in Boxes /\ w[k] = v
      /\ \A i \in 1 .. k - 1 : w[i] = "sp"
    BY <1>6, <1>7, <1>8
<1>10. /\ IsItem(w)
       /\ Item(w) = [checked |-> c, text |-> TrimStart(SubSeq(w, k + 1, Len(w)), {"sp"})]
    <2>1. /\ IsItem(w)
          /\ Item(w) = [checked |-> w[k] = "[x]",
                        text |-> TrimStart(SubSeq(w, k + 1, Len(w)), {"sp"})]
        BY <1>8, <1>9, ItemAt
    <2>2. (w[k] = "[x]") = c
        BY <1>7, <1>9
    <2> QED
        BY <2>1, <2>2
<1>11. Item(l) = [checked |-> l[k] = "[x]",
                  text |-> TrimStart(SubSeq(l, k + 1, Len(l)), {"sp"})]
    BY <1>5, <1>6, ItemAt
<1>12. SubSeq(w, k + 1, Len(w)) = SubSeq(l, k + 1, Len(l))
    <2> DEFINE m == Len(l)
               p == SubSeq(w, k + 1, m)
               q == SubSeq(l, k + 1, m)
    <2>1. w \in Seq(Tokens \ {"nl"}) /\ l \in Seq(Tokens \ {"nl"})
        BY <1>5, <1>8 DEF Line
    <2>2. \A i \in k + 1 .. m : i \in 1 .. m /\ i # k
        BY <1>6, <1>8
    <2>3. \A i \in k + 1 .. m : w[i] \in Tokens \ {"nl"} /\ l[i] \in Tokens \ {"nl"} /\ w[i] = l[i]
        BY <1>8, <2>1, <2>2, ElementOfSeq
    <2>4. /\ p \in Seq(Tokens \ {"nl"}) /\ q \in Seq(Tokens \ {"nl"}) /\ Len(p) = Len(q)
          /\ Len(p) = IF k + 1 <= m THEN m - (k + 1) + 1 ELSE 0
          /\ \A i \in 1 .. m - (k + 1) + 1 : p[i] = w[k + 1 + i - 1] /\ q[i] = l[k + 1 + i - 1]
        BY <1>6, <1>8, <2>3, SubSeqProperties
    <2>5. \A i \in 1 .. Len(p) : p[i] = q[i]
        BY <1>6, <1>8, <2>3, <2>4
    <2> HIDE DEF p, q
    <2>6. p = q
        BY <2>4, <2>5, SeqEqual
    <2> QED
        BY <1>8, <2>6 DEF p, q
<1>13. Item(w) = [Item(l) EXCEPT !.checked = c]
    <2> DEFINE t == TrimStart(SubSeq(l, k + 1, Len(l)), {"sp"})
               d == l[k] = "[x]"
    <2>1. Item(w) = [checked |-> c, text |-> t] /\ Item(l) = [checked |-> d, text |-> t]
        BY <1>10, <1>11, <1>12
    <2> HIDE DEF t, d
    <2>2. [[checked |-> d, text |-> t] EXCEPT !.checked = c] = [checked |-> c, text |-> t]
        OBVIOUS
    <2> QED
        BY <2>1, <2>2
<1>14. ms \in Seq(Line) /\ ListOf(ms) = [ListOf(ls) EXCEPT ![n] = Item(w)]
    BY <1>1, <1>4, <1>8, <1>10, ItemReplaced DEF at
<1>15. ms # <<>>
    BY <1>1, <1>5, <1>8, ExceptSeq, EmptySeq
<1> HIDE DEF ms
<1>16. Lines(Join(ms)) = ms /\ Join(ms) \in Seq(Tokens)
    BY <1>14, <1>15, LinesOfJoin
<1>17. Todos(Join(ms)) = ListOf(ms)
    BY <1>16, TodosAreListed
<1>18. [ListOf(ls) EXCEPT ![n].checked = c] = [ListOf(ls) EXCEPT ![n] = Item(w)]
    BY <1>5, <1>13
<1> QED
    BY <1>2, <1>3, <1>14, <1>16, <1>17, <1>18

\* A text in which line breaks are spaces.
Flat(text) == [k \in DOMAIN text |-> IF text[k] = "nl" THEN "sp" ELSE text[k]]

LEMMA FlatIsLine ==
    ASSUME NEW text \in Seq(Tokens)
    PROVE  Trim(Flat(text)) \in Line /\ Bared(Trim(Flat(text)), {"sp"})
<1> DEFINE X == Tokens \ {"nl"}
<1>1. "sp" \in X
    BY Words
<1>2. DOMAIN text = 1 .. Len(text) /\ Len(text) \in Nat
    BY LenProperties
<1>3. \A k \in 1 .. Len(text) : text[k] \in Tokens
    BY ElementOfSeq
<1>4. Flat(text) \in Seq(X)
    <2>1. \A k \in 1 .. Len(text) : (IF text[k] = "nl" THEN "sp" ELSE text[k]) \in X
        BY <1>1, <1>3
    <2> HIDE DEF X
    <2>2. Flat(text) = [k \in 1 .. Len(text) |-> IF text[k] = "nl" THEN "sp" ELSE text[k]]
        BY <1>2 DEF Flat
    <2> QED
        BY <1>2, <2>1, <2>2
<1> HIDE DEF X
<1>5. Trim(Flat(text)) \in Seq(X) /\ Bared(Trim(Flat(text)), {"sp"})
    BY <1>4, TrimProperties
<1> QED
    BY <1>5 DEF X, Line

(* A new text is the text of the item in the list read back from the new     *)
(* body, on one line however many it had, and nothing else of it changes.    *)
LEMMA RenamedIsRead ==
    ASSUME NEW b \in Seq(Tokens), NEW n \in DOMAIN Todos(b), NEW text \in Seq(Tokens)
    PROVE  /\ SetTodoText(b, n, text) \in Seq(Tokens)
           /\ Todos(SetTodoText(b, n, text)) = [Todos(b) EXCEPT ![n].text = Trim(Flat(text))]
<1> DEFINE ls == Lines(b)
           at == ItemLine(ls, n)
           l == ls[at]
           k == First(l, {"sp"})
           t == Trim(Flat(text))
           p == SubSeq(l, 1, k)
           st == <<"sp">> \o t
           w == SubSeq(l, 1, k) \o <<"sp">> \o t
           ms == [ls EXCEPT ![at] = w]
           X == Tokens \ {"nl"}
<1>1. ls \in Seq(Line) /\ ls # <<>>
    BY LinesType
<1>2. Todos(b) = ListOf(ls)
    BY TodosAreListed
<1>3. SetTodoText(b, n, text) = Join(ms)
    BY DEF SetTodoText, Flat
<1> HIDE DEF ls
<1>4. n \in 1 .. Cardinality(Items(ls))
    BY <1>1, <1>2, ItemsProperties
<1>5. at \in 1 .. Len(ls) /\ l \in Line /\ IsItem(l) /\ ListOf(ls)[n] = Item(l)
    BY <1>1, <1>4, ItemsProperties
<1> HIDE DEF at, l
<1>6. k \in 1 .. Len(l) /\ l[k] \in Boxes /\ \A i \in 1 .. k - 1 : l[i] = "sp"
    BY <1>5, ItemHasBox
<1> HIDE DEF k
<1>7. t \in Line /\ Bared(t, {"sp"})
    BY FlatIsLine
<1> HIDE DEF t
<1>8. "sp" \in X /\ <<"sp">> \in Seq(X)
    <2>1. "sp" \in X
        BY Words
    <2> HIDE DEF X
    <2> QED
        BY <2>1
<1>9. l \in Seq(X) /\ t \in Seq(X)
    BY <1>5, <1>7 DEF Line
<1> HIDE DEF X
<1>10. /\ p \in Seq(X) /\ Len(p) = k /\ \A i \in 1 .. k : p[i] = l[i]
    <2>1. \A i \in 1 .. k : l[i] \in X
        BY <1>6, <1>9, ElementOfSeq
    <2>2. k \in Nat /\ k >= 1
        BY <1>6
    <2>3. /\ p \in Seq(X) /\ Len(p) = (IF 1 <= k THEN k - 1 + 1 ELSE 0)
          /\ \A i \in 1 .. k - 1 + 1 : p[i] = l[1 + i - 1]
        BY <2>1, <2>2, SubSeqProperties
    <2> HIDE DEF p
    <2> QED
        BY <2>2, <2>3
<1> HIDE DEF p
<1>11. w = p \o st
    <2> DEFINE u == <<"sp">>
    <2>1. u \in Seq(X)
        BY <1>8
    <2> HIDE DEF u
    <2>2. (p \o u) \o t = p \o (u \o t)
        BY <1>9, <1>10, <2>1, ConcatAssociative, SMTT(60)
    <2> QED
        BY <2>2 DEF p, u
<1>12. st \in Seq(X)
    BY <1>8, <1>9, ConcatProperties
<1>13. TrimStart(st, {"sp"}) = t
    BY <1>7, <1>8, <1>9, SpaceIsTrimmed
<1> HIDE DEF st, w
<1>14. /\ w \in Seq(X) /\ Len(w) = k + Len(st) /\ Len(st) \in Nat
       /\ \A i \in 1 .. k + Len(st) : w[i] = IF i <= k THEN p[i] ELSE st[i - k]
    BY <1>10, <1>11, <1>12, ConcatProperties
<1>15. k \in 1 .. Len(w) /\ w[k] = l[k] /\ \A i \in 1 .. k - 1 : w[i] = "sp"
    <2>1. k \in Nat /\ k >= 1 /\ k <= k + Len(st)
        BY <1>6, <1>14
    <2>2. \A i \in 1 .. k : w[i] = l[i]
        BY <1>10, <1>14, <2>1
    <2>3. k \in 1 .. Len(w)
        BY <1>14, <2>1
    <2>4. k \in 1 .. k /\ \A i \in 1 .. k - 1 : i \in 1 .. k
        BY <2>1
    <2> QED
        BY <1>6, <2>2, <2>3, <2>4, Zenon
<1>16. SubSeq(w, k + 1, Len(w)) = st
    <2> DEFINE q == SubSeq(w, k + 1, Len(w))
    <2>1. k \in Nat
        BY <1>6
    <2>2. \A i \in k + 1 .. Len(w) : w[i] \in X
        BY <1>14, <2>1, ElementOfSeq
    <2>3. /\ q \in Seq(X)
          /\ Len(q) = IF k + 1 <= Len(w) THEN Len(w) - (k + 1) + 1 ELSE 0
          /\ \A i \in 1 .. Len(w) - (k + 1) + 1 : q[i] = w[k + 1 + i - 1]
        BY <1>14, <2>1, <2>2, SubSeqProperties
    <2> HIDE DEF q
    <2>4. Len(q) = Len(st)
        BY <1>14, <2>1, <2>3
    <2>5. ASSUME NEW i \in 1 .. Len(st) PROVE q[i] = st[i]
        <3>1. k + 1 + i - 1 = k + i /\ (k + i) - k = i /\ ~(k + i <= k)
              /\ k + i \in 1 .. k + Len(st) /\ i \in 1 .. Len(w) - (k + 1) + 1
            BY <1>14, <2>1
        <3> QED
            BY <1>14, <2>3, <3>1
    <2>6. q = st
        BY <1>12, <2>3, <2>4, <2>5, SeqEqual
    <2> QED
        BY <2>6 DEF q
<1>17. w \in Line
    BY <1>14 DEF X, Line
<1>18. /\ IsItem(w)
       /\ Item(w) = [checked |-> l[k] = "[x]", text |-> t]
    <2>1. w[k] \in Boxes
        BY <1>6, <1>15
    <2>2. /\ IsItem(w)
          /\ Item(w) = [checked |-> w[k] = "[x]",
                        text |-> TrimStart(SubSeq(w, k + 1, Len(w)), {"sp"})]
        BY <1>15, <1>17, <2>1, ItemAt
    <2> QED
        BY <1>13, <1>15, <1>16, <2>2
<1>19. Item(w) = [Item(l) EXCEPT !.text = t]
    <2> DEFINE u == TrimStart(SubSeq(l, k + 1, Len(l)), {"sp"})
               d == l[k] = "[x]"
    <2>1. Item(w) = [checked |-> d, text |-> t] /\ Item(l) = [checked |-> d, text |-> u]
        BY <1>5, <1>6, <1>18, ItemAt
    <2> HIDE DEF u, d
    <2>2. [[checked |-> d, text |-> u] EXCEPT !.text = t] = [checked |-> d, text |-> t]
        OBVIOUS
    <2> QED
        BY <2>1, <2>2
<1>20. ms \in Seq(Line) /\ ListOf(ms) = [ListOf(ls) EXCEPT ![n] = Item(w)]
    BY <1>1, <1>4, <1>17, <1>18, ItemReplaced DEF at
<1>21. ms # <<>>
    BY <1>1, <1>5, <1>17, ExceptSeq, EmptySeq
<1>22. SetTodoText(b, n, text) = Join(ms)
    BY <1>3, <1>11 DEF w, p, st
<1> HIDE DEF ms
<1>23. Lines(Join(ms)) = ms /\ Join(ms) \in Seq(Tokens)
    BY <1>20, <1>21, LinesOfJoin
<1>24. Todos(Join(ms)) = ListOf(ms)
    BY <1>23, TodosAreListed
<1>25. [ListOf(ls) EXCEPT ![n].text = t] = [ListOf(ls) EXCEPT ![n] = Item(w)]
    BY <1>5, <1>19
<1> QED
    BY <1>2, <1>20, <1>22, <1>23, <1>24, <1>25 DEF t

(* The n-th number of a set is the one with n of them up to it.              *)
LEMMA NthIs ==
    ASSUME NEW m \in Nat, NEW T \in SUBSET (1 .. m), NEW i \in T, NEW n,
           Cardinality(Upto(T, i)) = n
    PROVE  Nth(T, n) = i
<1>1. \A k \in T : k \in Int /\ IsFiniteSet(Upto(T, k)) /\ Cardinality(Upto(T, k)) \in Nat
    <2>1. \A k \in T : k \in Int
        OBVIOUS
    <2> QED
        BY <2>1, UptoProperties
<1>2. ASSUME NEW j \in T, NEW k \in T, j < k
      PROVE  Cardinality(Upto(T, j)) # Cardinality(Upto(T, k))
    <2>1. k \notin Upto(T, j)
        BY <1>1, <1>2 DEF Upto
    <2>2. Upto(T, j) \cup {k} \subseteq Upto(T, k)
        <3>1. k <= k /\ \A a \in T : a <= j => a <= k
            BY <1>1, <1>2
        <3> QED
            BY <3>1, Zenon DEF Upto
    <2>3. Cardinality(Upto(T, j) \cup {k}) = Cardinality(Upto(T, j)) + 1
        BY <1>1, <2>1, FS_AddElement
    <2>4. Cardinality(Upto(T, j) \cup {k}) <= Cardinality(Upto(T, k))
        BY <1>1, <2>2, FS_Subset
    <2> QED
        BY <1>1, <2>3, <2>4
<1>3. \A j \in T : Cardinality(Upto(T, j)) = n => j = i
    BY <1>1, <1>2
<1>4. \A j \in T : Cardinality({k \in T : k <= j}) = n <=> j = i
    BY <1>3 DEF Upto
<1> QED
    BY <1>4 DEF Nth

(* An item that comes after all others is one more at the end of the list.   *)
LEMMA ItemAppended ==
    ASSUME NEW ls \in Seq(Line), NEW ms \in Seq(Line), NEW l, IsItem(l), NEW at \in Nat,
           at <= Len(ls), at + 1 <= Len(ms),
           \A i \in 1 .. at : ms[i] = ls[i],
           ms[at + 1] = l,
           \A i \in at + 1 .. Len(ls) : ~IsItem(ls[i]),
           \A i \in at + 2 .. Len(ms) : ~IsItem(ms[i])
    PROVE  ListOf(ms) = Append(ListOf(ls), Item(l))
<1> DEFINE S == Items(ls)
           T == Items(ms)
           c == Cardinality(S)
<1>1. /\ Len(ls) \in Nat /\ DOMAIN ls = 1 .. Len(ls)
      /\ Len(ms) \in Nat /\ DOMAIN ms = 1 .. Len(ms)
    BY LenProperties
<1>2. S = {i \in 1 .. at : IsItem(ls[i])}
    <2>1. \A i \in 1 .. Len(ls) : IsItem(ls[i]) => i \in 1 .. at
        BY <1>1
    <2>2. 1 .. at \subseteq 1 .. Len(ls)
        BY <1>1
    <2> QED
        BY <1>1, <2>1, <2>2 DEF Items
<1>3. T = S \cup {at + 1}
    <2>1. \A i \in 1 .. Len(ms) : i \in 1 .. at \/ i = at + 1 \/ i \in at + 2 .. Len(ms)
        BY <1>1
    <2>2. \A i \in 1 .. Len(ms) : IsItem(ms[i]) <=> i \in S \/ i = at + 1
        BY <1>2, <2>1
    <2>3. S \subseteq 1 .. Len(ms) /\ at + 1 \in 1 .. Len(ms)
        BY <1>1, <1>2
    <2> HIDE DEF S
    <2> QED
        BY <1>1, <2>2, <2>3 DEF Items
<1> HIDE DEF S, T
<1>4. S \in SUBSET (1 .. at) /\ T \in SUBSET (1 .. at + 1) /\ at + 1 \notin S
    BY <1>2, <1>3
<1>5. IsFiniteSet(S) /\ c \in Nat
    BY <1>4, UptoProperties
<1>6. Cardinality(T) = c + 1
    BY <1>3, <1>4, <1>5, FS_AddElement
<1>7. ASSUME NEW n \in 1 .. c
      PROVE  Nth(S, n) \in S /\ Nth(T, n) = Nth(S, n)
    <2>1. Nth(S, n) \in S /\ Cardinality(Upto(S, Nth(S, n))) = n
        BY <1>4, NthProperties
    <2>2. Nth(S, n) \in 1 .. at
        BY <1>4, <2>1
    <2>3. ~(at + 1 <= Nth(S, n))
        BY <2>2
    <2>4. Upto(T, Nth(S, n)) = Upto(S, Nth(S, n))
        BY <1>3, <2>3 DEF Upto
    <2>5. Nth(S, n) \in T
        BY <1>3, <2>1
    <2>6. at + 1 \in Nat /\ Cardinality(Upto(T, Nth(S, n))) = n
        BY <2>1, <2>4
    <2>7. Nth(T, n) = Nth(S, n)
        <3> DEFINE m == at + 1
                   i == Nth(S, n)
        <3>1. m \in Nat /\ T \in SUBSET (1 .. m) /\ i \in T /\ Cardinality(Upto(T, i)) = n
            BY <1>4, <2>5, <2>6
        <3> HIDE DEF m, i
        <3>2. Nth(T, n) = i
            BY <3>1, NthIs
        <3> QED
            BY <3>2 DEF i
    <2> QED
        BY <2>1, <2>7
<1>8. Nth(T, c + 1) = at + 1
    <2>1. \A i \in T : i <= at + 1
        BY <1>4
    <2>2. Upto(T, at + 1) = T
        BY <2>1 DEF Upto
    <2>3. at + 1 \in T
        BY <1>3
    <2> DEFINE e == at + 1
               d == c + 1
    <2>4. e \in Nat /\ Cardinality(Upto(T, e)) = d /\ T \in SUBSET (1 .. e) /\ e \in T
        BY <1>4, <1>6, <2>2, <2>3
    <2> HIDE DEF e, d
    <2>5. Nth(T, d) = e
        BY <2>4, NthIs
    <2> QED
        BY <2>5 DEF e, d
<1> DEFINE old == ListOf(ls)
           new == ListOf(ms)
           R == {Item(ls[i]) : i \in S} \cup {Item(l)}
<1>9. old = [n \in 1 .. c |-> Item(ls[Nth(S, n)])]
    BY DEF ListOf, ItemLine, S
<1>10. new = [n \in 1 .. c + 1 |-> Item(ms[Nth(T, n)])]
    BY <1>6 DEF ListOf, ItemLine, T
<1> HIDE DEF old, new, c
<1>11. old \in Seq(R) /\ Len(old) = c /\ Item(l) \in R
    <2>1. \A n \in 1 .. c : Item(ls[Nth(S, n)]) \in R
        BY <1>7
    <2>2. Item(l) \in R
        OBVIOUS
    <2> HIDE DEF R
    <2> QED
        BY <1>5, <1>9, <2>1, <2>2
<1>12. ASSUME NEW n \in 1 .. c + 1
       PROVE  new[n] = IF n = c + 1 THEN Item(l) ELSE old[n]
    <2>1. CASE n = c + 1
        BY <1>8, <1>10, <2>1
    <2>2. CASE n \in 1 .. c
        <3>1. Nth(S, n) \in 1 .. at /\ n # c + 1
            <4>1. Nth(S, n) \in S
                BY <1>7, <2>2
            <4>2. Nth(S, n) \in 1 .. at
                BY <1>4, <4>1
            <4>3. n # c + 1
                BY <1>5, <2>2
            <4> QED
                BY <4>2, <4>3
        <3>2. new[n] = Item(ls[Nth(S, n)])
            BY <1>7, <1>10, <2>2, <3>1
        <3> QED
            BY <1>9, <2>2, <3>1, <3>2
    <2> QED
        BY <1>5, <2>1, <2>2
<1> HIDE DEF R
<1> DEFINE a == Append(old, Item(l))
<1>13. /\ a \in Seq(R) /\ Len(a) = c + 1 /\ a[c + 1] = Item(l)
       /\ \A n \in 1 .. c : a[n] = old[n]
    BY <1>11, AppendProperties
<1>14. \A n \in 1 .. c + 1 : new[n] = a[n]
    <2> HIDE DEF a
    <2>1. \A n \in 1 .. c + 1 : n = c + 1 \/ (n \in 1 .. c /\ n # c + 1)
        BY <1>5
    <2> QED
        BY <1>12, <1>13, <2>1
<1> HIDE DEF a
<1>15. new \in Seq(R) /\ Len(new) = c + 1
    <2>1. \A n \in 1 .. c + 1 : a[n] \in R
        BY <1>13, ElementOfSeq
    <2>2. new = [n \in 1 .. c + 1 |-> a[n]]
        BY <1>10, <1>14
    <2> QED
        BY <1>5, <2>1, <2>2
<1>16. new = a
    BY <1>13, <1>14, <1>15, SeqEqual
<1> QED
    BY <1>16 DEF new, a, old

-----------------------------------------------------------------------------
(* A further item.                                                         *)

LEMMA NewTextProperties ==
    ASSUME NEW X, NEW text \in Seq(X)
    PROVE  NewText(text) \in Seq(X) /\ Bared(NewText(text), {"sp"})
<1>1. CASE IsItem(text)
    <2> DEFINE k == First(text, {"sp"})
               u == SubSeq(text, k + 1, Len(text))
    <2>1. k \in 1 .. Len(text) + 1 /\ k <= Len(text) /\ Len(text) \in Nat
        BY <1>1, FirstProperties DEF IsItem
    <2>2. NewText(text) = TrimStart(u, {"sp"})
        BY <1>1 DEF NewText, Item
    <2> HIDE DEF k
    <2>3. u \in Seq(X)
        <3>1. \A i \in k + 1 .. Len(text) : text[i] \in X
            BY <2>1, ElementOfSeq
        <3> QED
            BY <2>1, <3>1, SubSeqProperties
    <2> HIDE DEF u
    <2> QED
        BY <2>2, <2>3, TrimStartType, TrimStartBares
<1>2. CASE ~IsItem(text)
    BY <1>2, TrimProperties DEF NewText
<1> QED
    BY <1>1, <1>2

LEMMA TwoBefore ==
    ASSUME NEW X, NEW x \in X, NEW y \in X, NEW t \in Seq(X)
    PROVE  LET w == <<x, y>> \o t
           IN  /\ w \in Seq(X) /\ Len(w) = Len(t) + 2 /\ Len(t) \in Nat /\ w[1] = x
               /\ SubSeq(w, 2, Len(w)) = <<y>> \o t
<1> DEFINE w == <<x, y>> \o t
           st == <<y>> \o t
           q == SubSeq(w, 2, Len(w))
<1>1. Len(t) \in Nat
    OBVIOUS
<1>2. /\ w \in Seq(X) /\ Len(w) = Len(t) + 2 /\ w[1] = x /\ w[2] = y
      /\ \A i \in 1 .. Len(t) : w[i + 2] = t[i]
    OBVIOUS
<1>3. /\ st \in Seq(X) /\ Len(st) = Len(t) + 1 /\ st[1] = y
      /\ \A i \in 1 .. Len(t) : st[i + 1] = t[i]
    OBVIOUS
<1> HIDE DEF w, st
<1>4. /\ q \in Seq(X) /\ Len(q) = Len(st)
      /\ \A i \in 1 .. Len(st) : q[i] = w[2 + i - 1]
    <2>1. \A i \in 2 .. Len(w) : w[i] \in X
        BY <1>1, <1>2, ElementOfSeq
    <2> QED
        BY <1>1, <1>2, <1>3, <2>1, SubSeqProperties
<1> HIDE DEF q
<1>5. ASSUME NEW i \in 1 .. Len(st) PROVE q[i] = st[i]
    <2>1. CASE i = 1
        <3>1. q[1] = w[2 + 1 - 1] /\ 2 + 1 - 1 = 2
            BY <1>4, <2>1
        <3> QED
            BY <1>2, <1>3, <2>1, <3>1
    <2>2. CASE i - 1 \in 1 .. Len(t)
        <3>1. st[(i - 1) + 1] = t[i - 1] /\ w[(i - 1) + 2] = t[i - 1]
            BY <1>2, <1>3, <2>2
        <3>2. (i - 1) + 1 = i /\ (i - 1) + 2 = 2 + i - 1
            OBVIOUS
        <3> QED
            BY <1>4, <3>1, <3>2
    <2> QED
        BY <1>1, <1>3, <2>1, <2>2
<1>6. q = st
    BY <1>3, <1>4, <1>5, SeqEqual
<1> QED
    BY <1>1, <1>2, <1>6 DEF w, st, q

\* The line of a new item.
NewItem(text) == <<"[ ]", "sp">> \o NewText(text)

LEMMA NewItemProperties ==
    ASSUME NEW text \in Seq(Tokens)
    PROVE  /\ NewItem(text) \in Seq(Tokens)
           /\ text \in Line =>
                /\ NewItem(text) \in Line /\ IsItem(NewItem(text))
                /\ Item(NewItem(text)) = [checked |-> FALSE, text |-> NewText(text)]
<1> DEFINE t == NewText(text)
           w == NewItem(text)
<1>1. t \in Seq(Tokens)
    BY NewTextProperties
<1>2. w \in Seq(Tokens)
    <2>1. "[ ]" \in Tokens /\ "sp" \in Tokens
        BY Words
    <2> HIDE DEF t
    <2> QED
        BY <1>1, <2>1, TwoBefore DEF NewItem, t
<1>3. ASSUME text \in Line
      PROVE  w \in Line /\ IsItem(w) /\ Item(w) = [checked |-> FALSE, text |-> t]
    <2> DEFINE X == Tokens \ {"nl"}
               st == <<"sp">> \o t
    <2>1. "[ ]" \in X /\ "sp" \in X
        BY Words
    <2>2. t \in Seq(X) /\ Bared(t, {"sp"})
        <3>1. text \in Seq(X)
            BY <1>3 DEF Line
        <3> HIDE DEF X
        <3> QED
            BY <3>1, NewTextProperties
    <2>3. w = <<"[ ]", "sp">> \o t
        BY DEF NewItem
    <2> HIDE DEF X, t, w
    <2>4. TrimStart(st, {"sp"}) = t
        BY <2>1, <2>2, SpaceIsTrimmed
    <2>5. /\ w \in Seq(X) /\ Len(w) = Len(t) + 2 /\ Len(t) \in Nat /\ w[1] = "[ ]"
          /\ SubSeq(w, 2, Len(w)) = st
        <3> DEFINE x == "[ ]"
                   y == "sp"
        <3>1. x \in X /\ y \in X /\ t \in Seq(X)
            BY <2>1, <2>2
        <3> HIDE DEF x, y
        <3>2. LET v == <<x, y>> \o t
              IN  /\ v \in Seq(X) /\ Len(v) = Len(t) + 2 /\ Len(t) \in Nat /\ v[1] = x
                  /\ SubSeq(v, 2, Len(v)) = <<y>> \o t
            BY <3>1, TwoBefore
        <3>3. w = <<x, y>> \o t /\ st = <<y>> \o t
            BY <2>3 DEF x, y
        <3> QED
            BY <3>2, <3>3 DEF x
    <2> HIDE DEF st
    <2>6. w \in Line
        BY <2>5 DEF X, Line
    <2>7. 1 \in 1 .. Len(w) /\ w[1] \in Boxes /\ \A i \in 1 .. 1 - 1 : w[i] = "sp"
        <3>1. w[1] \in Boxes
            BY <2>5 DEF Boxes
        <3>2. Len(w) \in Nat /\ Len(w) >= 1
            <4>1. Len(w) = Len(t) + 2 /\ Len(t) \in Nat
                BY <2>5, Zenon
            <4> QED
                BY <4>1
        <3>3. 1 \in 1 .. Len(w)
            BY <3>2
        <3>4. \A i \in 1 .. 1 - 1 : FALSE
            OBVIOUS
        <3> QED
            BY <3>1, <3>3, <3>4, Zenon
    <2>8. /\ IsItem(w)
          /\ Item(w) = [checked |-> w[1] = "[x]",
                        text |-> TrimStart(SubSeq(w, 1 + 1, Len(w)), {"sp"})]
        BY <2>6, <2>7, ItemAt
    <2>9. (w[1] = "[x]") = FALSE /\ 1 + 1 = 2
        <3>1. w[1] = "[ ]"
            BY <2>5
        <3>2. w[1] # "[x]"
            BY <3>1
        <3> QED
            BY <3>2
    <2>10. Item(w) = [checked |-> FALSE, text |-> t]
        <3>1. TrimStart(SubSeq(w, 1 + 1, Len(w)), {"sp"}) = t
            BY <2>4, <2>5, <2>9
        <3> QED
            BY <2>8, <2>9, <3>1, Zenon
    <2> QED
        BY <2>6, <2>8, <2>10
<1> QED
    BY <1>2, <1>3

\* White lines at the end of a text end its list of lines.
LEMMA LinesBeforeTheEnd ==
    ASSUME NEW b \in Seq(Tokens)
    PROVE  LET t == TrimEnd(b, {"nl"})
           IN  /\ t \in Seq(Tokens) /\ Len(Lines(t)) <= Len(Lines(b))
               /\ \A i \in 1 .. Len(Lines(t)) : Lines(t)[i] = Lines(b)[i]
<1>1. PICK k \in 0 .. Len(b) : /\ TrimEnd(b, {"nl"}) = SubSeq(b, 1, k)
                               /\ \A i \in k + 1 .. Len(b) : b[i] \in {"nl"}
    BY TrimEndType
<1> DEFINE t == TrimEnd(b, {"nl"})
           n == Len(b)
<1>2. t \in Seq(Tokens)
    BY TrimEndType
<1>3. n \in Nat
    OBVIOUS
<1>4. t = SubSeq(b, 1, k)
    BY <1>1
<1> HIDE DEF t
<1>5. Lines(t) \in Seq(Line) /\ Len(Lines(t)) \in Nat
    BY <1>2, LinesType
<1>6. CASE k = n
    <2>1. t = b
        BY <1>4, <1>6, SubSeqFull
    <2> QED
        BY <1>2, <1>5, <2>1 DEF t
<1>7. CASE k < n
    <2> DEFINE y == SubSeq(b, k + 2, n)
               nl == <<"nl">>
    <2>1. y \in Seq(Tokens)
        <3>1. \A i \in k + 2 .. n : b[i] \in Tokens
            BY <1>3, ElementOfSeq
        <3> QED
            BY <1>3, <3>1, SubSeqProperties
    <2>2. b = (t \o nl) \o y
        <3>1. SubSeq(b, 1, k) \o SubSeq(b, k + 1, k + 1) = SubSeq(b, 1, k + 1)
            <4>1. k \in 1 - 1 .. Len(b) /\ k + 1 \in k .. Len(b) /\ 1 \in 1 .. Len(b) + 1
                BY <1>3, <1>7
            <4> QED
                BY <4>1, ConcatAdjacentSubSeq
        <3>2. SubSeq(b, 1, k + 1) \o SubSeq(b, (k + 1) + 1, n) = SubSeq(b, 1, n)
            <4> DEFINE e == k + 1
            <4>1. e \in 1 - 1 .. Len(b) /\ n \in e .. Len(b) /\ 1 \in 1 .. Len(b) + 1
                BY <1>3, <1>7
            <4> HIDE DEF e
            <4>2. SubSeq(b, 1, e) \o SubSeq(b, e + 1, n) = SubSeq(b, 1, n)
                BY <4>1, ConcatAdjacentSubSeq
            <4> QED
                BY <4>2 DEF e
        <3>3. SubSeq(b, k + 1, k + 1) = nl
            <4> DEFINE e == k + 1
            <4>1. b[e] = "nl" /\ e \in 1 .. n
                BY <1>1, <1>3, <1>7
            <4> HIDE DEF e
            <4>2. SubSeq(b, e, e) = <<b[e]>>
                <5>1. /\ SubSeq(b, e, e) \in Seq(Tokens) /\ Len(SubSeq(b, e, e)) = 1
                      /\ SubSeq(b, e, e)[1] = b[e]
                    BY <1>3, <4>1
                <5> DEFINE q == SubSeq(b, e, e)
                           x == b[e]
                           r == <<x>>
                <5>2. x \in Tokens
                    BY <4>1, ElementOfSeq
                <5> HIDE DEF x
                <5>3. r \in Seq(Tokens) /\ Len(r) = 1 /\ r[1] = x
                    BY <5>2
                <5>4. q \in Seq(Tokens) /\ Len(q) = 1 /\ q[1] = x
                    BY <5>1 DEF x
                <5> HIDE DEF q, r
                <5>5. q = r
                    BY <5>3, <5>4, SeqEqual
                <5> QED
                    BY <5>5 DEF q, r, x
            <4> QED
                BY <4>1, <4>2 DEF e
        <3>4. (k + 1) + 1 = k + 2
            BY <1>3
        <3>5. SubSeq(b, 1, n) = b
            BY SubSeqFull
        <3> HIDE DEF nl
        <3> QED
            BY <1>4, <3>1, <3>2, <3>3, <3>4, <3>5
    <2> HIDE DEF y
    <2>3. Lines(b) = Lines(t) \o Lines(y)
        BY <1>2, <2>1, <2>2, LinesOfConcat
    <2>4. Lines(y) \in Seq(Line) /\ Len(Lines(y)) \in Nat
        BY <2>1, LinesType
    <2>5. /\ Len(Lines(b)) = Len(Lines(t)) + Len(Lines(y))
          /\ \A i \in 1 .. Len(Lines(t)) + Len(Lines(y)) :
                Lines(b)[i] = IF i <= Len(Lines(t)) THEN Lines(t)[i]
                              ELSE Lines(y)[i - Len(Lines(t))]
        BY <1>5, <2>3, <2>4, ConcatProperties
    <2> QED
        BY <1>2, <1>5, <2>4, <2>5 DEF t
<1> QED
    BY <1>3, <1>6, <1>7

\* One element more, after the first `at`.
HasAfter(ms, ls, at, l) ==
    /\ Len(ms) = Len(ls) + 1
    /\ \A i \in 1 .. at : ms[i] = ls[i]
    /\ ms[at + 1] = l
    /\ \A i \in at + 2 .. Len(ls) + 1 : ms[i] = ls[i - 1]

LEMMA InsertProperties ==
    ASSUME NEW X, NEW ls \in Seq(X), NEW at \in 0 .. Len(ls), NEW l \in X
    PROVE  /\ InsertAt(ls, at + 1, l) \in Seq(X)
           /\ HasAfter(InsertAt(ls, at + 1, l), ls, at, l)
<1> DEFINE n == Len(ls)
           p == SubSeq(ls, 1, at)
           q == SubSeq(ls, at + 1, n)
           o == <<l>>
           m == p \o o
           ms == m \o q
<1>1. n \in Nat /\ at \in Nat /\ at <= n /\ (at + 1) - 1 = at
    OBVIOUS
<1>2. p \in Seq(X) /\ Len(p) = at /\ \A i \in 1 .. at : p[i] = ls[i]
    <2>1. \A i \in 1 .. at : ls[i] \in X
        BY <1>1, ElementOfSeq
    <2>2. /\ p \in Seq(X) /\ Len(p) = (IF 1 <= at THEN at - 1 + 1 ELSE 0)
          /\ \A i \in 1 .. at - 1 + 1 : p[i] = ls[1 + i - 1]
        BY <1>1, <2>1, SubSeqProperties
    <2> HIDE DEF p
    <2> QED
        BY <1>1, <2>2
<1>3. q \in Seq(X) /\ Len(q) = n - at /\ \A i \in 1 .. n - at : q[i] = ls[at + i]
    <2>1. \A i \in at + 1 .. n : ls[i] \in X
        BY <1>1, ElementOfSeq
    <2>2. /\ q \in Seq(X) /\ Len(q) = (IF at + 1 <= n THEN n - (at + 1) + 1 ELSE 0)
          /\ \A i \in 1 .. n - (at + 1) + 1 : q[i] = ls[at + 1 + i - 1]
        BY <1>1, <2>1, SubSeqProperties
    <2> HIDE DEF q
    <2> QED
        BY <1>1, <2>2
<1>4. o \in Seq(X) /\ Len(o) = 1 /\ o[1] = l
    OBVIOUS
<1>5. InsertAt(ls, at + 1, l) = ms
    <2>1. SubSeq(ls, 1, (at + 1) - 1) = p
        BY <1>1
    <2> HIDE DEF p
    <2> QED
        BY <2>1 DEF InsertAt
<1> HIDE DEF n, p, q, o
<1>6. /\ m \in Seq(X) /\ Len(m) = at + 1
      /\ \A i \in 1 .. at + 1 : m[i] = IF i <= at THEN p[i] ELSE o[i - at]
    <2>1. /\ m \in Seq(X) /\ Len(m) = Len(p) + Len(o)
          /\ \A i \in 1 .. Len(p) + Len(o) : m[i] = IF i <= Len(p) THEN p[i] ELSE o[i - Len(p)]
        BY <1>2, <1>4, ConcatProperties
    <2> HIDE DEF m
    <2> QED
        BY <1>2, <1>4, <2>1
<1> HIDE DEF m
<1>7. /\ ms \in Seq(X) /\ Len(ms) = (at + 1) + (n - at)
      /\ \A i \in 1 .. (at + 1) + (n - at) : ms[i] = IF i <= at + 1 THEN m[i] ELSE q[i - (at + 1)]
    <2>1. /\ ms \in Seq(X) /\ Len(ms) = Len(m) + Len(q)
          /\ \A i \in 1 .. Len(m) + Len(q) : ms[i] = IF i <= Len(m) THEN m[i] ELSE q[i - Len(m)]
        BY <1>3, <1>6, ConcatProperties
    <2> HIDE DEF ms
    <2> QED
        BY <1>3, <1>6, <2>1
<1> HIDE DEF ms
<1>8. Len(ms) = n + 1
    BY <1>1, <1>7
<1>9. ASSUME NEW i \in 1 .. at PROVE ms[i] = ls[i]
    BY <1>1, <1>2, <1>6, <1>7
<1>10. ms[at + 1] = l
    <2>1. ms[at + 1] = m[at + 1]
        BY <1>1, <1>7
    <2>2. at + 1 \in 1 .. at + 1 /\ ~(at + 1 <= at) /\ (at + 1) - at = 1
        BY <1>1
    <2>3. m[at + 1] = o[(at + 1) - at]
        BY <1>6, <2>2
    <2> QED
        BY <1>4, <2>1, <2>2, <2>3
<1>11. ASSUME NEW i \in at + 2 .. n + 1 PROVE ms[i] = ls[i - 1]
    <2>1. ms[i] = q[i - (at + 1)]
        BY <1>1, <1>7
    <2>2. i - (at + 1) \in 1 .. n - at /\ at + (i - (at + 1)) = i - 1
        BY <1>1
    <2> QED
        BY <1>3, <2>1, <2>2
<1> QED
    BY <1>1, <1>5, <1>7, <1>8, <1>9, <1>10, <1>11 DEF n, HasAfter

(* A text of one line is added to the list read back from the new body: the  *)
(* new item comes last, open, and the others stay, whatever the body.        *)
LEMMA AppendedIsRead ==
    ASSUME NEW b \in Seq(Tokens), NEW text \in Seq(Tokens)
    PROVE  /\ AppendTodo(b, text) \in Seq(Tokens)
           /\ text \in Line =>
                Todos(AppendTodo(b, text))
                  = Append(Todos(b), [checked |-> FALSE, text |-> NewText(text)])
<1> DEFINE ls == Lines(b)
           item == NewItem(text)
           new == AppendTodo(b, text)
           S == Items(ls)
           at == CHOOSE i \in S : \A j \in S : j <= i
           ms == InsertAt(ls, at + 1, item)
           t == TrimEnd(b, {"nl"})
<1>1. ls \in Seq(Line) /\ ls # <<>> /\ Len(ls) \in Nat
    BY LinesType
<1>2. Todos(b) = ListOf(ls)
    BY TodosAreListed
<1>3. /\ item \in Seq(Tokens)
      /\ text \in Line =>
            /\ item \in Line /\ IsItem(item)
            /\ Item(item) = [checked |-> FALSE, text |-> NewText(text)]
    BY NewItemProperties
<1>4. new = IF S # {} THEN Join(ms) ELSE IF b = <<>> THEN item ELSE t \o <<"nl">> \o item
    BY DEF AppendTodo, NewItem
<1> HIDE DEF ls, item, new
<1>5. S \in SUBSET (1 .. Len(ls)) /\ S = {i \in 1 .. Len(ls) : IsItem(ls[i])}
    <2>1. DOMAIN ls = 1 .. Len(ls)
        BY <1>1, LenProperties
    <2> QED
        BY <2>1 DEF Items
<1>6. CASE S # {}
    <2>1. at \in S /\ \A j \in S : j <= at
        <3> HIDE DEF S
        <3>1. S \in SUBSET (0 .. Len(ls))
            BY <1>1, <1>5
        <3>2. \E i \in S : \A j \in S : j <= i
            BY <1>1, <1>6, <3>1, Greatest
        <3> QED
            BY <3>2
    <2> HIDE DEF S, at
    <2>2. at \in 0 .. Len(ls) /\ at \in Nat /\ at <= Len(ls)
        BY <1>1, <1>5, <2>1
    <2>3. new = Join(ms)
        BY <1>4, <1>6
    <2>4. Join(ms) \in Seq(Tokens)
        <3>1. ls \in Seq(Seq(Tokens))
            <4>1. Line \subseteq Seq(Tokens)
                BY LineIsText
            <4> QED
                BY <1>1, <4>1, SeqMonotonic
        <3>2. ms \in Seq(Seq(Tokens))
            BY <1>3, <2>2, <3>1, InsertProperties
        <3> QED
            BY <3>2, JoinType
    <2>5. ASSUME text \in Line
          PROVE  Todos(new) = Append(ListOf(ls), Item(item))
        <3>1. /\ ms \in Seq(Line) /\ Len(ms) = Len(ls) + 1
              /\ \A i \in 1 .. at : ms[i] = ls[i]
              /\ ms[at + 1] = item
              /\ \A i \in at + 2 .. Len(ls) + 1 : ms[i] = ls[i - 1]
            <4>1. ms \in Seq(Line) /\ HasAfter(ms, ls, at, item)
                BY <1>1, <1>3, <2>2, <2>5, InsertProperties
            <4> QED
                BY <4>1 DEF HasAfter
        <3> HIDE DEF ms
        <3>2. ms # <<>> /\ at + 1 <= Len(ms)
            BY <1>1, <2>2, <3>1, EmptySeq
        <3>3. \A i \in at + 1 .. Len(ls) : ~IsItem(ls[i])
            BY <1>1, <1>5, <2>1, <2>2
        <3>4. ASSUME NEW i \in at + 2 .. Len(ms) PROVE ~IsItem(ms[i])
            <4>1. i - 1 \in at + 1 .. Len(ls) /\ ms[i] = ls[i - 1]
                BY <1>1, <2>2, <3>1
            <4> QED
                BY <3>3, <4>1
        <3>5. ListOf(ms) = Append(ListOf(ls), Item(item))
            BY <1>1, <1>3, <2>2, <2>5, <3>1, <3>2, <3>3, <3>4, ItemAppended
        <3>6. Lines(new) = ms
            BY <2>3, <3>1, <3>2, LinesOfJoin
        <3> QED
            BY <3>5, <3>6, TodosAreListed
    <2> QED
        BY <1>2, <1>3, <2>3, <2>4, <2>5 DEF new
<1>7. CASE S = {} /\ b = <<>>
    <2>1. new = item
        BY <1>4, <1>7
    <2>2. ASSUME text \in Line
          PROVE  Todos(new) = Append(ListOf(ls), Item(item))
        <3> DEFINE w == <<item>>
        <3>1. Lines(new) = w
            BY <1>3, <2>1, <2>2, LinesOfLine
        <3>2. w \in Seq(Line) /\ Len(w) = 1 /\ w[1] = item
            BY <1>3, <2>2
        <3> HIDE DEF w
        <3>3. \A i \in 0 + 1 .. Len(ls) : ~IsItem(ls[i])
            BY <1>1, <1>5, <1>7
        <3>4. /\ 0 <= Len(ls) /\ 0 + 1 <= Len(w) /\ w[0 + 1] = item
              /\ \A i \in 1 .. 0 : w[i] = ls[i]
              /\ \A i \in 0 + 2 .. Len(w) : ~IsItem(w[i])
            BY <1>1, <3>2
        <3>5. ListOf(w) = Append(ListOf(ls), Item(item))
            BY <1>1, <1>3, <2>2, <3>2, <3>3, <3>4, ItemAppended
        <3> QED
            BY <3>1, <3>5, TodosAreListed
    <2> QED
        BY <1>2, <1>3, <2>1, <2>2 DEF new
<1>8. CASE S = {} /\ b # <<>>
    <2>1. new = t \o <<"nl">> \o item
        BY <1>4, <1>8
    <2>2. /\ t \in Seq(Tokens) /\ Len(Lines(t)) <= Len(ls)
          /\ \A i \in 1 .. Len(Lines(t)) : Lines(t)[i] = ls[i]
        BY LinesBeforeTheEnd DEF ls
    <2> HIDE DEF t
    <2> DEFINE ts == Lines(t)
               k == Len(ts)
    <2>3. ts \in Seq(Line) /\ k \in Nat
        BY <2>2, LinesType
    <2>4. new \in Seq(Tokens)
        <3>1. "nl" \in Tokens
            BY Words
        <3>2. <<"nl">> \in Seq(Tokens)
            BY <3>1
        <3>3. t \o <<"nl">> \in Seq(Tokens)
            BY <2>2, <3>2, ConcatProperties
        <3> QED
            BY <1>3, <2>1, <3>3, ConcatProperties
    <2>5. ASSUME text \in Line
          PROVE  Todos(new) = Append(ListOf(ls), Item(item))
        <3> DEFINE w == ts \o <<item>>
        <3>1. Lines(new) = w
            <4>1. Lines(new) = Lines(t) \o Lines(item)
                BY <1>3, <2>1, <2>2, LinesOfConcat
            <4>2. Lines(item) = <<item>>
                BY <1>3, <2>5, LinesOfLine
            <4> QED
                BY <4>1, <4>2
        <3> HIDE DEF ts
        <3>2. /\ w \in Seq(Line) /\ Len(w) = k + 1 /\ w[k + 1] = item
              /\ \A i \in 1 .. k : w[i] = ts[i]
            BY <1>3, <2>3, <2>5
        <3> HIDE DEF w
        <3>3. \A i \in k + 1 .. Len(ls) : ~IsItem(ls[i])
            BY <1>1, <1>5, <1>8, <2>3
        <3>4. /\ k <= Len(ls) /\ k + 1 <= Len(w) /\ w[k + 1] = item
              /\ \A i \in 1 .. k : w[i] = ls[i]
              /\ \A i \in k + 2 .. Len(w) : ~IsItem(w[i])
            BY <1>1, <2>2, <2>3, <3>2 DEF ts
        <3>5. ListOf(w) = Append(ListOf(ls), Item(item))
            BY <1>1, <1>3, <2>3, <2>5, <3>2, <3>3, <3>4, ItemAppended
        <3> QED
            BY <3>1, <3>5, TodosAreListed
    <2> QED
        BY <1>2, <1>3, <2>4, <2>5 DEF new
<1> QED
    BY <1>6, <1>7, <1>8

-----------------------------------------------------------------------------
(* Lines and tags.                                                         *)

\* What replacing the lines from at to to by text makes of the old lines.
Replaced(new, old, at, to, text) ==
    LET put == IF text = <<>> THEN 0 ELSE Len(Lines(text))
        rest == Len(old) - to
    IN  /\ \A i \in 1 .. at - 1 : new[i] = old[i]
        /\ \A i \in 0 .. rest - 1 : new[Len(new) - i] = old[Len(old) - i]
        /\ Len(new) = at - 1 + put + rest
        /\ \A i \in 1 .. put : new[at - 1 + i] = Lines(text)[i]

(* The lines outside a replaced range are read back from the new body as     *)
(* they were, with the lines of the text between them; only when no line is  *)
(* left the body is empty.                                                   *)
LEMMA ReplacedIsRead ==
    ASSUME NEW b \in Seq(Tokens), NEW start \in DOMAIN Lines(b), NEW end \in DOMAIN Lines(b),
           start <= end, NEW text \in Seq(Tokens)
    PROVE  LET new == ReplaceLines(b, start, end, text)
           IN  /\ new \in Seq(Tokens)
               /\ \/ Replaced(Lines(new), Lines(b), start, end, text)
                  \/ new = <<>> /\ start = 1 /\ end = Len(Lines(b)) /\ text = <<>>
<1> DEFINE ls == Lines(b)
           n == Len(ls)
           a == start - 1
           ps == SubSeq(ls, 1, a)
           qs == SubSeq(ls, end + 1, n)
           ts == IF text = <<>> THEN <<>> ELSE Lines(text)
           put == IF text = <<>> THEN 0 ELSE Len(Lines(text))
           us == ps \o ts
           ms == us \o qs
           new == ReplaceLines(b, start, end, text)
<1>1. ls \in Seq(Line) /\ n \in Nat
    BY LinesType
<1>2. /\ start \in 1 .. n /\ end \in 1 .. n
      /\ a \in Nat /\ start = a + 1 /\ a < end /\ end \in Nat /\ end <= n
    <2>1. start \in 1 .. n /\ end \in 1 .. n
        BY <1>1, LenProperties
    <2> QED
        BY <1>1, <2>1
<1>3. new = Join(ms)
    BY DEF ReplaceLines
<1> HIDE DEF ls, a, n, new
<1>4. ps \in Seq(Line) /\ Len(ps) = a /\ \A i \in 1 .. a : ps[i] = ls[i]
    <2>1. \A i \in 1 .. a : i \in 1 .. n
        BY <1>1, <1>2
    <2>2. \A i \in 1 .. a : ls[i] \in Line
        BY <1>1, <2>1, ElementOfSeq DEF n
    <2>3. /\ ps \in Seq(Line) /\ Len(ps) = (IF 1 <= a THEN a - 1 + 1 ELSE 0)
          /\ \A i \in 1 .. a - 1 + 1 : ps[i] = ls[1 + i - 1]
        BY <1>2, <2>2, SubSeqProperties
    <2> HIDE DEF ps
    <2> QED
        BY <1>2, <2>3
<1>5. qs \in Seq(Line) /\ Len(qs) = n - end /\ \A i \in 1 .. n - end : qs[i] = ls[end + i]
    <2>1. \A i \in end + 1 .. n : i \in 1 .. n
        BY <1>1, <1>2
    <2>2. \A i \in end + 1 .. n : ls[i] \in Line
        BY <1>1, <2>1, ElementOfSeq DEF n
    <2>3. /\ qs \in Seq(Line) /\ Len(qs) = (IF end + 1 <= n THEN n - (end + 1) + 1 ELSE 0)
          /\ \A i \in 1 .. n - (end + 1) + 1 : qs[i] = ls[end + 1 + i - 1]
        BY <1>1, <1>2, <2>2, SubSeqProperties
    <2> HIDE DEF qs
    <2> QED
        BY <1>1, <1>2, <2>3
<1>6. ts \in Seq(Line) /\ Len(ts) = put /\ put \in Nat /\ (put = 0 => text = <<>>)
      /\ \A i \in 1 .. put : ts[i] = Lines(text)[i]
    <2>1. CASE text = <<>>
        BY <2>1
    <2>2. CASE text # <<>>
        <3>1. Lines(text) \in Seq(Line) /\ Len(Lines(text)) \in Nat \ {0}
            BY LinesType
        <3> QED
            BY <2>2, <3>1
    <2> QED
        BY <2>1, <2>2
<1> HIDE DEF ps, qs, ts, put
<1>7. /\ us \in Seq(Line) /\ Len(us) = a + put
      /\ \A i \in 1 .. a + put : us[i] = IF i <= a THEN ps[i] ELSE ts[i - a]
    <2>1. /\ us \in Seq(Line) /\ Len(us) = Len(ps) + Len(ts)
          /\ \A i \in 1 .. Len(ps) + Len(ts) :
                us[i] = IF i <= Len(ps) THEN ps[i] ELSE ts[i - Len(ps)]
        BY <1>4, <1>6, ConcatProperties
    <2> HIDE DEF us
    <2> QED
        BY <1>4, <1>6, <2>1
<1> HIDE DEF us
<1>8. /\ ms \in Seq(Line) /\ Len(ms) = (a + put) + (n - end)
      /\ \A i \in 1 .. (a + put) + (n - end) :
            ms[i] = IF i <= a + put THEN us[i] ELSE qs[i - (a + put)]
    <2>1. /\ ms \in Seq(Line) /\ Len(ms) = Len(us) + Len(qs)
          /\ \A i \in 1 .. Len(us) + Len(qs) :
                ms[i] = IF i <= Len(us) THEN us[i] ELSE qs[i - Len(us)]
        BY <1>5, <1>7, ConcatProperties
    <2> HIDE DEF ms
    <2> QED
        BY <1>5, <1>7, <2>1
<1> HIDE DEF ms
<1>9. new \in Seq(Tokens)
    <2>1. Line \subseteq Seq(Tokens)
        BY LineIsText
    <2>2. ms \in Seq(Seq(Tokens))
        BY <1>8, <2>1, SeqMonotonic
    <2> QED
        BY <1>3, <2>2, JoinType
<1>10. CASE ms = <<>>
    <2>1. (a + put) + (n - end) = 0
        BY <1>8, <1>10
    <2>2. a = 0 /\ put = 0 /\ end = n
        BY <1>1, <1>2, <1>6, <2>1
    <2>3. new = <<>>
        BY <1>3, <1>10, JoinOfNothing
    <2> QED
        BY <1>2, <1>6, <1>9, <2>2, <2>3 DEF new, n, ls
<1>11. CASE ms # <<>>
    <2>1. Lines(new) = ms
        BY <1>3, <1>8, <1>11, LinesOfJoin
    <2>2. \A i \in 1 .. a : ms[i] = ls[i]
        BY <1>1, <1>2, <1>4, <1>6, <1>7, <1>8
    <2>3. ASSUME NEW i \in 0 .. (n - end) - 1 PROVE ms[Len(ms) - i] = ls[n - i]
        <3> DEFINE j == Len(ms) - i
        <3>1. /\ j \in 1 .. (a + put) + (n - end) /\ ~(j <= a + put)
              /\ j - (a + put) \in 1 .. n - end /\ end + (j - (a + put)) = n - i
            BY <1>1, <1>2, <1>6, <1>8
        <3> HIDE DEF j
        <3>2. ms[j] = ls[n - i]
            BY <1>5, <1>8, <3>1
        <3> QED
            BY <3>2 DEF j
    <2>4. ASSUME NEW i \in 1 .. put PROVE ms[a + i] = Lines(text)[i]
        <3>1. /\ a + i \in 1 .. a + put /\ a + i \in 1 .. (a + put) + (n - end)
              /\ a + i <= a + put /\ ~(a + i <= a) /\ (a + i) - a = i
            BY <1>1, <1>2, <1>6
        <3> QED
            BY <1>6, <1>7, <1>8, <3>1
    <2>5. Len(ms) = a + put + (n - end)
        BY <1>1, <1>2, <1>6, <1>8
    <2>6. Replaced(ms, ls, start, end, text)
        BY <2>2, <2>3, <2>4, <2>5 DEF Replaced, a, put, n
    <2> QED
        BY <1>9, <2>1, <2>6 DEF new, ls
<1> QED
    BY <1>10, <1>11 DEF new

LEMMA RemoveTagType ==
    ASSUME NEW b \in Seq(Tokens), NEW tag
    PROVE  RemoveTag(b, tag) \in Seq(Tokens)
<1> DEFINE gone == UNION {RemovedWith(b, i) : i \in {j \in TagPositions(b) : b[j] = tag}}
           kept == DOMAIN b \ gone
           c == Cardinality(kept)
<1>1. Len(b) \in Nat /\ DOMAIN b = 1 .. Len(b)
    BY LenProperties
<1>2. kept \in SUBSET (1 .. Len(b))
    BY <1>1
<1>3. RemoveTag(b, tag) = [k \in 1 .. c |-> b[Nth(kept, k)]]
    BY DEF RemoveTag, Picked
<1> HIDE DEF kept
<1>4. c \in Nat
    BY <1>1, <1>2, UptoProperties
<1>5. ASSUME NEW k \in 1 .. c PROVE b[Nth(kept, k)] \in Tokens
    <2>1. Nth(kept, k) \in kept
        BY <1>1, <1>2, NthProperties
    <2>2. Nth(kept, k) \in 1 .. Len(b)
        BY <1>2, <2>1
    <2> QED
        BY <2>2, ElementOfSeq
<1> HIDE DEF c
<1> QED
    BY <1>3, <1>4, <1>5

LEMMA EnsureTagType ==
    ASSUME NEW b \in Seq(Tokens), NEW tag \in TagTokens
    PROVE  EnsureTag(b, tag) \in Seq(Tokens)
<1> DEFINE x == "nl"
           w == <<x, x, tag>>
<1>1. x \in Tokens /\ tag \in Tokens
    BY Words
<1> HIDE DEF x
<1>2. w \in Seq(Tokens)
    BY <1>1
<1> HIDE DEF w
<1>3. TrimEnd(b, White) \o w \in Seq(Tokens)
    BY <1>2, TrimEndType, ConcatProperties
<1>4. EnsureTag(b, tag) \in {b, TrimEnd(b, White) \o w}
    BY DEF EnsureTag, w, x
<1> QED
    BY <1>3, <1>4

-----------------------------------------------------------------------------
(* Every edit, in every order.                                             *)

\* The three properties as statements about the body and the last edit.
Addressed(l, b) ==
    LET old == Todos(l.from)
    IN  /\ l.do \in {"check", "uncheck"} =>
             Todos(b) = [old EXCEPT ![l.at].checked = l.do = "check"]
        /\ l.do = "text" => Todos(b) = [old EXCEPT ![l.at].text = Trim(Flat(l.text))]
        /\ l.do = "append" /\ "nl" \notin Range(l.text) =>
             Todos(b) = Append(old, [checked |-> FALSE, text |-> NewText(l.text)])

InPlace(l, b) ==
    l.do = "replace" =>
        \/ Replaced(Lines(b), Lines(l.from), l.at, l.to, l.text)
        \/ b = <<>> /\ l.at = 1 /\ l.to = Len(Lines(l.from)) /\ l.text = <<>>

Exact(l, b, w) ==
    /\ b = w
    /\ l.do # "none" =>
         LET s == BodySplice(l.from, w)
             out == SubSeq(l.from, s.pos + 1, s.pos + s.del)
         IN  s.insert # <<>> /\ out # <<>> =>
                 Head(s.insert) # Head(out) /\ Last(s.insert) # Last(out)

EditInv ==
    /\ body \in Seq(Tokens)
    /\ Exact(last, body, want)
    /\ Addressed(last, body)
    /\ InPlace(last, body)

LEMMA EditInvInit ==
    ASSUME Init
    PROVE  EditInv
<1>1. body \in Seq(Tokens)
    <2>1. CASE body = <<>>
        BY <2>1
    <2>2. CASE body \in Bodies
        BY <2>2, ContentAssumption
    <2> QED
        BY <2>1, <2>2 DEF Init
<1>2. body = want /\ last.do = "none"
    BY DEF Init, NoEdit
<1> QED
    BY <1>1, <1>2 DEF EditInv, Exact, Addressed, InPlace

\* What an edit stores, and what it notes of itself.
LEMMA StoreProperties ==
    ASSUME body \in Seq(Tokens), NEW new \in Seq(Tokens),
           NEW do, NEW at, NEW to, NEW text, Store(new, do, at, to, text)
    PROVE  /\ body' = new /\ body' \in Seq(Tokens)
           /\ last' = [do |-> do, at |-> at, to |-> to, text |-> text, from |-> body]
           /\ Exact(last', body', want')
<1>1. /\ want' = new /\ body' = Spliced(body, BodySplice(body, new))
      /\ last' = [do |-> do, at |-> at, to |-> to, text |-> text, from |-> body]
    BY DEF Store
<1>2. body' = new
    BY <1>1, SpliceGivesNew
<1>3. LET s == BodySplice(body, new)
          out == SubSeq(body, s.pos + 1, s.pos + s.del)
      IN  s.insert # <<>> /\ out # <<>> =>
              Head(s.insert) # Head(out) /\ s.insert[Len(s.insert)] # out[Len(out)]
    BY SpliceLeavesSharedEnds
<1>4. last'.from = body
    BY <1>1
<1> QED
    BY <1>1, <1>2, <1>3, <1>4, Zenon DEF Exact, Last

LEMMA LineWithoutBreak ==
    ASSUME NEW text \in Seq(Tokens), "nl" \notin Range(text)
    PROVE  text \in Line
<1>1. DOMAIN text = 1 .. Len(text) /\ Len(text) \in Nat /\ text \in [1 .. Len(text) -> Tokens]
    BY LenProperties
<1>2. \A i \in 1 .. Len(text) : text[i] \in Tokens \ {"nl"}
    BY <1>1 DEF Range
<1>3. text = [i \in 1 .. Len(text) |-> text[i]]
    BY <1>1
<1> DEFINE X == Tokens \ {"nl"}
           n == Len(text)
<1> HIDE DEF X, n
<1>4. [i \in 1 .. n |-> text[i]] \in Seq(X)
    BY <1>1, <1>2 DEF X, n
<1> QED
    BY <1>3, <1>4 DEF Line, X, n

LEMMA EditInvStep ==
    ASSUME EditInv, [Next]_vars
    PROVE  EditInv'
<1> SUFFICES /\ body' \in Seq(Tokens)
             /\ Exact(last', body', want')
             /\ Addressed(last', body')
             /\ InPlace(last', body')
    BY DEF EditInv, Exact, Addressed, InPlace
<1>0. body \in Seq(Tokens)
    BY DEF EditInv
<1>1. CASE Check
    <2>1. PICK n \in DOMAIN Todos(body), c \in BOOLEAN :
             Store(SetTodoChecked(body, n, c), IF c THEN "check" ELSE "uncheck", n, n, <<>>)
        <3>1. PICK n \in DOMAIN Todos(body) :
                 \/ Store(SetTodoChecked(body, n, TRUE), "check", n, n, <<>>)
                 \/ Store(SetTodoChecked(body, n, FALSE), "uncheck", n, n, <<>>)
            BY <1>1 DEF Check
        <3> QED
            BY <3>1
    <2> DEFINE new == SetTodoChecked(body, n, c)
               do == IF c THEN "check" ELSE "uncheck"
    <2>2. new \in Seq(Tokens) /\ Todos(new) = [Todos(body) EXCEPT ![n].checked = c]
        BY <1>0, CheckedIsRead
    <2>3. Store(new, do, n, n, <<>>)
        BY <2>1
    <2>4. /\ do \in {"check", "uncheck"} /\ (do = "check") = c
          /\ do # "text" /\ do # "append" /\ do # "replace"
        OBVIOUS
    <2> HIDE DEF new, do
    <2>5. /\ body' = new /\ body' \in Seq(Tokens) /\ Exact(last', body', want')
          /\ last' = [do |-> do, at |-> n, to |-> n, text |-> <<>>, from |-> body]
        BY <1>0, <2>2, <2>3, StoreProperties
    <2>6. last'.do = do /\ last'.at = n /\ last'.from = body
        BY <2>5
    <2>7. Addressed(last', body')
        BY <2>2, <2>4, <2>5, <2>6, Zenon DEF Addressed
    <2>8. InPlace(last', body')
        BY <2>4, <2>6 DEF InPlace
    <2> QED
        BY <2>5, <2>7, <2>8
<1>2. CASE Rename
    <2>1. PICK n \in DOMAIN Todos(body), text \in Texts :
             Store(SetTodoText(body, n, text), "text", n, n, text)
        BY <1>2 DEF Rename
    <2> DEFINE new == SetTodoText(body, n, text)
    <2>2. text \in Seq(Tokens)
        BY ContentAssumption
    <2>3. new \in Seq(Tokens) /\ Todos(new) = [Todos(body) EXCEPT ![n].text = Trim(Flat(text))]
        BY <1>0, <2>2, RenamedIsRead
    <2>4. Store(new, "text", n, n, text)
        BY <2>1
    <2> HIDE DEF new
    <2>5. /\ body' = new /\ body' \in Seq(Tokens) /\ Exact(last', body', want')
          /\ last' = [do |-> "text", at |-> n, to |-> n, text |-> text, from |-> body]
        BY <1>0, <2>3, <2>4, StoreProperties
    <2>6. /\ last'.do \notin {"check", "uncheck"}
          /\ last'.do # "append" /\ last'.do # "replace"
          /\ last'.at = n /\ last'.from = body /\ last'.text = text
        BY <2>5
    <2>7. Addressed(last', body')
        BY <2>3, <2>5, <2>6, Zenon DEF Addressed
    <2>8. InPlace(last', body')
        BY <2>6 DEF InPlace
    <2> QED
        BY <2>5, <2>7, <2>8
<1>3. CASE Add
    <2>1. PICK text \in Texts : Store(AppendTodo(body, text), "append", 0, 0, text)
        BY <1>3 DEF Add
    <2> DEFINE new == AppendTodo(body, text)
    <2>2. text \in Seq(Tokens)
        BY ContentAssumption
    <2>3. /\ new \in Seq(Tokens)
          /\ "nl" \notin Range(text) =>
                Todos(new) = Append(Todos(body), [checked |-> FALSE, text |-> NewText(text)])
        BY <1>0, <2>2, AppendedIsRead, LineWithoutBreak
    <2>4. Store(new, "append", 0, 0, text)
        BY <2>1
    <2> HIDE DEF new
    <2>5. /\ body' = new /\ body' \in Seq(Tokens) /\ Exact(last', body', want')
          /\ last' = [do |-> "append", at |-> 0, to |-> 0, text |-> text, from |-> body]
        BY <1>0, <2>3, <2>4, StoreProperties
    <2>6. /\ last'.do \notin {"check", "uncheck"}
          /\ last'.do # "text" /\ last'.do # "replace"
          /\ last'.from = body /\ last'.text = text
        BY <2>5
    <2>7. Addressed(last', body')
        BY <2>3, <2>5, <2>6, Zenon DEF Addressed
    <2>8. InPlace(last', body')
        BY <2>6 DEF InPlace
    <2> QED
        BY <2>5, <2>7, <2>8
<1>4. CASE Untag
    <2>1. PICK tag \in TagTokens : Store(RemoveTag(body, tag), "remove", 0, 0, <<tag>>)
        BY <1>4 DEF Untag
    <2> DEFINE new == RemoveTag(body, tag)
               text == <<tag>>
    <2>2. new \in Seq(Tokens)
        BY <1>0, RemoveTagType
    <2>3. Store(new, "remove", 0, 0, text)
        BY <2>1
    <2> HIDE DEF new, text
    <2>4. /\ body' \in Seq(Tokens) /\ Exact(last', body', want')
          /\ last' = [do |-> "remove", at |-> 0, to |-> 0, text |-> text, from |-> body]
        BY <1>0, <2>2, <2>3, StoreProperties
    <2>5. last'.do \notin {"check", "uncheck", "text", "append", "replace"}
        BY <2>4
    <2> QED
        BY <2>4, <2>5 DEF Addressed, InPlace
<1>5. CASE Tag
    <2>1. PICK tag \in TagTokens : Store(EnsureTag(body, tag), "ensure", 0, 0, <<tag>>)
        BY <1>5 DEF Tag
    <2> DEFINE new == EnsureTag(body, tag)
               text == <<tag>>
    <2>2. new \in Seq(Tokens)
        BY <1>0, EnsureTagType
    <2>3. Store(new, "ensure", 0, 0, text)
        BY <2>1
    <2> HIDE DEF new, text
    <2>4. /\ body' \in Seq(Tokens) /\ Exact(last', body', want')
          /\ last' = [do |-> "ensure", at |-> 0, to |-> 0, text |-> text, from |-> body]
        BY <1>0, <2>2, <2>3, StoreProperties
    <2>5. last'.do \notin {"check", "uncheck", "text", "append", "replace"}
        BY <2>4
    <2> QED
        BY <2>4, <2>5 DEF Addressed, InPlace
<1>6. CASE EditLines
    <2>1. PICK start \in DOMAIN Lines(body), end \in DOMAIN Lines(body), text \in Texts :
             /\ start <= end
             /\ Store(ReplaceLines(body, start, end, text), "replace", start, end, text)
        BY <1>6 DEF EditLines
    <2> DEFINE new == ReplaceLines(body, start, end, text)
    <2>2. text \in Seq(Tokens)
        BY ContentAssumption
    <2>3. /\ new \in Seq(Tokens)
          /\ \/ Replaced(Lines(new), Lines(body), start, end, text)
             \/ new = <<>> /\ start = 1 /\ end = Len(Lines(body)) /\ text = <<>>
        BY <1>0, <2>1, <2>2, ReplacedIsRead
    <2>4. Store(new, "replace", start, end, text)
        BY <2>1
    <2> HIDE DEF new
    <2>5. /\ body' = new /\ body' \in Seq(Tokens) /\ Exact(last', body', want')
          /\ last' = [do |-> "replace", at |-> start, to |-> end, text |-> text, from |-> body]
        BY <1>0, <2>3, <2>4, StoreProperties
    <2>6. /\ last'.do \notin {"check", "uncheck", "text", "append"}
          /\ last'.from = body /\ last'.text = text /\ last'.at = start /\ last'.to = end
        BY <2>5
    <2>7. Addressed(last', body')
        BY <2>6 DEF Addressed
    <2>8. InPlace(last', body')
        BY <2>3, <2>5, <2>6, Zenon DEF InPlace
    <2> QED
        BY <2>5, <2>7, <2>8
<1>7. CASE UNCHANGED <<body, want, last>>
    BY <1>7 DEF EditInv, Exact, Addressed, InPlace
<1> QED
    <2>1. MakeTag \/ UNCHANGED vars => UNCHANGED <<body, want, last>>
        BY DEF MakeTag, vars
    <2> QED
        BY <1>1, <1>2, <1>3, <1>4, <1>5, <1>6, <1>7, <2>1 DEF Next

LEMMA EditInvAlways == Spec => []EditInv
<1>1. Init => EditInv
    BY EditInvInit
<1>2. EditInv /\ [Next]_vars => EditInv'
    BY EditInvStep
<1> QED
    BY <1>1, <1>2, PTL DEF Spec

(* Every edit is stored exactly, as a splice that touches nothing both texts *)
(* share at either end, whatever the bodies and the texts and however many   *)
(* edits there are (SpliceExact; body_splice in content/edits.rs).           *)
THEOREM EditsAreExact == Spec => []SpliceExact
<1>1. EditInv => SpliceExact
    BY DEF EditInv, Exact, SpliceExact
<1> QED
    BY <1>1, EditInvAlways, PTL

(* Checking, renaming and adding a todo do to the list read back from the    *)
(* body what they say and nothing else of it, whatever the body              *)
(* (TodosAddressed; set_todo_checked, set_todo_text and append_todo in       *)
(* content/edits.rs).                                                        *)
THEOREM TodosStayAddressed == Spec => []TodosAddressed
<1>1. EditInv => TodosAddressed
    BY DEF EditInv, Addressed, Flat, TodosAddressed
<1> QED
    BY <1>1, EditInvAlways, PTL

(* Replacing a range of lines leaves the lines around it what and where they *)
(* were, whatever the body, the range and the replacement (LinesReplaced;    *)
(* replace_lines in content/edits.rs).                                       *)
THEOREM LinesStayInPlace == Spec => []LinesReplaced
<1>1. ASSUME EditInv PROVE LinesReplaced
    <2> SUFFICES ASSUME last.do = "replace" PROVE LinesReplaced
        BY DEF LinesReplaced
    <2>1. CASE Replaced(Lines(body), Lines(last.from), last.at, last.to, last.text)
        BY <2>1 DEF Replaced, LinesReplaced
    <2>2. CASE body = <<>> /\ last.at = 1 /\ last.to = Len(Lines(last.from)) /\ last.text = <<>>
        BY <2>2 DEF LinesReplaced
    <2> QED
        BY <1>1, <2>1, <2>2 DEF EditInv, InPlace
<1> QED
    BY <1>1, EditInvAlways, PTL

-----------------------------------------------------------------------------
(* Project tags.                                                           *)

(* The letters of a sequence follow it, character by character.              *)
LEMMA LettersOfNothing == Letters(<<>>) = <<>>
<1> DEFINE I == {i \in DOMAIN <<>> : <<>>[i] \in Kept}
<1>1. I = {}
    OBVIOUS
<1>2. Cardinality(I) = 0
    BY <1>1, FS_EmptySet
<1>3. Letters(<<>>) = [k \in 1 .. Cardinality(I) |-> <<>>[Nth(I, k)]]
    BY DEF Letters, Picked
<1> HIDE DEF I
<1> QED
    BY <1>2, <1>3

LEMMA LettersOfAppend ==
    ASSUME NEW X, NEW t \in Seq(X), NEW c \in X
    PROVE  /\ Letters(t) \in Seq(X)
           /\ Letters(Append(t, c)) =
                 IF c \in Kept THEN Append(Letters(t), c) ELSE Letters(t)
<1> DEFINE n == Len(t)
           u == Append(t, c)
           I == {i \in DOMAIN t : t[i] \in Kept}
           J == {i \in DOMAIN u : u[i] \in Kept}
           k == Cardinality(I)
<1>1. n \in Nat /\ DOMAIN t = 1 .. n
    BY LenProperties
<1>2. /\ Len(u) = n + 1 /\ DOMAIN u = 1 .. n + 1 /\ u[n + 1] = c
      /\ \A i \in 1 .. n : u[i] = t[i] /\ t[i] \in X
    BY <1>1, AppendProperties, ElementOfSeq
<1>3. I \in SUBSET (1 .. n) /\ J \in SUBSET (1 .. n + 1) /\ IsFiniteSet(I) /\ k \in Nat
    <2>1. I \in SUBSET (1 .. n) /\ J \in SUBSET (1 .. n + 1)
        BY <1>1, <1>2
    <2> HIDE DEF I, J
    <2> QED
        BY <1>1, <2>1, UptoProperties
<1>4. J = IF c \in Kept THEN I \cup {n + 1} ELSE I
    <2>1. \A i \in 1 .. n + 1 : i = n + 1 \/ i \in 1 .. n
        BY <1>1
    <2>2. n + 1 \in 1 .. n + 1 /\ n + 1 \notin 1 .. n /\ 1 .. n \subseteq 1 .. n + 1
        BY <1>1
    <2> HIDE DEF n, u
    <2>3. \A i : i \in J <=> i \in I \/ (c \in Kept /\ i = n + 1)
        BY <1>1, <1>2, <2>1, <2>2
    <2> QED
        BY <2>3, Zenon
<1>5. Letters(t) = [i \in 1 .. k |-> t[Nth(I, i)]]
    BY DEF Letters, Picked
<1>6. Letters(u) = [i \in 1 .. Cardinality(J) |-> u[Nth(J, i)]]
    BY DEF Letters, Picked
<1> HIDE DEF I, J, u, n
<1>7. \A i \in 1 .. k : Nth(I, i) \in I /\ Nth(I, i) \in 1 .. n
                        /\ Cardinality(Upto(I, Nth(I, i))) = i
    BY <1>1, <1>3, NthProperties
<1>8. Letters(t) \in Seq(X) /\ Len(Letters(t)) = k
    <2>1. \A i \in 1 .. k : t[Nth(I, i)] \in X
        BY <1>2, <1>7
    <2> HIDE DEF k
    <2> QED
        BY <1>3, <1>5, <2>1
<1>9. CASE c \notin Kept
    <2>1. J = I
        BY <1>4, <1>9
    <2>2. \A i \in 1 .. k : u[Nth(I, i)] = t[Nth(I, i)]
        BY <1>2, <1>7
    <2>3. Letters(u) = Letters(t)
        BY <1>5, <1>6, <2>1, <2>2
    <2> QED
        BY <1>8, <1>9, <2>3 DEF u
<1>10. CASE c \in Kept
    <2>1. J = I \cup {n + 1} /\ n + 1 \notin I
        <3>1. n + 1 \notin 1 .. n
            BY <1>1
        <3> QED
            BY <1>3, <1>4, <1>10, <3>1
    <2>2. Cardinality(J) = k + 1
        BY <1>3, <2>1, FS_AddElement
    <2>3. ASSUME NEW i \in 1 .. k PROVE Nth(J, i) = Nth(I, i)
        <3>1. /\ Nth(I, i) \in I /\ Nth(I, i) \in 1 .. n /\ n + 1 \in Nat
              /\ Cardinality(Upto(I, Nth(I, i))) = i
            BY <1>1, <1>7
        <3>2. ~(n + 1 <= Nth(I, i))
            BY <1>1, <3>1
        <3>3. Upto(J, Nth(I, i)) = Upto(I, Nth(I, i))
            BY <2>1, <3>2, Zenon DEF Upto
        <3>4. Nth(I, i) \in J /\ Cardinality(Upto(J, Nth(I, i))) = i
            BY <2>1, <3>1, <3>3
        <3> QED
            BY <1>3, <3>1, <3>4, NthIs
    <2>4. Nth(J, k + 1) = n + 1
        <3>1. n + 1 \in J /\ n + 1 \in Nat /\ Upto(J, n + 1) = J
            BY <1>1, <1>3, <2>1, UptoProperties
        <3> QED
            BY <1>3, <2>2, <3>1, NthIs
    <2>5. Letters(u) = [i \in 1 .. k + 1 |-> IF i = k + 1 THEN c ELSE t[Nth(I, i)]]
        <3>1. \A i \in 1 .. k + 1 : i = k + 1 \/ i \in 1 .. k
            BY <1>3
        <3>2. \A i \in 1 .. k : i # k + 1 /\ u[Nth(J, i)] = t[Nth(I, i)]
            BY <1>2, <1>3, <1>7, <2>3
        <3>3. \A i \in 1 .. k + 1 : u[Nth(J, i)] = IF i = k + 1 THEN c ELSE t[Nth(I, i)]
            BY <1>2, <2>4, <3>1, <3>2
        <3> HIDE DEF k
        <3> QED
            BY <1>6, <2>2, <3>3
    <2>6. Append(Letters(t), c) = [i \in 1 .. k + 1 |-> IF i = k + 1 THEN c ELSE t[Nth(I, i)]]
        <3>1. Append(Letters(t), c) =
                 [i \in 1 .. k + 1 |-> IF i = k + 1 THEN c ELSE Letters(t)[i]]
            <4> HIDE DEF k
            <4>1. /\ Len(Append(Letters(t), c)) = k + 1
                  /\ Append(Letters(t), c)[k + 1] = c
                  /\ \A i \in 1 .. k : Append(Letters(t), c)[i] = Letters(t)[i]
                  /\ Append(Letters(t), c) \in Seq(X)
                BY <1>3, <1>8, AppendProperties
            <4>2. \A i \in 1 .. k + 1 :
                     Append(Letters(t), c)[i] = IF i = k + 1 THEN c ELSE Letters(t)[i]
                BY <1>3, <4>1
            <4> DEFINE a == Append(Letters(t), c)
                       m == k + 1
            <4>3. a \in Seq(X) /\ Len(a) = m
                BY <4>1
            <4> HIDE DEF a, m
            <4>4. a = [i \in 1 .. m |-> a[i]]
                BY <4>3
            <4> QED
                BY <4>2, <4>4 DEF a, m
        <3>2. \A i \in 1 .. k + 1 : i # k + 1 => i \in 1 .. k
            BY <1>3
        <3> HIDE DEF k
        <3>3. \A i \in 1 .. k : Letters(t)[i] = t[Nth(I, i)]
            BY <1>5
        <3> QED
            BY <3>1, <3>2, <3>3
    <2> QED
        BY <1>8, <1>10, <2>5, <2>6 DEF u
<1> QED
    BY <1>8, <1>9, <1>10

\* A sequence up to i + 1 is that up to i and one more.
LEMMA Prefix ==
    ASSUME NEW X, NEW s \in Seq(X), NEW i \in 0 .. Len(s) - 1
    PROVE  /\ SubSeq(s, 1, i) \in Seq(X) /\ Len(SubSeq(s, 1, i)) = i
           /\ \A j \in 1 .. i : SubSeq(s, 1, i)[j] = s[j]
           /\ i + 1 \in 1 .. Len(s) /\ s[i + 1] \in X
           /\ SubSeq(s, 1, i + 1) = Append(SubSeq(s, 1, i), s[i + 1])
<1>1. Len(s) \in Nat /\ i \in Nat /\ i + 1 \in 1 .. Len(s)
    OBVIOUS
<1>2. \A j \in 1 .. Len(s) : s[j] \in X
    BY ElementOfSeq
<1>3. \A j \in 1 .. i + 1 : s[j] \in X
    BY <1>1, <1>2
<1>4. /\ SubSeq(s, 1, i) \in Seq(X) /\ Len(SubSeq(s, 1, i)) = i
      /\ \A j \in 1 .. i : SubSeq(s, 1, i)[j] = s[j]
    BY <1>1, <1>3, SubSeqProperties
<1>5. /\ SubSeq(s, 1, i + 1) \in Seq(X) /\ Len(SubSeq(s, 1, i + 1)) = i + 1
      /\ \A j \in 1 .. i + 1 : SubSeq(s, 1, i + 1)[j] = s[j]
    BY <1>1, <1>3, SubSeqProperties
<1>6. /\ Append(SubSeq(s, 1, i), s[i + 1]) \in Seq(X)
      /\ Len(Append(SubSeq(s, 1, i), s[i + 1])) = i + 1
      /\ Append(SubSeq(s, 1, i), s[i + 1])[i + 1] = s[i + 1]
      /\ \A j \in 1 .. i : Append(SubSeq(s, 1, i), s[i + 1])[j] = s[j]
    BY <1>1, <1>2, <1>4, AppendProperties
<1>7. \A j \in 1 .. i + 1 : Append(SubSeq(s, 1, i), s[i + 1])[j] = SubSeq(s, 1, i + 1)[j]
    BY <1>1, <1>5, <1>6
<1>8. SubSeq(s, 1, i + 1) = Append(SubSeq(s, 1, i), s[i + 1])
    BY <1>5, <1>6, <1>7, SeqEqual
<1> QED
    BY <1>1, <1>2, <1>4, <1>8

LEMMA LettersOfPrefixed ==
    ASSUME NEW X, NEW p \in X, p \in Kept, NEW t \in Seq(X)
    PROVE  Letters(<<p>> \o t) = <<p>> \o Letters(t)
<1> DEFINE n == Len(t)
           Holds(i) ==
               Letters(<<p>> \o SubSeq(t, 1, i)) = <<p>> \o Letters(SubSeq(t, 1, i))
           T == {i \in Nat : i <= n => Holds(i)}
<1>0. n \in Nat /\ SubSeq(t, 1, n) = t
    BY SubSeqFull
<1>1. 0 \in T
    <2>1. SubSeq(t, 1, 0) = <<>>
        BY SubSeqEmpty
    <2>2. Letters(Append(<<>>, p)) = Append(<<>>, p)
        <3>1. <<>> \in Seq(X)
            OBVIOUS
        <3> QED
            BY <3>1, LettersOfAppend, LettersOfNothing
    <2>3. Append(<<>>, p) = <<p>> /\ <<p>> \o <<>> = <<p>>
        OBVIOUS
    <2> QED
        BY <2>1, <2>2, <2>3, LettersOfNothing
<1>2. ASSUME NEW i \in Nat, i \in T PROVE i + 1 \in T
    <2> SUFFICES ASSUME i + 1 <= n PROVE Holds(i + 1)
        <3> HIDE DEF Holds
        <3> QED
            OBVIOUS
    <2> DEFINE a == SubSeq(t, 1, i)
               c == t[i + 1]
    <2>1. Letters(<<p>> \o a) = <<p>> \o Letters(a)
        <3>1. Holds(i)
            <4> HIDE DEF Holds
            <4> QED
                BY <1>0, <1>2
        <3> QED
            BY <3>1
    <2>2. a \in Seq(X) /\ c \in X /\ SubSeq(t, 1, i + 1) = Append(a, c)
        <3>1. i \in 0 .. Len(t) - 1
            BY <1>0
        <3> QED
            BY <3>1, Prefix
    <2> HIDE DEF a, c
    <2>3. <<p>> \o a \in Seq(X) /\ <<p>> \o Append(a, c) = Append(<<p>> \o a, c)
        BY <2>2
    <2>4. Letters(a) \in Seq(X)
        BY <2>2, LettersOfAppend
    <2>5. Letters(Append(a, c)) = IF c \in Kept THEN Append(Letters(a), c) ELSE Letters(a)
        BY <2>2, LettersOfAppend
    <2>6. Letters(Append(<<p>> \o a, c)) =
             IF c \in Kept THEN Append(<<p>> \o Letters(a), c) ELSE <<p>> \o Letters(a)
        BY <2>1, <2>2, <2>3, LettersOfAppend
    <2>7. <<p>> \o Append(Letters(a), c) = Append(<<p>> \o Letters(a), c)
        BY <2>2, <2>4
    <2> QED
        BY <2>2, <2>3, <2>5, <2>6, <2>7
<1>3. n \in T
    <2> HIDE DEF T
    <2> QED
        BY <1>0, <1>1, <1>2, AllNumbers
<1>4. Holds(n)
    <2> HIDE DEF Holds
    <2> QED
        BY <1>0, <1>3
<1> QED
    BY <1>0, <1>4

\* Where an end is trimmed.
LEMMA TrimEndIs ==
    ASSUME NEW X, NEW s \in Seq(X), NEW S, NEW k \in 0 .. Len(s),
           k > 0 => s[k] \notin S, \A i \in k + 1 .. Len(s) : s[i] \in S
    PROVE  TrimEnd(s, S) = SubSeq(s, 1, k)
<1> DEFINE r == Reverse(s)
           n == Len(s)
<1>1. n \in Nat /\ DOMAIN s = 1 .. n /\ \A i \in 1 .. n : s[i] \in X
    BY LenProperties, ElementOfSeq
<1>2. r \in Seq(X) /\ Len(r) = n /\ \A i \in 1 .. n : r[i] = s[n - i + 1]
    <2>1. r = [i \in 1 .. n |-> s[(n - i) + 1]]
        BY DEF Reverse
    <2>2. \A i \in 1 .. n : s[(n - i) + 1] \in X
        BY <1>1
    <2> QED
        BY <1>1, <2>1, <2>2
<1> HIDE DEF r
<1>3. First(r, S) = n - k + 1
    <2>1. n - k + 1 \in 1 .. Len(r) + 1
        BY <1>1, <1>2
    <2>2. n - k + 1 <= Len(r) => r[n - k + 1] \notin S
        <3> SUFFICES ASSUME k > 0 PROVE r[n - k + 1] \notin S
            BY <1>1, <1>2
        <3>1. n - k + 1 \in 1 .. n /\ n - (n - k + 1) + 1 = k
            BY <1>1
        <3> QED
            BY <1>2, <3>1
    <2>3. ASSUME NEW i \in 1 .. (n - k + 1) - 1 PROVE r[i] \in S
        <3>1. i \in 1 .. n /\ n - i + 1 \in k + 1 .. n
            BY <1>1
        <3> QED
            BY <1>2, <3>1
    <2> HIDE DEF n
    <2> QED
        BY <1>2, <2>1, <2>2, <2>3, FirstIs
<1>4. n + 1 - (n - k + 1) = k
    BY <1>1
<1> QED
    BY <1>3, <1>4 DEF TrimEnd, r

\* What a slug is made of, and what is known of it while it grows: no separator
\* comes first or twice.
Sep == "_"
TagChars == Kept \cup {Sep}
Accs == [out : Seq(TagChars), sep : BOOLEAN]

Settled(t) ==
    /\ t \in Seq(TagChars)
    /\ t # <<>> => t[1] # Sep
    /\ \A i \in 1 .. Len(t) - 1 : t[i] # Sep \/ t[i + 1] # Sep

Ends(t) == t # <<>> /\ t[Len(t)] = Sep

Begun == [out |-> <<>>, sep |-> FALSE]
Further(f, s, i) == IF i = 0 THEN Begun ELSE Slugged(f[i - 1], s[i])

Slugs(f, s) ==
    /\ f[0] = Begun
    /\ \A i \in 1 .. Len(s) : f[i] = Slugged(f[i - 1], s[i])

LEMMA SluggedIs ==
    ASSUME NEW a, NEW c
    PROVE  Slugged(a, c) =
             IF Lower(c) \in Kept
             THEN [out |-> Append(a.out, Lower(c)), sep |-> FALSE]
             ELSE IF c \in {"-", Sep} /\ ~a.sep /\ a.out # <<>>
                  THEN [out |-> Append(a.out, Sep), sep |-> TRUE]
             ELSE a
BY Zenon DEF Slugged, Sep

LEMMA Separator == Sep \in TagChars /\ Sep \notin Kept
BY Zenon DEF Kept, TagChars, Sep

LEMMA Characters ==
    ASSUME NEW c \in Chars
    PROVE  /\ Lower(c) \in Kept => Lower(c) \in TagChars
           /\ c \in TagChars => c # "A" /\ Lower(c) = c /\ (c \in Kept <=> c # Sep)
           /\ TagChars \subseteq Chars
           /\ Lower(c) # Sep \/ c = Sep
BY Zenon DEF Lower, Kept, TagChars, Chars, Sep

LEMMA SluggedType ==
    ASSUME NEW a \in Accs, NEW c \in Chars
    PROVE  Slugged(a, c) \in Accs
<1>1. a.out \in Seq(TagChars)
    BY DEF Accs
<1>2. CASE Lower(c) \in Kept
    <2>1. Append(a.out, Lower(c)) \in Seq(TagChars)
        BY <1>1, <1>2, Characters, AppendProperties
    <2> QED
        BY <1>2, <2>1, SluggedIs DEF Accs
<1>3. CASE Lower(c) \notin Kept
    <2>1. Sep \in TagChars
        BY Separator
    <2>2. Append(a.out, Sep) \in Seq(TagChars)
        BY <1>1, <2>1, AppendProperties
    <2> QED
        BY <1>3, <2>2, SluggedIs DEF Accs
<1> QED
    BY <1>2, <1>3

\* Slugify is where the equations end.
LEMMA SlugifyIs ==
    ASSUME NEW s \in Seq(Chars)
    PROVE  \E f \in [0 .. Len(s) -> Accs] :
               Slugs(f, s) /\ Slugify(s) = TrimEnd(f[Len(s)].out, {Sep})
<1> DEFINE n == Len(s)
           step == [a \in Accs \X (1 .. n) |-> Slugged(a[1], s[a[2]])]
           rec(g) == [i \in 0 .. n |-> Further(g, s, i)]
           upTo == CHOOSE g : g = rec(g)
<1>1. n \in Nat /\ Begun \in Accs /\ \A i \in 1 .. n : s[i] \in Chars
    <2>1. Begun \in Accs
        BY DEF Begun, Accs
    <2> QED
        BY <2>1, LenProperties, ElementOfSeq
<1>2. \A a \in Accs, i \in 1 .. n : Slugged(a, s[i]) \in Accs
    BY <1>1, SluggedType
<1>3. step \in [Accs \X (1 .. n) -> Accs]
    BY <1>2
<1>4. \A a \in Accs, i \in 1 .. n : step[<<a, i>>] = Slugged(a, s[i])
    OBVIOUS
<1>5. PICK h \in [0 .. n -> Accs] : Follows(h, Begun, n, step)
    <2> HIDE DEF n, step
    <2> QED
        BY <1>1, <1>3, Recursion
<1> HIDE DEF step
<1>6. \A i \in 0 .. n : h[i] = Further(h, s, i)
    <2>1. \A i \in 0 .. n : i = 0 \/ (i \in 1 .. n /\ i - 1 \in 0 .. n)
        BY <1>1
    <2> QED
        BY <1>4, <1>5, <2>1 DEF Follows, Further
<1>7. h = rec(h)
    BY <1>5, <1>6
<1>8. upTo = rec(upTo)
    BY <1>7
<1> HIDE DEF upTo
<1>9. /\ DOMAIN upTo = 0 .. n /\ upTo[0] = Begun
      /\ \A i \in 1 .. n : upTo[i] = Slugged(upTo[i - 1], s[i])
    <2>1. \A i \in 0 .. n : upTo[i] = Further(upTo, s, i)
        BY <1>8
    <2>2. 0 \in 0 .. n /\ \A i \in 1 .. n : i \in 0 .. n /\ i # 0
        BY <1>1
    <2> QED
        BY <1>8, <2>1, <2>2 DEF Further
<1>10. \A i \in 0 .. n : upTo[i] \in Accs
    <2> DEFINE T == {i \in Nat : i <= n => upTo[i] \in Accs}
    <2>1. 0 \in T
        BY <1>1, <1>9
    <2>2. ASSUME NEW i \in Nat, i \in T PROVE i + 1 \in T
        <3> SUFFICES ASSUME i + 1 <= n PROVE upTo[i + 1] \in Accs
            OBVIOUS
        <3>1. upTo[i] \in Accs /\ i + 1 \in 1 .. n /\ (i + 1) - 1 = i
            BY <1>1, <2>2
        <3> QED
            BY <1>2, <1>9, <3>1
    <2>3. Nat \subseteq T
        <3> HIDE DEF T
        <3> QED
            BY <2>1, <2>2, AllNumbers
    <2> QED
        BY <2>3
<1>11. upTo \in [0 .. n -> Accs]
    <2>1. upTo = [i \in 0 .. n |-> upTo[i]]
        BY <1>8, <1>9
    <2> QED
        BY <1>10, <2>1
<1>12. Slugs(upTo, s)
    BY <1>9 DEF Slugs
<1>13. Slugify(s) = TrimEnd(upTo[n].out, {Sep})
    BY DEF Slugify, Further, Begun, Sep, upTo
<1> QED
    BY <1>11, <1>12, <1>13

\* One more character keeps a sequence settled, unless it is a second separator.
LEMMA OneMore ==
    ASSUME NEW t, Settled(t), NEW d \in TagChars, d = Sep => t # <<>> /\ ~Ends(t)
    PROVE  /\ Settled(Append(t, d)) /\ (d = Sep <=> Ends(Append(t, d)))
           /\ Letters(Append(t, d)) =
                 IF d \in Kept THEN Append(Letters(t), d) ELSE Letters(t)
<1> DEFINE n == Len(t)
           u == Append(t, d)
<1>1. t \in Seq(TagChars)
    BY DEF Settled
<1>2. /\ n \in Nat /\ (n = 0 <=> t = <<>>)
      /\ Len(u) = n + 1 /\ u[n + 1] = d /\ u \in Seq(TagChars) /\ u # <<>>
      /\ \A i \in 1 .. n : u[i] = t[i]
    BY <1>1
<1>3. /\ t # <<>> => t[1] # Sep
      /\ \A i \in 1 .. n - 1 : t[i] # Sep \/ t[i + 1] # Sep
      /\ Ends(t) <=> t # <<>> /\ t[n] = Sep
    BY DEF Settled, Ends
<1> HIDE DEF n, u
<1>4. u[1] # Sep
    <2>1. CASE n = 0
        BY <1>2, <2>1
    <2>2. CASE n # 0
        <3>1. 1 \in 1 .. n
            BY <1>2, <2>2
        <3> QED
            BY <1>2, <1>3, <2>2, <3>1
    <2> QED
        BY <2>1, <2>2
<1>5. ASSUME NEW i \in 1 .. Len(u) - 1 PROVE u[i] # Sep \/ u[i + 1] # Sep
    <2>1. i \in 1 .. n
        BY <1>2
    <2>2. CASE i = n
        <3>1. t # <<>> /\ u[i] = t[n] /\ u[i + 1] = d
            BY <1>2, <2>1, <2>2
        <3> QED
            BY <1>3, <3>1
    <2>3. CASE i # n
        <3>1. i \in 1 .. n - 1 /\ i + 1 \in 1 .. n
            BY <1>2, <2>1, <2>3
        <3> QED
            BY <1>2, <1>3, <2>1, <3>1
    <2> QED
        BY <2>2, <2>3
<1>6. Settled(u) /\ (d = Sep <=> Ends(u))
    BY <1>2, <1>4, <1>5 DEF Settled, Ends
<1>7. Letters(Append(t, d)) = IF d \in Kept THEN Append(Letters(t), d) ELSE Letters(t)
    BY <1>1, LettersOfAppend
<1> QED
    BY <1>6, <1>7 DEF u

\* One more character keeps a slug settled, and a separator in mind.
LEMMA SluggedSettles ==
    ASSUME NEW a \in Accs, Settled(a.out), a.sep <=> Ends(a.out), NEW c \in Chars
    PROVE  LET b == Slugged(a, c)
           IN  /\ Settled(b.out) /\ (b.sep <=> Ends(b.out))
               /\ Letters(b.out) = IF Lower(c) \in Kept THEN Append(Letters(a.out), Lower(c))
                                   ELSE Letters(a.out)
<1> DEFINE t == a.out
<1>1. Settled(t) /\ (a.sep <=> Ends(t))
    OBVIOUS
<1>2. Sep \notin Kept /\ Sep \in TagChars
    BY Separator
<1> HIDE DEF t
<1>3. ASSUME NEW d \in TagChars, d = Sep => t # <<>> /\ ~a.sep
      PROVE  /\ Settled(Append(t, d)) /\ (d = Sep <=> Ends(Append(t, d)))
             /\ Letters(Append(t, d)) =
                   IF d \in Kept THEN Append(Letters(t), d) ELSE Letters(t)
    BY <1>1, <1>3, OneMore
<1>4. CASE Lower(c) \in Kept
    <2>1. Lower(c) \in TagChars /\ Lower(c) # Sep
        BY <1>2, <1>4, Characters
    <2>2. Slugged(a, c) = [out |-> Append(t, Lower(c)), sep |-> FALSE]
        BY <1>4, SluggedIs DEF t
    <2>3. Slugged(a, c).out = Append(t, Lower(c)) /\ ~Slugged(a, c).sep
        BY <2>2
    <2>4. /\ Settled(Append(t, Lower(c))) /\ ~Ends(Append(t, Lower(c)))
          /\ Letters(Append(t, Lower(c))) = Append(Letters(t), Lower(c))
        BY <1>3, <1>4, <2>1
    <2> QED
        BY <1>4, <2>3, <2>4 DEF t
<1>5. CASE Lower(c) \notin Kept /\ c \in {"-", Sep} /\ ~a.sep /\ t # <<>>
    <2>1. Slugged(a, c) = [out |-> Append(t, Sep), sep |-> TRUE]
        BY <1>5, SluggedIs DEF t
    <2>2. Slugged(a, c).out = Append(t, Sep) /\ Slugged(a, c).sep
        BY <2>1
    <2>3. /\ Settled(Append(t, Sep)) /\ Ends(Append(t, Sep))
          /\ Letters(Append(t, Sep)) = Letters(t)
        BY <1>2, <1>3, <1>5
    <2> QED
        BY <1>5, <2>2, <2>3 DEF t
<1>6. CASE Lower(c) \notin Kept /\ ~(c \in {"-", Sep} /\ ~a.sep /\ t # <<>>)
    <2>1. Slugged(a, c) = a
        BY <1>6, SluggedIs DEF t
    <2> QED
        BY <1>6, <2>1
<1> QED
    BY <1>4, <1>5, <1>6

\* A name in lower case.
Lowered(s) == [i \in DOMAIN s |-> Lower(s[i])]

LEMMA LoweredType ==
    ASSUME NEW s \in Seq(Chars)
    PROVE  /\ Lowered(s) \in Seq(Chars) /\ Len(Lowered(s)) = Len(s)
           /\ \A i \in 1 .. Len(s) : Lowered(s)[i] = Lower(s[i])
<1>1. Len(s) \in Nat /\ DOMAIN s = 1 .. Len(s) /\ \A i \in 1 .. Len(s) : s[i] \in Chars
    BY LenProperties, ElementOfSeq
<1>2. \A c \in Chars : Lower(c) \in Chars
    BY Zenon DEF Lower, Chars, Kept
<1>3. \A i \in 1 .. Len(s) : Lower(s[i]) \in Chars
    BY <1>1, <1>2
<1>4. Lowered(s) = [i \in 1 .. Len(s) |-> Lower(s[i])]
    BY <1>1 DEF Lowered
<1> QED
    BY <1>1, <1>3, <1>4

\* The slug of a name is settled, ends in no separator, and has its letters.
LEMMA SlugifySettles ==
    ASSUME NEW s \in Seq(Chars)
    PROVE  /\ Settled(Slugify(s)) /\ ~Ends(Slugify(s))
           /\ Letters(Slugify(s)) = Letters(Lowered(s))
<1> DEFINE n == Len(s)
           w == Lowered(s)
<1>1. PICK f \in [0 .. n -> Accs] : Slugs(f, s) /\ Slugify(s) = TrimEnd(f[n].out, {Sep})
    BY SlugifyIs
<1>2. /\ n \in Nat /\ w \in Seq(Chars) /\ Len(w) = n
      /\ \A i \in 1 .. n : s[i] \in Chars /\ w[i] = Lower(s[i])
    BY LoweredType, ElementOfSeq
<1> DEFINE Good(i) == /\ Settled(f[i].out) /\ (f[i].sep <=> Ends(f[i].out))
                      /\ Letters(f[i].out) = Letters(SubSeq(w, 1, i))
           T == {i \in Nat : i <= n => Good(i)}
<1> HIDE DEF n, w
<1>3. Good(0)
    <2>1. f[0].out = <<>> /\ ~f[0].sep
        BY <1>1 DEF Slugs, Begun
    <2>2. Settled(<<>>) /\ ~Ends(<<>>)
        BY DEF Settled, Ends
    <2>3. SubSeq(w, 1, 0) = <<>>
        BY SubSeqEmpty
    <2> QED
        BY <2>1, <2>2, <2>3
<1>4. ASSUME NEW i \in Nat, i + 1 <= n, Good(i) PROVE Good(i + 1)
    <2> DEFINE a == f[i]
               c == s[i + 1]
    <2>1. i \in 0 .. n /\ i + 1 \in 1 .. n /\ (i + 1) - 1 = i
        BY <1>2, <1>4
    <2>2. a \in Accs /\ c \in Chars /\ f[i + 1] = Slugged(a, c) /\ w[i + 1] = Lower(c)
        BY <1>1, <1>2, <2>1 DEF Slugs, n
    <2>3. /\ Settled(a.out) /\ (a.sep <=> Ends(a.out))
          /\ Letters(a.out) = Letters(SubSeq(w, 1, i))
        BY <1>4
    <2> HIDE DEF a, c
    <2>4. LET b == Slugged(a, c)
          IN  /\ Settled(b.out) /\ (b.sep <=> Ends(b.out))
              /\ Letters(b.out) = IF Lower(c) \in Kept THEN Append(Letters(a.out), Lower(c))
                                  ELSE Letters(a.out)
        BY <2>2, <2>3, SluggedSettles
    <2>5. /\ SubSeq(w, 1, i) \in Seq(Chars) /\ w[i + 1] \in Chars
          /\ SubSeq(w, 1, i + 1) = Append(SubSeq(w, 1, i), w[i + 1])
        <3>1. i \in 0 .. Len(w) - 1
            BY <1>2, <2>1
        <3> QED
            BY <1>2, <3>1, Prefix
    <2>6. Letters(SubSeq(w, 1, i + 1)) =
             IF Lower(c) \in Kept THEN Append(Letters(SubSeq(w, 1, i)), Lower(c))
             ELSE Letters(SubSeq(w, 1, i))
        <3> DEFINE p == SubSeq(w, 1, i)
                   d == w[i + 1]
        <3>1. p \in Seq(Chars) /\ d \in Chars /\ SubSeq(w, 1, i + 1) = Append(p, d)
            BY <2>5
        <3>2. d = Lower(c)
            BY <2>2
        <3> HIDE DEF p, d
        <3>3. Letters(Append(p, d)) = IF d \in Kept THEN Append(Letters(p), d) ELSE Letters(p)
            BY <3>1, LettersOfAppend
        <3> QED
            BY <3>1, <3>2, <3>3 DEF p
    <2> QED
        BY <2>2, <2>3, <2>4, <2>6
<1>5. Good(n)
    <2> HIDE DEF Good
    <2>1. 0 \in T
        BY <1>3
    <2>2. ASSUME NEW i \in Nat, i \in T PROVE i + 1 \in T
        BY <1>2, <1>4, <2>2
    <2>3. Nat \subseteq T
        <3> HIDE DEF T
        <3> QED
            BY <2>1, <2>2, AllNumbers
    <2> QED
        BY <1>2, <2>3
<1> DEFINE t == f[n].out
           u == TrimEnd(t, {Sep})
           m == Len(t)
<1>6. Settled(t) /\ Letters(t) = Letters(w)
    <2>1. SubSeq(w, 1, n) = w
        BY <1>2, SubSeqFull
    <2> QED
        BY <1>5, <2>1
<1>7. Slugify(s) = u
    BY <1>1
<1> HIDE DEF t, Good, T
<1>8. /\ t \in Seq(TagChars) /\ m \in Nat /\ (m = 0 <=> t = <<>>)
      /\ (m > 0 => t[1] # Sep)
      /\ \A i \in 1 .. m - 1 : t[i] # Sep \/ t[i + 1] # Sep
      /\ \A i \in 1 .. m : t[i] \in TagChars
    <2>1. t \in Seq(TagChars)
        BY <1>6 DEF Settled
    <2> QED
        BY <1>6, <2>1, LenProperties, EmptySeq, ElementOfSeq DEF Settled
<1>9. CASE ~Ends(t)
    <2>1. m > 0 => t[m] \notin {Sep}
        BY <1>8, <1>9 DEF Ends
    <2>2. m \in 0 .. Len(t) /\ \A i \in m + 1 .. Len(t) : t[i] \in {Sep}
        BY <1>8
    <2>3. u = SubSeq(t, 1, m)
        BY <1>8, <2>1, <2>2, TrimEndIs
    <2>4. u = t
        BY <1>8, <2>3, SubSeqFull
    <2> QED
        BY <1>6, <1>7, <1>9, <2>4 DEF w
<1>10. CASE Ends(t)
    <2> DEFINE k == m - 1
    <2>1. m > 0 /\ t[m] = Sep
        BY <1>8, <1>10 DEF Ends
    <2>2. k \in 0 .. Len(t) - 1 /\ k \in 1 .. m - 1 /\ k + 1 = m
        BY <1>8, <2>1
    <2>3. t[k] # Sep
        BY <1>8, <2>1, <2>2
    <2> HIDE DEF k, m
    <2>4. u = SubSeq(t, 1, k)
        <3>1. k \in 0 .. Len(t) /\ \A i \in k + 1 .. Len(t) : t[i] \in {Sep}
            <4>1. \A i \in k + 1 .. Len(t) : i = m
                BY <1>8, <2>2 DEF m
            <4>2. k \in 0 .. Len(t)
                BY <1>8, <2>2 DEF m
            <4> QED
                BY <2>1, <4>1, <4>2
        <3>2. t[k] \notin {Sep}
            BY <2>3
        <3> QED
            BY <1>8, <3>1, <3>2, TrimEndIs
    <2>5. /\ u \in Seq(TagChars) /\ Len(u) = k /\ \A j \in 1 .. k : u[j] = t[j]
          /\ SubSeq(t, 1, k + 1) = Append(u, t[k + 1])
        <3>1. /\ SubSeq(t, 1, k) \in Seq(TagChars) /\ Len(SubSeq(t, 1, k)) = k
              /\ \A j \in 1 .. k : SubSeq(t, 1, k)[j] = t[j]
              /\ SubSeq(t, 1, k + 1) = Append(SubSeq(t, 1, k), t[k + 1])
            BY <1>8, <2>2, Prefix
        <3> QED
            BY <2>4, <3>1
    <2> HIDE DEF u
    <2>6. Append(u, Sep) = t
        <3>1. SubSeq(t, 1, m) = t
            BY <1>8, SubSeqFull DEF m
        <3> QED
            BY <2>1, <2>2, <2>5, <3>1
    <2>7. Letters(t) = Letters(u)
        <3>1. Sep \in TagChars /\ Sep \notin Kept
            BY Separator
        <3>2. Letters(Append(u, Sep)) = Letters(u)
            BY <2>5, <3>1, LettersOfAppend
        <3> QED
            BY <2>6, <3>2
    <2>8. ~Ends(u)
        BY <2>2, <2>3, <2>5 DEF Ends
    <2>9. Settled(u)
        <3>1. 1 \in 1 .. k /\ u[1] # Sep
            BY <1>8, <2>1, <2>2, <2>5
        <3>2. \A i \in 1 .. k - 1 : u[i] # Sep \/ u[i + 1] # Sep
            <4>1. \A i \in 1 .. k - 1 : i \in 1 .. k /\ i + 1 \in 1 .. k /\ i \in 1 .. m - 1
                BY <1>8, <2>2
            <4> QED
                BY <1>8, <2>5, <4>1
        <3> QED
            BY <2>5, <3>1, <3>2 DEF Settled
    <2> QED
        BY <1>6, <1>7, <2>7, <2>8, <2>9 DEF w
<1> QED
    BY <1>9, <1>10

\* A slug is its own slug.
LEMMA SlugifyAgain ==
    ASSUME NEW s, Settled(s), ~Ends(s)
    PROVE  Slugify(s) = s
<1> DEFINE n == Len(s)
<1>1. /\ s \in Seq(TagChars) /\ s \in Seq(Chars) /\ n \in Nat
      /\ \A i \in 1 .. n : s[i] \in TagChars /\ s[i] \in Chars
    <2>1. s \in Seq(TagChars)
        BY DEF Settled
    <2>2. TagChars \subseteq Chars
        BY Zenon DEF TagChars, Chars, Sep
    <2>3. s \in Seq(Chars)
        BY <2>1, <2>2
    <2> QED
        BY <2>1, <2>3, ElementOfSeq
<1>2. PICK f \in [0 .. n -> Accs] : Slugs(f, s) /\ Slugify(s) = TrimEnd(f[n].out, {Sep})
    BY <1>1, SlugifyIs
<1>3. /\ n > 0 => s[1] # Sep /\ s[n] # Sep
      /\ \A i \in 1 .. n - 1 : s[i] # Sep \/ s[i + 1] # Sep
    BY <1>1, EmptySeq DEF Settled, Ends
<1> DEFINE Good(i) == f[i].out = SubSeq(s, 1, i) /\ (f[i].sep <=> i > 0 /\ s[i] = Sep)
           T == {i \in Nat : i <= n => Good(i)}
<1>4. Good(0)
    <2>1. f[0].out = <<>> /\ ~f[0].sep
        BY <1>2 DEF Slugs, Begun
    <2> QED
        BY <2>1, SubSeqEmpty
<1>5. ASSUME NEW i \in Nat, i + 1 <= n, Good(i) PROVE Good(i + 1)
    <2> DEFINE c == s[i + 1]
               p == SubSeq(s, 1, i)
    <2>1. i \in 0 .. n - 1 /\ i + 1 \in 1 .. n /\ (i + 1) - 1 = i
        BY <1>1, <1>5
    <2>2. /\ p \in Seq(TagChars) /\ Len(p) = i /\ c \in TagChars /\ c \in Chars
          /\ SubSeq(s, 1, i + 1) = Append(p, c)
        BY <1>1, <2>1, Prefix
    <2>3. f[i + 1] = Slugged(f[i], c) /\ f[i].out = p /\ (f[i].sep <=> i > 0 /\ s[i] = Sep)
        BY <1>2, <1>5, <2>1 DEF Slugs
    <2>4. Lower(c) = c /\ (c \in Kept <=> c # Sep)
        BY <2>2, Characters
    <2>5. c = Sep => i > 0 /\ s[i] # Sep
        <3> SUFFICES ASSUME c = Sep PROVE i > 0 /\ s[i] # Sep
            OBVIOUS
        <3>1. i # 0
            BY <1>1, <1>3, <2>1
        <3>2. i \in 1 .. n - 1
            BY <1>1, <2>1, <3>1
        <3> QED
            BY <1>3, <3>2
    <2>6. c = Sep => p # <<>>
        BY <2>2, <2>5, EmptySeq
    <2> HIDE DEF c, p
    <2>7. f[i + 1].out = Append(p, c) /\ (f[i + 1].sep <=> c = Sep)
        <3>1. CASE c \in Kept
            <4>1. f[i + 1] = [out |-> Append(p, c), sep |-> FALSE]
                BY <2>3, <2>4, <3>1, SluggedIs
            <4> QED
                BY <2>4, <3>1, <4>1
        <3>2. CASE c \notin Kept
            <4>1. c = Sep /\ ~f[i].sep /\ p # <<>>
                BY <2>3, <2>4, <2>5, <2>6, <3>2
            <4>2. f[i + 1] = [out |-> Append(p, c), sep |-> TRUE]
                BY <2>3, <2>4, <3>2, <4>1, SluggedIs
            <4> QED
                BY <4>1, <4>2
        <3> QED
            BY <3>1, <3>2
    <2>8. i + 1 > 0
        OBVIOUS
    <2>9. f[i + 1].out = SubSeq(s, 1, i + 1) /\ (f[i + 1].sep <=> s[i + 1] = Sep)
        BY <2>2, <2>7 DEF c
    <2> QED
        BY <2>8, <2>9
<1>6. Good(n)
    <2> HIDE DEF Good
    <2>1. 0 \in T
        BY <1>4
    <2>2. ASSUME NEW i \in Nat, i \in T PROVE i + 1 \in T
        BY <1>1, <1>5, <2>2
    <2>3. Nat \subseteq T
        <3> HIDE DEF T
        <3> QED
            BY <2>1, <2>2, AllNumbers
    <2> QED
        BY <1>1, <2>3
<1>7. f[n].out = s
    BY <1>1, <1>6, SubSeqFull
<1>8. TrimEnd(s, {Sep}) = SubSeq(s, 1, n)
    <2>1. n \in 0 .. Len(s) /\ (n > 0 => s[n] \notin {Sep})
        BY <1>1, <1>3
    <2>2. \A i \in n + 1 .. Len(s) : s[i] \in {Sep}
        BY <1>1
    <2> QED
        BY <1>1, <2>1, <2>2, TrimEndIs
<1> QED
    BY <1>1, <1>2, <1>7, <1>8, SubSeqFull

(* The tag of a name is made once: what ToTag gives is its own tag, with no  *)
(* separator first, last or twice, and with all letters of the name.         *)
LEMMA ToTagSettles ==
    ASSUME NEW s \in Seq(Chars), ToTag(s) # <<>>
    PROVE  LET g == ToTag(s)
           IN  /\ ToTag(g) = g
               /\ Last(g) # Sep /\ g[2] # Sep
               /\ \A i \in 1 .. Len(g) - 1 : g[i] # Sep \/ g[i + 1] # Sep
               /\ Letters(g) = <<"P">> \o Letters(Bare(Lowered(s)))
<1> DEFINE r == Bare(s)
           t == Slugify(r)
           p == "P"
           g == <<p>> \o t
<1>1. /\ Len(s) \in Nat /\ DOMAIN s = 1 .. Len(s)
      /\ Len(Lowered(s)) = Len(s) /\ \A i \in 1 .. Len(s) : Lowered(s)[i] = Lower(s[i])
      /\ Lowered(s) \in Seq(Chars)
    BY LoweredType
<1>2. p \in Kept /\ p # Sep
    BY Zenon DEF Kept, Sep
<1>3. r \in Seq(Chars) /\ Bare(Lowered(s)) = Lowered(r)
    <2>1. \A c \in Chars : Lower(c) = "P" <=> c = "P"
        BY DEF Lower, Chars, Kept
    <2>2. CASE s = <<>>
        <3>1. r = <<>>
            BY <2>2 DEF Bare
        <3>2. Lowered(<<>>) = <<>>
            BY DEF Lowered
        <3> QED
            BY <2>2, <3>1, <3>2 DEF Bare
    <2>3. CASE s # <<>>
        <3>1. Len(s) > 0 /\ 1 \in 1 .. Len(s) /\ Lowered(s) # <<>> /\ s[1] \in Chars
            BY <1>1, <2>3, EmptySeq, ElementOfSeq
        <3>2. Head(s) = s[1] /\ Head(Lowered(s)) = Lower(s[1])
            BY <1>1, <2>3, <3>1
        <3>3. CASE s[1] = "P"
            <4>1. r = Tail(s) /\ Bare(Lowered(s)) = Tail(Lowered(s))
                BY <2>1, <2>3, <3>1, <3>2, <3>3, Zenon DEF Bare
            <4>2. /\ Tail(s) \in Seq(Chars) /\ Len(Tail(s)) = Len(s) - 1
                  /\ \A i \in 1 .. Len(s) - 1 : Tail(s)[i] = s[i + 1]
                BY <2>3, HeadTailProperties
            <4>3. /\ Tail(Lowered(s)) \in Seq(Chars) /\ Len(Tail(Lowered(s))) = Len(s) - 1
                  /\ \A i \in 1 .. Len(s) - 1 : Tail(Lowered(s))[i] = Lowered(s)[i + 1]
                BY <1>1, <3>1, HeadTailProperties
            <4>4. /\ Lowered(Tail(s)) \in Seq(Chars) /\ Len(Lowered(Tail(s))) = Len(s) - 1
                  /\ \A i \in 1 .. Len(s) - 1 : Lowered(Tail(s))[i] = Lower(Tail(s)[i])
                BY <4>2, LoweredType
            <4>5. \A i \in 1 .. Len(s) - 1 : Lowered(Tail(s))[i] = Tail(Lowered(s))[i]
                <5>1. \A i \in 1 .. Len(s) - 1 : i + 1 \in 1 .. Len(s)
                    BY <1>1
                <5> QED
                    BY <1>1, <4>2, <4>3, <4>4, <5>1
            <4>6. Lowered(Tail(s)) = Tail(Lowered(s))
                BY <4>3, <4>4, <4>5, SeqEqual
            <4> QED
                BY <4>1, <4>2, <4>6
        <3>4. CASE s[1] # "P"
            <4>1. r = s /\ Bare(Lowered(s)) = Lowered(s)
                BY <2>1, <2>3, <3>1, <3>2, <3>4, Zenon DEF Bare
            <4> QED
                BY <4>1
        <3> QED
            BY <3>3, <3>4
    <2> QED
        BY <2>2, <2>3
<1> HIDE DEF r
<1>4. Settled(t) /\ ~Ends(t) /\ Letters(t) = Letters(Lowered(r))
    BY <1>3, SlugifySettles
<1>5. t # <<>> /\ ToTag(s) = g
    <2>1. ToTag(s) = IF t = <<>> THEN <<>> ELSE g
        BY Zenon DEF ToTag, r
    <2> QED
        BY <2>1
<1>6. Slugify(t) = t
    BY <1>4, SlugifyAgain
<1> HIDE DEF t
<1>7. /\ t \in Seq(TagChars) /\ Len(t) \in Nat /\ Len(t) > 0
      /\ t[1] # Sep /\ t[Len(t)] # Sep
      /\ \A i \in 1 .. Len(t) - 1 : t[i] # Sep \/ t[i + 1] # Sep
    <2>1. t \in Seq(TagChars)
        BY <1>4 DEF Settled
    <2> QED
        BY <1>4, <1>5, <2>1, EmptySeq, LenProperties DEF Settled, Ends
<1>8. p \in TagChars
    BY <1>2 DEF TagChars
<1>9. Letters(g) = <<p>> \o Letters(t)
    BY <1>2, <1>7, <1>8, LettersOfPrefixed
<1>10. ToTag(g) = g
    <2>1. g # <<>> /\ Head(g) = p /\ Tail(g) = t
        BY <1>7
    <2>2. Bare(g) = t
        BY <2>1, Zenon DEF Bare
    <2> QED
        BY <1>5, <1>6, <2>2, Zenon DEF ToTag
<1> HIDE DEF p
<1>11. /\ Len(g) = Len(t) + 1 /\ g[1] = p
       /\ \A i \in 1 .. Len(t) : g[i + 1] = t[i]
    BY <1>7
<1> HIDE DEF g
<1>12. Last(g) # Sep /\ g[2] # Sep
    <2>1. Last(g) = g[Len(g)]
        BY DEF Last
    <2>2. 1 \in 1 .. Len(t) /\ Len(t) \in 1 .. Len(t) /\ 1 + 1 = 2
        BY <1>7
    <2> QED
        BY <1>7, <1>11, <2>1, <2>2
<1>13. ASSUME NEW i \in 1 .. Len(g) - 1 PROVE g[i] # Sep \/ g[i + 1] # Sep
    <2>1. CASE i = 1
        BY <1>2, <1>11, <2>1
    <2>2. CASE i # 1
        <3> DEFINE k == i - 1
        <3>1. k \in 1 .. Len(t) - 1 /\ k + 1 = i /\ k + 1 \in 1 .. Len(t) /\ k \in 1 .. Len(t)
            BY <1>7, <1>11, <2>2
        <3> HIDE DEF k
        <3> QED
            BY <1>7, <1>11, <3>1
    <2> QED
        BY <2>1, <2>2
<1> QED
    BY <1>3, <1>4, <1>5, <1>9, <1>10, <1>12, <1>13 DEF p

\* The tag, once made, is that of the name.
SlugInv ==
    /\ name \in Seq(Chars)
    /\ slug # <<>> => slug = ToTag(name)

LEMMA SlugInvAlways == Spec => []SlugInv
<1>1. Init => SlugInv
    <2> SUFFICES ASSUME Init PROVE SlugInv
        OBVIOUS
    <2>1. name \in Names \/ name = <<>>
        BY DEF Init
    <2>2. <<>> \in Seq(Chars)
        OBVIOUS
    <2>3. name \in Seq(Chars)
        BY <2>1, <2>2, ContentAssumption
    <2> QED
        BY <2>3 DEF Init, SlugInv
<1>2. SlugInv /\ [Next]_vars => SlugInv'
    <2> SUFFICES ASSUME SlugInv, [Next]_vars PROVE SlugInv'
        OBVIOUS
    <2>1. CASE MakeTag
        BY <2>1 DEF MakeTag, SlugInv
    <2>2. CASE UNCHANGED <<name, slug>>
        BY <2>2 DEF SlugInv
    <2>3. Check \/ Rename \/ Add \/ Untag \/ Tag \/ EditLines => UNCHANGED <<name, slug>>
        BY DEF Check, Rename, Add, Untag, Tag, EditLines, Store
    <2> QED
        BY <2>1, <2>2, <2>3 DEF Next, vars
<1> QED
    BY <1>1, <1>2, PTL DEF Spec

(* A project's tag is made once: for every name, the tag of the tag is that  *)
(* tag, with no separator at an end or twice, and every letter of the name,  *)
(* in lower case (SlugSettles; to_tag and slugify in project.rs).            *)
THEOREM TagsAreSettled == Spec => []SlugSettles
<1>1. ASSUME SlugInv PROVE SlugSettles
    <2> SUFFICES ASSUME slug # <<>> PROVE SlugSettles
        BY DEF SlugSettles
    <2>1. name \in Seq(Chars) /\ slug = ToTag(name) /\ ToTag(name) # <<>>
        BY <1>1 DEF SlugInv
    <2>2. /\ ToTag(slug) = slug
          /\ Last(slug) # Sep /\ slug[2] # Sep
          /\ \A i \in 1 .. Len(slug) - 1 : slug[i] # Sep \/ slug[i + 1] # Sep
          /\ Letters(slug) = <<"P">> \o Letters(Bare(Lowered(name)))
        BY <2>1, ToTagSettles
    <2> QED
        BY <2>2, Zenon DEF SlugSettles, Lowered, Sep
<1> QED
    BY <1>1, SlugInvAlways, PTL

-----------------------------------------------------------------------------
(* Importing a directory again.                                            *)

\* A function along 0 .. n that a step keeps in a set is in it all along.
LEMMA StaysIn ==
    ASSUME NEW A, NEW n \in Nat, NEW f, f = [i \in 0 .. n |-> f[i]], f[0] \in A,
           \A i \in 1 .. n : f[i - 1] \in A => f[i] \in A
    PROVE  f \in [0 .. n -> A]
<1> DEFINE T == {i \in Nat : i <= n => f[i] \in A}
<1>1. 0 \in T
    OBVIOUS
<1>2. ASSUME NEW i \in Nat, i \in T PROVE i + 1 \in T
    <2> SUFFICES ASSUME i + 1 <= n PROVE f[i + 1] \in A
        OBVIOUS
    <2>1. f[i] \in A /\ i + 1 \in 1 .. n /\ (i + 1) - 1 = i
        BY <1>2
    <2> QED
        BY <2>1
<1>3. Nat \subseteq T
    <2> HIDE DEF T
    <2> QED
        BY <1>1, <1>2, AllNumbers
<1>4. \A i \in 0 .. n : f[i] \in A
    BY <1>3
<1> QED
    BY <1>4

\* What is found along a text: where to go on, and the places found in P.
Spans(P) == [next : Nat, pos : SUBSET P]
NoSpan == [next |-> 1, pos |-> {}]

\* Up to the last backtick.
Ticked(b) == {i \in Nat : \E j \in DOMAIN b : i <= j /\ b[j] = "tick"}

LEMMA CodingType ==
    ASSUME NEW b \in Seq(Tokens), NEW acc \in Spans(Ticked(b)), NEW i \in 1 .. Len(b)
    PROVE  Coding(b, acc, i) \in Spans(Ticked(b))
<1> DEFINE ends == {j \in i + 1 .. Len(b) : b[j] = "tick"}
<1>1. CASE ends = {}
    BY <1>1 DEF Coding
<1>2. CASE ends # {}
    <2>1. ends \in SUBSET Nat /\ Len(b) \in Nat
        OBVIOUS
    <2>2. Least(ends) \in ends
        <3> HIDE DEF ends
        <3> QED
            BY <1>2, <2>1, LeastProperties
    <2> DEFINE e == Least(ends)
    <2>3. e \in Nat /\ e \in DOMAIN b /\ b[e] = "tick"
        <3> HIDE DEF e
        <3>1. e \in ends
            BY <2>2 DEF e
        <3> QED
            BY <2>1, <3>1
    <2> HIDE DEF e
    <2>4. i .. e \subseteq Ticked(b)
        BY <2>3 DEF Ticked
    <2>5. [next |-> e + 1, pos |-> acc.pos \cup i .. e] \in Spans(Ticked(b))
        BY <2>3, <2>4 DEF Spans
    <2>6. Coding(b, acc, i) \in {acc, [next |-> e + 1, pos |-> acc.pos \cup i .. e]}
        BY DEF Coding, e
    <2> QED
        BY <2>5, <2>6
<1> QED
    BY <1>1, <1>2

\* Inline code ends with a backtick.
LEMMA CodeEnds ==
    ASSUME NEW b \in Seq(Tokens)
    PROVE  InlineCode(b) \subseteq Ticked(b)
<1> DEFINE n == Len(b)
           A == Spans(Ticked(b))
           step == [a \in A \X (1 .. n) |-> Coding(b, a[1], a[2])]
           rec(g) == [i \in 0 .. n |-> IF i = 0 THEN NoSpan ELSE Coding(b, g[i - 1], i)]
           upTo == CHOOSE g : g = rec(g)
<1>1. n \in Nat /\ NoSpan \in A
    BY DEF NoSpan, Spans
<1>2. \A a \in A, i \in 1 .. n : Coding(b, a, i) \in A
    BY CodingType
<1> HIDE DEF A
<1>3. step \in [A \X (1 .. n) -> A]
    BY <1>2
<1>4. \A a \in A, i \in 1 .. n : step[<<a, i>>] = Coding(b, a, i)
    OBVIOUS
<1>5. PICK h \in [0 .. n -> A] : Follows(h, NoSpan, n, step)
    <2> HIDE DEF n, step
    <2> QED
        BY <1>1, <1>3, Recursion
<1> HIDE DEF step
<1>6. \A i \in 0 .. n : h[i] = IF i = 0 THEN NoSpan ELSE Coding(b, h[i - 1], i)
    <2>1. \A i \in 0 .. n : i = 0 \/ (i \in 1 .. n /\ i - 1 \in 0 .. n)
        BY <1>1
    <2> QED
        BY <1>4, <1>5, <2>1 DEF Follows
<1>7. h = rec(h)
    BY <1>5, <1>6
<1>8. upTo = rec(upTo)
    BY <1>7
<1> HIDE DEF upTo
<1>9. /\ upTo = [i \in 0 .. n |-> upTo[i]] /\ upTo[0] = NoSpan
      /\ \A i \in 1 .. n : upTo[i] = Coding(b, upTo[i - 1], i)
    <2>1. \A i \in 0 .. n : upTo[i] = IF i = 0 THEN NoSpan ELSE Coding(b, upTo[i - 1], i)
        BY <1>8
    <2>2. 0 \in 0 .. n /\ \A i \in 1 .. n : i \in 0 .. n /\ i # 0
        BY <1>1
    <2> QED
        BY <1>8, <2>1, <2>2
<1>10. upTo \in [0 .. n -> A]
    <2> HIDE DEF n
    <2>1. upTo[0] \in A /\ \A i \in 1 .. n : upTo[i - 1] \in A => upTo[i] \in A
        BY <1>1, <1>2, <1>9
    <2> QED
        BY <1>1, <1>9, <2>1, StaysIn, Zenon
<1>11. InlineCode(b) = upTo[n].pos
    BY DEF InlineCode, NoSpan, upTo
<1>12. upTo[n] \in A
    BY <1>1, <1>10
<1> QED
    BY <1>11, <1>12 DEF A, Spans

\* Up to the last line that is a fence.
Walled(ls) == {i \in Nat : \E j \in DOMAIN ls : i <= j /\ FenceRun(ls[j]) # 0}

LEMMA FencingType ==
    ASSUME NEW ls \in Seq(Line), NEW acc \in Spans(Walled(ls)), NEW i \in 1 .. Len(ls)
    PROVE  Fencing(ls, acc, i) \in Spans(Walled(ls))
<1> DEFINE ends == {j \in i + 1 .. Len(ls) : Closes(ls[j], ls[i])}
<1>1. CASE ends = {} \/ ~Opens(ls[i])
    BY <1>1 DEF Fencing
<1>2. CASE ends # {} /\ Opens(ls[i])
    <2>1. ends \in SUBSET Nat /\ Len(ls) \in Nat
        OBVIOUS
    <2>2. Least(ends) \in ends
        <3> HIDE DEF ends
        <3> QED
            BY <1>2, <2>1, LeastProperties
    <2> DEFINE e == Least(ends)
    <2>3. e \in Nat /\ e \in DOMAIN ls /\ FenceRun(ls[e]) # 0
        <3> HIDE DEF e
        <3>1. e \in ends
            BY <2>2 DEF e
        <3>2. FenceRun(ls[i]) # 0
            <4>1. FenceRun(ls[i]) >= 3 \/ FenceRun(ls[i]) >= 1
                BY <1>2 DEF Opens
            <4> QED
                BY <4>1
        <3>3. FenceRun(ls[e]) = FenceRun(ls[i])
            BY <3>1 DEF Closes
        <3> QED
            BY <2>1, <3>1, <3>2, <3>3
    <2> HIDE DEF e
    <2>4. i .. e \subseteq Walled(ls)
        BY <2>3 DEF Walled
    <2>5. [next |-> e + 1, pos |-> acc.pos \cup i .. e] \in Spans(Walled(ls))
        BY <2>3, <2>4 DEF Spans
    <2>6. Fencing(ls, acc, i) \in {acc, [next |-> e + 1, pos |-> acc.pos \cup i .. e]}
        BY DEF Fencing, e
    <2> QED
        BY <2>5, <2>6
<1> QED
    BY <1>1, <1>2

\* A fenced block ends with a fence.
LEMMA FencesEnd ==
    ASSUME NEW ls \in Seq(Line)
    PROVE  FencedLines(ls) \subseteq Walled(ls)
<1> DEFINE n == Len(ls)
           A == Spans(Walled(ls))
           step == [a \in A \X (1 .. n) |-> Fencing(ls, a[1], a[2])]
           rec(g) == [i \in 0 .. n |-> IF i = 0 THEN NoSpan ELSE Fencing(ls, g[i - 1], i)]
           upTo == CHOOSE g : g = rec(g)
<1>1. n \in Nat /\ NoSpan \in A
    BY DEF NoSpan, Spans
<1>2. \A a \in A, i \in 1 .. n : Fencing(ls, a, i) \in A
    BY FencingType
<1> HIDE DEF A
<1>3. step \in [A \X (1 .. n) -> A]
    BY <1>2
<1>4. \A a \in A, i \in 1 .. n : step[<<a, i>>] = Fencing(ls, a, i)
    OBVIOUS
<1>5. PICK h \in [0 .. n -> A] : Follows(h, NoSpan, n, step)
    <2> HIDE DEF n, step
    <2> QED
        BY <1>1, <1>3, Recursion
<1> HIDE DEF step
<1>6. \A i \in 0 .. n : h[i] = IF i = 0 THEN NoSpan ELSE Fencing(ls, h[i - 1], i)
    <2>1. \A i \in 0 .. n : i = 0 \/ (i \in 1 .. n /\ i - 1 \in 0 .. n)
        BY <1>1
    <2> QED
        BY <1>4, <1>5, <2>1 DEF Follows
<1>7. h = rec(h)
    BY <1>5, <1>6
<1>8. upTo = rec(upTo)
    BY <1>7
<1> HIDE DEF upTo
<1>9. /\ upTo = [i \in 0 .. n |-> upTo[i]] /\ upTo[0] = NoSpan
      /\ \A i \in 1 .. n : upTo[i] = Fencing(ls, upTo[i - 1], i)
    <2>1. \A i \in 0 .. n : upTo[i] = IF i = 0 THEN NoSpan ELSE Fencing(ls, upTo[i - 1], i)
        BY <1>8
    <2>2. 0 \in 0 .. n /\ \A i \in 1 .. n : i \in 0 .. n /\ i # 0
        BY <1>1
    <2> QED
        BY <1>8, <2>1, <2>2
<1>10. upTo \in [0 .. n -> A]
    <2> HIDE DEF n
    <2>1. upTo[0] \in A /\ \A i \in 1 .. n : upTo[i - 1] \in A => upTo[i] \in A
        BY <1>1, <1>2, <1>9
    <2> QED
        BY <1>1, <1>9, <2>1, StaysIn, Zenon
<1>11. FencedLines(ls) = upTo[n].pos
    BY DEF FencedLines, NoSpan, upTo
<1>12. upTo[n] \in A
    BY <1>1, <1>10
<1> QED
    BY <1>11, <1>12 DEF A, Spans

\* There is one line more than there are breaks.
Breaks(s) == {j \in 1 .. Len(s) : s[j] = "nl"}

LEMMA LinesCounted ==
    ASSUME NEW s \in Seq(Tokens)
    PROVE  Len(Lines(s)) = 1 + Cardinality(Breaks(s))
<1> DEFINE n == Len(s)
           nl == "nl"
           T == Breaks(s)
           Holds(i) == Len(Lines(SubSeq(s, 1, i))) = 1 + Cardinality(Upto(T, i))
           U == {i \in Nat : i <= n => Holds(i)}
<1>1. n \in Nat /\ SubSeq(s, 1, n) = s /\ nl \in Tokens /\ T \in SUBSET (1 .. n)
    <2>1. n \in Nat /\ SubSeq(s, 1, n) = s
        BY SubSeqFull
    <2>2. nl \in Tokens
        BY Words
    <2>3. T \in SUBSET (1 .. n)
        BY DEF Breaks
    <2> QED
        BY <2>1, <2>2, <2>3
<1>2. /\ Cardinality(Upto(T, 0)) = 0 /\ Upto(T, n) = T
      /\ \A i \in Int : Cardinality(Upto(T, i)) \in Nat
      /\ \A i \in 1 .. n : Cardinality(Upto(T, i)) =
            Cardinality(Upto(T, i - 1)) + (IF i \in T THEN 1 ELSE 0)
    <2> HIDE DEF n, T
    <2> QED
        BY <1>1, UptoProperties
<1>3. 0 \in U
    <2>1. SubSeq(s, 1, 0) = <<>>
        BY SubSeqEmpty
    <2>2. Lines(<<>>) = <<<<>>>>
        BY <1>1, SplitOfNothing DEF Lines
    <2>3. Len(<<<<>>>>) = 1
        OBVIOUS
    <2>4. Len(Lines(SubSeq(s, 1, 0))) = 1
        BY <2>1, <2>2, <2>3, Zenon
    <2>5. 1 + Cardinality(Upto(T, 0)) = 1
        BY <1>2
    <2> QED
        BY <2>4, <2>5
<1>4. ASSUME NEW i \in Nat, i \in U PROVE i + 1 \in U
    <2> SUFFICES ASSUME i + 1 <= n PROVE Holds(i + 1)
        <3> HIDE DEF Holds
        <3> QED
            OBVIOUS
    <2> DEFINE a == SubSeq(s, 1, i)
               c == s[i + 1]
    <2>1. Holds(i)
        <3> HIDE DEF Holds
        <3> QED
            BY <1>1, <1>4
    <2>2. /\ i + 1 \in 1 .. n /\ (i + 1) - 1 = i
          /\ a \in Seq(Tokens) /\ c \in Tokens /\ SubSeq(s, 1, i + 1) = Append(a, c)
        <3>1. i \in 0 .. Len(s) - 1
            BY <1>1
        <3> QED
            BY <3>1, Prefix
    <2>3. c = nl <=> i + 1 \in T
        BY <2>2 DEF Breaks
    <2>4. Cardinality(Upto(T, i + 1)) = Cardinality(Upto(T, i)) + (IF i + 1 \in T THEN 1 ELSE 0)
        <3> HIDE DEF T, n
        <3> QED
            BY <1>2, <2>2
    <2>5. Len(Lines(a)) = 1 + Cardinality(Upto(T, i))
        BY <2>1
    <2> HIDE DEF a, c, T, n
    <2>6. Len(Lines(Append(a, c))) = Len(Lines(a)) + (IF c = nl THEN 1 ELSE 0)
        <3> DEFINE ps == Split(a, nl)
        <3>1. ps \in Parts(Tokens, nl)
            BY <1>1, <2>2, SplitType
        <3>2. Split(Append(a, c), nl) = Longer(ps, c, nl)
            BY <1>1, <2>2, SplitAppend
        <3>3. ps \in Seq(Seq(Tokens \ {nl}))
            BY <3>1 DEF Parts
        <3>7. nl \in Tokens /\ c \in Tokens
            BY <1>1, <2>2
        <3> HIDE DEF ps, nl
        <3>4. Len(ps \o <<<<>>>>) = Len(ps) + 1 /\ Len(ps) \in Nat
            BY <3>3
        <3>5. CASE c = nl
            <4>1. Longer(ps, c, nl) = ps \o <<<<>>>>
                BY <3>1, <3>5, <3>7, LongerType
            <4>2. Len(Longer(ps, c, nl)) = Len(ps) + 1
                BY <3>4, <4>1
            <4> QED
                BY <3>2, <3>5, <4>2 DEF Lines, ps, nl
        <3>6. CASE c # nl
            <4>1. Lengthened(Longer(ps, c, nl), ps, c)
                BY <3>1, <3>6, <3>7, LongerType
            <4> QED
                BY <3>2, <3>4, <3>6, <4>1 DEF Lengthened, Lines, ps, nl
        <3> QED
            BY <3>5, <3>6
    <2>7. Cardinality(Upto(T, i)) \in Nat
        BY <1>2
    <2>8. Len(Lines(Append(a, c))) = 1 + Cardinality(Upto(T, i + 1))
        BY <2>3, <2>4, <2>5, <2>6, <2>7
    <2> QED
        BY <2>2, <2>8
<1>5. Nat \subseteq U
    <2> HIDE DEF U
    <2> QED
        BY <1>3, <1>4, AllNumbers
<1>6. Holds(n)
    <2> HIDE DEF Holds
    <2> QED
        BY <1>1, <1>5
<1> HIDE DEF T
<1> QED
    BY <1>1, <1>2, <1>6 DEF T

-----------------------------------------------------------------------------
\* A tag is none of the other tokens.
LEMMA TagIsNoOther ==
    ASSUME NEW tag \in TagTokens
    PROVE  /\ tag \in Tokens /\ tag # "nl" /\ tag # "tick" /\ tag # "~~~" /\ tag # "---"
           /\ {"nl", "tick", "~~~", "---"} \subseteq Tokens
           /\ "nl" # "---"
<1>1. tag \notin Plain
    BY TagsAreNoOther
<1>2. {"nl", "tick", "~~~", "---"} \subseteq Plain
    BY Zenon DEF Plain, White
<1> QED
    BY <1>1, <1>2, Zenon DEF Tokens

\* A tag that ends a body and stands alone on its line counts.
LEMMA LastTagCounts ==
    ASSUME NEW tag \in TagTokens, NEW front \in Seq(Line), front # <<>>
    PROVE  tag \in TagsOf(Join(Append(front, <<tag>>)))
<1> DEFINE q == Append(front, <<tag>>)
           r == Join(q)
           m == Len(q)
           N == Len(r)
           nl == "nl"
           h == Join(front)
<1>1. /\ tag \in Tokens /\ nl \in Tokens /\ tag # nl /\ tag # "tick"
      /\ tag \notin {"tick", "~~~"}
    BY TagIsNoOther
<1>2. <<tag>> \in Line
    BY <1>1 DEF Line
<1> HIDE DEF nl
<1>3. q \in Seq(Line) /\ q # <<>> /\ m \in Nat \ {0} /\ q[m] = <<tag>>
    BY <1>2
<1>4. Lines(r) = q /\ r \in Seq(Tokens)
    <2> HIDE DEF q
    <2> QED
        BY <1>3, LinesOfJoin
<1>5. h \in Seq(Tokens) /\ r = h \o <<nl>> \o <<tag>>
    <2>1. \A l \in Line : l \in Seq(Tokens)
        BY LineIsText
    <2>2. front \in Seq(Seq(Tokens)) /\ <<tag>> \in Seq(Tokens)
        <3>1. front \in Seq(Seq(Tokens))
            BY <2>1
        <3> QED
            BY <1>1, <3>1
    <2>3. h \in Seq(Tokens)
        BY <2>2, JoinType
    <2>4. Joined(Append(front, <<tag>>), nl) = Joined(front, nl) \o <<nl>> \o <<tag>>
        BY <1>1, <2>2, JoinedAppend
    <2> QED
        BY <2>3, <2>4 DEF Join, nl
<1>6. N \in Nat /\ N > 1 /\ r[N] = tag /\ r[N - 1] = nl /\ DOMAIN r = 1 .. N
    <2> HIDE DEF r, h
    <2> DEFINE z == h \o <<nl>> \o <<tag>>
    <2>1. Len(z) = Len(h) + 2 /\ Len(h) \in Nat /\ z[Len(h) + 2] = tag /\ z[Len(h) + 1] = nl
        BY <1>1, <1>5
    <2>2. N = Len(h) + 2
        BY <1>5, <2>1
    <2>3. N - 1 = Len(h) + 1
        BY <2>1, <2>2
    <2>4. DOMAIN r = 1 .. N
        BY <1>4
    <2> HIDE DEF z
    <2> QED
        BY <1>5, <2>1, <2>2, <2>3, <2>4 DEF z
<1> HIDE DEF r, h
<1>7. N \notin InlineCode(r)
    <2> SUFFICES ASSUME N \in InlineCode(r) PROVE FALSE
        OBVIOUS
    <2>1. N \in Ticked(r)
        BY <1>4, CodeEnds
    <2>2. PICK j \in DOMAIN r : N <= j /\ r[j] = "tick"
        BY <2>1 DEF Ticked
    <2>3. j = N
        BY <1>6, <2>2
    <2> QED
        BY <1>1, <1>6, <2>2, <2>3
<1>8. LineOf(r, N) = m
    <2>1. {j \in 1 .. N - 1 : r[j] = "nl"} = Breaks(r)
        <3>0. N \in Nat
            BY <1>6
        <3> HIDE DEF N
        <3>1. \A j \in 1 .. N : j \in 1 .. N - 1 \/ j = N
            BY <3>0
        <3>2. 1 .. N - 1 \subseteq 1 .. N
            BY <3>0
        <3> QED
            BY <1>1, <1>6, <3>1, <3>2 DEF Breaks, nl, N
    <2>2. Len(Lines(r)) = 1 + Cardinality(Breaks(r))
        BY <1>4, LinesCounted
    <2> QED
        BY <1>4, <2>1, <2>2 DEF LineOf
<1>9. m \notin FencedLines(Lines(r))
    <2> SUFFICES ASSUME m \in FencedLines(q) PROVE FALSE
        BY <1>4
    <2> HIDE DEF q
    <2>1. m \in Walled(q)
        BY <1>3, FencesEnd
    <2>2. PICK j \in DOMAIN q : m <= j /\ FenceRun(q[j]) # 0
        BY <2>1 DEF Walled
    <2>3. j = m
        BY <1>3, <2>2
    <2>4. FenceRun(<<tag>>) = 0
        <3>1. Head(<<tag>>) = tag
            OBVIOUS
        <3> QED
            BY <1>1, <3>1, Zenon DEF FenceRun
    <2> QED
        BY <1>3, <2>2, <2>3, <2>4
<1>10. N \in TagPositions(r)
    <2>1. N \in DOMAIN r
        BY <1>6
    <2>2. nl \in White
        BY Zenon DEF White, nl
    <2> QED
        BY <1>6, <1>7, <1>8, <1>9, <2>1, <2>2 DEF TagPositions
<1> QED
    BY <1>6, <1>10 DEF TagsOf, r

LEMMA OneByOne ==
    ASSUME NEW x, NEW y
    PROVE  <<x>> \o <<y>> = <<x, y>> /\ <<x>> \o <<x, y>> = <<x, x, y>>
<1> DEFINE X == {x, y}
<1>1. <<x>> \o <<y>> = <<x, y>>
    <2> DEFINE v == <<x>> \o <<y>>
               w == <<x, y>>
    <2>1. v \in Seq(X) /\ Len(v) = 2 /\ v[1] = x /\ v[2] = y
        OBVIOUS
    <2>2. w \in Seq(X) /\ Len(w) = 2 /\ w[1] = x /\ w[2] = y
        OBVIOUS
    <2>3. \A i \in 1 .. Len(v) : i = 1 \/ i = 2
        BY <2>1
    <2> HIDE DEF v, w
    <2>4. v = w
        BY <2>1, <2>2, <2>3, SeqEqual
    <2> QED
        BY <2>4 DEF v, w
<1>2. <<x>> \o <<x, y>> = <<x, x, y>>
    <2> DEFINE v == <<x>> \o <<x, y>>
               w == <<x, x, y>>
    <2>1. v \in Seq(X) /\ Len(v) = 3 /\ v[1] = x /\ v[2] = x /\ v[3] = y
        OBVIOUS
    <2>2. w \in Seq(X) /\ Len(w) = 3 /\ w[1] = x /\ w[2] = x /\ w[3] = y
        OBVIOUS
    <2>3. \A i \in 1 .. Len(v) : i = 1 \/ i = 2 \/ i = 3
        BY <2>1
    <2> HIDE DEF v, w
    <2>4. v = w
        BY <2>1, <2>2, <2>3, SeqEqual
    <2> QED
        BY <2>4 DEF v, w
<1> QED
    BY <1>1, <1>2

LEMMA TwoMore ==
    ASSUME NEW X, NEW s \in Seq(X), NEW x \in X, NEW y \in X
    PROVE  /\ s \o <<x, y>> \in Seq(X) /\ Len(s \o <<x, y>>) = Len(s) + 2
           /\ (s \o <<x, y>>)[Len(s) + 1] = x /\ (s \o <<x, y>>)[Len(s) + 2] = y
<1>3. s \o <<x, y>> \in Seq(X) /\ Len(s \o <<x, y>>) = Len(s) + 2
    OBVIOUS
<1>4. (s \o <<x, y>>)[Len(s) + 1] = x /\ (s \o <<x, y>>)[Len(s) + 2] = y
    OBVIOUS
<1> QED
    BY <1>3, <1>4

\* An added tag is derived from the note: nothing of the body takes it in.
LEMMA AddedTagCounts ==
    ASSUME NEW b \in Seq(Tokens), NEW tag \in TagTokens, tag \notin TagsOf(b)
    PROVE  tag \in Derived(EnsureTag(b, tag)).tags
<1> DEFINE nl == "nl"
           dash == "---"
           base == TrimEnd(b, White)
           b2 == EnsureTag(b, tag)
           ls == Lines(b2)
           L == Lines(base)
           p == Len(L)
           k == FrontmatterEnd(ls)
<1>1. /\ nl \in Tokens /\ tag \in Tokens /\ tag # nl /\ tag # dash
    BY TagIsNoOther
<1>2. base \in Seq(Tokens)
    BY TrimEndType
<1>3. b2 = base \o <<nl, nl, tag>>
    BY DEF EnsureTag
<1>4. L \in Seq(Line) /\ p \in Nat \ {0}
    <2> HIDE DEF base
    <2> QED
        BY <1>2, LinesType
<1> HIDE DEF base, b2, nl
<1>5. ls = L \o <<<<>>, <<tag>>>>
    <2> DEFINE y == <<nl, tag>>
    <2>1. y \in Seq(Tokens) /\ y = <<>> \o <<nl>> \o <<tag>>
        <3>1. y \in Seq(Tokens) /\ <<nl>> \in Seq(Tokens)
            BY <1>1
        <3>2. <<nl>> \o <<tag>> = y
            BY <1>1, OneByOne, Zenon
        <3>3. <<>> \o <<nl>> = <<nl>>
            BY <3>1, ConcatEmptySeq
        <3> QED
            BY <3>1, <3>2, <3>3
    <2>2. base \o <<nl>> \o y = base \o <<nl, nl, tag>>
        <3>1. <<nl>> \o y = <<nl, nl, tag>>
            BY <1>1, OneByOne, Zenon
        <3>2. (base \o <<nl>>) \o y = base \o (<<nl>> \o y)
            <4>1. <<nl>> \in Seq(Tokens)
                BY <1>1
            <4> HIDE DEF y
            <4> QED
                BY <1>2, <2>1, <4>1, ConcatAssociative
        <3> QED
            BY <3>1, <3>2
    <2>3. Lines(<<>>) = <<<<>>>> /\ Lines(<<tag>>) = <<<<tag>>>>
        <3>1. <<>> \in Line /\ <<tag>> \in Line
            BY <1>1 DEF Line, nl
        <3> QED
            BY <3>1, LinesOfLine
    <2>4. <<>> \in Seq(Tokens) /\ <<tag>> \in Seq(Tokens)
        BY <1>1
    <2>5. Lines(<<>> \o <<nl>> \o <<tag>>) = Lines(<<>>) \o Lines(<<tag>>)
        BY <2>4, LinesOfConcat DEF nl
    <2> HIDE DEF y
    <2>6. Lines(base \o <<nl>> \o y) = L \o Lines(y)
        BY <1>2, <2>1, LinesOfConcat DEF nl
    <2>7. Lines(y) = <<<<>>>> \o <<<<tag>>>>
        BY <2>1, <2>3, <2>5
    <2>8. <<<<>>>> \o <<<<tag>>>> = <<<<>>, <<tag>>>>
        <3>1. <<>> \in Line /\ <<tag>> \in Line
            BY <1>1 DEF Line, nl
        <3> DEFINE one == <<>>
                   other == <<tag>>
        <3>2. one \in Line /\ other \in Line
            BY <3>1
        <3> HIDE DEF one, other
        <3>3. <<one>> \o <<other>> = <<one, other>>
            BY OneByOne, Zenon
        <3> QED
            BY <3>3 DEF one, other
    <2> QED
        BY <1>3, <2>2, <2>6, <2>7, <2>8
<1> HIDE DEF L, p
<1>6. /\ ls \in Seq(Line) /\ Len(ls) = p + 2
      /\ ls[p + 1] = <<>> /\ ls[p + 2] = <<tag>>
    <2>1. <<>> \in Line /\ <<tag>> \in Line
        BY <1>1 DEF Line, nl
    <2> DEFINE one == <<>>
               other == <<tag>>
    <2>2. one \in Line /\ other \in Line
        BY <2>1
    <2> HIDE DEF one, other
    <2>3. /\ L \o <<one, other>> \in Seq(Line) /\ Len(L \o <<one, other>>) = Len(L) + 2
          /\ (L \o <<one, other>>)[Len(L) + 1] = one /\ (L \o <<one, other>>)[Len(L) + 2] = other
        BY <1>4, <2>2, TwoMore
    <2>4. ls = L \o <<one, other>>
        BY <1>5 DEF one, other
    <2> HIDE DEF ls
    <2>5. ls \in Seq(Line) /\ Len(ls) = p + 2 /\ ls[p + 1] = one /\ ls[p + 2] = other
        BY <2>3, <2>4, Zenon DEF p
    <2> QED
        BY <2>5 DEF one, other
<1> HIDE DEF ls, k
<1>7. k \in 0 .. p
    <2> DEFINE ends == {j \in 2 .. Len(ls) : ls[j] = <<"---">>}
    <2>1. CASE k = 0
        BY <1>4, <2>1
    <2>2. CASE k # 0
        <3>1. ends # {} /\ k = Least(ends)
            BY <2>2, Zenon DEF FrontmatterEnd, k
        <3>2. ends \in SUBSET Nat
            OBVIOUS
        <3>3. k \in ends
            <4> HIDE DEF ends
            <4> QED
                BY <3>1, <3>2, LeastProperties
        <3>4. k \in 2 .. p + 2 /\ ls[k] = <<dash>>
            BY <1>6, <3>3
        <3>5. ls[p + 1] # <<dash>> /\ ls[p + 2] # <<dash>>
            BY <1>1, <1>6
        <3> HIDE DEF ends, dash
        <3>6. k # p + 1 /\ k # p + 2
            BY <3>4, <3>5
        <3> QED
            BY <1>4, <3>4, <3>6
    <2> QED
        BY <2>1, <2>2
<1> DEFINE front == SubSeq(ls, k + 1, p + 1)
<1>8. front \in Seq(Line) /\ front # <<>> /\ Append(front, <<tag>>) = SubSeq(ls, k + 1, Len(ls))
    <2>1. k \in 0 .. p /\ p \in Nat /\ Len(ls) = p + 2
        BY <1>4, <1>6, <1>7
    <2>2. front \in Seq(Line) /\ Len(front) = p + 1 - k
        BY <1>6, <2>1
    <2>3. front # <<>>
        <3> HIDE DEF front
        <3> QED
            BY <2>1, <2>2
    <2> DEFINE w == SubSeq(ls, k + 1, p + 2)
    <2>4. w \in Seq(Line) /\ Len(w) = p + 2 - k /\ \A i \in 1 .. p + 2 - k : w[i] = ls[k + i]
        BY <1>6, <2>1
    <2>5. \A i \in 1 .. p + 1 - k : front[i] = ls[k + i]
        BY <1>6, <2>1
    <2> DEFINE v == Append(front, <<tag>>)
    <2> HIDE DEF front, w
    <2>6. <<tag>> \in Line
        BY <1>1 DEF Line, nl
    <2>7. v \in Seq(Line) /\ Len(v) = p + 2 - k /\ v[p + 2 - k] = <<tag>>
          /\ \A i \in 1 .. p + 1 - k : v[i] = front[i]
        <3>1. p + 2 - k = Len(front) + 1
            BY <2>1, <2>2
        <3> QED
            BY <2>1, <2>2, <2>6, <3>1
    <2> HIDE DEF v
    <2>8. \A i \in 1 .. p + 2 - k : v[i] = w[i]
        <3> SUFFICES ASSUME NEW i \in 1 .. p + 2 - k PROVE v[i] = w[i]
            OBVIOUS
        <3>1. CASE i = p + 2 - k
            <4>1. k + i = p + 2
                BY <2>1, <3>1
            <4> QED
                BY <1>6, <2>4, <2>7, <3>1, <4>1
        <3>2. CASE i # p + 2 - k
            <4>1. i \in 1 .. p + 1 - k
                BY <2>1, <3>2
            <4> QED
                BY <2>4, <2>5, <2>7, <4>1
        <3> QED
            BY <3>1, <3>2
    <2>9. v = w
        BY <2>4, <2>7, <2>8, SeqEqual
    <2> QED
        BY <2>1, <2>2, <2>3, <2>9 DEF v, w
<1> HIDE DEF front
<1>9. Rest(b2) = Join(Append(front, <<tag>>))
    BY <1>8 DEF Rest, ls, k
<1>10. tag \in TagsOf(Rest(b2))
    BY <1>8, <1>9, LastTagCounts
<1> QED
    BY <1>10 DEF Derived, b2

\* What a file is imported as is tagged with its project, if the file hides no tag.
LEMMA TaggedCounts ==
    ASSUME NEW f, f.text \in Seq(Tokens), NEW tags \in SUBSET TagTokens,
           tags = {} \/ \E t \in TagTokens : tags = {t}
    PROVE  /\ Tagged(f, tags) \in Seq(Tokens)
           /\ TagsOf(f.text) \subseteq Derived(f.text).tags
                => tags \subseteq Derived(Tagged(f, tags)).tags
<1>1. CASE tags = {}
    BY <1>1 DEF Tagged
<1>2. CASE tags # {}
    <2>1. PICK t \in TagTokens : tags = {t}
        BY <1>2
    <2>2. Tagged(f, tags) = EnsureTag(f.text, t)
        <3>1. (CHOOSE u \in tags : TRUE) = t
            BY <2>1
        <3> QED
            BY <1>2, <3>1 DEF Tagged
    <2>3. EnsureTag(f.text, t) \in Seq(Tokens)
        BY EnsureTagType
    <2>4. CASE t \in TagsOf(f.text)
        <3>1. EnsureTag(f.text, t) = f.text
            BY <2>4, Zenon DEF EnsureTag
        <3> QED
            BY <2>1, <2>2, <2>3, <2>4, <3>1
    <2>5. CASE t \notin TagsOf(f.text)
        <3>1. t \in Derived(EnsureTag(f.text, t)).tags
            BY <2>5, AddedTagCounts
        <3> QED
            BY <2>1, <2>2, <2>3, <3>1
    <2> QED
        BY <2>4, <2>5
<1> QED
    BY <1>1, <1>2

-----------------------------------------------------------------------------
\* The texts a store holds, and those of a project.
Stored(notes) == {n.body : n \in Range(notes)}
Tied(notes, tags) ==
    {n.body : n \in {m \in Range(notes) : tags \subseteq Derived(m.body).tags}}

NoteSet == [body : Seq(Tokens), type : Seq(Tokens) \cup {FrontmatterType(b) : b \in Seq(Tokens)}]
Known == UNION {[D -> SUBSET Seq(Tokens)] : D \in SUBSET SUBSET TagTokens}
Importing == [notes : Seq(NoteSet), known : Known]

\* What an import knows of a project when a file of it comes.
KnownOf(acc, tags) ==
    IF tags \in DOMAIN acc.known THEN acc.known[tags] ELSE Tied(acc.notes, tags)

LEMMA KnownMore ==
    ASSUME NEW known \in Known, NEW tags \in SUBSET TagTokens, NEW s \in SUBSET Seq(Tokens)
    PROVE  LET more == Noted(known, tags, s)
           IN  /\ more \in Known
               /\ DOMAIN more = DOMAIN known \cup {tags} /\ more[tags] = s
               /\ \A t \in DOMAIN known \ {tags} : more[t] = known[t]
<1> DEFINE more == Noted(known, tags, s)
           D == DOMAIN known \cup {tags}
<1>1. DOMAIN known \subseteq SUBSET TagTokens /\ \A t \in DOMAIN known : known[t] \in SUBSET Seq(Tokens)
    BY DEF Known
<1>2. more = [t \in D |-> IF t = tags THEN s ELSE known[t]]
    BY DEF Noted
<1>3. D \in SUBSET SUBSET TagTokens
    BY <1>1
<1>4. more \in [D -> SUBSET Seq(Tokens)]
    BY <1>1, <1>2
<1>5. more \in Known
    BY <1>3, <1>4 DEF Known
<1> HIDE DEF more
<1>6. /\ DOMAIN more = DOMAIN known \cup {tags} /\ more[tags] = s
      /\ \A t \in DOMAIN known \ {tags} : more[t] = known[t]
    BY <1>2
<1> QED
    BY <1>5, <1>6 DEF more

LEMMA NothingKnown ==
    ASSUME NEW notes \in Seq(NoteSet)
    PROVE  [notes |-> notes, known |-> <<>>] \in Importing /\ DOMAIN <<>> = {}
<1> DEFINE e == <<>>
<1>1. e \in [{} -> SUBSET Seq(Tokens)] /\ DOMAIN e = {}
    <2>1. e \in Seq(SUBSET Seq(Tokens)) /\ Len(e) = 0
        OBVIOUS
    <2>2. 1 .. 0 = {}
        OBVIOUS
    <2> HIDE DEF e
    <2> QED
        BY <2>1, <2>2, LenProperties
<1> HIDE DEF e
<1>2. e \in Known
    BY <1>1 DEF Known
<1> QED
    BY <1>1, <1>2 DEF Importing, e

\* What one file does to the import.
LEMMA ImportFileDoes ==
    ASSUME NEW acc \in Importing, NEW f, f.text \in Seq(Tokens),
           ProjectOf(f) \in SUBSET TagTokens, Tagged(f, ProjectOf(f)) \in Seq(Tokens)
    PROVE  LET tags == ProjectOf(f)
               new == Tagged(f, tags)
               known == KnownOf(acc, tags)
               next == ImportFile(acc, f)
           IN  /\ next \in Importing
               /\ Blank(f) => next = acc
               /\ ~Blank(f) =>
                    /\ DOMAIN next.known = DOMAIN acc.known \cup {tags}
                    /\ \A t \in DOMAIN acc.known \ {tags} : next.known[t] = acc.known[t]
                    /\ new \in known => next.notes = acc.notes /\ next.known[tags] = known
                    /\ new \notin known =>
                         /\ next.known[tags] = known \cup {new}
                         /\ Stored(next.notes) = Stored(acc.notes) \cup {new}
<1> DEFINE tags == ProjectOf(f)
           new == Tagged(f, tags)
           known == KnownOf(acc, tags)
           next == ImportFile(acc, f)
           n == [body |-> new, type |-> FrontmatterType(new)]
<1>1. acc.notes \in Seq(NoteSet) /\ acc.known \in Known
    BY DEF Importing
<1>2. tags \in SUBSET TagTokens /\ new \in Seq(Tokens)
    OBVIOUS
<1>3. known \in SUBSET Seq(Tokens)
    <2>1. CASE tags \in DOMAIN acc.known
        BY <1>1, <2>1 DEF KnownOf, Known
    <2>2. CASE tags \notin DOMAIN acc.known
        <3>1. \A m \in Range(acc.notes) : m \in NoteSet
            BY <1>1 DEF Range
        <3>2. Tied(acc.notes, tags) \subseteq Seq(Tokens)
            BY <3>1 DEF Tied, NoteSet
        <3> QED
            BY <2>2, <3>2 DEF KnownOf
    <2> QED
        BY <2>1, <2>2
<1>4. n \in NoteSet
    BY <1>2 DEF NoteSet
<1>5. Append(acc.notes, n) \in Seq(NoteSet)
    <2> HIDE DEF n
    <2> QED
        BY <1>1, <1>4
<1>6. Range(Append(acc.notes, n)) = Range(acc.notes) \cup {n}
    <2> DEFINE old == acc.notes
               longer == Append(old, n)
    <2>1. /\ old \in Seq(NoteSet) /\ Len(old) \in Nat /\ DOMAIN old = 1 .. Len(old)
          /\ longer \in Seq(NoteSet) /\ Len(longer) = Len(old) + 1
          /\ DOMAIN longer = 1 .. Len(old) + 1 /\ longer[Len(old) + 1] = n
          /\ \A i \in 1 .. Len(old) : longer[i] = old[i]
        <3> HIDE DEF n
        <3> QED
            BY <1>1, <1>4
    <2> HIDE DEF old, longer, n
    <2>2. \A i \in 1 .. Len(old) + 1 : i \in 1 .. Len(old) \/ i = Len(old) + 1
        BY <2>1
    <2>3. Len(old) + 1 \in 1 .. Len(old) + 1 /\ 1 .. Len(old) \subseteq 1 .. Len(old) + 1
        BY <2>1
    <2>4. Range(longer) \subseteq Range(old) \cup {n}
        BY <2>1, <2>2 DEF Range
    <2>5. Range(old) \cup {n} \subseteq Range(longer)
        BY <2>1, <2>3 DEF Range
    <2> QED
        BY <2>4, <2>5 DEF old, longer
<1>7. next = IF Blank(f) THEN acc
             ELSE IF new \in known THEN [acc EXCEPT !.known = Noted(@, tags, known)]
             ELSE [notes |-> Append(acc.notes, n), known |-> Noted(acc.known, tags, known \cup {new})]
    BY DEF ImportFile, IsDuplicate, KnownOf, Tied
<1> HIDE DEF tags, new, known, next
<1>8. CASE Blank(f)
    BY <1>7, <1>8 DEF tags, new, known, next
<1>9. CASE ~Blank(f) /\ new \in known
    <2> DEFINE more == Noted(acc.known, tags, known)
    <2>1. /\ more \in Known
          /\ DOMAIN more = DOMAIN acc.known \cup {tags} /\ more[tags] = known
          /\ \A t \in DOMAIN acc.known \ {tags} : more[t] = acc.known[t]
        BY <1>1, <1>2, <1>3, KnownMore
    <2>2. next = [acc EXCEPT !.known = more]
        BY <1>7, <1>9
    <2> HIDE DEF more
    <2>3. next.known = more /\ next.notes = acc.notes /\ next \in Importing
        BY <2>1, <2>2 DEF Importing
    <2> QED
        BY <1>9, <2>1, <2>3 DEF tags, new, known, next
<1>10. CASE ~Blank(f) /\ new \notin known
    <2> DEFINE s == known \cup {new}
               more == Noted(acc.known, tags, s)
    <2>1. s \in SUBSET Seq(Tokens)
        BY <1>2, <1>3
    <2>2. next = [notes |-> Append(acc.notes, n), known |-> more]
        BY <1>7, <1>10
    <2> HIDE DEF s
    <2>3. /\ more \in Known
          /\ DOMAIN more = DOMAIN acc.known \cup {tags} /\ more[tags] = s
          /\ \A t \in DOMAIN acc.known \ {tags} : more[t] = acc.known[t]
        BY <1>1, <1>2, <2>1, KnownMore
    <2> HIDE DEF more
    <2>4. next.known = more /\ next.notes = Append(acc.notes, n) /\ next \in Importing
        BY <1>5, <2>2, <2>3 DEF Importing
    <2>5. Stored(next.notes) = Stored(acc.notes) \cup {new}
        BY <1>6, <2>4 DEF Stored
    <2> QED
        BY <1>10, <2>3, <2>4, <2>5 DEF s, tags, new, known, next
<1> QED
    BY <1>8, <1>9, <1>10

-----------------------------------------------------------------------------
\* A file with its text and at most one project.
Fits(f) ==
    /\ f.text \in Seq(Tokens)
    /\ ProjectOf(f) \in SUBSET TagTokens
    /\ ProjectOf(f) = {} \/ \E t \in TagTokens : ProjectOf(f) = {t}

AsImported(f) == Tagged(f, ProjectOf(f))

LEMMA FitsIsTyped ==
    ASSUME NEW f, Fits(f)
    PROVE  /\ f.text \in Seq(Tokens) /\ ProjectOf(f) \in SUBSET TagTokens
           /\ AsImported(f) \in Seq(Tokens)
           /\ TagsOf(f.text) \subseteq Derived(f.text).tags
                => ProjectOf(f) \subseteq Derived(AsImported(f)).tags
<1> DEFINE tags == ProjectOf(f)
<1>1. /\ f.text \in Seq(Tokens) /\ tags \in SUBSET TagTokens
      /\ tags = {} \/ \E t \in TagTokens : tags = {t}
    BY DEF Fits
<1> HIDE DEF tags
<1>2. /\ Tagged(f, tags) \in Seq(Tokens)
      /\ TagsOf(f.text) \subseteq Derived(f.text).tags
           => tags \subseteq Derived(Tagged(f, tags)).tags
    BY <1>1, TaggedCounts
<1> QED
    BY <1>1, <1>2 DEF AsImported, tags

\* The states of an import, from one file to the next.
Runs(g, notes, fs) ==
    /\ g[0] = [notes |-> notes, known |-> <<>>]
    /\ \A i \in 1 .. Len(fs) : g[i] = ImportFile(g[i - 1], fs[i])

LEMMA ImportedIs ==
    ASSUME NEW notes \in Seq(NoteSet), NEW F, NEW fs \in Seq(F), \A f \in F : Fits(f)
    PROVE  \E g \in [0 .. Len(fs) -> Importing] :
               Runs(g, notes, fs) /\ Imported(notes, fs) = g[Len(fs)].notes
<1> DEFINE n == Len(fs)
           A == Importing
           base == [notes |-> notes, known |-> <<>>]
           step == [a \in A \X (1 .. n) |-> ImportFile(a[1], fs[a[2]])]
           rec(g) == [i \in 0 .. n |-> IF i = 0 THEN base ELSE ImportFile(g[i - 1], fs[i])]
           upTo == CHOOSE g : g = rec(g)
<1>1. n \in Nat /\ base \in A /\ \A i \in 1 .. n : fs[i] \in F
    BY NothingKnown
<1>2. \A a \in A, i \in 1 .. n : ImportFile(a, fs[i]) \in A
    <2> SUFFICES ASSUME NEW a \in A, NEW i \in 1 .. n PROVE ImportFile(a, fs[i]) \in A
        OBVIOUS
    <2> DEFINE f == fs[i]
    <2>1. Fits(f)
        BY <1>1
    <2> HIDE DEF f
    <2>2. /\ f.text \in Seq(Tokens) /\ ProjectOf(f) \in SUBSET TagTokens
          /\ Tagged(f, ProjectOf(f)) \in Seq(Tokens)
        BY <2>1, FitsIsTyped DEF AsImported
    <2>3. ImportFile(a, f) \in A
        BY <2>2, ImportFileDoes
    <2> QED
        BY <2>3 DEF f
<1> HIDE DEF A, base
<1>3. step \in [A \X (1 .. n) -> A]
    BY <1>2
<1>4. \A a \in A, i \in 1 .. n : step[<<a, i>>] = ImportFile(a, fs[i])
    OBVIOUS
<1>5. PICK h \in [0 .. n -> A] : Follows(h, base, n, step)
    <2> HIDE DEF n, step
    <2> QED
        BY <1>1, <1>3, Recursion
<1> HIDE DEF step
<1>6. \A i \in 0 .. n : h[i] = IF i = 0 THEN base ELSE ImportFile(h[i - 1], fs[i])
    <2>1. \A i \in 0 .. n : i = 0 \/ (i \in 1 .. n /\ i - 1 \in 0 .. n)
        BY <1>1
    <2> QED
        BY <1>4, <1>5, <2>1 DEF Follows
<1>7. h = rec(h)
    BY <1>5, <1>6
<1>8. upTo = rec(upTo)
    BY <1>7
<1> HIDE DEF upTo
<1>9. /\ upTo = [i \in 0 .. n |-> upTo[i]] /\ upTo[0] = base
      /\ \A i \in 1 .. n : upTo[i] = ImportFile(upTo[i - 1], fs[i])
    <2>1. \A i \in 0 .. n : upTo[i] = IF i = 0 THEN base ELSE ImportFile(upTo[i - 1], fs[i])
        BY <1>8
    <2>2. 0 \in 0 .. n /\ \A i \in 1 .. n : i \in 0 .. n /\ i # 0
        BY <1>1
    <2> QED
        BY <1>8, <2>1, <2>2
<1>10. upTo \in [0 .. n -> A]
    <2> HIDE DEF n
    <2>1. upTo[0] \in A /\ \A i \in 1 .. n : upTo[i - 1] \in A => upTo[i] \in A
        BY <1>1, <1>2, <1>9
    <2> QED
        BY <1>1, <1>9, <2>1, StaysIn, Zenon
<1>11. Imported(notes, fs) = upTo[n].notes
    BY DEF Imported, base, upTo
<1>12. Runs(upTo, notes, fs)
    BY <1>9 DEF Runs, base
<1> QED
    BY <1>10, <1>11, <1>12 DEF A

\* An import leaves the text of every file in the store, blank files aside.
LEMMA ImportsAll ==
    ASSUME NEW notes \in Seq(NoteSet), NEW F, NEW fs \in Seq(F), \A f \in F : Fits(f)
    PROVE  /\ Imported(notes, fs) \in Seq(NoteSet)
           /\ \A i \in 1 .. Len(fs) : ~Blank(fs[i]) =>
                  AsImported(fs[i]) \in Stored(Imported(notes, fs))
<1> DEFINE n == Len(fs)
<1>1. PICK g \in [0 .. n -> Importing] :
          Runs(g, notes, fs) /\ Imported(notes, fs) = g[n].notes
    BY ImportedIs
<1>2. n \in Nat /\ \A i \in 1 .. n : Fits(fs[i])
    OBVIOUS
<1> DEFINE Good(i) ==
             /\ \A t \in DOMAIN g[i].known : g[i].known[t] \subseteq Stored(g[i].notes)
             /\ \A j \in 1 .. i : ~Blank(fs[j]) => AsImported(fs[j]) \in Stored(g[i].notes)
           T == {i \in Nat : i <= n => Good(i)}
<1>3. Good(0)
    <2>1. g[0].known = <<>>
        BY <1>1 DEF Runs
    <2>2. DOMAIN g[0].known = {}
        BY <2>1, NothingKnown
    <2> QED
        BY <2>2
<1>4. ASSUME NEW i \in Nat, i + 1 <= n, Good(i) PROVE Good(i + 1)
    <2> DEFINE acc == g[i]
               f == fs[i + 1]
               tags == ProjectOf(f)
               known == KnownOf(acc, tags)
               next == g[i + 1]
               new == AsImported(f)
    <2>1. i \in 0 .. n /\ i + 1 \in 1 .. n /\ (i + 1) - 1 = i
        BY <1>2, <1>4
    <2>2. acc \in Importing /\ Fits(f) /\ next = ImportFile(acc, f)
        BY <1>1, <1>2, <2>1 DEF Runs
    <2>3. /\ \A t \in DOMAIN acc.known : acc.known[t] \subseteq Stored(acc.notes)
          /\ \A j \in 1 .. i : ~Blank(fs[j]) => AsImported(fs[j]) \in Stored(acc.notes)
        BY <1>4
    <2> HIDE DEF acc, f, next
    <2>4. /\ Blank(f) => next = acc
          /\ ~Blank(f) =>
               /\ DOMAIN next.known = DOMAIN acc.known \cup {tags}
               /\ \A t \in DOMAIN acc.known \ {tags} : next.known[t] = acc.known[t]
               /\ new \in known => next.notes = acc.notes /\ next.known[tags] = known
               /\ new \notin known =>
                    /\ next.known[tags] = known \cup {new}
                    /\ Stored(next.notes) = Stored(acc.notes) \cup {new}
        <3>1. /\ f.text \in Seq(Tokens) /\ ProjectOf(f) \in SUBSET TagTokens
              /\ Tagged(f, ProjectOf(f)) \in Seq(Tokens)
            BY <2>2, FitsIsTyped DEF AsImported
        <3> QED
            BY <2>2, <3>1, ImportFileDoes DEF AsImported
    <2>5. known \subseteq Stored(acc.notes)
        <3>1. Tied(acc.notes, tags) \subseteq Stored(acc.notes)
            BY DEF Tied, Stored
        <3> QED
            BY <2>3, <3>1 DEF KnownOf
    <2> HIDE DEF tags, known, new
    <2>6. Stored(acc.notes) \subseteq Stored(next.notes)
        BY <2>4
    <2>7. ~Blank(f) => new \in Stored(next.notes)
        BY <2>4, <2>5, <2>6
    <2>8. \A t \in DOMAIN next.known : next.known[t] \subseteq Stored(next.notes)
        <3>1. CASE Blank(f)
            BY <2>3, <2>4, <3>1
        <3>2. CASE ~Blank(f)
            <4> SUFFICES ASSUME NEW t \in DOMAIN next.known
                         PROVE  next.known[t] \subseteq Stored(next.notes)
                OBVIOUS
            <4>1. CASE t = tags
                <5>1. next.known[tags] \subseteq known \cup {new}
                    BY <2>4, <3>2
                <5> QED
                    BY <2>5, <2>6, <2>7, <3>2, <4>1, <5>1
            <4>2. CASE t # tags
                <5>1. t \in DOMAIN acc.known \ {tags}
                    BY <2>4, <3>2, <4>2
                <5>2. next.known[t] = acc.known[t]
                    BY <2>4, <3>2, <5>1
                <5> QED
                    BY <2>3, <2>6, <5>1, <5>2
            <4> QED
                BY <4>1, <4>2
        <3> QED
            BY <3>1, <3>2
    <2>9. \A j \in 1 .. i + 1 : ~Blank(fs[j]) => AsImported(fs[j]) \in Stored(next.notes)
        <3>1. \A j \in 1 .. i + 1 : j \in 1 .. i \/ j = i + 1
            OBVIOUS
        <3>2. ~Blank(fs[i + 1]) => AsImported(fs[i + 1]) \in Stored(next.notes)
            BY <2>7 DEF f, new
        <3> QED
            BY <2>3, <2>6, <3>1, <3>2
    <2> QED
        BY <2>8, <2>9 DEF next
<1>5. Good(n)
    <2> HIDE DEF Good
    <2>1. 0 \in T
        BY <1>3
    <2>2. ASSUME NEW i \in Nat, i \in T PROVE i + 1 \in T
        BY <1>2, <1>4, <2>2
    <2>3. Nat \subseteq T
        <3> HIDE DEF T
        <3> QED
            BY <2>1, <2>2, AllNumbers
    <2> QED
        BY <1>2, <2>3
<1>6. g[n] \in Importing
    BY <1>1, <1>2
<1> QED
    BY <1>1, <1>5, <1>6 DEF Importing

\* An import of texts the store has, each tied to its project, adds nothing.
LEMMA ImportsNothing ==
    ASSUME NEW notes \in Seq(NoteSet), NEW F, NEW fs \in Seq(F), \A f \in F : Fits(f),
           \A f \in F : /\ ~Blank(f) => AsImported(f) \in Stored(notes)
                        /\ ProjectOf(f) \subseteq Derived(AsImported(f)).tags
    PROVE  Imported(notes, fs) = notes
<1> DEFINE n == Len(fs)
<1>1. PICK g \in [0 .. n -> Importing] :
          Runs(g, notes, fs) /\ Imported(notes, fs) = g[n].notes
    BY ImportedIs
<1>2. n \in Nat /\ \A i \in 1 .. n : fs[i] \in F
    OBVIOUS
<1> DEFINE Good(i) ==
             /\ g[i].notes = notes
             /\ \A t \in DOMAIN g[i].known : Tied(notes, t) \subseteq g[i].known[t]
           T == {i \in Nat : i <= n => Good(i)}
<1>3. Good(0)
    <2>1. g[0].known = <<>> /\ g[0].notes = notes
        BY <1>1 DEF Runs
    <2>2. DOMAIN g[0].known = {}
        BY <2>1, NothingKnown
    <2> QED
        BY <2>1, <2>2
<1>4. ASSUME NEW i \in Nat, i + 1 <= n, Good(i) PROVE Good(i + 1)
    <2> DEFINE acc == g[i]
               f == fs[i + 1]
               tags == ProjectOf(f)
               known == KnownOf(acc, tags)
               next == g[i + 1]
               new == AsImported(f)
    <2>1. i \in 0 .. n /\ i + 1 \in 1 .. n /\ (i + 1) - 1 = i
        BY <1>2, <1>4
    <2>2. acc \in Importing /\ f \in F /\ next = ImportFile(acc, f)
        BY <1>1, <1>2, <2>1 DEF Runs
    <2>3. /\ acc.notes = notes
          /\ \A t \in DOMAIN acc.known : Tied(notes, t) \subseteq acc.known[t]
        BY <1>4
    <2> HIDE DEF acc, f, next
    <2>4. Fits(f) /\ (~Blank(f) => new \in Stored(notes)) /\ tags \subseteq Derived(new).tags
        BY <2>2
    <2>5. /\ Blank(f) => next = acc
          /\ ~Blank(f) =>
               /\ DOMAIN next.known = DOMAIN acc.known \cup {tags}
               /\ \A t \in DOMAIN acc.known \ {tags} : next.known[t] = acc.known[t]
               /\ new \in known => next.notes = acc.notes /\ next.known[tags] = known
        <3>1. /\ f.text \in Seq(Tokens) /\ ProjectOf(f) \in SUBSET TagTokens
              /\ Tagged(f, ProjectOf(f)) \in Seq(Tokens)
            BY <2>4, FitsIsTyped DEF AsImported
        <3> QED
            BY <2>2, <3>1, ImportFileDoes DEF AsImported
    <2>6. Tied(notes, tags) \subseteq known
        BY <2>3 DEF KnownOf
    <2> HIDE DEF tags, known, new
    <2>7. ~Blank(f) => new \in known
        <3> SUFFICES ASSUME ~Blank(f) PROVE new \in Tied(notes, tags)
            BY <2>6
        <3>1. PICK m \in Range(notes) : new = m.body
            BY <2>4 DEF Stored
        <3>2. tags \subseteq Derived(m.body).tags
            BY <2>4, <3>1
        <3> QED
            BY <3>1, <3>2 DEF Tied
    <2>8. next.notes = notes
        BY <2>3, <2>5, <2>7
    <2>9. \A t \in DOMAIN next.known : Tied(notes, t) \subseteq next.known[t]
        <3>1. CASE Blank(f)
            BY <2>3, <2>5, <3>1
        <3>2. CASE ~Blank(f)
            <4> SUFFICES ASSUME NEW t \in DOMAIN next.known
                         PROVE  Tied(notes, t) \subseteq next.known[t]
                OBVIOUS
            <4>1. CASE t = tags
                BY <2>5, <2>6, <2>7, <3>2, <4>1
            <4>2. CASE t # tags
                <5>1. t \in DOMAIN acc.known \ {tags}
                    BY <2>5, <3>2, <4>2
                <5>2. next.known[t] = acc.known[t]
                    BY <2>5, <3>2, <5>1
                <5> QED
                    BY <2>3, <5>1, <5>2
            <4> QED
                BY <4>1, <4>2
        <3> QED
            BY <3>1, <3>2
    <2> QED
        BY <2>8, <2>9 DEF next
<1>5. Good(n)
    <2> HIDE DEF Good
    <2>1. 0 \in T
        BY <1>3
    <2>2. ASSUME NEW i \in Nat, i \in T PROVE i + 1 \in T
        BY <1>2, <1>4, <2>2
    <2>3. Nat \subseteq T
        <3> HIDE DEF T
        <3> QED
            BY <2>1, <2>2, AllNumbers
    <2> QED
        BY <1>2, <2>3
<1> QED
    BY <1>1, <1>5

-----------------------------------------------------------------------------
\* What is exported.

LEMMA RestType ==
    ASSUME NEW b \in Seq(Tokens)
    PROVE  Rest(b) \in Seq(Tokens)
<1> DEFINE ls == Lines(b)
           k == FrontmatterEnd(ls)
           ends == {j \in 2 .. Len(ls) : ls[j] = <<"---">>}
<1>1. ls \in Seq(Line) /\ Len(ls) \in Nat
    BY LinesType
<1> HIDE DEF ls
<1>2. k \in 0 .. Len(ls)
    <2>1. CASE k = 0
        BY <1>1, <2>1
    <2>2. CASE k # 0
        <3>1. ends # {} /\ k = Least(ends)
            BY <2>2, Zenon DEF FrontmatterEnd
        <3>2. ends \in SUBSET Nat /\ ends \subseteq 2 .. Len(ls)
            OBVIOUS
        <3> HIDE DEF ends, k
        <3>3. k \in ends
            BY <3>1, <3>2, LeastProperties
        <3> QED
            BY <1>1, <3>2, <3>3
    <2> QED
        BY <2>1, <2>2
<1> HIDE DEF k
<1>3. SubSeq(ls, k + 1, Len(ls)) \in Seq(Line)
    BY <1>1, <1>2
<1>4. SubSeq(ls, k + 1, Len(ls)) \in Seq(Seq(Tokens))
    <2> DEFINE q == SubSeq(ls, k + 1, Len(ls))
    <2>1. \A l \in Line : l \in Seq(Tokens)
        BY LineIsText
    <2>2. q \in Seq(Line)
        BY <1>3
    <2> HIDE DEF q
    <2>3. q \in Seq(Seq(Tokens))
        BY <2>1, <2>2
    <2> QED
        BY <2>3 DEF q
<1> QED
    BY <1>4, JoinType DEF Rest, ls, k

LEMMA FolderType ==
    ASSUME NEW b \in Seq(Tokens)
    PROVE  Folder(b) \in Folders
<1> DEFINE r == Rest(b)
           P == ProjectTags(b)
<1>1. CASE P = {}
    BY <1>1 DEF Folder, Folders
<1>2. CASE P # {}
    <2>1. r \in Seq(Tokens)
        BY RestType
    <2>2. P \in SUBSET Nat /\ \A i \in P : r[i] \in TagTokens /\ SlugOf[r[i]] # <<>>
        <3> HIDE DEF r
        <3>1. TagPositions(r) \subseteq {i \in DOMAIN r : r[i] \in TagTokens}
            BY DEF TagPositions
        <3>2. DOMAIN r \subseteq Nat
            BY <2>1
        <3>3. P = {i \in TagPositions(r) : SlugOf[r[i]] # <<>>}
            BY DEF ProjectTags, r
        <3> QED
            BY <3>1, <3>2, <3>3
    <2> DEFINE i == Least(P)
    <2>3. i \in P
        <3> HIDE DEF P
        <3> QED
            BY <1>2, <2>2, LeastProperties
    <2>4. Folder(b) = SlugFolder(SlugOf[r[i]])
        BY <1>2, Zenon DEF Folder
    <2> HIDE DEF i, r, P
    <2> QED
        BY <2>2, <2>3, <2>4 DEF Folders
<1> QED
    BY <1>1, <1>2

LEMMA WithFrontmatterTypeType ==
    ASSUME NEW b \in Seq(Tokens), NEW type \in Seq(Tokens)
    PROVE  WithFrontmatterType(b, type) \in Seq(Tokens)
<1> DEFINE x == "type:"
           y == "sp"
           z == "nl"
           d == "---"
           line == <<x, y>> \o type
           ls == Lines(b)
<1>1. x \in Tokens /\ y \in Tokens /\ z \in Tokens /\ d \in Tokens
    BY Zenon DEF Tokens, Plain, White
<1>2. TypeLine(type) = line /\ Fenced(b, type) = <<d, z>> \o line \o <<z, d, z, z>> \o b
    BY DEF TypeLine, Fenced
<1> HIDE DEF x, y, z, d
<1>3. line \in Seq(Tokens)
    BY <1>1
<1>4. Fenced(b, type) \in Seq(Tokens)
    <2> HIDE DEF line
    <2>1. <<d, z>> \in Seq(Tokens) /\ <<z, d, z, z>> \in Seq(Tokens)
        BY <1>1
    <2>2. <<d, z>> \o line \in Seq(Tokens)
        BY <1>3, <2>1, ConcatProperties
    <2>3. (<<d, z>> \o line) \o <<z, d, z, z>> \in Seq(Tokens)
        BY <2>1, <2>2, ConcatProperties
    <2> QED
        BY <1>2, <2>3, ConcatProperties
<1>5. Join(InsertAt(ls, 2, TypeLine(type))) \in Seq(Tokens)
    <2> HIDE DEF line
    <2>1. ls \in Seq(Line) /\ Len(ls) \in Nat \ {0}
        BY LinesType
    <2> HIDE DEF ls
    <2>2. \A l \in Line : l \in Seq(Tokens)
        BY LineIsText
    <2>3. ls \in Seq(Seq(Tokens)) /\ 1 \in 0 .. Len(ls)
        BY <2>1, <2>2
    <2>4. InsertAt(ls, 1 + 1, line) \in Seq(Seq(Tokens))
        BY <1>3, <2>3, InsertProperties
    <2>5. 1 + 1 = 2
        OBVIOUS
    <2> QED
        BY <1>2, <2>4, <2>5, JoinType
<1> QED
    BY <1>4, <1>5, Zenon DEF WithFrontmatterType

\* The notes a store has to begin with.
PlainNotes == [body : Seq(Tokens), type : Seq(Tokens)]

LEMMA WriteNoteType ==
    ASSUME library \in Seq(PlainNotes), NEW i \in DOMAIN library, NEW folder
    PROVE  /\ WriteNote(i, folder).text \in Seq(Tokens)
           /\ WriteNote(i, folder).folder = folder
<1> DEFINE n == library[i]
<1>0. n \in PlainNotes
    BY ElementOfSeq
<1>1. n.body \in Seq(Tokens) /\ n.type \in Seq(Tokens)
    <2> HIDE DEF n
    <2> QED
        BY <1>0 DEF PlainNotes
<1>2. WithFrontmatterType(n.body, n.type) \in Seq(Tokens)
    <2> HIDE DEF n
    <2> QED
        BY <1>1, WithFrontmatterTypeType
<1>3. /\ WriteNote(i, folder).text \in {n.body, WithFrontmatterType(n.body, n.type)}
      /\ WriteNote(i, folder).folder = folder
    BY DEF WriteNote
<1> QED
    BY <1>1, <1>2, <1>3

\* The files of a set of notes, each in its folder.
LEMMA Written ==
    ASSUME library \in Seq(PlainNotes), NEW I \in SUBSET DOMAIN library, NEW folder,
           \A i \in I : folder[i] \in Folders,
           NEW new, new = {WriteNote(i, folder[i]) : i \in I}
    PROVE  /\ IsFiniteSet(new)
           /\ \A f \in new : f.text \in Seq(Tokens) /\ f.folder \in Folders
<1>1. IsFiniteSet(I)
    <2>1. DOMAIN library = 1 .. Len(library) /\ Len(library) \in Nat
        OBVIOUS
    <2>2. IsFiniteSet(1 .. Len(library))
        BY <2>1, FS_Interval
    <2> QED
        BY <2>1, <2>2, FS_Subset
<1>2. IsFiniteSet(new)
    <2> DEFINE g == [i \in I |-> WriteNote(i, folder[i])]
    <2>1. g \in Surjection(I, new)
        BY DEF Surjection
    <2> HIDE DEF g
    <2> QED
        BY <1>1, <2>1, FS_Surjection
<1>3. \A i \in I : /\ WriteNote(i, folder[i]).text \in Seq(Tokens)
                   /\ WriteNote(i, folder[i]).folder = folder[i]
    BY WriteNoteType
<1> QED
    BY <1>2, <1>3

-----------------------------------------------------------------------------
\* A sequence made of a finite set has all its members.
LEMMA SetToSeqHasAll ==
    ASSUME NEW S, IsFiniteSet(S)
    PROVE  /\ SetToSeq(S) \in Seq(S)
           /\ \A x \in S : \E i \in 1 .. Len(SetToSeq(S)) : SetToSeq(S)[i] = x
<1> DEFINE n == Cardinality(S)
           s == SetToSeq(S)
<1>1. n \in Nat /\ ExistsBijection(1 .. n, S)
    BY FS_CardinalityType
<1>2. \E f \in [1 .. n -> S] : IsInjective(f)
    BY <1>1 DEF ExistsBijection, Bijection, Injection
<1>3. s \in [1 .. n -> S] /\ IsInjective(s)
    BY <1>2 DEF SetToSeq
<1> HIDE DEF s
<1>4. s \in Injection(1 .. n, S)
    BY <1>3 DEF Injection
<1>5. Cardinality(1 .. n) = n
    <2> HIDE DEF n
    <2>1. 1 \in Int /\ n \in Int /\ (1 > n => n = 0)
        BY <1>1
    <2>2. Cardinality(1 .. n) = IF 1 > n THEN 0 ELSE n - 1 + 1
        BY <2>1, FS_Interval
    <2> QED
        BY <1>1, <2>1, <2>2
<1>6. s \in Surjection(1 .. n, S)
    BY <1>4, <1>5, FS_Injection
<1>7. s \in Seq(S) /\ Len(s) = n
    <2> HIDE DEF n
    <2> QED
        BY <1>1, <1>3
<1> QED
    BY <1>6, <1>7 DEF Surjection, s

-----------------------------------------------------------------------------
Hides(f) == \E t \in TagsOf(f.text) : t \notin Derived(f.text).tags

TransferInv ==
    /\ library \in Seq(PlainNotes)
    /\ IsFiniteSet(files)
    /\ \A f \in files : f.text \in Seq(Tokens) /\ f.folder \in Folders
    /\ source \in {"folders", "none"} \cup Given
    /\ copy \in Seq(NoteSet)
    /\ imports \in {0, 1, 2}
    /\ imports # 0 => exported # "no"
    /\ imports = 1 => /\ copy = first
                      /\ \A f \in CollectFiles : ~Blank(f) => AsImported(f) \in Stored(copy)
    /\ imports = 2 => copy = first \/ \E f \in files : Hides(f)

LEMMA TransferInvInit ==
    ASSUME TransferInit
    PROVE  TransferInv
<1>1. library \in Seq(PlainNotes)
    BY TransferAssumption DEF TransferInit, PlainNotes
<1>2. IsFiniteSet(files) /\ \A f \in files : f.text \in Seq(Tokens) /\ f.folder \in Folders
    <2>1. files \in Foreign
        BY DEF TransferInit
    <2>2. \A f \in files : f.folder \in Folders
        BY <2>1 DEF Folders
    <2> QED
        BY <2>1, <2>2, TransferAssumption
<1>3. copy \in Seq(NoteSet)
    <2>1. PlainNotes \subseteq NoteSet
        BY DEF PlainNotes, NoteSet
    <2>2. library \in Seq(NoteSet) /\ <<>> \in Seq(NoteSet)
        BY <1>1, <2>1
    <2>3. copy \in {<<>>, library}
        BY DEF TransferInit
    <2> QED
        BY <2>2, <2>3
<1>4. source \in {"folders", "none"} \cup Given /\ imports = 0
    BY DEF TransferInit
<1> QED
    BY <1>1, <1>2, <1>3, <1>4 DEF TransferInv

\* Every file an import takes up has a project, or it needs none.
LEMMA CollectedFit ==
    ASSUME TransferInv, source = "folders" => \A f \in CollectFiles : ~NoProject(f),
           NEW f \in CollectFiles
    PROVE  Fits(f)
<1>1. f \in files /\ f.text \in Seq(Tokens) /\ f.folder \in Folders
    BY DEF TransferInv, CollectFiles
<1>2. CASE source = "folders"
    <2> DEFINE g == [folder |-> f.folder]
    <2>1. NoProject(g) \/ \E t \in TagTokens : SlugOf[t] = SlugFor(g)
        BY <1>1, TransferAssumption
    <2>2. SlugFor(g) = SlugFor(f)
        BY DEF SlugFor
    <2>3. NoProject(g) = NoProject(f)
        BY <2>2, Zenon DEF NoProject
    <2>4. \E t \in TagTokens : SlugOf[t] = SlugFor(f)
        BY <1>2, <2>1, <2>2, <2>3
    <2>5. TagFor(f) \in TagTokens
        BY <2>4 DEF TagFor
    <2>6. ProjectOf(f) = {TagFor(f)}
        BY <1>2 DEF ProjectOf
    <2> QED
        BY <1>1, <2>5, <2>6 DEF Fits
<1>3. CASE source = "none"
    <2>1. ProjectOf(f) = {}
        BY <1>3 DEF ProjectOf
    <2> QED
        BY <1>1, <2>1 DEF Fits
<1>4. CASE source # "folders" /\ source # "none"
    <2>1. ProjectOf(f) = {source}
        BY <1>4 DEF ProjectOf
    <2>2. source \in TagTokens
        BY <1>4, TransferAssumption DEF TransferInv
    <2> QED
        BY <1>1, <2>1, <2>2 DEF Fits
<1> QED
    BY <1>2, <1>3, <1>4

\* An export adds what it writes.
LEMMA ExportStep ==
    ASSUME TransferInv, ExportAll \/ ExportProject
    PROVE  TransferInv'
<1>1. /\ UNCHANGED <<library, copy, source, imports, first>>
      /\ imports = 0
    <2>1. exported = "no" /\ UNCHANGED <<library, copy, source, imports, first>>
        BY DEF ExportAll, ExportProject
    <2> QED
        BY <2>1 DEF TransferInv
<1>2. \E I \in SUBSET DOMAIN library : \E folder :
         /\ \A i \in I : folder[i] \in Folders
         /\ files' = files \cup {WriteNote(i, folder[i]) : i \in I}
    <2>1. CASE ExportAll
        <3> DEFINE folder == [i \in DOMAIN library |-> Folder(library[i].body)]
                   I == {j \in DOMAIN library : Folder(library[j].body) # <<>>}
        <3>1. \A i \in DOMAIN library : folder[i] \in Folders
            <4> SUFFICES ASSUME NEW i \in DOMAIN library PROVE folder[i] \in Folders
                OBVIOUS
            <4> DEFINE n == library[i]
            <4>1. n \in PlainNotes
                BY ElementOfSeq DEF TransferInv
            <4>2. n.body \in Seq(Tokens)
                <5> HIDE DEF n
                <5> QED
                    BY <4>1 DEF PlainNotes
            <4>3. Folder(n.body) \in Folders
                <5> HIDE DEF n
                <5> QED
                    BY <4>2, FolderType
            <4> QED
                BY <4>3
        <3>2. files' = files \cup {WriteNote(i, folder[i]) : i \in I}
            BY <2>1 DEF ExportAll
        <3>3. I \in SUBSET DOMAIN library
            OBVIOUS
        <3> HIDE DEF folder, I
        <3> QED
            BY <3>1, <3>2, <3>3
    <2>2. CASE ExportProject
        <3>1. PICK tag \in TagTokens :
                 files' = files \cup {WriteNote(i, <<>>) :
                              i \in {j \in DOMAIN library : tag \in Derived(library[j].body).tags}}
            BY <2>2 DEF ExportProject
        <3> DEFINE folder == [i \in DOMAIN library |-> <<>>]
                   I == {j \in DOMAIN library : tag \in Derived(library[j].body).tags}
        <3>2. \A i \in DOMAIN library : folder[i] \in Folders
            BY DEF Folders
        <3>3. files' = files \cup {WriteNote(i, folder[i]) : i \in I}
            BY <3>1
        <3>4. I \in SUBSET DOMAIN library
            OBVIOUS
        <3> HIDE DEF folder, I
        <3> QED
            BY <3>2, <3>3, <3>4
    <2> QED
        BY <2>1, <2>2
<1>3. PICK I \in SUBSET DOMAIN library : \E folder :
         /\ \A i \in I : folder[i] \in Folders
         /\ files' = files \cup {WriteNote(i, folder[i]) : i \in I}
    BY <1>2
<1>4. PICK folder :
         /\ \A i \in I : folder[i] \in Folders
         /\ files' = files \cup {WriteNote(i, folder[i]) : i \in I}
    BY <1>3
<1> DEFINE new == {WriteNote(i, folder[i]) : i \in I}
<1>5. /\ IsFiniteSet(new)
      /\ \A f \in new : f.text \in Seq(Tokens) /\ f.folder \in Folders
    <2>1. library \in Seq(PlainNotes)
        BY DEF TransferInv
    <2> QED
        BY <1>4, <2>1, Written
<1>6. files' = files \cup new
    BY <1>4
<1> HIDE DEF new
<1>7. /\ IsFiniteSet(files')
      /\ \A f \in files' : f.text \in Seq(Tokens) /\ f.folder \in Folders
    <2>1. /\ IsFiniteSet(files)
          /\ \A f \in files : f.text \in Seq(Tokens) /\ f.folder \in Folders
        BY DEF TransferInv
    <2>2. IsFiniteSet(files \cup new)
        BY <1>5, <2>1, FS_Union
    <2> QED
        BY <1>5, <1>6, <2>1, <2>2
<1> QED
    BY <1>1, <1>7 DEF TransferInv

\* The first import leaves every text there, the second finds it there.
LEMMA ImportStep ==
    ASSUME TransferInv, Import
    PROVE  TransferInv'
<1> DEFINE fs == SetToSeq(CollectFiles)
<1>1. /\ UNCHANGED <<library, files, exported, source>> /\ exported # "no"
      /\ imports \in {0, 1} /\ imports' = imports + 1
      /\ source = "folders" => \A f \in CollectFiles : ~NoProject(f)
      /\ copy' = Imported(copy, fs)
      /\ first' = IF imports = 0 THEN copy' ELSE first
    <2>1. imports \in {0, 1, 2}
        BY DEF TransferInv
    <2> QED
        BY <2>1 DEF Import
<1>2. \A f \in CollectFiles : Fits(f)
    BY <1>1, CollectedFit
<1>3. /\ fs \in Seq(CollectFiles)
      /\ \A f \in CollectFiles : \E i \in 1 .. Len(fs) : fs[i] = f
    <2>1. IsFiniteSet(files) /\ CollectFiles \in SUBSET files
        BY DEF TransferInv, CollectFiles
    <2>2. IsFiniteSet(CollectFiles)
        BY <2>1, FS_Subset
    <2> QED
        BY <2>2, SetToSeqHasAll
<1> HIDE DEF fs
<1>4. copy \in Seq(NoteSet)
    BY DEF TransferInv
<1>5. /\ copy' \in Seq(NoteSet)
      /\ \A i \in 1 .. Len(fs) : ~Blank(fs[i]) => AsImported(fs[i]) \in Stored(copy')
    BY <1>1, <1>2, <1>3, <1>4, ImportsAll
<1>6. \A f \in CollectFiles : ~Blank(f) => AsImported(f) \in Stored(copy')
    BY <1>3, <1>5
<1>7. CollectFiles' = CollectFiles
    BY <1>1 DEF CollectFiles
<1>8. \A f : AsImported(f)' = AsImported(f)
    BY <1>1 DEF AsImported, ProjectOf, TagFor
<1>9. CASE imports = 0
    <2>1. imports' = 1 /\ copy' = first'
        BY <1>1, <1>9
    <2>2. \A f \in CollectFiles' : ~Blank(f) => AsImported(f)' \in Stored(copy')
        BY <1>6, <1>7, <1>8
    <2> QED
        BY <1>1, <1>5, <2>1, <2>2 DEF TransferInv, Stored
<1>10. CASE imports = 1
    <2>1. /\ imports' = 2 /\ first' = first /\ copy = first
          /\ \A f \in CollectFiles : ~Blank(f) => AsImported(f) \in Stored(copy)
        BY <1>1, <1>10 DEF TransferInv
    <2>2. copy' = first' \/ \E f \in files : Hides(f)
        <3> SUFFICES ASSUME \A f \in files : ~Hides(f) PROVE copy' = copy
            BY <2>1
        <3>1. \A f \in CollectFiles : ProjectOf(f) \subseteq Derived(AsImported(f)).tags
            <4> SUFFICES ASSUME NEW f \in CollectFiles
                         PROVE  ProjectOf(f) \subseteq Derived(AsImported(f)).tags
                OBVIOUS
            <4>1. TagsOf(f.text) \subseteq Derived(f.text).tags
                BY DEF CollectFiles, Hides
            <4> QED
                BY <1>2, <4>1, FitsIsTyped
        <3> QED
            BY <1>1, <1>2, <1>3, <1>4, <2>1, <3>1, ImportsNothing
    <2> QED
        BY <1>1, <1>5, <2>1, <2>2 DEF TransferInv
<1> QED
    BY <1>1, <1>9, <1>10

(* An import of a directory, again and by the same projects, adds no note,   *)
(* whatever the notes, the files and their order: the tag a file is given    *)
(* counts among those derived from it, so its text is found again where its  *)
(* project's notes are looked up (ReimportAddsNothing; transfer/import.rs).  *)
THEOREM ReimportIsIdle == TransferSpec => []ReimportAddsNothing
<1>1. TransferInit => TransferInv
    BY TransferInvInit
<1>2. TransferInv /\ [TransferNext]_transferVars => TransferInv'
    <2> SUFFICES ASSUME TransferInv, [TransferNext]_transferVars PROVE TransferInv'
        OBVIOUS
    <2>1. CASE UNCHANGED transferVars
        <3>1. CollectFiles' = CollectFiles /\ \A f : AsImported(f)' = AsImported(f)
            BY <2>1 DEF CollectFiles, AsImported, ProjectOf, TagFor, transferVars
        <3> QED
            BY <2>1, <3>1 DEF TransferInv, transferVars
    <2> QED
        BY <2>1, ExportStep, ImportStep DEF TransferNext
<1>3. TransferInv => ReimportAddsNothing
    BY DEF TransferInv, ReimportAddsNothing, Hides
<1> QED
    BY <1>1, <1>2, <1>3, PTL DEF TransferSpec
=============================================================================
