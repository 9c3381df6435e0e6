---------------------------- MODULE EditorProofs ----------------------------
(***************************************************************************)
(* Nothing that was written to a note is lost by the editor, for any notes, *)
(* texts of any length and queues of any length.                            *)
(***************************************************************************)
EXTENDS Editor, TLAPS

Versions == Notes \X Nat
CallOf(K) ==
    [do: {"load", "reload", "watch", "write"}, note: Notes, text: SUBSET K,
     version: Versions \cup {None}]
ResultOf(K) == [call: CallOf(K), ok: BOOLEAN, body: SUBSET K, version: Versions]
EditOf(K) == [note: Notes, text: SUBSET K, version: Versions]

\* No text has a passage nobody has written yet.
Shapes ==
    /\ next \in Nat
    /\ store \in [Notes -> [body: SUBSET (1 .. next), at: Nat]]
    /\ theirs \in [Notes -> SUBSET (1 .. next)] /\ typed \in [Notes -> SUBSET (1 .. next)]
    /\ selected \in Notes \cup {None} /\ loading \in Notes \cup {None}
    /\ text \in SUBSET (1 .. next) /\ loaded \in Versions \cup {None}
    /\ pending \in EditOf(1 .. next) \cup {None}
    /\ calls \in Seq(CallOf(1 .. next)) /\ results \in Seq(ResultOf(1 .. next))

\* What may be gone of a note: nothing, unless a write to it was rejected.
Aside(n) == IF n \in rejected THEN gone \cup draft ELSE {}

\* What waits to be flushed is of the open note, and was in its buffer.
Focus ==
    /\ loading # None => loading = selected /\ pending = None
    /\ pending # None =>
          pending.note = selected /\ pending.text \subseteq text \cup Aside(pending.note)

\* A note is read again after a rejection only.
Reported ==
    /\ \A c \in Range(calls) : c.do = "reload" => c.note \in rejected
    /\ \A r \in Range(results) : r.call.do = "reload" => r.call.note \in rejected

\* Versions only grow: a result says no older one than is already known, and
\* nobody knows one that was not there.
Sorted(s) ==
    \A i, j \in 1 .. Len(s) :
        i <= j /\ s[i].call.note = s[j].call.note => s[i].version[2] <= s[j].version[2]
Past(v) ==
    v \in Versions =>
        /\ v[2] <= store[v[1]].at
        /\ \A r \in Range(results) : r.call.note = v[1] => v[2] <= r.version[2]
Order ==
    /\ Sorted(results)
    /\ \A r \in Range(results) :
          /\ r.version[1] = r.call.note /\ r.version[2] <= store[r.call.note].at
          /\ r.version = Version(r.call.note) => r.body = store[r.call.note].body
    /\ \A c \in Range(calls) : c.do = "write" =>
          c.version \in Versions /\ c.version[2] <= store[c.version[1]].at
    /\ Past(loaded)
    /\ pending # None => Past(pending.version)

Writes(n) == {c \in Range(calls) : c.do = "write" /\ c.note = n}
Answers(n) == {r \in Range(results) : r.call.do = "write" /\ r.call.note = n}

\* Who has a text like this has seen all there is in the note.
Sees(n, seen) == theirs[n] \subseteq seen /\ store[n].body \subseteq seen \cup Aside(n)

\* Whatever would be stored under the version of now was made by who saw the
\* note as it is now, and so was the buffer.
Current(n) ==
    /\ theirs[n] \subseteq store[n].body
    /\ \A c \in Writes(n) : c.version = Version(n) => Sees(n, c.text)
    /\ pending # None /\ pending.note = n /\ pending.version = Version(n)
          => Sees(n, pending.text) /\ Sees(n, text)
    /\ selected = n /\ loading = None =>
          /\ loaded = Version(n) => Sees(n, text)
          /\ \A c \in Writes(n) :
                /\ c.text \subseteq text \cup Aside(n)
                /\ c.version = Version(n) => theirs[n] \subseteq text
          /\ \A r \in Answers(n) :
                /\ r.call.text \subseteq text \cup Aside(n)
                /\ r.ok /\ r.version = Version(n) /\ r.body = r.call.text
                      => theirs[n] \subseteq text

\* What was typed is somewhere else than in the buffer alone.
Safe(n) ==
    typed[n] \subseteq
        store[n].body \cup Aside(n)
          \cup (IF pending # None /\ pending.note = n THEN pending.text ELSE {})
          \cup (UNION {c.text : c \in Writes(n)})
          \cup UNION {r.call.text : r \in {s \in Answers(n) : ~s.ok}}

EditorInv ==
    /\ Shapes /\ Focus /\ Order /\ Reported
    /\ \A n \in Notes \ misread : Current(n) /\ Safe(n)

-----------------------------------------------------------------------------
(* Queues.                                                                   *)

LEMMA RangeAppend ==
    ASSUME NEW S, NEW s \in Seq(S), NEW e \in S
    PROVE  Append(s, e) \in Seq(S) /\ Range(Append(s, e)) = Range(s) \cup {e}
<1>1. /\ Append(s, e) \in Seq(S) /\ Len(Append(s, e)) = Len(s) + 1 /\ Len(s) \in Nat
      /\ \A i \in 1 .. Len(s) : Append(s, e)[i] = s[i]
      /\ Append(s, e)[Len(s) + 1] = e
    OBVIOUS
<1>2. DOMAIN s = 1 .. Len(s) /\ DOMAIN Append(s, e) = 1 .. Len(s) + 1
    BY <1>1
<1>3. Range(s) = {s[i] : i \in 1 .. Len(s)}
    BY <1>2 DEF Range
<1>4. Range(Append(s, e)) = {Append(s, e)[i] : i \in 1 .. Len(s) + 1}
    BY <1>2 DEF Range
<1>5. 1 .. Len(s) + 1 = (1 .. Len(s)) \cup {Len(s) + 1}
    BY <1>1
<1>6. Range(Append(s, e)) = {Append(s, e)[i] : i \in 1 .. Len(s)} \cup {e}
    BY <1>1, <1>4, <1>5
<1> QED
    BY <1>1, <1>3, <1>6

LEMMA RangeTail ==
    ASSUME NEW S, NEW s \in Seq(S), s # <<>>
    PROVE  /\ Head(s) \in S /\ Tail(s) \in Seq(S)
           /\ Range(s) = {Head(s)} \cup Range(Tail(s))
<1>1. /\ Head(s) \in S /\ Tail(s) \in Seq(S) /\ Len(s) \in Nat /\ Len(s) >= 1
      /\ Len(Tail(s)) = Len(s) - 1 /\ Head(s) = s[1]
      /\ \A i \in 1 .. Len(s) - 1 : Tail(s)[i] = s[i + 1]
    OBVIOUS
<1>2. DOMAIN s = 1 .. Len(s) /\ DOMAIN Tail(s) = 1 .. Len(s) - 1
    BY <1>1
<1>3. Range(s) = {s[i] : i \in 1 .. Len(s)} /\ Range(Tail(s)) = {Tail(s)[i] : i \in 1 .. Len(s) - 1}
    BY <1>2 DEF Range
<1>4. ASSUME NEW i \in 1 .. Len(s) PROVE s[i] \in {Head(s)} \cup Range(Tail(s))
    <2>1. CASE i = 1
        BY <1>1, <2>1
    <2>2. CASE i # 1
        <3>1. i - 1 \in 1 .. Len(s) - 1 /\ Tail(s)[i - 1] = s[i]
            BY <1>1, <2>2
        <3> QED
            BY <1>3, <3>1
    <2> QED
        BY <2>1, <2>2
<1>5. ASSUME NEW i \in 1 .. Len(s) - 1 PROVE Tail(s)[i] \in Range(s)
    <2>1. i + 1 \in 1 .. Len(s) /\ Tail(s)[i] = s[i + 1]
        BY <1>1
    <2> QED
        BY <1>3, <2>1
<1>6. Head(s) \in Range(s)
    BY <1>1, <1>3
<1> QED
    BY <1>1, <1>3, <1>4, <1>5, <1>6

LEMMA RangeIs ==
    ASSUME NEW S, NEW s \in Seq(S)
    PROVE  /\ Range(s) \subseteq S /\ \A i \in 1 .. Len(s) : s[i] \in Range(s)
           /\ \A e \in Range(s) : \E i \in 1 .. Len(s) : e = s[i]
BY DEF Range

LEMMA SortedTail ==
    ASSUME NEW K, NEW s \in Seq(ResultOf(K)), s # <<>>, Sorted(s)
    PROVE  /\ Sorted(Tail(s))
           /\ \A r \in Range(Tail(s)) : r.call.note = Head(s).call.note =>
                 Head(s).version[2] <= r.version[2]
<1>1. /\ Tail(s) \in Seq(ResultOf(K)) /\ Len(s) \in Nat /\ Len(s) >= 1
      /\ Len(Tail(s)) = Len(s) - 1 /\ Head(s) = s[1]
      /\ \A i \in 1 .. Len(s) - 1 : Tail(s)[i] = s[i + 1]
    OBVIOUS
<1>2. ASSUME NEW i \in 1 .. Len(Tail(s)), NEW j \in 1 .. Len(Tail(s)), i <= j,
             Tail(s)[i].call.note = Tail(s)[j].call.note
      PROVE  Tail(s)[i].version[2] <= Tail(s)[j].version[2]
    <2>1. /\ i + 1 \in 1 .. Len(s) /\ j + 1 \in 1 .. Len(s) /\ i + 1 <= j + 1
          /\ Tail(s)[i] = s[i + 1] /\ Tail(s)[j] = s[j + 1]
        BY <1>1, <1>2
    <2> QED
        BY <1>2, <2>1 DEF Sorted
<1>3. ASSUME NEW r \in Range(Tail(s)), r.call.note = Head(s).call.note
      PROVE  Head(s).version[2] <= r.version[2]
    <2>1. PICK i \in 1 .. Len(Tail(s)) : r = Tail(s)[i]
        BY <1>1, RangeIs
    <2>2. i + 1 \in 1 .. Len(s) /\ 1 \in 1 .. Len(s) /\ 1 <= i + 1 /\ r = s[i + 1]
        BY <1>1, <2>1
    <2> QED
        BY <1>1, <1>3, <2>2 DEF Sorted
<1> QED
    BY <1>2, <1>3 DEF Sorted

LEMMA SortedAppend ==
    ASSUME NEW K, NEW s \in Seq(ResultOf(K)), NEW e \in ResultOf(K), Sorted(s),
           \A r \in Range(s) : r.call.note = e.call.note => r.version[2] <= e.version[2]
    PROVE  Sorted(Append(s, e))
<1> DEFINE t == Append(s, e)
<1>1. /\ Len(t) = Len(s) + 1 /\ Len(s) \in Nat
      /\ \A i \in 1 .. Len(s) : t[i] = s[i]
      /\ t[Len(s) + 1] = e
    OBVIOUS
<1>2. e.version[2] \in Nat
    BY DEF ResultOf, Versions
<1> HIDE DEF t
<1>3. ASSUME NEW i \in 1 .. Len(t), NEW j \in 1 .. Len(t), i <= j, t[i].call.note = t[j].call.note
      PROVE  t[i].version[2] <= t[j].version[2]
    <2>1. CASE j \in 1 .. Len(s)
        <3>1. i \in 1 .. Len(s) /\ t[i] = s[i] /\ t[j] = s[j]
            BY <1>1, <1>3, <2>1
        <3> QED
            BY <1>3, <2>1, <3>1 DEF Sorted
    <2>2. CASE j = Len(s) + 1 /\ i \in 1 .. Len(s)
        <3>1. t[i] = s[i] /\ s[i] \in Range(s) /\ t[j] = e
            BY <1>1, <2>2, RangeIs
        <3> QED
            BY <1>3, <3>1
    <2>3. CASE j = Len(s) + 1 /\ i = Len(s) + 1
        BY <1>1, <1>2, <2>3
    <2> QED
        BY <1>1, <2>1, <2>2, <2>3
<1> QED
    BY <1>3 DEF Sorted, t

\* The texts of a set of calls with one call less.
LEMMA UnionLess ==
    ASSUME NEW S, NEW T, NEW c, S = T \cup {c}
    PROVE  UNION {w.text : w \in S} \subseteq (UNION {w.text : w \in T}) \cup c.text
<1>1. ASSUME NEW x \in UNION {w.text : w \in S}
      PROVE  x \in (UNION {w.text : w \in T}) \cup c.text
    <2>1. PICK w \in S : x \in w.text
        OBVIOUS
    <2>2. w \in T \/ w = c
        OBVIOUS
    <2> QED
        BY <2>1, <2>2
<1> QED
    BY <1>1

-----------------------------------------------------------------------------
(* What is written is only added to.                                         *)

LEMMA MoreText ==
    ASSUME NEW K, NEW L, K \subseteq L
    PROVE  /\ SUBSET K \subseteq SUBSET L
           /\ EditOf(K) \subseteq EditOf(L)
           /\ Seq(CallOf(K)) \subseteq Seq(CallOf(L))
           /\ Seq(ResultOf(K)) \subseteq Seq(ResultOf(L))
<1> DEFINE H == SUBSET K
           I == SUBSET L
<1>1. H \subseteq I
    OBVIOUS
<1> HIDE DEF H, I
<1>2. CallOf(K) \subseteq CallOf(L)
    BY <1>1 DEF CallOf, H, I
<1>3. ResultOf(K) \subseteq ResultOf(L)
    BY <1>1, <1>2 DEF ResultOf, H, I
<1>4. EditOf(K) \subseteq EditOf(L)
    BY <1>1 DEF EditOf, H, I
<1>5. Seq(CallOf(K)) \subseteq Seq(CallOf(L)) /\ Seq(ResultOf(K)) \subseteq Seq(ResultOf(L))
    BY <1>2, <1>3
<1> QED
    BY <1>1, <1>4, <1>5 DEF H, I

\* One more passage: every shape still fits.
LEMMA NextPassage ==
    ASSUME Shapes, next' = next + 1
    PROVE  /\ next' \in Nat /\ next' \in 1 .. next' /\ 1 .. next \subseteq 1 .. next'
           /\ next' \notin 1 .. next
           /\ store \in [Notes -> [body: SUBSET (1 .. next'), at: Nat]]
           /\ theirs \in [Notes -> SUBSET (1 .. next')] /\ typed \in [Notes -> SUBSET (1 .. next')]
           /\ text \in SUBSET (1 .. next')
           /\ pending \in EditOf(1 .. next') \cup {None}
           /\ calls \in Seq(CallOf(1 .. next')) /\ results \in Seq(ResultOf(1 .. next'))
<1>1. next' \in Nat /\ next' \in 1 .. next' /\ 1 .. next \subseteq 1 .. next' /\ next' \notin 1 .. next
    BY DEF Shapes
<1> DEFINE K == 1 .. next
           L == 1 .. next'
<1>2. K \subseteq L
    BY <1>1
<1>3. /\ store \in [Notes -> [body: SUBSET K, at: Nat]]
      /\ theirs \in [Notes -> SUBSET K] /\ typed \in [Notes -> SUBSET K]
      /\ text \in SUBSET K /\ pending \in EditOf(K) \cup {None}
      /\ calls \in Seq(CallOf(K)) /\ results \in Seq(ResultOf(K))
    BY DEF Shapes
<1> HIDE DEF K, L
<1>4. /\ SUBSET K \subseteq SUBSET L /\ EditOf(K) \subseteq EditOf(L)
      /\ Seq(CallOf(K)) \subseteq Seq(CallOf(L)) /\ Seq(ResultOf(K)) \subseteq Seq(ResultOf(L))
    BY <1>2, MoreText
<1>5. /\ text \in SUBSET L /\ pending \in EditOf(L) \cup {None}
      /\ calls \in Seq(CallOf(L)) /\ results \in Seq(ResultOf(L))
    BY <1>3, <1>4
<1>6. /\ theirs \in [Notes -> SUBSET L] /\ typed \in [Notes -> SUBSET L]
      /\ store \in [Notes -> [body: SUBSET L, at: Nat]]
    <2> DEFINE A == SUBSET K
               B == SUBSET L
    <2>1. A \subseteq B
        BY <1>4
    <2>2. /\ theirs \in [Notes -> A] /\ typed \in [Notes -> A]
          /\ store \in [Notes -> [body: A, at: Nat]]
        BY <1>3
    <2> HIDE DEF A, B
    <2>3. /\ theirs \in [Notes -> B] /\ typed \in [Notes -> B]
          /\ store \in [Notes -> [body: B, at: Nat]]
        BY <2>1, <2>2
    <2> QED
        BY <2>3 DEF B
<1> QED
    BY <1>1, <1>5, <1>6 DEF K, L

\* No action queues a reload of its own, but the rejection.
LEMMA ReportedStays ==
    ASSUME Reported, rejected \subseteq rejected',
           \A c \in Range(calls') : c \in Range(calls) \/ c.do # "reload" \/ c.note \in rejected',
           \A r \in Range(results') : r \in Range(results) \/ r.call \in Range(calls)
    PROVE  Reported'
BY DEF Reported

-----------------------------------------------------------------------------
(* The user.                                                                 *)

LEMMA TypeKeeps == ASSUME EditorInv, Type PROVE EditorInv'
<1>1. /\ selected # None /\ loading = None /\ loaded # None /\ next' = next + 1
      /\ text' = text \cup {next'}
      /\ pending' = [note |-> selected, text |-> text', version |-> loaded]
      /\ typed' = [typed EXCEPT ![selected] = @ \cup {next'}]
      /\ store' = store /\ theirs' = theirs /\ selected' = selected /\ loaded' = loaded
      /\ loading' = loading /\ calls' = calls /\ results' = results
      /\ misread' = misread /\ rejected' = rejected /\ \A n : Aside(n)' = Aside(n)
    BY DEF Type, queues, refusals, Aside
<1>2. selected \in Notes /\ loaded \in Versions
    BY <1>1 DEF EditorInv, Shapes
<1>3. Shapes'
    <2>1. /\ next' \in Nat /\ next' \in 1 .. next' /\ 1 .. next \subseteq 1 .. next'
          /\ next' \notin 1 .. next
          /\ store \in [Notes -> [body: SUBSET (1 .. next'), at: Nat]]
          /\ theirs \in [Notes -> SUBSET (1 .. next')] /\ typed \in [Notes -> SUBSET (1 .. next')]
          /\ text \in SUBSET (1 .. next')
          /\ calls \in Seq(CallOf(1 .. next')) /\ results \in Seq(ResultOf(1 .. next'))
        BY <1>1, NextPassage DEF EditorInv
    <2> DEFINE K == 1 .. next'
    <2> HIDE DEF K
    <2>2. text' \in SUBSET K
        BY <1>1, <2>1 DEF K
    <2>3. pending' \in EditOf(K)
        BY <1>1, <1>2, <2>2 DEF EditOf
    <2>4. typed' \in [Notes -> SUBSET K]
        <3>1. typed \in [Notes -> SUBSET K] /\ next' \in K
            BY <2>1 DEF K
        <3> QED
            BY <1>1, <3>1
    <2> QED
        BY <1>1, <2>1, <2>2, <2>3, <2>4 DEF EditorInv, Shapes, K
<1>4. Focus' /\ Reported'
    BY <1>1 DEF EditorInv, Focus, Reported
<1>5. Order'
    BY <1>1 DEF EditorInv, Order, Past, Version
<1>6. ASSUME NEW n \in Notes \ misread PROVE Current(n)'
    <2>1. Current(n)
        BY DEF EditorInv
    <2>2. Writes(n)' = Writes(n) /\ Answers(n)' = Answers(n) /\ Version(n)' = Version(n)
        BY <1>1 DEF Writes, Answers, Version
    <2>3. \A seen : Sees(n, seen)' <=> Sees(n, seen)
        BY <1>1 DEF Sees
    <2>4. Sees(n, text) => Sees(n, text')
        BY <1>1 DEF Sees
    <2>5. pending'.note = selected /\ pending'.text = text' /\ pending'.version = loaded
        BY <1>1
    <2> QED
        BY <1>1, <2>1, <2>2, <2>3, <2>4, <2>5 DEF Current, Sees
<1>7. ASSUME NEW n \in Notes \ misread PROVE Safe(n)'
    <2>1. Safe(n)
        BY DEF EditorInv
    <2>2. Writes(n)' = Writes(n) /\ Answers(n)' = Answers(n)
        BY <1>1 DEF Writes, Answers
    <2>3. CASE n = selected
        <3>1. pending # None => pending.text \subseteq text \cup Aside(n)
            BY <2>3 DEF EditorInv, Focus
        <3>2. pending' # None /\ pending'.note = n /\ pending'.text = text \cup {next'}
            <4>1. text' \in SUBSET (1 .. next') /\ next' \in Nat
                BY <1>3 DEF Shapes
            <4>2. text' \in SUBSET Nat
                BY <4>1
            <4>3. pending' \in [note: Notes, text: SUBSET Nat, version: Notes \X Nat]
                BY <1>1, <1>2, <4>2 DEF Versions
            <4>4. pending' # None
                BY <4>3, EditorAssumption
            <4> QED
                BY <1>1, <2>3, <4>4
        <3>3. typed'[n] = typed[n] \cup {next'}
            BY <1>1, <2>3 DEF EditorInv, Shapes
        <3> QED
            BY <1>1, <2>1, <2>2, <3>1, <3>2, <3>3 DEF Safe
    <2>4. CASE n # selected
        <3>1. typed'[n] = typed[n]
            BY <1>1, <2>4 DEF EditorInv, Shapes
        <3>2. pending # None => pending.note # n
            BY <2>4 DEF EditorInv, Focus
        <3>3. pending'.note # n
            BY <1>1, <2>4
        <3> QED
            BY <1>1, <2>1, <2>2, <3>1, <3>2, <3>3 DEF Safe
    <2> QED
        BY <2>3, <2>4
<1> QED
    BY <1>1, <1>3, <1>4, <1>5, <1>6, <1>7 DEF EditorInv

\* The edit that is taken is queued as a write; without one, nothing is.
Taken == [do |-> "write", note |-> pending.note, text |-> pending.text, version |-> pending.version]

LEMMA FlushedIs ==
    ASSUME Shapes
    PROVE  /\ Flushed \in Seq(CallOf(1 .. next))
           /\ pending = None => Range(Flushed) = Range(calls)
           /\ pending # None => Range(Flushed) = Range(calls) \cup {Taken}
<1>1. CASE pending = None
    BY <1>1 DEF Flushed, Shapes
<1>2. CASE pending # None
    <2>1. Taken \in CallOf(1 .. next)
        BY <1>2 DEF Shapes, EditOf, CallOf, Taken
    <2>2. Flushed = Append(calls, Taken)
        BY <1>2 DEF Flushed, Taken
    <2> HIDE DEF Taken
    <2> QED
        BY <1>2, <2>1, <2>2, RangeAppend DEF Shapes
<1> QED
    BY <1>1, <1>2

\* With the edit on its way instead, a note is as current and as safe.
LEMMA FlushCurrent ==
    ASSUME Shapes, Focus, NEW n \in Notes, Current(n), Safe(n),
           Writes(n)' = Writes(n) \cup {c \in {Taken} : pending # None /\ c.note = n},
           pending' = None, Answers(n)' = Answers(n),
           UNCHANGED <<store, theirs, typed>>, Aside(n)' = Aside(n),
           \/ UNCHANGED <<selected, loading, text, loaded>>
           \/ loading' = selected'
    PROVE  Current(n)' /\ Safe(n)'
<1>1. Version(n)' = Version(n) /\ \A seen : Sees(n, seen)' <=> Sees(n, seen)
    BY DEF Version, Sees
<1>2. /\ Taken.note = pending.note /\ Taken.text = pending.text /\ Taken.version = pending.version
    BY DEF Taken
<1> HIDE DEF Taken
<1>3. theirs'[n] \subseteq store'[n].body
    BY DEF Current
<1>4. ASSUME NEW c \in Writes(n)', c.version = Version(n) PROVE Sees(n, c.text)
    <2>1. CASE c \in Writes(n)
        BY <1>4, <2>1 DEF Current
    <2>2. CASE c = Taken /\ pending # None /\ c.note = n
        BY <1>2, <1>4, <2>2 DEF Current
    <2> QED
        BY <2>1, <2>2
<1>5. ASSUME selected' = n, loading' = None
      PROVE  /\ loaded' = Version(n) => Sees(n, text')
             /\ \A c \in Writes(n)' :
                   /\ c.text \subseteq text' \cup Aside(n)
                   /\ c.version = Version(n) => theirs[n] \subseteq text'
             /\ \A r \in Answers(n) :
                   /\ r.call.text \subseteq text' \cup Aside(n)
                   /\ r.ok /\ r.version = Version(n) /\ r.body = r.call.text
                         => theirs[n] \subseteq text'
    <2>1. CASE loading' = selected'
        BY <1>5, <2>1, EditorAssumption
    <2>2. CASE UNCHANGED <<selected, loading, text, loaded>>
        <3>1. selected = n /\ loading = None /\ text' = text /\ loaded' = loaded
            BY <1>5, <2>2
        <3>2. ASSUME NEW c \in Writes(n)'
              PROVE  c.text \subseteq text \cup Aside(n) /\ (c.version = Version(n) => theirs[n] \subseteq text)
            <4>1. CASE c \in Writes(n)
                BY <3>1, <4>1 DEF Current
            <4>2. CASE c = Taken /\ pending # None /\ c.note = n
                <5>1. pending.text \subseteq text \cup Aside(n)
                    BY <1>2, <4>2 DEF Focus
                <5>2. c.version = Version(n) => Sees(n, text)
                    BY <1>2, <4>2 DEF Current
                <5> QED
                    BY <1>2, <4>2, <5>1, <5>2 DEF Sees
            <4> QED
                BY <4>1, <4>2
        <3> QED
            BY <3>1, <3>2 DEF Current
    <2> QED
        BY <2>1, <2>2
<1>6. Current(n)'
    BY <1>1, <1>3, <1>4, <1>5 DEF Current
<1>7. Safe(n)'
    <2>1. CASE pending # None /\ pending.note = n
        <3>1. Taken \in Writes(n)'
            BY <1>2, <2>1
        <3>2. Writes(n) \subseteq Writes(n)'
            OBVIOUS
        <3>3. pending.text \subseteq UNION {c.text : c \in Writes(n)'}
            BY <1>2, <3>1
        <3>4. UNION {c.text : c \in Writes(n)} \subseteq UNION {c.text : c \in Writes(n)'}
            BY <3>2
        <3> HIDE DEF Writes, Answers
        <3> QED
            BY <2>1, <3>3, <3>4 DEF Safe
    <2>2. CASE ~(pending # None /\ pending.note = n)
        <3>1. Writes(n)' = Writes(n)
            BY <1>2, <2>2
        <3> QED
            BY <2>2, <3>1 DEF Safe
    <2> QED
        BY <2>1, <2>2
<1> QED
    BY <1>6, <1>7

LEMMA FlushKeeps == ASSUME EditorInv, FlushPendingEdit PROVE EditorInv'
<1>1. /\ pending # None /\ calls' = Flushed /\ pending' = None
      /\ store' = store /\ theirs' = theirs /\ next' = next /\ typed' = typed
      /\ selected' = selected /\ text' = text /\ loaded' = loaded /\ loading' = loading
      /\ results' = results /\ misread' = misread /\ rejected' = rejected
      /\ \A n : Aside(n)' = Aside(n)
    BY DEF FlushPendingEdit, storeVars, refusals, Aside
<1>2. Flushed \in Seq(CallOf(1 .. next)) /\ Range(Flushed) = Range(calls) \cup {Taken}
    BY <1>1, FlushedIs DEF EditorInv
<1>3. Shapes' /\ Focus' /\ Reported'
    <2>1. Shapes' /\ Focus'
        BY <1>1, <1>2 DEF EditorInv, Shapes, Focus
    <2>2. Taken.do # "reload"
        BY DEF Taken
    <2> QED
        BY <1>1, <1>2, <2>1, <2>2, ReportedStays DEF EditorInv
<1>4. Order'
    <2>1. Taken.version = pending.version /\ pending.version \in Versions
        BY <1>1 DEF Taken, EditorInv, Shapes, EditOf
    <2>2. \A c \in Range(calls') : c.do = "write" =>
             c.version \in Versions /\ c.version[2] <= store[c.version[1]].at
        BY <1>1, <1>2, <2>1 DEF EditorInv, Order, Past
    <2> QED
        BY <1>1, <2>2 DEF EditorInv, Order, Past, Version
<1>5. ASSUME NEW n \in Notes \ misread PROVE Current(n)' /\ Safe(n)'
    <2>1. Writes(n)' = Writes(n) \cup {c \in {Taken} : pending # None /\ c.note = n}
        BY <1>1, <1>2 DEF Writes, Taken
    <2>2. Answers(n)' = Answers(n)
        BY <1>1 DEF Answers
    <2>3. Current(n) /\ Safe(n) /\ Shapes /\ Focus
        BY DEF EditorInv
    <2> QED
        BY <1>1, <2>1, <2>2, <2>3, FlushCurrent
<1> QED
    BY <1>1, <1>3, <1>4, <1>5 DEF EditorInv

LEMMA SelectKeeps ==
    ASSUME EditorInv, NEW k \in Notes \cup {None}, LoadSelectedNote(k)
    PROVE  EditorInv'
<1>1. /\ selected' = k /\ text' = {} /\ loading' = k
      /\ calls' = IF k = None THEN Flushed ELSE Append(Flushed, Call("load", k))
      /\ pending' = None /\ store' = store /\ theirs' = theirs /\ next' = next
      /\ typed' = typed /\ loaded' = loaded
      /\ results' = results /\ misread' = misread /\ rejected' = rejected
      /\ \A n : Aside(n)' = Aside(n)
    BY DEF LoadSelectedNote, storeVars, refusals, Aside
<1>2. /\ Flushed \in Seq(CallOf(1 .. next))
      /\ pending = None => Range(Flushed) = Range(calls)
      /\ pending # None => Range(Flushed) = Range(calls) \cup {Taken}
    BY FlushedIs DEF EditorInv
<1>3. /\ calls' \in Seq(CallOf(1 .. next))
      /\ \A c \in Range(calls') : c \in Range(Flushed) \/ c.do = "load"
      /\ Range(Flushed) \subseteq Range(calls')
    <2>1. CASE k = None
        BY <1>1, <1>2, <2>1
    <2>2. CASE k # None
        <3> DEFINE c == Call("load", k)
        <3>1. c \in CallOf(1 .. next) /\ c.do = "load"
            BY <2>2 DEF Call, CallOf
        <3> HIDE DEF c
        <3>2. calls' = Append(Flushed, c)
            BY <1>1, <2>2 DEF c
        <3> QED
            BY <1>2, <3>1, <3>2, RangeAppend
    <2> QED
        BY <2>1, <2>2
<1>4. Shapes' /\ Focus' /\ Reported'
    <2>1. Shapes' /\ Focus'
        BY <1>1, <1>3 DEF EditorInv, Shapes, Focus
    <2>2. Taken.do # "reload"
        BY DEF Taken
    <2> QED
        BY <1>1, <1>2, <1>3, <2>1, <2>2, ReportedStays DEF EditorInv
<1>5. Order'
    <2>1. pending # None => Taken.version = pending.version /\ pending.version \in Versions
        BY DEF Taken, EditorInv, Shapes, EditOf
    <2>2. \A c \in Range(calls') : c.do = "write" =>
             c.version \in Versions /\ c.version[2] <= store[c.version[1]].at
        BY <1>2, <1>3, <2>1 DEF EditorInv, Order, Past
    <2> QED
        BY <1>1, <2>2 DEF EditorInv, Order, Past, Version
<1>6. ASSUME NEW n \in Notes \ misread PROVE Current(n)' /\ Safe(n)'
    <2>1. Writes(n)' = Writes(n) \cup {c \in {Taken} : pending # None /\ c.note = n}
        BY <1>2, <1>3 DEF Writes, Taken
    <2>2. Answers(n)' = Answers(n)
        BY <1>1 DEF Answers
    <2>3. Current(n) /\ Safe(n) /\ Shapes /\ Focus /\ loading' = selected'
        BY <1>1 DEF EditorInv
    <2> QED
        BY <1>1, <2>1, <2>2, <2>3, FlushCurrent
<1> QED
    BY <1>1, <1>4, <1>5, <1>6 DEF EditorInv

\* A note nothing happened to.
LEMMA Unmoved ==
    ASSUME NEW n, Current(n), Safe(n),
           store'[n] = store[n], theirs'[n] = theirs[n], typed'[n] = typed[n],
           Writes(n)' = Writes(n), Answers(n)' = Answers(n),
           UNCHANGED <<selected, text, loaded, pending, loading>>, Aside(n)' = Aside(n)
    PROVE  Current(n)' /\ Safe(n)'
<1>1. Version(n)' = Version(n) /\ \A seen : Sees(n, seen)' <=> Sees(n, seen)
    BY DEF Version, Sees
<1> HIDE DEF Writes, Answers, Version, Sees
<1>2. Current(n)'
    BY <1>1 DEF Current, Sees
<1>3. Safe(n)'
    BY DEF Safe
<1> QED
    BY <1>2, <1>3

LEMMA CopyKeeps == ASSUME EditorInv, CopyDraft PROVE EditorInv'
<1>1. /\ store' = store /\ theirs' = theirs /\ next' = next /\ typed' = typed
      /\ selected' = selected /\ text' = text /\ loaded' = loaded /\ pending' = pending
      /\ loading' = loading /\ calls' = calls /\ results' = results /\ misread' = misread
      /\ rejected' = rejected /\ \A n : Aside(n)' = Aside(n)
    BY DEF CopyDraft, storeVars, queues, Aside
<1>2. Shapes' /\ Focus' /\ Reported'
    BY <1>1 DEF EditorInv, Shapes, Focus, Reported
<1>3. Order'
    BY <1>1 DEF EditorInv, Order, Past, Version
<1>4. ASSUME NEW n \in Notes \ misread PROVE Current(n)' /\ Safe(n)'
    <2>1. Writes(n)' = Writes(n) /\ Answers(n)' = Answers(n)
        BY <1>1 DEF Writes, Answers
    <2>2. Current(n) /\ Safe(n)
        BY DEF EditorInv
    <2> QED
        BY <1>1, <2>1, <2>2, Unmoved
<1> QED
    BY <1>1, <1>2, <1>3, <1>4 DEF EditorInv

-----------------------------------------------------------------------------
(* The store.                                                                *)

\* Versions stay in order when notes move on and results say how they are now.
LEMMA OrderMoves ==
    ASSUME Shapes, Order, Shapes',
           \A n \in Notes : store'[n] = store[n] \/ store[n].at < store'[n].at,
           UNCHANGED <<loaded, pending>>, Range(calls') \subseteq Range(calls),
           NEW K, results \in Seq(ResultOf(K)),
           \/ results' = results
           \/ \E e \in ResultOf(K) :
                /\ results' = Append(results, e)
                /\ e.version = <<e.call.note, store'[e.call.note].at>>
                /\ e.body = store'[e.call.note].body
    PROVE  Order'
<1>1. \A n \in Notes : store[n].at \in Nat /\ store'[n].at \in Nat /\ store[n].at <= store'[n].at
    <2>1. /\ store \in [Notes -> [body: SUBSET (1 .. next), at: Nat]]
          /\ store' \in [Notes -> [body: SUBSET (1 .. next'), at: Nat]]
        BY DEF Shapes
    <2>2. \A n \in Notes : store[n].at \in Nat /\ store'[n].at \in Nat
        BY <2>1
    <2> QED
        BY <2>2
<1>2. ASSUME NEW r \in Range(results)
      PROVE  /\ r.version[1] = r.call.note /\ r.version[2] <= store'[r.call.note].at
             /\ r.version = <<r.call.note, store'[r.call.note].at>> => r.body = store'[r.call.note].body
             /\ r.call.note \in Notes /\ r.version[2] \in Nat
    <2>1. r \in ResultOf(K)
        BY RangeIs
    <2>2. r.call.note \in Notes /\ r.version[2] \in Nat
        BY <2>1 DEF ResultOf, CallOf, Versions
    <2>3. /\ r.version[1] = r.call.note /\ r.version[2] <= store[r.call.note].at
          /\ r.version = Version(r.call.note) => r.body = store[r.call.note].body
        BY DEF Order
    <2>4. r.version[2] <= store'[r.call.note].at
        BY <1>1, <2>2, <2>3
    <2>5. ASSUME r.version = <<r.call.note, store'[r.call.note].at>>
          PROVE  r.body = store'[r.call.note].body
        <3>1. r.version[2] = store'[r.call.note].at
            BY <2>5
        <3>2. store'[r.call.note] = store[r.call.note]
            BY <1>1, <2>2, <2>3, <3>1
        <3> QED
            BY <2>3, <2>5, <3>2 DEF Version
    <2> QED
        BY <2>2, <2>3, <2>4, <2>5
<1>3. ASSUME NEW v \in Versions, v[2] <= store[v[1]].at PROVE v[2] <= store'[v[1]].at
    <2>1. v[1] \in Notes /\ v[2] \in Nat
        BY DEF Versions
    <2> QED
        BY <1>1, <1>3, <2>1
<1>4. \A c \in Range(calls') : c.do = "write" =>
          c.version \in Versions /\ c.version[2] <= store'[c.version[1]].at
    BY <1>3 DEF Order
<1>5. CASE results' = results
    <2>1. Sorted(results')
        BY <1>5 DEF Order
    <2>2. ASSUME NEW v, Past(v) PROVE Past(v)'
        BY <1>3, <1>5, <2>2 DEF Past
    <2>3. Past(loaded)' /\ (pending' # None => Past(pending.version)')
        BY <2>2 DEF Order, Past
    <2>4. \A r \in Range(results') :
             /\ r.version[1] = r.call.note /\ r.version[2] <= store'[r.call.note].at
             /\ r.version = <<r.call.note, store'[r.call.note].at>> => r.body = store'[r.call.note].body
        BY <1>2, <1>5
    <2> QED
        BY <1>4, <2>1, <2>3, <2>4 DEF Order, Version
<1>6. ASSUME NEW e \in ResultOf(K), results' = Append(results, e),
             e.version = <<e.call.note, store'[e.call.note].at>>,
             e.body = store'[e.call.note].body
      PROVE  Order'
    <2>1. Range(results') = Range(results) \cup {e}
        BY <1>6, RangeAppend
    <2>2. e.call.note \in Notes /\ e.version[1] = e.call.note /\ e.version[2] = store'[e.call.note].at
        BY <1>6 DEF ResultOf, CallOf
    <2>3. Sorted(results')
        <3>1. \A r \in Range(results) : r.call.note = e.call.note => r.version[2] <= e.version[2]
            BY <1>2, <2>2
        <3>2. Sorted(results)
            BY DEF Order
        <3> QED
            BY <1>6, <3>1, <3>2, SortedAppend
    <2>4. \A r \in Range(results') :
             /\ r.version[1] = r.call.note /\ r.version[2] <= store'[r.call.note].at
             /\ r.version = <<r.call.note, store'[r.call.note].at>> => r.body = store'[r.call.note].body
        BY <1>1, <1>2, <1>6, <2>1, <2>2
    <2>5. ASSUME NEW v, Past(v) PROVE Past(v)'
        <3> SUFFICES ASSUME v \in Versions
                     PROVE  /\ v[2] <= store'[v[1]].at
                            /\ \A r \in Range(results') : r.call.note = v[1] => v[2] <= r.version[2]
            BY DEF Past
        <3>1. v[2] <= store[v[1]].at /\ \A r \in Range(results) : r.call.note = v[1] => v[2] <= r.version[2]
            BY <2>5 DEF Past
        <3>2. v[2] <= store'[v[1]].at
            BY <1>3, <3>1
        <3> QED
            BY <2>1, <2>2, <3>1, <3>2
    <2>6. Past(loaded)' /\ (pending' # None => Past(pending.version)')
        BY <2>5 DEF Order, Past
    <2> QED
        BY <1>4, <2>3, <2>4, <2>6 DEF Order, Version
<1> QED
    BY <1>5, <1>6

\* Whoever writes a note leaves every version of it that is known behind.
LEMMA Stale ==
    ASSUME Shapes, Order, NEW k \in Notes, NEW a \in Nat, store[k].at < a
    PROVE  /\ \A c \in Writes(k) : c.version # <<k, a>>
           /\ pending # None => pending.version # <<k, a>>
           /\ loaded # <<k, a>>
           /\ \A r \in Range(results) : r.version # <<k, a>>
<1>1. store[k].at \in Nat /\ <<k, a>>[1] = k /\ <<k, a>>[2] = a /\ <<k, a>> \in Versions
    BY DEF Shapes, Versions
<1> DEFINE v == <<k, a>>
<1>2. v \in Versions /\ v[1] = k /\ v[2] = a
    BY <1>1
<1> HIDE DEF v
<1>3. ~(v[2] <= store[v[1]].at)
    BY <1>1, <1>2
<1>4. \A c \in Writes(k) : c.version # v
    BY <1>3 DEF Writes, Order
<1>5. (pending # None => pending.version # v) /\ loaded # v
    BY <1>2, <1>3 DEF Order, Past
<1>6. ASSUME NEW r \in Range(results), r.version = v PROVE FALSE
    <2>1. r.call.note = k /\ r.version[2] <= store[r.call.note].at
        BY <1>2, <1>6 DEF Order
    <2> QED
        BY <1>2, <1>3, <1>6, <2>1
<1> QED
    BY <1>4, <1>5, <1>6 DEF v

LEMMA ExternalKeeps ==
    ASSUME EditorInv, NEW k \in Notes, ExternalWrite(k) PROVE EditorInv'
<1>1. /\ next' = next + 1 /\ store' = Put(store, k, store[k].body \cup {next'})
      /\ theirs' = [theirs EXCEPT ![k] = @ \cup {next'}]
      /\ typed' = typed /\ selected' = selected /\ text' = text /\ loaded' = loaded
      /\ pending' = pending /\ loading' = loading /\ calls' = calls /\ results' = results
      /\ misread' = misread /\ rejected' = rejected /\ \A n : Aside(n)' = Aside(n)
    BY DEF ExternalWrite, OthersPut, queues, refusals, Aside
<1>2. /\ next' \in Nat /\ next' \in 1 .. next'
      /\ store \in [Notes -> [body: SUBSET (1 .. next'), at: Nat]]
      /\ theirs \in [Notes -> SUBSET (1 .. next')] /\ typed \in [Notes -> SUBSET (1 .. next')]
      /\ text \in SUBSET (1 .. next') /\ pending \in EditOf(1 .. next') \cup {None}
      /\ calls \in Seq(CallOf(1 .. next')) /\ results \in Seq(ResultOf(1 .. next'))
    BY <1>1, NextPassage DEF EditorInv
<1>3. /\ store'[k] = [body |-> store[k].body \cup {next'}, at |-> store[k].at + 1]
      /\ store[k].at \in Nat /\ store'[k].at = store[k].at + 1
      /\ store'[k].body = store[k].body \cup {next'}
      /\ theirs'[k] = theirs[k] \cup {next'}
      /\ \A n \in Notes : n # k => store'[n] = store[n] /\ theirs'[n] = theirs[n]
    BY <1>1, <1>2 DEF Put
<1>4. Shapes'
    <2> DEFINE H == SUBSET (1 .. next')
    <2>1. store[k].body \cup {next'} \in H /\ theirs[k] \cup {next'} \in H
        BY <1>2
    <2> HIDE DEF H
    <2>2. store \in [Notes -> [body: H, at: Nat]] /\ theirs \in [Notes -> H]
        BY <1>2 DEF H
    <2>3. store' = [store EXCEPT ![k] = [body |-> store[k].body \cup {next'}, at |-> store[k].at + 1]]
        BY <1>1, <2>2 DEF Put
    <2>4. store' \in [Notes -> [body: H, at: Nat]]
        BY <1>3, <2>1, <2>2, <2>3
    <2>5. theirs' \in [Notes -> H]
        BY <1>1, <2>1, <2>2
    <2> QED
        BY <1>1, <1>2, <2>4, <2>5 DEF EditorInv, Shapes, H
<1>5. Focus' /\ Reported'
    BY <1>1 DEF EditorInv, Focus, Reported
<1>6. Order'
    <2>1. \A n \in Notes : store'[n] = store[n] \/ store[n].at < store'[n].at
        BY <1>3
    <2>2. results \in Seq(ResultOf(1 .. next'))
        BY <1>2
    <2> QED
        BY <1>1, <1>4, <2>1, <2>2, OrderMoves DEF EditorInv
<1>7. ASSUME NEW n \in Notes \ misread PROVE Current(n)' /\ Safe(n)'
    <2>1. Current(n) /\ Safe(n)
        BY DEF EditorInv
    <2>2. Writes(n)' = Writes(n) /\ Answers(n)' = Answers(n)
        BY <1>1 DEF Writes, Answers
    <2>3. CASE n # k
        BY <1>1, <1>3, <2>1, <2>2, <2>3, Unmoved
    <2>4. CASE n = k
        <3>1. Version(k)' = <<k, store[k].at + 1>>
            BY <1>3 DEF Version
        <3>2. /\ \A c \in Writes(k) : c.version # Version(k)'
              /\ pending # None => pending.version # Version(k)'
              /\ loaded # Version(k)'
              /\ \A r \in Range(results) : r.version # Version(k)'
            <4>1. store[k].at + 1 \in Nat /\ store[k].at < store[k].at + 1
                BY <1>3
            <4> QED
                BY <3>1, <4>1, Stale DEF EditorInv
        <3>3. \A r \in Answers(k) : r.version # Version(k)'
            BY <3>2 DEF Answers
        <3>4. theirs'[k] \subseteq store'[k].body
            BY <1>3, <2>1, <2>4 DEF Current
        <3> HIDE DEF Writes, Answers, Version
        <3>5. Current(k)'
            BY <1>1, <2>1, <2>2, <2>4, <3>2, <3>3, <3>4 DEF Current
        <3>6. Safe(k)'
            BY <1>1, <1>3, <2>1, <2>2, <2>4 DEF Safe
        <3> QED
            BY <2>4, <3>5, <3>6
    <2> QED
        BY <2>3, <2>4
<1> QED
    BY <1>1, <1>4, <1>5, <1>6, <1>7 DEF EditorInv

LEMMA WatchKeeps == ASSUME EditorInv, ReloadIfChanged PROVE EditorInv'
<1> DEFINE c == Call("watch", selected)
<1>1. /\ selected # None /\ calls' = Append(calls, c)
      /\ store' = store /\ theirs' = theirs /\ next' = next /\ typed' = typed
      /\ selected' = selected /\ text' = text /\ loaded' = loaded /\ pending' = pending
      /\ loading' = loading /\ results' = results /\ misread' = misread
      /\ rejected' = rejected /\ \A n : Aside(n)' = Aside(n)
    BY DEF ReloadIfChanged, storeVars, refusals, Aside
<1>2. c \in CallOf(1 .. next) /\ c.do = "watch"
    BY <1>1 DEF EditorInv, Shapes, Call, CallOf
<1> HIDE DEF c
<1>3. calls' \in Seq(CallOf(1 .. next)) /\ Range(calls') = Range(calls) \cup {c}
    BY <1>1, <1>2, RangeAppend DEF EditorInv, Shapes
<1>4. Shapes' /\ Focus' /\ Reported'
    <2>1. Shapes' /\ Focus'
        BY <1>1, <1>3 DEF EditorInv, Shapes, Focus
    <2> QED
        BY <1>1, <1>2, <1>3, <2>1, ReportedStays DEF EditorInv
<1>5. Order'
    BY <1>1, <1>2, <1>3 DEF EditorInv, Order, Past, Version
<1>6. ASSUME NEW n \in Notes \ misread PROVE Current(n)' /\ Safe(n)'
    <2>1. Current(n) /\ Safe(n)
        BY DEF EditorInv
    <2>2. Writes(n)' = Writes(n) /\ Answers(n)' = Answers(n)
        BY <1>1, <1>2, <1>3 DEF Writes, Answers
    <2> QED
        BY <1>1, <2>1, <2>2, Unmoved
<1> QED
    BY <1>1, <1>4, <1>5, <1>6 DEF EditorInv

\* What a call leaves of the queue, and what it says.
LEMMA CallTaken ==
    ASSUME Shapes, RunCall, NEW c, c = Head(calls)
    PROVE  /\ c \in CallOf(1 .. next) /\ c \in Range(calls)
           /\ calls' \in Seq(CallOf(1 .. next)) /\ Range(calls) = {c} \cup Range(calls')
           /\ \A n : Writes(n) = Writes(n)' \cup {w \in {c} : c.do = "write" /\ c.note = n}
           /\ c.note \in Notes
           /\ UNCHANGED <<typed, rejected, misread, selected, text, loaded, pending, loading>>
           /\ \A n : Aside(n)' = Aside(n)
           /\ Succeeds(c) \/ Fails(c)
<1>1. /\ calls # <<>> /\ calls' = Tail(calls) /\ calls \in Seq(CallOf(1 .. next))
      /\ UNCHANGED <<typed, draft, gone, rejected, misread, selected, text, loaded, pending, loading>>
      /\ Succeeds(c) \/ Fails(c)
    BY DEF RunCall, Shapes, refusals
<1>2. /\ c \in CallOf(1 .. next) /\ calls' \in Seq(CallOf(1 .. next))
      /\ Range(calls) = {c} \cup Range(calls')
    BY <1>1, RangeTail
<1>3. c.note \in Notes
    BY <1>2 DEF CallOf
<1>4. \A n : Writes(n) = Writes(n)' \cup {w \in {c} : c.do = "write" /\ c.note = n}
    BY <1>2 DEF Writes
<1>5. \A n : Aside(n)' = Aside(n)
    BY <1>1 DEF Aside
<1> QED
    BY <1>1, <1>2, <1>3, <1>4, <1>5

\* A call that writes nothing, whether it reads or fails.
LEMMA ReadKeeps ==
    ASSUME EditorInv, RunCall, NEW c, c = Head(calls), UNCHANGED storeVars,
           (Succeeds(c) /\ c.do # "write") \/ Fails(c)
    PROVE  EditorInv'
<1>1. /\ c \in CallOf(1 .. next) /\ c \in Range(calls)
      /\ calls' \in Seq(CallOf(1 .. next)) /\ Range(calls) = {c} \cup Range(calls')
      /\ \A n : Writes(n) = Writes(n)' \cup {w \in {c} : c.do = "write" /\ c.note = n}
      /\ c.note \in Notes
      /\ typed' = typed /\ misread' = misread /\ selected' = selected
      /\ rejected' = rejected /\ \A n : Aside(n)' = Aside(n)
      /\ text' = text /\ loaded' = loaded /\ pending' = pending /\ loading' = loading
    BY CallTaken DEF EditorInv
<1>2. /\ store' = store /\ theirs' = theirs /\ next' = next
      /\ \/ results' = results /\ c.do # "write"
         \/ \E ok \in BOOLEAN : results' = Append(results, Result(c, ok)) /\ (c.do = "write" => ~ok)
    BY DEF Succeeds, Fails, storeVars
<1>3. ASSUME NEW ok \in BOOLEAN, NEW e, e = Result(c, ok)
      PROVE  /\ e \in ResultOf(1 .. next) /\ e.call = c /\ e.ok = ok
             /\ e.version = <<c.note, store[c.note].at>> /\ e.body = store[c.note].body
    BY <1>1, <1>2, <1>3 DEF EditorInv, Shapes, Result, ResultOf, Versions
<1>4. /\ results' \in Seq(ResultOf(1 .. next))
      /\ \/ results' = results /\ c.do # "write"
         \/ \E e \in ResultOf(1 .. next) :
              /\ results' = Append(results, e) /\ Range(results') = Range(results) \cup {e}
              /\ e.call = c /\ (c.do = "write" => ~e.ok)
              /\ e.version = <<c.note, store[c.note].at>> /\ e.body = store[c.note].body
    <2>1. results \in Seq(ResultOf(1 .. next))
        BY DEF EditorInv, Shapes
    <2>2. CASE results' = results /\ c.do # "write"
        BY <2>1, <2>2
    <2>3. ASSUME NEW ok \in BOOLEAN, results' = Append(results, Result(c, ok)), c.do = "write" => ~ok
          PROVE  results' \in Seq(ResultOf(1 .. next)) /\ \E e \in ResultOf(1 .. next) :
                    /\ results' = Append(results, e) /\ Range(results') = Range(results) \cup {e}
                    /\ e.call = c /\ (c.do = "write" => ~e.ok)
                    /\ e.version = <<c.note, store[c.note].at>> /\ e.body = store[c.note].body
        <3>1. PICK e : e = Result(c, ok)
            OBVIOUS
        <3>2. /\ e \in ResultOf(1 .. next) /\ e.call = c /\ e.ok = ok
              /\ e.version = <<c.note, store[c.note].at>> /\ e.body = store[c.note].body
            BY <1>3, <3>1
        <3>3. results' \in Seq(ResultOf(1 .. next)) /\ Range(results') = Range(results) \cup {e}
            BY <2>1, <2>3, <3>1, <3>2, RangeAppend
        <3> QED
            BY <2>3, <3>1, <3>2, <3>3
    <2> QED
        BY <1>2, <2>2, <2>3
<1>5. Shapes' /\ Focus' /\ Reported'
    <2>1. Shapes' /\ Focus'
        BY <1>1, <1>2, <1>4 DEF EditorInv, Shapes, Focus
    <2> QED
        BY <1>1, <1>4, <2>1, ReportedStays DEF EditorInv
<1>6. Order'
    <2>1. results \in Seq(ResultOf(1 .. next)) /\ Range(calls') \subseteq Range(calls)
        BY <1>1 DEF EditorInv, Shapes
    <2>2. \/ results' = results
          \/ \E e \in ResultOf(1 .. next) :
                /\ results' = Append(results, e)
                /\ e.version = <<e.call.note, store'[e.call.note].at>>
                /\ e.body = store'[e.call.note].body
        BY <1>2, <1>4
    <2> QED
        BY <1>1, <1>2, <1>5, <2>1, <2>2, OrderMoves DEF EditorInv
<1>7. ASSUME NEW n \in Notes \ misread PROVE Current(n)' /\ Safe(n)'
    <2>1. Current(n) /\ Safe(n)
        BY DEF EditorInv
    <2>2. CASE c.do # "write" \/ c.note # n
        <3>1. Writes(n)' = Writes(n)
            BY <1>1, <2>2
        <3>2. Answers(n)' = Answers(n)
            BY <1>4, <2>2 DEF Answers
        <3> QED
            BY <1>1, <1>2, <2>1, <3>1, <3>2, Unmoved
    <2>3. CASE c.do = "write" /\ c.note = n
        <3>1. PICK e \in ResultOf(1 .. next) :
                 /\ Range(results') = Range(results) \cup {e}
                 /\ e.call = c /\ ~e.ok
            BY <1>4, <2>3
        <3>2. Answers(n)' = Answers(n) \cup {e} /\ c \in Writes(n) /\ Writes(n)' \subseteq Writes(n)
              /\ Writes(n) = Writes(n)' \cup {c}
            BY <1>1, <2>3, <3>1 DEF Answers, Writes
        <3>3. Version(n)' = Version(n) /\ \A seen : Sees(n, seen)' <=> Sees(n, seen)
            BY <1>1, <1>2 DEF Version, Sees
        <3> HIDE DEF Writes, Answers
        <3>4. Current(n)'
            <4>1. /\ theirs'[n] \subseteq store'[n].body
                  /\ \A w \in Writes(n)' : w.version = Version(n)' => Sees(n, w.text)'
                  /\ pending' # None /\ pending'.note = n /\ pending'.version = Version(n)'
                        => Sees(n, pending.text)' /\ Sees(n, text)'
                BY <1>1, <1>2, <2>1, <3>2, <3>3 DEF Current, Sees
            <4>2. ASSUME selected' = n, loading' = None
                  PROVE  /\ loaded' = Version(n)' => Sees(n, text)'
                         /\ \A w \in Writes(n)' :
                               /\ w.text \subseteq text' \cup Aside(n)'
                               /\ w.version = Version(n)' => theirs'[n] \subseteq text'
                BY <1>1, <1>2, <2>1, <3>2, <3>3, <4>2 DEF Current, Sees
            <4>3. ASSUME selected' = n, loading' = None, NEW r \in Answers(n)'
                  PROVE  /\ r.call.text \subseteq text' \cup Aside(n)'
                         /\ r.ok /\ r.version = Version(n)' /\ r.body = r.call.text
                               => theirs'[n] \subseteq text'
                <5>1. CASE r \in Answers(n)
                    BY <1>1, <1>2, <2>1, <3>3, <4>3, <5>1 DEF Current
                <5>2. CASE r = e
                    BY <1>1, <2>1, <3>1, <3>2, <4>3, <5>2 DEF Current
                <5> QED
                    BY <3>2, <5>1, <5>2
            <4> QED
                BY <4>1, <4>2, <4>3 DEF Current
        <3>5. Safe(n)'
            <4>1. UNION {w.text : w \in Writes(n)} \subseteq
                        (UNION {w.text : w \in Writes(n)'}) \cup c.text
                BY <3>2, UnionLess
            <4>2. c.text \subseteq UNION {r.call.text : r \in {s \in Answers(n)' : ~s.ok}}
                BY <3>1, <3>2
            <4>3. UNION {r.call.text : r \in {s \in Answers(n) : ~s.ok}} \subseteq
                        UNION {r.call.text : r \in {s \in Answers(n)' : ~s.ok}}
                BY <3>2
            <4> QED
                BY <1>1, <1>2, <2>1, <4>1, <4>2, <4>3 DEF Safe
        <3> QED
            BY <3>4, <3>5
    <2> QED
        BY <2>2, <2>3
<1> QED
    BY <1>1, <1>5, <1>6, <1>7 DEF EditorInv

\* A write under the version the note has, and what another process makes of
\* it before it is read back.
LEMMA WriteKeeps ==
    ASSUME EditorInv, RunCall, NEW c, c = Head(calls), Stores(c),
           NEW ok \in BOOLEAN, results' = Append(results, Result(c, ok))
    PROVE  EditorInv'
<1>1. /\ c \in CallOf(1 .. next) /\ c \in Range(calls)
      /\ calls' \in Seq(CallOf(1 .. next)) /\ Range(calls) = {c} \cup Range(calls')
      /\ \A n : Writes(n) = Writes(n)' \cup {w \in {c} : c.do = "write" /\ c.note = n}
      /\ c.note \in Notes
      /\ typed' = typed /\ misread' = misread /\ selected' = selected
      /\ rejected' = rejected /\ \A n : Aside(n)' = Aside(n)
      /\ text' = text /\ loaded' = loaded /\ pending' = pending /\ loading' = loading
    BY CallTaken DEF EditorInv
<1> DEFINE k == c.note
           e == Result(c, ok)
<1>2. /\ c.do = "write" /\ c.version = Version(k) /\ results' = Append(results, e)
      /\ \/ store' = Put(store, k, c.text) /\ theirs' = theirs /\ next' = next
         \/ OthersPut(Put(store, k, c.text), k)
    BY DEF Stores
<1>3. /\ store \in [Notes -> [body: SUBSET (1 .. next), at: Nat]]
      /\ theirs \in [Notes -> SUBSET (1 .. next)] /\ typed \in [Notes -> SUBSET (1 .. next)]
      /\ text \in SUBSET (1 .. next) /\ pending \in EditOf(1 .. next) \cup {None}
      /\ results \in Seq(ResultOf(1 .. next)) /\ next \in Nat /\ c.text \in SUBSET (1 .. next)
    BY <1>1 DEF EditorInv, Shapes, CallOf
<1> HIDE DEF k, e
\* What there is afterwards: the text, and perhaps one passage more.
<1>4. PICK more \in SUBSET {next'}, a \in Nat :
        /\ store[k].at < a
        /\ store' = [store EXCEPT ![k] = [body |-> c.text \cup more, at |-> a]]
        /\ theirs' = [theirs EXCEPT ![k] = @ \cup more]
        /\ (more = {} /\ next' = next) \/ (more = {next'} /\ next' = next + 1)
    <2>0. k \in Notes
        BY <1>1 DEF k
    <2>1. store[k].at \in Nat
        BY <1>3, <2>0
    <2>2. CASE store' = Put(store, k, c.text) /\ theirs' = theirs /\ next' = next
        <3>0. c.text \cup {} = c.text /\ theirs[k] \cup {} = theirs[k]
            OBVIOUS
        <3>1. store' = [store EXCEPT ![k] = [body |-> c.text \cup {}, at |-> store[k].at + 1]]
            BY <2>2, <3>0 DEF Put
        <3>2. theirs' = [theirs EXCEPT ![k] = @ \cup {}]
            BY <1>3, <2>2, <3>0
        <3>3. {} \in SUBSET {next'} /\ store[k].at + 1 \in Nat /\ store[k].at < store[k].at + 1
            BY <2>1
        <3> QED
            BY <2>2, <3>1, <3>2, <3>3
    <2>3. CASE OthersPut(Put(store, k, c.text), k)
        <3> DEFINE s == Put(store, k, c.text)
        <3>1. s = [store EXCEPT ![k] = [body |-> c.text, at |-> store[k].at + 1]]
            BY DEF Put
        <3>2. s[k].body = c.text /\ s[k].at = store[k].at + 1
            <4>1. s[k] = [body |-> c.text, at |-> store[k].at + 1]
                BY <1>3, <2>0, <3>1
            <4> QED
                BY <4>1
        <3>3. store' = Put(s, k, s[k].body \cup {next'}) /\ next' = next + 1
              /\ theirs' = [theirs EXCEPT ![k] = @ \cup {next'}]
            BY <2>3 DEF OthersPut
        <3>4. store' = [s EXCEPT ![k] = [body |-> c.text \cup {next'}, at |-> store[k].at + 1 + 1]]
            BY <3>2, <3>3 DEF Put
        <3>5. store' = [store EXCEPT ![k] = [body |-> c.text \cup {next'}, at |-> store[k].at + 1 + 1]]
            BY <1>3, <2>0, <3>1, <3>4
        <3>6. store[k].at + 1 + 1 \in Nat /\ store[k].at < store[k].at + 1 + 1
            BY <2>1
        <3> QED
            BY <3>3, <3>5, <3>6
    <2> QED
        BY <1>2, <2>2, <2>3 DEF k
<1>5. /\ k \in Notes /\ store'[k].body = c.text \cup more /\ store'[k].at = a
      /\ theirs'[k] = theirs[k] \cup more
      /\ \A n \in Notes : n # k => store'[n] = store[n] /\ theirs'[n] = theirs[n]
    BY <1>1, <1>3, <1>4 DEF k
<1> DEFINE K == 1 .. next'
<1>6. /\ next' \in Nat /\ more \in SUBSET K
      /\ store \in [Notes -> [body: SUBSET K, at: Nat]]
      /\ theirs \in [Notes -> SUBSET K] /\ typed \in [Notes -> SUBSET K]
      /\ text \in SUBSET K /\ pending \in EditOf(K) \cup {None}
      /\ calls \in Seq(CallOf(K)) /\ results \in Seq(ResultOf(K))
    <2>1. CASE next' = next /\ more = {}
        BY <1>3, <2>1 DEF EditorInv, Shapes
    <2>2. CASE next' = next + 1
        BY <1>4, <2>2, NextPassage DEF EditorInv
    <2> QED
        BY <1>4, <2>1, <2>2
<1>7. c \in CallOf(K) /\ calls' \in Seq(CallOf(K)) /\ c.text \in SUBSET K
    <2>1. calls # <<>> /\ calls' = Tail(calls)
        BY DEF RunCall
    <2>2. c \in CallOf(K) /\ calls' \in Seq(CallOf(K))
        BY <1>6, <2>1, RangeTail
    <2> QED
        BY <2>2 DEF CallOf
<1>8. store' \in [Notes -> [body: SUBSET K, at: Nat]] /\ theirs' \in [Notes -> SUBSET K]
    <2> DEFINE H == SUBSET K
    <2>1. c.text \cup more \in H /\ theirs[k] \cup more \in H
        BY <1>5, <1>6, <1>7
    <2>2. store \in [Notes -> [body: H, at: Nat]] /\ theirs \in [Notes -> H]
        BY <1>6
    <2> HIDE DEF H
    <2>3. store' \in [Notes -> [body: H, at: Nat]] /\ theirs' \in [Notes -> H]
        BY <1>4, <1>5, <2>1, <2>2
    <2> QED
        BY <2>3 DEF H
<1>9. /\ e \in ResultOf(K) /\ e.call = c
      /\ e.version = <<k, a>> /\ e.body = c.text \cup more
    <2>1. e = [call |-> c, ok |-> ok, body |-> store'[k].body, version |-> <<k, store'[k].at>>]
        BY DEF e, k, Result
    <2>2. c.text \cup more \in SUBSET K /\ <<k, a>> \in Versions
        BY <1>5, <1>6, <1>7 DEF Versions
    <2> HIDE DEF K
    <2> QED
        BY <1>5, <1>7, <2>1, <2>2 DEF ResultOf
<1>10. results' \in Seq(ResultOf(K)) /\ Range(results') = Range(results) \cup {e}
    BY <1>2, <1>6, <1>9, RangeAppend
<1>11. Shapes'
    BY <1>1, <1>6, <1>7, <1>8, <1>10 DEF EditorInv, Shapes
<1>12. Focus' /\ Reported'
    <2>1. Focus'
        BY <1>1 DEF EditorInv, Focus
    <2> QED
        BY <1>1, <1>9, <1>10, <2>1, ReportedStays DEF EditorInv
<1>13. Order'
    <2>1. \A n \in Notes : store'[n] = store[n] \/ store[n].at < store'[n].at
        BY <1>4, <1>5
    <2>2. /\ results' = Append(results, e) /\ e.version = <<e.call.note, store'[e.call.note].at>>
          /\ e.body = store'[e.call.note].body
        BY <1>2, <1>5, <1>9 DEF k
    <2>3. Range(calls') \subseteq Range(calls)
        BY <1>1
    <2> HIDE DEF K
    <2> QED
        BY <1>1, <1>6, <1>9, <1>11, <2>1, <2>2, <2>3, OrderMoves DEF EditorInv
<1>14. ASSUME NEW n \in Notes \ misread PROVE Current(n)' /\ Safe(n)'
    <2>1. Current(n) /\ Safe(n)
        BY DEF EditorInv
    <2>2. CASE n # k
        <3>1. Writes(n)' = Writes(n)
            BY <1>1, <2>2 DEF k
        <3>2. Answers(n)' = Answers(n)
            BY <1>9, <1>10, <2>2 DEF Answers, k
        <3> QED
            BY <1>1, <1>5, <2>1, <2>2, <3>1, <3>2, Unmoved
    <2>3. CASE n = k
        <3>1. Version(k)' = <<k, a>> /\ c \in Writes(k) /\ c.version = Version(k)
            BY <1>1, <1>2, <1>5 DEF Version, Writes, k
        <3>2. /\ \A w \in Writes(k) : w.version # <<k, a>>
              /\ pending # None => pending.version # <<k, a>>
              /\ loaded # <<k, a>>
              /\ \A r \in Range(results) : r.version # <<k, a>>
            BY <1>4, <1>5, Stale DEF EditorInv
        <3>3. /\ Answers(k)' = Answers(k) \cup {e} /\ Answers(k) \subseteq Range(results)
              /\ Writes(k) = Writes(k)' \cup {c}
            BY <1>1, <1>2, <1>9, <1>10 DEF Answers, k
        <3>4. Sees(k, c.text)
            BY <2>1, <2>3, <3>1 DEF Current
        <3> HIDE DEF Writes, Answers, Version
        <3>5. theirs'[k] \subseteq store'[k].body
            BY <1>5, <3>4 DEF Sees
        <3>6. ASSUME selected = k, loading = None
              PROVE  /\ \A w \in Writes(k)' : w.text \subseteq text \cup Aside(k)
                     /\ \A r \in Answers(k)' : r.call.text \subseteq text \cup Aside(k)
                     /\ e.body = e.call.text => theirs'[k] \subseteq text
            <4>1. /\ \A w \in Writes(k) : w.text \subseteq text \cup Aside(k)
                  /\ \A r \in Answers(k) : r.call.text \subseteq text \cup Aside(k)
                  /\ theirs[k] \subseteq text
                BY <2>1, <2>3, <3>1, <3>6 DEF Current
            <4>2. e.body = e.call.text => more = {}
                BY <1>3, <1>4, <1>9
            <4> QED
                BY <1>5, <1>9, <3>1, <3>3, <4>1, <4>2
        <3>7. Current(k)'
            <4>1. /\ \A w \in Writes(k)' : w.version # Version(k)'
                  /\ pending' # None => pending'.version # Version(k)'
                  /\ loaded' # Version(k)'
                BY <1>1, <3>1, <3>2, <3>3
            <4>2. ASSUME selected' = k, loading' = None, NEW r \in Answers(k)'
                  PROVE  /\ r.call.text \subseteq text' \cup Aside(k)'
                         /\ r.ok /\ r.version = Version(k)' /\ r.body = r.call.text
                               => theirs'[k] \subseteq text'
                <5>1. CASE r = e
                    BY <1>1, <3>6, <4>2, <5>1
                <5>2. CASE r \in Answers(k)
                    BY <1>1, <3>1, <3>2, <3>3, <3>6, <4>2, <5>2
                <5> QED
                    BY <3>3, <5>1, <5>2
            <4>3. ASSUME selected' = k, loading' = None, NEW w \in Writes(k)'
                  PROVE  w.text \subseteq text' \cup Aside(k)'
                BY <1>1, <3>6, <4>3
            <4> QED
                BY <3>5, <4>1, <4>2, <4>3 DEF Current
        <3>8. Safe(k)'
            <4>1. store[k].body \subseteq store'[k].body \cup Aside(k)
                BY <1>5, <3>4 DEF Sees
            <4>2. c.text \subseteq store'[k].body
                BY <1>5
            <4>3. UNION {w.text : w \in Writes(k)} \subseteq
                        (UNION {w.text : w \in Writes(k)'}) \cup c.text
                BY <3>3, UnionLess
            <4>4. UNION {r.call.text : r \in {s \in Answers(k) : ~s.ok}} \subseteq
                        UNION {r.call.text : r \in {s \in Answers(k)' : ~s.ok}}
                BY <3>3
            <4> QED
                BY <1>1, <2>1, <2>3, <4>1, <4>2, <4>3, <4>4 DEF Safe
        <3> QED
            BY <2>3, <3>7, <3>8
    <2> QED
        BY <2>2, <2>3
<1> QED
    BY <1>1, <1>11, <1>12, <1>13, <1>14 DEF EditorInv

LEMMA RunCallKeeps == ASSUME EditorInv, RunCall PROVE EditorInv'
<1>1. PICK c : c = Head(calls)
    OBVIOUS
<1>2. Succeeds(c) \/ Fails(c)
    BY <1>1, CallTaken DEF EditorInv
<1>3. CASE Stores(c)
    <2>1. c.do = "write"
        BY <1>3 DEF Stores
    <2>2. \E ok \in BOOLEAN : results' = Append(results, Result(c, ok))
        BY <1>2, <2>1 DEF Succeeds, Fails
    <2> QED
        BY <1>1, <1>3, <2>2, WriteKeeps
<1>4. CASE ~Stores(c)
    <2>1. UNCHANGED storeVars /\ ((Succeeds(c) /\ c.do # "write") \/ Fails(c))
        BY <1>2, <1>4 DEF Succeeds, Fails
    <2> QED
        BY <1>1, <2>1, ReadKeeps
<1> QED
    BY <1>3, <1>4

-----------------------------------------------------------------------------
(* The results.                                                              *)

\* What a result leaves of the queue.
LEMMA ResultTaken ==
    ASSUME EditorInv, Apply, NEW r, r = Head(results)
    PROVE  /\ r \in ResultOf(1 .. next) /\ r \in Range(results) /\ results' = Tail(results)
           /\ results' \in Seq(ResultOf(1 .. next)) /\ Range(results) = {r} \cup Range(results')
           /\ \A n : Answers(n) = Answers(n)' \cup {s \in {r} : r.call.do = "write" /\ r.call.note = n}
           /\ r.call \in CallOf(1 .. next) /\ r.call.note \in Notes /\ r.version \in Versions
           /\ r.body \in SUBSET (1 .. next) /\ r.call.text \in SUBSET (1 .. next)
           /\ UNCHANGED <<store, theirs, next, typed, selected, pending>>
           /\ Written(r) \/ Rejected(r) \/ Loaded(r) \/ Reloaded(r)
<1>1. /\ results # <<>> /\ results' = Tail(results) /\ results \in Seq(ResultOf(1 .. next))
      /\ UNCHANGED <<store, theirs, next, typed, selected>>
      /\ Written(r) \/ Rejected(r) \/ Loaded(r) \/ Reloaded(r)
    BY DEF Apply, EditorInv, Shapes, storeVars
<1>2. /\ r \in ResultOf(1 .. next) /\ results' \in Seq(ResultOf(1 .. next))
      /\ Range(results) = {r} \cup Range(results')
    BY <1>1, RangeTail
<1>3. /\ r.call \in CallOf(1 .. next) /\ r.version \in Versions /\ r.body \in SUBSET (1 .. next)
    BY <1>2 DEF ResultOf
<1>4. r.call.note \in Notes /\ r.call.text \in SUBSET (1 .. next)
    BY <1>3 DEF CallOf
<1>5. \A n : Answers(n) = Answers(n)' \cup {s \in {r} : r.call.do = "write" /\ r.call.note = n}
    BY <1>2 DEF Answers
<1>6. pending' = pending
    BY <1>1 DEF Written, Rejected, Loaded, Reloaded
<1> QED
    BY <1>1, <1>2, <1>3, <1>4, <1>5, <1>6

\* The result of a read is no answer to a write.
LEMMA AnswersLeft ==
    ASSUME EditorInv, Apply, NEW r, r = Head(results), r.call.do # "write"
    PROVE  \A n : Answers(n)' = Answers(n)
<1>1. \A n : Answers(n) = Answers(n)' \cup {s \in {r} : r.call.do = "write" /\ r.call.note = n}
    BY ResultTaken
<1> HIDE DEF Answers
<1>2. ASSUME NEW n PROVE {s \in {r} : r.call.do = "write" /\ r.call.note = n} = {}
    OBVIOUS
<1> QED
    BY <1>1, <1>2

\* Versions stay in order when the result's may become the editor's.
LEMMA OrderApplies ==
    ASSUME EditorInv, Apply, NEW r, r = Head(results),
           \A c \in Range(calls') : c \in Range(calls) \/ c.do # "write",
           loaded' = loaded \/ loaded' = r.version
    PROVE  Order'
<1>1. /\ r \in ResultOf(1 .. next) /\ r \in Range(results) /\ results' = Tail(results)
      /\ Range(results) = {r} \cup Range(results') /\ r.version \in Versions
      /\ store' = store /\ pending' = pending
    BY ResultTaken
<1>2. /\ Sorted(results')
      /\ \A s \in Range(results') : s.call.note = r.call.note => r.version[2] <= s.version[2]
    <2>1. results \in Seq(ResultOf(1 .. next)) /\ results # <<>> /\ Sorted(results)
        BY DEF EditorInv, Shapes, Order, Apply
    <2> QED
        BY <1>1, <2>1, SortedTail
<1>3. \A s \in Range(results') :
          /\ s.version[1] = s.call.note /\ s.version[2] <= store[s.call.note].at
          /\ s.version = <<s.call.note, store[s.call.note].at>> => s.body = store[s.call.note].body
    BY <1>1 DEF EditorInv, Order, Version
<1>4. \A c \in Range(calls') : c.do = "write" =>
          c.version \in Versions /\ c.version[2] <= store[c.version[1]].at
    BY DEF EditorInv, Order
<1>5. ASSUME NEW v, Past(v) PROVE Past(v)'
    BY <1>1, <1>5 DEF Past
<1>6. r.version[1] = r.call.note /\ r.version[2] <= store[r.call.note].at
    BY <1>1 DEF EditorInv, Order
<1>7. ASSUME NEW v, v = r.version PROVE Past(v)'
    BY <1>1, <1>2, <1>6, <1>7 DEF Past
<1>8. Past(loaded)'
    <2>1. CASE loaded' = loaded
        BY <1>5, <2>1 DEF EditorInv, Order, Past
    <2>2. CASE loaded' = r.version
        BY <1>7, <2>2 DEF Past
    <2> QED
        BY <2>1, <2>2
<1>9. pending' # None => Past(pending.version)'
    BY <1>1, <1>5 DEF EditorInv, Order, Past
<1> QED
    BY <1>1, <1>2, <1>3, <1>4, <1>8, <1>9 DEF Order, Version

\* A note whose buffer stays as it is: more that is gone takes nothing away.
LEMMA Rests ==
    ASSUME EditorInv, NEW n \in Notes \ misread,
           UNCHANGED <<store, theirs, typed, selected, pending>>,
           Writes(n)' = Writes(n), Answers(n)' \subseteq Answers(n), Aside(n) \subseteq Aside(n)',
           \A s \in Answers(n) : s \notin Answers(n)' => s.ok \/ s.call.text \subseteq Aside(n)',
           \/ selected # n
           \/ UNCHANGED <<text, loaded, loading>>
    PROVE  Current(n)' /\ Safe(n)'
<1>1. Current(n) /\ Safe(n)
    BY DEF EditorInv
<1>2. Version(n)' = Version(n) /\ \A seen : Sees(n, seen) => Sees(n, seen)'
    BY DEF Version, Sees
<1>3. pending # None => pending.note = selected
    BY DEF EditorInv, Focus
<1> HIDE DEF Writes, Answers, Version
<1>4. Current(n)'
    <2>1. /\ theirs'[n] \subseteq store'[n].body
          /\ \A c \in Writes(n)' : c.version = Version(n)' => Sees(n, c.text)'
        BY <1>1, <1>2 DEF Current, Sees
    <2>2. CASE selected # n
        BY <1>3, <2>1, <2>2 DEF Current
    <2>3. CASE UNCHANGED <<text, loaded, loading>>
        <3>1. pending' # None /\ pending'.note = n /\ pending'.version = Version(n)'
                  => Sees(n, pending.text)' /\ Sees(n, text)'
            BY <1>1, <1>2, <2>3 DEF Current, Sees
        <3>2. ASSUME selected' = n, loading' = None
              PROVE  /\ loaded' = Version(n)' => Sees(n, text)'
                     /\ \A c \in Writes(n)' :
                           /\ c.text \subseteq text' \cup Aside(n)'
                           /\ c.version = Version(n)' => theirs'[n] \subseteq text'
                     /\ \A s \in Answers(n)' :
                           /\ s.call.text \subseteq text' \cup Aside(n)'
                           /\ s.ok /\ s.version = Version(n)' /\ s.body = s.call.text
                                 => theirs'[n] \subseteq text'
            BY <1>1, <1>2, <2>3, <3>2 DEF Current, Sees
        <3> QED
            BY <2>1, <3>1, <3>2 DEF Current
    <2> QED
        BY <2>2, <2>3
<1>5. Safe(n)'
    <2> DEFINE was == UNION {s.call.text : s \in {t \in Answers(n) : ~t.ok}}
               is  == UNION {s.call.text : s \in {t \in Answers(n)' : ~t.ok}}
    <2>1. ASSUME NEW x \in was PROVE x \in is \cup Aside(n)'
        <3>1. PICK s \in Answers(n) : ~s.ok /\ x \in s.call.text
            OBVIOUS
        <3> QED
            BY <3>1
    <2>2. typed[n] \subseteq
            store[n].body \cup Aside(n)
              \cup (IF pending # None /\ pending.note = n THEN pending.text ELSE {})
              \cup (UNION {c.text : c \in Writes(n)}) \cup was
        BY <1>1 DEF Safe
    <2> HIDE DEF was, is
    <2>3. typed'[n] \subseteq
            store'[n].body \cup Aside(n)'
              \cup (IF pending' # None /\ pending'.note = n THEN pending'.text ELSE {})
              \cup (UNION {c.text : c \in Writes(n)'}) \cup is
        BY <2>1, <2>2
    <2> QED
        BY <2>3 DEF Safe, is
<1> QED
    BY <1>4, <1>5

LEMMA WrittenKeeps ==
    ASSUME EditorInv, Apply, NEW r, r = Head(results), Written(r)
    PROVE  EditorInv'
<1>1. /\ r \in Range(results) /\ results' \in Seq(ResultOf(1 .. next))
      /\ \A n : Answers(n) = Answers(n)' \cup {s \in {r} : r.call.do = "write" /\ r.call.note = n}
      /\ r.call.note \in Notes /\ r.version \in Versions
      /\ store' = store /\ theirs' = theirs /\ next' = next /\ typed' = typed
      /\ selected' = selected /\ pending' = pending
    BY ResultTaken
<1>2. /\ r.call.do = "write" /\ r.ok
      /\ loaded' = (IF selected = r.call.note THEN r.version ELSE loaded)
      /\ misread' = (IF selected = r.call.note /\ r.body # r.call.text
                     THEN misread \cup {selected} ELSE misread)
      /\ text' = text /\ loading' = loading /\ calls' = calls /\ rejected' = rejected
      /\ \A n : Aside(n)' = Aside(n)
    BY DEF Written, Aside
<1>3. Shapes' /\ Focus' /\ Reported'
    <2>1. Shapes' /\ Focus'
        BY <1>1, <1>2 DEF EditorInv, Shapes, Focus
    <2>2. Range(results') \subseteq Range(results)
        BY ResultTaken
    <2> QED
        BY <1>2, <2>1, <2>2, ReportedStays DEF EditorInv
<1>4. Order'
    BY <1>2, OrderApplies
<1>5. ASSUME NEW n \in Notes \ misread' PROVE Current(n)' /\ Safe(n)'
    <2>1. n \in Notes \ misread
        BY <1>2
    <2>2. Writes(n)' = Writes(n)
        BY <1>2 DEF Writes
    <2>3. /\ Answers(n)' \subseteq Answers(n)
          /\ \A s \in Answers(n) : s \notin Answers(n)' => s.ok
        BY <1>1, <1>2
    <2>4. CASE selected # n \/ selected # r.call.note
        BY <1>1, <1>2, <2>1, <2>2, <2>3, <2>4, Rests
    <2>5. CASE selected = n /\ selected = r.call.note
        <3>1. Current(n) /\ Safe(n) /\ r \in Answers(n)
            BY <1>1, <1>2, <2>1, <2>5 DEF EditorInv
        <3>2. loaded' = r.version /\ r.body = r.call.text
            BY <1>2, <2>5
        <3>3. Version(n)' = Version(n) /\ \A seen : Sees(n, seen)' <=> Sees(n, seen)
            BY <1>1, <1>2 DEF Version, Sees
        <3>4. ASSUME loading = None, r.version = Version(n) PROVE Sees(n, text)
            <4>1. theirs[n] \subseteq text /\ r.call.text \subseteq text \cup Aside(n)
                BY <1>2, <2>5, <3>1, <3>2, <3>4 DEF Current
            <4>2. r.body = store[n].body
                BY <1>1, <2>5, <3>4 DEF EditorInv, Order
            <4> QED
                BY <3>2, <4>1, <4>2 DEF Sees
        <3> HIDE DEF Writes, Answers, Version
        <3>5. Current(n)'
            BY <1>1, <1>2, <2>2, <2>3, <3>1, <3>2, <3>3, <3>4 DEF Current, Sees
        <3>6. Safe(n)'
            <4>1. {s \in Answers(n)' : ~s.ok} = {s \in Answers(n) : ~s.ok}
                BY <2>3
            <4> QED
                BY <1>1, <1>2, <2>2, <3>1, <4>1 DEF Safe
        <3> QED
            BY <3>5, <3>6
    <2> QED
        BY <2>4, <2>5
<1> QED
    BY <1>3, <1>4, <1>5 DEF EditorInv

LEMMA RejectedKeeps ==
    ASSUME EditorInv, Apply, NEW r, r = Head(results), Rejected(r)
    PROVE  EditorInv'
<1>1. /\ r \in Range(results) /\ results' \in Seq(ResultOf(1 .. next))
      /\ \A n : Answers(n) = Answers(n)' \cup {s \in {r} : r.call.do = "write" /\ r.call.note = n}
      /\ r.call.note \in Notes
      /\ store' = store /\ theirs' = theirs /\ next' = next /\ typed' = typed
      /\ selected' = selected /\ pending' = pending
    BY ResultTaken
<1> DEFINE c == Call("reload", selected)
<1>2. /\ rejected' = rejected \cup {r.call.note}
      /\ \A n : Aside(n) \subseteq Aside(n)'
      /\ \A x \in r.call.text : x \in Aside(r.call.note)'
      /\ r.call.do = "write"
      /\ calls' = (IF selected = r.call.note /\ loading = None THEN Append(calls, c) ELSE calls)
      /\ text' = text /\ loading' = loading /\ loaded' = loaded /\ misread' = misread
    BY DEF Rejected, Aside
<1>3. selected = r.call.note => c \in CallOf(1 .. next) /\ c.do = "reload" /\ c.note = selected
    BY <1>1 DEF Call, CallOf
<1> HIDE DEF c
<1>4. /\ calls' \in Seq(CallOf(1 .. next))
      /\ Range(calls) \subseteq Range(calls')
      /\ \A d \in Range(calls') : d \in Range(calls) \/ d.do # "write"
      /\ \A d \in Range(calls') : d \in Range(calls) \/ d.note = r.call.note
    <2>1. calls \in Seq(CallOf(1 .. next))
        BY DEF EditorInv, Shapes
    <2>2. CASE selected = r.call.note /\ loading = None
        BY <1>2, <1>3, <2>1, <2>2, RangeAppend
    <2>3. CASE ~(selected = r.call.note /\ loading = None)
        BY <1>2, <2>1, <2>3
    <2> QED
        BY <2>2, <2>3
<1>5. Shapes' /\ Focus' /\ Reported'
    <2>1. Shapes' /\ Focus'
        BY <1>1, <1>2, <1>4 DEF EditorInv, Shapes, Focus
    <2>2. Range(results') \subseteq Range(results)
        BY ResultTaken
    <2> QED
        BY <1>2, <1>4, <2>1, <2>2, ReportedStays DEF EditorInv
<1>6. Order'
    BY <1>2, <1>4, OrderApplies
<1>7. ASSUME NEW n \in Notes \ misread PROVE Current(n)' /\ Safe(n)'
    <2>1. Writes(n)' = Writes(n)
        BY <1>4 DEF Writes
    <2>2. /\ Answers(n)' \subseteq Answers(n) /\ Aside(n) \subseteq Aside(n)'
          /\ \A s \in Answers(n) : s \notin Answers(n)' => s.call.text \subseteq Aside(n)'
        BY <1>1, <1>2
    <2> QED
        BY <1>1, <1>2, <2>1, <2>2, Rests
<1> QED
    BY <1>2, <1>5, <1>6, <1>7 DEF EditorInv

\* A note that is read again is shown as the store had it when it was read.
LEMMA ShowKeeps ==
    ASSUME EditorInv, Apply, NEW r, r = Head(results), Show(r),
           selected = r.call.note, r.call.do # "write", calls' = calls,
           \/ loading' = loading /\ r.call.do = "reload" /\ gone' = gone \cup (text \ r.body)
           \/ loading' = loading /\ pending = None /\ gone' = gone
           \/ loading' = None /\ pending = None /\ gone' = gone
    PROVE  EditorInv'
<1>1. /\ r \in Range(results) /\ results' = Tail(results) /\ results' \in Seq(ResultOf(1 .. next))
      /\ \A n : Answers(n)' = Answers(n)
      /\ r.call.note \in Notes /\ r.version \in Versions /\ r.body \in SUBSET (1 .. next)
      /\ store' = store /\ theirs' = theirs /\ next' = next /\ typed' = typed
      /\ selected' = selected /\ pending' = pending
    BY ResultTaken, AnswersLeft
<1>2. /\ loaded' = r.version /\ text' = r.body
      /\ draft' = draft /\ rejected' = rejected
      /\ misread' = IF \E c \in Range(calls) \cup {s.call : s \in Range(Tail(results))} :
                          c.do = "write" /\ c.note = selected
                    THEN misread \cup {selected} ELSE misread
    BY DEF Show
<1>3. /\ \A n : Aside(n) \subseteq Aside(n)'
      /\ r.call.do = "reload" => r.call.note \in rejected
      /\ gone' = gone \cup (text \ r.body) => text \ r.body \subseteq gone'
    BY <1>1, <1>2 DEF Aside, EditorInv, Reported
<1>4. Shapes'
    BY <1>1, <1>2 DEF EditorInv, Shapes
<1>5. Focus' /\ Reported'
    <2>1. Range(results') \subseteq Range(results)
        BY ResultTaken
    <2>2. Reported'
        BY <1>2, <2>1, ReportedStays DEF EditorInv
    <2>3. CASE loading' = loading /\ r.call.do = "reload" /\ gone' = gone \cup (text \ r.body)
        <3>1. ASSUME pending # None PROVE pending.text \subseteq text' \cup Aside(pending.note)'
            <4>1. pending.note = selected /\ pending.text \subseteq text \cup Aside(pending.note)
                BY <3>1 DEF EditorInv, Focus
            <4>2. pending.note \in rejected' /\ gone' = gone \cup (text \ r.body)
                BY <1>2, <1>3, <2>3, <4>1
            <4>3. Aside(pending.note)' = gone' \cup draft'
                BY <1>1, <4>2 DEF Aside
            <4>4. Aside(pending.note) \subseteq gone' \cup draft'
                BY <1>2, <2>3 DEF Aside
            <4> QED
                BY <1>2, <4>1, <4>2, <4>3, <4>4
        <3> QED
            BY <1>1, <2>2, <2>3, <3>1 DEF EditorInv, Focus
    <2>4. CASE pending = None /\ (loading' = loading \/ loading' = None)
        BY <1>1, <2>2, <2>4 DEF EditorInv, Focus
    <2> QED
        BY <2>3, <2>4
<1>6. Order'
    BY <1>2, OrderApplies
<1>7. ASSUME NEW n \in Notes \ misread' PROVE Current(n)' /\ Safe(n)'
    <2>1. n \in Notes \ misread
        BY <1>2
    <2>2. Writes(n)' = Writes(n)
        BY DEF Writes
    <2>3. CASE selected # n
        BY <1>1, <1>2, <1>3, <2>1, <2>2, <2>3, Rests
    <2>4. CASE selected = n
        <3>1. Writes(n) = {} /\ Answers(n) = {}
            <4>1. \A c \in Range(calls) \cup {s.call : s \in Range(results')} :
                      ~(c.do = "write" /\ c.note = n)
                BY <1>1, <1>2, <2>4
            <4>2. Answers(n)' = {}
                BY <4>1 DEF Answers
            <4> QED
                BY <1>1, <4>1, <4>2 DEF Writes
        <3>2. Current(n) /\ Safe(n)
            BY <2>1 DEF EditorInv
        <3>3. Version(n)' = Version(n) /\ \A seen : Sees(n, seen) => Sees(n, seen)'
            BY <1>1, <1>2, <1>3 DEF Version, Sees
        <3>4. r.version = Version(n) => Sees(n, text)'
            <4>1. r.version = Version(n) => r.body = store[n].body
                BY <1>1, <2>4 DEF EditorInv, Order
            <4>2. theirs[n] \subseteq store[n].body
                BY <3>2 DEF Current
            <4> QED
                BY <1>1, <1>2, <4>1, <4>2 DEF Sees
        <3>5. ASSUME pending # None, pending.version = Version(n) PROVE r.version = Version(n)
            <4>1. pending.version \in Versions
                BY <3>5 DEF EditorInv, Shapes, EditOf
            <4>2. pending.version[1] = n /\ pending.version[2] = store[n].at
                BY <3>5 DEF Version
            <4>3. store[n].at <= r.version[2]
                BY <1>1, <2>4, <3>5, <4>1, <4>2 DEF EditorInv, Order, Past
            <4>4. r.version[1] = n /\ r.version[2] <= store[n].at
                BY <1>1, <2>4 DEF EditorInv, Order
            <4>5. store[n].at \in Nat /\ r.version[2] \in Nat
                BY <1>1, <2>1 DEF EditorInv, Shapes, Versions
            <4>6. r.version[2] = store[n].at
                BY <4>3, <4>4, <4>5
            <4>7. r.version = <<r.version[1], r.version[2]>>
                BY <1>1 DEF Versions
            <4> QED
                BY <4>4, <4>6, <4>7 DEF Version
        <3> HIDE DEF Writes, Answers, Version
        <3>6. Current(n)'
            <4>1. theirs'[n] \subseteq store'[n].body
                BY <1>1, <3>2 DEF Current
            <4>2. ASSUME pending' # None, pending'.note = n, pending'.version = Version(n)'
                  PROVE  Sees(n, pending.text)' /\ Sees(n, text)'
                BY <1>1, <3>2, <3>3, <3>4, <3>5, <4>2 DEF Current, Sees
            <4>3. loaded' = Version(n)' => Sees(n, text)'
                BY <1>2, <3>3, <3>4
            <4> QED
                BY <1>1, <2>2, <3>1, <4>1, <4>2, <4>3 DEF Current
        <3>7. Safe(n)'
            BY <1>1, <1>2, <1>3, <2>2, <3>2 DEF Safe
        <3> QED
            BY <3>6, <3>7
    <2> QED
        BY <2>3, <2>4
<1> QED
    BY <1>4, <1>5, <1>6, <1>7 DEF EditorInv

\* A result that nothing comes of.
LEMMA DropKeeps ==
    ASSUME EditorInv, Apply, NEW r, r = Head(results), r.call.do # "write",
           UNCHANGED <<text, loaded, loading, calls, refusals>>
    PROVE  EditorInv'
<1>1. /\ results' \in Seq(ResultOf(1 .. next)) /\ \A n : Answers(n)' = Answers(n)
      /\ store' = store /\ theirs' = theirs /\ next' = next /\ typed' = typed
      /\ selected' = selected /\ pending' = pending /\ rejected' = rejected /\ misread' = misread
      /\ Range(results') \subseteq Range(results) /\ \A n : Aside(n)' = Aside(n)
    BY ResultTaken, AnswersLeft DEF refusals, Aside
<1>2. Shapes' /\ Focus' /\ Reported'
    BY <1>1, ReportedStays DEF EditorInv, Shapes, Focus
<1>3. Order'
    BY OrderApplies
<1>4. ASSUME NEW n \in Notes \ misread PROVE Current(n)' /\ Safe(n)'
    <2>1. Writes(n)' = Writes(n)
        BY DEF Writes
    <2> QED
        BY <1>1, <2>1, Rests
<1> QED
    BY <1>1, <1>2, <1>3, <1>4 DEF EditorInv

\* After a load that failed the open note is misread, whatever was loading.
LEMMA FailedKeeps ==
    ASSUME EditorInv, Apply, NEW r, r = Head(results), r.call.do = "load",
           loading' = None, misread' = misread \cup {selected},
           UNCHANGED <<text, loaded, calls, draft, gone, rejected>>
    PROVE  EditorInv'
<1>1. /\ results' \in Seq(ResultOf(1 .. next)) /\ \A n : Answers(n)' = Answers(n)
      /\ store' = store /\ theirs' = theirs /\ next' = next /\ typed' = typed
      /\ selected' = selected /\ pending' = pending
      /\ Range(results') \subseteq Range(results) /\ \A n : Aside(n)' = Aside(n)
    BY ResultTaken, AnswersLeft DEF Aside
<1>2. Shapes' /\ Focus' /\ Reported'
    BY <1>1, ReportedStays DEF EditorInv, Shapes, Focus
<1>3. Order'
    BY OrderApplies
<1>4. ASSUME NEW n \in Notes \ misread' PROVE Current(n)' /\ Safe(n)'
    <2>1. Writes(n)' = Writes(n)
        BY DEF Writes
    <2>2. n \in Notes \ misread /\ selected # n
        OBVIOUS
    <2> QED
        BY <1>1, <2>1, <2>2, Rests
<1> QED
    BY <1>2, <1>3, <1>4 DEF EditorInv

LEMMA ApplyKeeps == ASSUME EditorInv, Apply PROVE EditorInv'
<1>1. PICK r : r = Head(results)
    OBVIOUS
<1>2. r.call.note \in Notes /\ (Written(r) \/ Rejected(r) \/ Loaded(r) \/ Reloaded(r))
    BY <1>1, ResultTaken
<1>3. CASE Written(r)
    BY <1>1, <1>3, WrittenKeeps
<1>4. CASE Rejected(r)
    BY <1>1, <1>4, RejectedKeeps
<1>5. CASE Loaded(r)
    <2>1. r.call.do = "load" /\ calls' = calls /\ gone' = gone
        BY <1>5 DEF Loaded
    <2>2. CASE r.ok /\ loading = r.call.note /\ Show(r) /\ loading' = None
        <3>1. loading # None
            BY <1>2, <2>2, EditorAssumption
        <3>2. selected = r.call.note /\ pending = None
            BY <2>2, <3>1 DEF EditorInv, Focus
        <3> QED
            BY <1>1, <2>1, <2>2, <3>2, ShowKeeps
    <2>3. CASE UNCHANGED <<text, loaded, loading, draft, rejected, misread>>
        BY <1>1, <2>1, <2>3, DropKeeps DEF refusals
    <2>4. CASE loading' = None /\ misread' = misread \cup {selected}
               /\ UNCHANGED <<text, loaded, draft, rejected>>
        BY <1>1, <2>1, <2>4, FailedKeeps
    <2> QED
        BY <1>5, <2>2, <2>3, <2>4 DEF Loaded
<1>6. CASE Reloaded(r)
    <2>1. r.call.do # "write" /\ calls' = calls /\ loading' = loading
        BY <1>6 DEF Reloaded
    <2>2. CASE Reloads(r)
        <3>1. /\ selected = r.call.note /\ Show(r)
              /\ \/ r.call.do = "reload" /\ gone' = gone \cup (text \ r.body)
                 \/ pending = None /\ gone' = gone
            BY <1>6, <2>2 DEF Reloads, Reloaded
        <3> QED
            BY <1>1, <2>1, <3>1, ShowKeeps
    <2>3. CASE ~Reloads(r)
        <3>1. UNCHANGED <<text, loaded, refusals>>
            BY <1>6, <2>3 DEF Reloaded
        <3> QED
            BY <1>1, <2>1, <3>1, DropKeeps
    <2> QED
        BY <2>2, <2>3
<1> QED
    BY <1>2, <1>3, <1>4, <1>5, <1>6

-----------------------------------------------------------------------------
(* The specification.                                                        *)

LEMMA EditorBegins == ASSUME EditorInit PROVE EditorInv
<1>1. /\ store = [n \in Notes |-> [body |-> {}, at |-> 0]]
      /\ theirs = [n \in Notes |-> {}] /\ typed = [n \in Notes |-> {}] /\ next = 0
      /\ selected = None /\ text = {} /\ loaded = None /\ pending = None /\ loading = None
      /\ calls = <<>> /\ results = <<>> /\ misread = {}
    BY DEF EditorInit
<1>2. Range(calls) = {} /\ Range(results) = {}
    BY <1>1 DEF Range
<1>3. None \notin Versions
    BY EditorAssumption DEF Versions
<1>4. Shapes /\ Focus /\ Reported
    BY <1>1, <1>2 DEF Shapes, Focus, Reported
<1>5. Order
    BY <1>1, <1>2, <1>3 DEF Order, Sorted, Past
<1>6. \A n \in Notes : Current(n) /\ Safe(n)
    <2> SUFFICES ASSUME NEW n \in Notes PROVE Current(n) /\ Safe(n)
        OBVIOUS
    <2>1. n # None
        BY EditorAssumption
    <2>2. Writes(n) = {} /\ Answers(n) = {}
        BY <1>2 DEF Writes, Answers
    <2>3. Current(n)
        BY <1>1, <2>1, <2>2 DEF Current
    <2>4. Safe(n)
        BY <1>1 DEF Safe
    <2> QED
        BY <2>3, <2>4
<1> QED
    BY <1>4, <1>5, <1>6 DEF EditorInv

LEMMA EditorStep == ASSUME EditorInv, [EditorNext]_editorVars PROVE EditorInv'
<1>1. CASE UNCHANGED editorVars
    <2>1. /\ store' = store /\ theirs' = theirs /\ next' = next /\ typed' = typed
          /\ selected' = selected /\ text' = text /\ loaded' = loaded /\ pending' = pending
          /\ loading' = loading /\ calls' = calls /\ results' = results /\ rejected' = rejected
          /\ misread' = misread /\ \A n : Aside(n)' = Aside(n)
        BY <1>1 DEF editorVars, Aside
    <2>2. Shapes' /\ Focus' /\ Reported'
        BY <2>1 DEF EditorInv, Shapes, Focus, Reported
    <2>3. Order'
        BY <2>1 DEF EditorInv, Order, Past, Version
    <2>4. ASSUME NEW n \in Notes \ misread PROVE Current(n)' /\ Safe(n)'
        <3>1. Writes(n)' = Writes(n) /\ Answers(n)' = Answers(n)
            BY <2>1 DEF Writes, Answers
        <3>2. Current(n) /\ Safe(n)
            BY DEF EditorInv
        <3> QED
            BY <2>1, <3>1, <3>2, Unmoved
    <2> QED
        BY <2>1, <2>2, <2>3, <2>4 DEF EditorInv
<1>2. CASE Type
    BY <1>2, TypeKeeps
<1>3. CASE FlushPendingEdit
    BY <1>3, FlushKeeps
<1>4. ASSUME NEW n \in Notes \cup {None}, LoadSelectedNote(n) PROVE EditorInv'
    BY <1>4, SelectKeeps
<1>5. ASSUME NEW n \in Notes, ExternalWrite(n) PROVE EditorInv'
    BY <1>5, ExternalKeeps
<1>6. CASE ReloadIfChanged
    BY <1>6, WatchKeeps
<1>7. CASE RunCall
    BY <1>7, RunCallKeeps
<1>8. CASE Apply
    BY <1>8, ApplyKeeps
<1>9. CASE CopyDraft
    BY <1>9, CopyKeeps
<1> QED
    BY <1>1, <1>2, <1>3, <1>4, <1>5, <1>6, <1>7, <1>8, <1>9 DEF EditorNext

LEMMA EditorInvariant == EditorSpec => []EditorInv
<1>1. EditorInit => EditorInv
    BY EditorBegins
<1>2. EditorInv /\ [EditorNext]_editorVars => EditorInv'
    BY EditorStep
<1> QED
    BY <1>1, <1>2, PTL DEF EditorSpec

\* No flush of the editor takes out of a note what another process wrote to
\* it (flushPendingEdit with the version of the text, update_note_if_version):
\* whatever is stored under the version the note has was made by who saw it so.
THEOREM OthersAreKept == EditorSpec => []OthersKept
<1>1. EditorInv => OthersKept
    BY DEF EditorInv, OthersKept, Current
<1> QED
    BY <1>1, EditorInvariant, PTL

\* What the user typed into a note is in it, in the open buffer, waiting,
\* queued, or in the draft on show, for any order of typing, selecting,
\* flushing and reloading (editorTextDidChange, loadSelectedNote,
\* reloadEditorIfExternalWriteChangedIt); after a rejected write it may be gone
\* with the draft or out of the buffer (reloadEditorAfterRejectedWrite).
THEOREM TypedStaysKept == EditorSpec => []TypedIsKept
<1>1. ASSUME EditorInv, NEW n \in Notes \ misread
      PROVE  LET written == {c \in Range(calls) : c.do = "write" /\ c.note = n}
                 refused == {r.call : r \in {s \in Range(results) : ~s.ok}}
                 kept == store[n].body \cup draft
                           \cup (IF selected = n THEN text ELSE {})
                           \cup (IF pending # None /\ pending.note = n THEN pending.text ELSE {})
                           \cup UNION {c.text : c \in written \cup refused}
             IN  typed[n] \subseteq IF n \in rejected THEN kept \cup gone ELSE kept
    <2> DEFINE refused == {r.call : r \in {s \in Range(results) : ~s.ok}}
               ways == UNION {c.text : c \in Writes(n) \cup refused}
               kept == store[n].body \cup draft
                         \cup (IF selected = n THEN text ELSE {})
                         \cup (IF pending # None /\ pending.note = n THEN pending.text ELSE {})
                         \cup ways
    <2>1. Safe(n)
        BY <1>1 DEF EditorInv
    <2>2. ASSUME NEW x \in UNION {c.text : c \in Writes(n)} PROVE x \in ways
        OBVIOUS
    <2>3. ASSUME NEW x \in UNION {r.call.text : r \in {s \in Answers(n) : ~s.ok}} PROVE x \in ways
        <3>1. PICK r \in Answers(n) : ~r.ok /\ x \in r.call.text
            BY <2>3
        <3>2. r.call \in refused
            BY <3>1 DEF Answers
        <3> HIDE DEF refused
        <3> QED
            BY <3>1, <3>2
    <2> HIDE DEF ways
    <2>4. typed[n] \subseteq
            store[n].body \cup Aside(n)
              \cup (IF pending # None /\ pending.note = n THEN pending.text ELSE {})
              \cup ways
        BY <2>1, <2>2, <2>3 DEF Safe
    <2>5. n \in rejected => typed[n] \subseteq kept \cup gone
        BY <2>4 DEF Aside
    <2>6. n \notin rejected => typed[n] \subseteq kept
        BY <2>4 DEF Aside
    <2> QED
        BY <2>5, <2>6 DEF ways, Writes
<1>2. EditorInv => TypedIsKept
    BY <1>1 DEF TypedIsKept
<1> QED
    BY <1>2, EditorInvariant, PTL
===============================================================================
