---------------------------- MODULE SessionProofs ----------------------------
(***************************************************************************)
(* The frames of a session are never mixed, for any window, any length of   *)
(* round, and wherever a write fails or the connection goes.                *)
(***************************************************************************)
EXTENDS Session, SequenceTheorems, TLAPS

\* Whole frames, and what there is of them when the last one is under way.
Framed(q) ==
    \A i \in 1 .. Len(q) :
        /\ q[i].part = IF i % 2 = 1 THEN "id" ELSE "payload"
        /\ i % 2 = 0 => q[i].kind = q[i - 1].kind
Whole(q) == Framed(q) /\ Len(q) % 2 = 0

\* A side that has read no frame of this connection.
Fresh(d) == main[d] \in {"open", "hello", "first"}
Greets(q) == q # <<>> /\ q[1].kind = "pair"

\* A writer past the prelude holds the lock, and no ticker runs before.
Locked(s) ==
    /\ tick[s] = "write" => lock[s] = "ticker"
    /\ main[s] = "write" => lock[s] = "run"
    /\ Fresh(s) => tick[s] = "off"

\* What the writers of a side have yet to write completes what is on the way.
Aligned(s) ==
    /\ \A w \in Writers : Waits(s, w) => todo[s][w] # <<>> /\ Whole(todo[s][w])
    /\ \A w \in Writers :
          Writes(s, w) => todo[s][w] # <<>> /\ Whole(Incoming(Other(s)) \o todo[s][w])
    /\ (\A w \in Writers : ~Writes(s, w)) => Whole(Incoming(Other(s)))

\* The ticket is the first thing the other side will read.
Greeting(s) ==
    /\ main[s] = "open" => Incoming(Other(s)) = <<>>
    /\ main[s] = "hello" /\ Fresh(Other(s)) => Greets(Incoming(Other(s)) \o todo[s]["run"])
    /\ main[s] \notin {"open", "hello"} /\ Fresh(Other(s)) => Greets(Incoming(Other(s)))

\* What arrives, also once the connection is gone.
Sound(d) ==
    /\ Framed(Incoming(d))
    /\ Fresh(d) /\ Incoming(d) # <<>> => Greets(Incoming(d))

FrameInv ==
    /\ TypeOK
    /\ \A s \in Sides : Locked(s) /\ Sound(s)
    /\ ~closed => \A s \in Sides : Aligned(s) /\ Greeting(s)
-----------------------------------------------------------------------------
(* Sequences of parts.                                                     *)

LEMMA Parity ==
    \A i \in Nat : /\ i % 2 \in {0, 1}
                   /\ (i + 1) % 2 = 1 - (i % 2)
                   /\ (i + 2) % 2 = i % 2
OBVIOUS

LEMMA ConcatAt ==
    ASSUME NEW q \in Seq(Part), NEW r \in Seq(Part)
    PROVE  /\ q \o r \in Seq(Part) /\ Len(q \o r) = Len(q) + Len(r)
           /\ Len(q) \in Nat /\ Len(r) \in Nat
           /\ \A i \in 1 .. Len(q) : (q \o r)[i] = q[i]
           /\ \A i \in 1 .. Len(r) : (q \o r)[Len(q) + i] = r[i]
BY ConcatProperties, LenProperties

\* What is framed starts with whole frames.
LEMMA FramedStart ==
    ASSUME NEW q \in Seq(Part), NEW r \in Seq(Part), Framed(q \o r)
    PROVE  Framed(q)
<1> SUFFICES ASSUME NEW i \in 1 .. Len(q)
             PROVE  /\ q[i].part = IF i % 2 = 1 THEN "id" ELSE "payload"
                    /\ i % 2 = 0 => q[i].kind = q[i - 1].kind
    BY DEF Framed
<1>1. /\ i \in 1 .. Len(q \o r) /\ (q \o r)[i] = q[i]
      /\ i # 1 => (q \o r)[i - 1] = q[i - 1]
    BY ConcatProperties
<1>2. i % 2 = 0 => i # 1
    OBVIOUS
<1> QED
    BY <1>1, <1>2 DEF Framed

\* Whole frames follow whole frames.
LEMMA WholeConcat ==
    ASSUME NEW q \in Seq(Part), NEW r \in Seq(Part), Whole(q), Whole(r)
    PROVE  Whole(q \o r)
<1> DEFINE n == Len(q)
<1>1. /\ n \in Nat /\ Len(r) \in Nat /\ Len(q \o r) = n + Len(r)
      /\ n % 2 = 0 /\ Len(r) % 2 = 0
    BY ConcatProperties, LenProperties DEF Whole
<1>2. \A i \in Nat : (n + i) % 2 = i % 2
    BY <1>1
<1>3. ASSUME NEW i \in 1 .. n + Len(r)
      PROVE  /\ (q \o r)[i].part = IF i % 2 = 1 THEN "id" ELSE "payload"
             /\ i % 2 = 0 => (q \o r)[i].kind = (q \o r)[i - 1].kind
    <2>1. CASE i <= n
        <3>1. (q \o r)[i] = q[i] /\ (i # 1 => (q \o r)[i - 1] = q[i - 1])
            <4>1. i \in 1 .. Len(q) /\ (i # 1 => i - 1 \in 1 .. Len(q))
                BY <1>1, <2>1
            <4> QED
                BY <4>1, ConcatAt
        <3>2. i % 2 = 0 => i # 1
            OBVIOUS
        <3> QED
            BY <1>1, <2>1, <3>1, <3>2 DEF Whole, Framed
    <2>2. CASE i > n
        <3> DEFINE j == i - n
        <3>1. j \in 1 .. Len(r) /\ i = n + j /\ j % 2 = i % 2
            BY <1>1, <1>2, <2>2
        <3>2. (q \o r)[i] = r[j] /\ (j # 1 => (q \o r)[i - 1] = r[j - 1])
            BY <1>1, <2>2, ConcatProperties
        <3>3. j % 2 = 0 => j # 1
            BY <3>1
        <3> QED
            BY <3>1, <3>2, <3>3 DEF Whole, Framed
    <2> QED
        BY <1>1, <2>1, <2>2
<1> QED
    BY <1>1, <1>2, <1>3 DEF Whole, Framed

\* A part that goes from what is to be written to what was written.
LEMMA Moved ==
    ASSUME NEW q \in Seq(Part), NEW r \in Seq(Part), r # <<>>
    PROVE  /\ Head(r) \in Part /\ Tail(r) \in Seq(Part)
           /\ Append(q, Head(r)) \in Seq(Part)
           /\ Append(q, Head(r)) \o Tail(r) = q \o r
           /\ Len(r) = 1 <=> Tail(r) = <<>>
<1>1. Head(r) \in Part /\ Tail(r) \in Seq(Part) /\ r = <<Head(r)>> \o Tail(r)
    <2>1. Head(r) \in Part /\ Tail(r) \in Seq(Part) /\ Len(Tail(r)) = Len(r) - 1
          /\ \A i \in 1 .. Len(Tail(r)) : Tail(r)[i] = r[i + 1]
        BY HeadTailProperties
    <2>2. <<Head(r)>> \in Seq(Part) /\ Len(<<Head(r)>>) = 1
        BY <2>1
    <2>3. <<Head(r)>> \o Tail(r) \in Seq(Part) /\ Len(<<Head(r)>> \o Tail(r)) = Len(r)
        BY <2>1, <2>2, ConcatProperties, LenProperties
    <2>4. ASSUME NEW i \in 1 .. Len(r) PROVE r[i] = (<<Head(r)>> \o Tail(r))[i]
        BY <2>1, <2>2, <2>3, ConcatProperties
    <2> QED
        BY <2>1, <2>3, <2>4, SeqEqual
<1>2. Append(q, Head(r)) = q \o <<Head(r)>> /\ <<Head(r)>> \in Seq(Part)
    BY <1>1, AppendIsConcat
<1>3. Append(q, Head(r)) \o Tail(r) = q \o r
    BY <1>1, <1>2, ConcatAssociative
<1>4. Len(r) = 1 <=> Tail(r) = <<>>
    BY <1>1, HeadTailProperties, LenProperties, EmptySeq
<1> QED
    BY <1>1, <1>2, <1>3, <1>4, AppendProperties

\* A frame that is taken off the front.
LEMMA FrameRead ==
    ASSUME NEW a \in Part, NEW b \in Part, NEW q \in Seq(Part), Framed(<<a>> \o (<<b>> \o q))
    PROVE  Framed(q)
<1> DEFINE all == <<a>> \o (<<b>> \o q)
<1>1. <<b>> \o q \in Seq(Part) /\ Len(<<b>> \o q) = 1 + Len(q)
      /\ \A i \in 1 .. Len(q) : (<<b>> \o q)[i + 1] = q[i]
    BY ConcatProperties
<1>2. Len(all) = 2 + Len(q) /\ \A i \in 1 .. Len(q) : all[i + 2] = q[i]
    BY <1>1, ConcatProperties
<1> HIDE DEF all
<1> SUFFICES ASSUME NEW i \in 1 .. Len(q)
             PROVE  /\ q[i].part = IF i % 2 = 1 THEN "id" ELSE "payload"
                    /\ i % 2 = 0 => q[i].kind = q[i - 1].kind
    BY DEF Framed
<1>3. i + 2 \in 1 .. Len(all) /\ (i + 2) % 2 = i % 2 /\ (i % 2 = 0 => i # 1)
    BY <1>2
<1>4. i # 1 => q[i - 1] = all[i + 1]
    BY <1>2
<1>5. Framed(all)
    BY DEF all
<1> QED
    BY <1>2, <1>3, <1>4, <1>5 DEF Framed

LEMMA PartsAssociate ==
    ASSUME NEW x \in Seq(Part), NEW y \in Seq(Part), NEW z \in Seq(Part)
    PROVE  (x \o y) \o z = x \o (y \o z)
BY ConcatAssociative

LEMMA FrontAssociates ==
    ASSUME NEW x \in Seq(Part), NEW y \in Seq(Part), NEW q \in Seq(Part), NEW r \in Seq(Part)
    PROVE  /\ (x \o (y \o q)) \o r = x \o (y \o (q \o r))
           /\ Len(x \o (y \o (q \o r))) = Len(x) + (Len(y) + Len(q \o r))
           /\ q \o r \in Seq(Part)
<1>1. y \o q \in Seq(Part) /\ q \o r \in Seq(Part) /\ y \o (q \o r) \in Seq(Part)
    BY ConcatProperties
<1>2. (y \o q) \o r = y \o (q \o r)
    BY PartsAssociate
<1>3. \A z \in Seq(Part) : (x \o z) \o r = x \o (z \o r)
    BY PartsAssociate
<1>4. \A u, v \in Seq(Part) : Len(u \o v) = Len(u) + Len(v)
    BY ConcatProperties
<1>5. (x \o (y \o q)) \o r = x \o ((y \o q) \o r)
    BY <1>1, <1>3, Zenon
<1>6. Len(y \o (q \o r)) = Len(y) + Len(q \o r)
    BY <1>1, <1>4, Zenon
<1>7. Len(x \o (y \o (q \o r))) = Len(x) + Len(y \o (q \o r))
    BY <1>1, <1>4, Zenon
<1> QED
    BY <1>1, <1>2, <1>5, <1>6, <1>7, Zenon

\* The rest is as whole as it was.
LEMMA FrameReadOf ==
    ASSUME NEW a \in Part, NEW b \in Part, NEW q \in Seq(Part), NEW r \in Seq(Part),
           Whole((<<a>> \o (<<b>> \o q)) \o r)
    PROVE  Whole(q \o r)
<1>1. <<a>> \in Seq(Part) /\ <<b>> \in Seq(Part) /\ Len(<<a>>) = 1 /\ Len(<<b>>) = 1
    OBVIOUS
<1>2. /\ (<<a>> \o (<<b>> \o q)) \o r = <<a>> \o (<<b>> \o (q \o r))
      /\ Len(<<a>> \o (<<b>> \o (q \o r))) = Len(<<a>>) + (Len(<<b>>) + Len(q \o r))
      /\ q \o r \in Seq(Part)
    BY <1>1, FrontAssociates
<1>3. Framed(<<a>> \o (<<b>> \o (q \o r))) /\ Len(<<a>> \o (<<b>> \o (q \o r))) % 2 = 0
    BY <1>2, Zenon DEF Whole
<1>4. Framed(q \o r)
    BY <1>2, <1>3, FrameRead, Zenon
<1> DEFINE n == Len(q \o r)
<1>5. n \in Nat
    BY <1>2, LenProperties
<1>6. (1 + (1 + n)) % 2 = 0
    BY <1>1, <1>2, <1>3, Zenon
<1> HIDE DEF n
<1>7. n % 2 = 0
    BY <1>5, <1>6
<1> QED
    BY <1>4, <1>7, Zenon DEF Whole, n

LEMMA FrameNotEmpty ==
    ASSUME NEW a \in Part, NEW b \in Part, NEW q \in Seq(Part)
    PROVE  <<a>> \o (<<b>> \o q) # <<>>
<1>1. <<b>> \o q \in Seq(Part) /\ <<a>> \in Seq(Part) /\ <<a>> # <<>>
    BY ConcatAt
<1> QED
    BY <1>1, ConcatEqualIffEmpty

-----------------------------------------------------------------------------
(* The two sides.                                                          *)

LEMMA SidesOther ==
    /\ \A d \in Sides : Other(d) \in Sides /\ Other(d) # d /\ Other(Other(d)) = d
    /\ \A d, e \in Sides : e # d => e = Other(d)
BY SessionAssumption DEF Sides, Other

LEMMA IncomingType ==
    ASSUME TypeOK, NEW d \in Sides
    PROVE  Incoming(d) \in Seq(Part) /\ stream[d] \in Seq(Part)
           /\ (got[d] # None => got[d] \in Part)
BY ConcatProperties, EmptySeq DEF TypeOK, Incoming

LEMMA NothingComes ==
    ASSUME UNCHANGED <<stream, got>> PROVE \A d : Incoming(d)' = Incoming(d)
BY DEF Incoming

\* The lock and the prelude keep all but one writer out.
LEMMA OneWriter ==
    ASSUME NEW d \in Sides, Locked(d), NEW w \in Writers, NEW v \in Writers \ {w}
    PROVE  Writes(d, w) => ~Writes(d, v)
BY DEF Locked, Writes, Writers, Fresh

LEMMA FreeLock ==
    ASSUME NEW d \in Sides, Locked(d), NEW w \in Writers, Waits(d, w), lock[d] = None
    PROVE  \A v \in Writers : ~Writes(d, v)
BY SessionAssumption DEF Locked, Writes, Waits, Writers, Fresh

LEMMA PreludeWhole ==
    /\ Frame("pair") \o Frame("name") \in Seq(Part)
    /\ Frame("reply") \in Seq(Part) /\ Frame("reply") # <<>> /\ Whole(Frame("reply"))
    /\ Whole(Frame("pair") \o Frame("name"))
    /\ Greets(Frame("pair") \o Frame("name"))
<1>1. \A k \in Kinds : Frame(k) \in Seq(Part) /\ Len(Frame(k)) = 2
         /\ Frame(k)[1] = [kind |-> k, part |-> "id"]
         /\ Frame(k)[2] = [kind |-> k, part |-> "payload"]
    BY DEF Frame, Part
<1>2. ASSUME NEW q \in Seq(Part), NEW k \in Kinds, Len(q) = 2,
             q[1] = [kind |-> k, part |-> "id"], q[2] = [kind |-> k, part |-> "payload"]
      PROVE  Whole(q) /\ q # <<>>
    <2>1. \A i \in 1 .. 2 : i = 1 \/ i = 2
        OBVIOUS
    <2>2. 1 % 2 = 1 /\ 2 % 2 = 0 /\ 2 - 1 = 1
        OBVIOUS
    <2>3. Framed(q)
        BY <1>2, <2>1, <2>2 DEF Framed
    <2> QED
        BY <1>2, <2>2, <2>3, EmptySeq DEF Whole
<1>3. \A k \in Kinds : Whole(Frame(k)) /\ Frame(k) # <<>>
    BY <1>1, <1>2
<1>4. "pair" \in Kinds /\ "name" \in Kinds /\ "reply" \in Kinds
    BY DEF Kinds
<1> DEFINE q == Frame("pair")
           r == Frame("name")
<1>5. /\ q \in Seq(Part) /\ Len(q) = 2 /\ Whole(q) /\ q[1].kind = "pair"
      /\ r \in Seq(Part) /\ Len(r) = 2 /\ Whole(r)
    <2>1. q \in Seq(Part) /\ Len(q) = 2 /\ q[1] = [kind |-> "pair", part |-> "id"]
        BY <1>1, <1>4
    <2>2. r \in Seq(Part) /\ Len(r) = 2
        BY <1>1, <1>4
    <2>3. Whole(q) /\ Whole(r)
        BY <1>3, <1>4
    <2> QED
        BY <2>1, <2>2, <2>3
<1> HIDE DEF q, r
<1>6. q \o r \in Seq(Part) /\ Whole(q \o r)
    BY <1>5, WholeConcat, ConcatAt
<1>7. Greets(q \o r)
    <2>1. Len(q \o r) = 4 /\ (q \o r)[1] = q[1]
        BY <1>5, ConcatAt
    <2> QED
        BY <1>5, <1>6, <2>1, EmptySeq DEF Greets
<1>8. Frame("reply") \in Seq(Part) /\ Frame("reply") # <<>> /\ Whole(Frame("reply"))
    BY <1>1, <1>3, <1>4
<1> QED
    BY <1>6, <1>7, <1>8 DEF q, r

-----------------------------------------------------------------------------
(* One lemma per action.                                                   *)

LEMMA OpenKeeps ==
    ASSUME FrameInv, NEW d \in Sides, Open(d) PROVE FrameInv'
<1> DEFINE p == Frame("pair") \o Frame("name")
<1>1. p \in Seq(Part) /\ Whole(p) /\ Greets(p)
    BY PreludeWhole
<1> HIDE DEF p
<1>2. /\ main[d] = "open" /\ main' = [main EXCEPT ![d] = "hello"]
      /\ todo' = [todo EXCEPT ![d]["run"] = p]
      /\ ~closed /\ UNCHANGED <<closed, opened, tick, lock, stream, got>>
    BY DEF Open, p
<1>3. TypeOK'
    BY <1>1, <1>2 DEF FrameInv, TypeOK, Writers
<1>4. \A s \in Sides : Incoming(s)' = Incoming(s) /\ (Fresh(s)' <=> Fresh(s))
    BY <1>2, NothingComes DEF Fresh, FrameInv, TypeOK
<1>5. \A s \in Sides : Locked(s)' /\ Sound(s)'
    BY <1>2, <1>4 DEF FrameInv, TypeOK, Locked, Sound
<1>6. ASSUME NEW s \in Sides PROVE Aligned(s)' /\ Greeting(s)'
    <2>1. Aligned(s) /\ Greeting(s) /\ Other(s) \in Sides
        BY <1>2, SidesOther DEF FrameInv
    <2>2. CASE s # d
        <3>1. \A w \in Writers : (Waits(s, w)' <=> Waits(s, w)) /\ (Writes(s, w)' <=> Writes(s, w))
            BY <1>2, <2>2 DEF Waits, Writes, FrameInv, TypeOK
        <3>2. todo'[s] = todo[s] /\ main'[s] = main[s]
            BY <1>2, <2>2 DEF FrameInv, TypeOK
        <3> QED
            BY <1>4, <2>1, <3>1, <3>2 DEF Aligned, Greeting
    <2>3. CASE s = d
        <3>1. Incoming(Other(s)) = <<>> /\ tick[s] = "off"
            BY <1>2, <2>1, <2>3 DEF Greeting, FrameInv, Locked, Fresh
        <3>2. <<>> \o p = p /\ p # <<>>
            BY <1>1, ConcatEmptySeq DEF Greets
        <3>3. main'[s] = "hello" /\ tick'[s] = "off" /\ todo'[s]["run"] = p
            BY <1>2, <2>3, <3>1 DEF FrameInv, TypeOK, Writers
        <3>4. ~Waits(s, "run")' /\ ~Waits(s, "ticker")' /\ Writes(s, "run")'
              /\ ~Writes(s, "ticker")'
            BY <3>3 DEF Waits, Writes
        <3> QED
            BY <1>1, <1>4, <2>1, <3>1, <3>2, <3>3, <3>4 DEF Aligned, Greeting, Writers
    <2> QED
        BY <2>2, <2>3
<1> QED
    BY <1>3, <1>5, <1>6 DEF FrameInv

\* Steps that put nothing on the way and start no writer: the others see none
\* of it, and the side itself only has to account for its own writers.
LEMMA OwnBusiness ==
    ASSUME FrameInv, TypeOK', NEW d \in Sides, UNCHANGED <<closed, stream, got>>,
           \A s \in Sides \ {d} : UNCHANGED <<main[s], tick[s], todo[s], lock[s]>>,
           Fresh(d)' <=> Fresh(d), Locked(d)', ~closed => Aligned(d)' /\ Greeting(d)'
    PROVE  FrameInv'
<1>1. \A s \in Sides : Incoming(s)' = Incoming(s) /\ (Fresh(s)' <=> Fresh(s))
    BY NothingComes DEF Fresh
<1>2. \A s \in Sides : Locked(s)' /\ Sound(s)'
    BY <1>1 DEF FrameInv, Locked, Sound
<1>3. ASSUME ~closed, NEW s \in Sides \ {d} PROVE Aligned(s)' /\ Greeting(s)'
    <2>1. Aligned(s) /\ Greeting(s) /\ Other(s) \in Sides
        BY <1>3, SidesOther DEF FrameInv
    <2>2. \A w \in Writers : (Waits(s, w)' <=> Waits(s, w)) /\ (Writes(s, w)' <=> Writes(s, w))
        BY DEF Waits, Writes
    <2> QED
        BY <1>1, <2>1, <2>2 DEF Aligned, Greeting
<1> QED
    BY <1>2, <1>3 DEF FrameInv

LEMMA TakeLockKeeps ==
    ASSUME FrameInv, NEW d \in Sides, NEW w \in Writers, TakeLock(d, w) PROVE FrameInv'
<1>1. /\ Waits(d, w) /\ lock[d] = None /\ lock' = [lock EXCEPT ![d] = w]
      /\ IF w = "run" THEN main' = [main EXCEPT ![d] = "write"] /\ UNCHANGED tick
                      ELSE tick' = [tick EXCEPT ![d] = "write"] /\ UNCHANGED main
      /\ UNCHANGED <<closed, opened, todo, stream, got>>
    BY DEF TakeLock, Free
<1>2. TypeOK'
    BY <1>1 DEF FrameInv, TypeOK
<1>3. Locked(d) /\ Other(d) \in Sides /\ Other(d) # d
    BY SidesOther DEF FrameInv
<1>4. \A v \in Writers : ~Writes(d, v)
    BY <1>1, <1>3, FreeLock
<1>5. main[d] # "open" /\ main[d] # "hello" /\ main[d] # "first"
    BY <1>1, <1>3 DEF Waits, Locked, Fresh
<1>6. Writes(d, w)' /\ ~Waits(d, w)' /\ Locked(d)' /\ (Fresh(d)' <=> Fresh(d))
      /\ main'[d] \notin {"open", "hello"}
    BY <1>1, <1>3, <1>4, <1>5 DEF Writes, Waits, Locked, Fresh, FrameInv, TypeOK, Writers
<1>7. \A v \in Writers \ {w} : ~Writes(d, v)' /\ (Waits(d, v)' => Waits(d, v))
    BY <1>1, <1>4 DEF Writes, Waits, FrameInv, TypeOK, Writers
<1>8. ASSUME ~closed PROVE Aligned(d)' /\ Greeting(d)'
    <2>1. Aligned(d) /\ Greeting(d)
        BY <1>8 DEF FrameInv
    <2>2. /\ todo[d][w] # <<>> /\ Whole(todo[d][w]) /\ Whole(Incoming(Other(d)))
          /\ todo[d][w] \in Seq(Part) /\ Incoming(Other(d)) \in Seq(Part)
        BY <1>1, <1>3, <1>4, <2>1, IncomingType DEF Aligned, FrameInv, TypeOK
    <2>3. Whole(Incoming(Other(d)) \o todo[d][w])
        BY <2>2, WholeConcat
    <2>4. Aligned(d)'
        BY <1>1, <1>6, <1>7, <2>1, <2>2, <2>3, NothingComes DEF Aligned
    <2>5. Fresh(Other(d))' <=> Fresh(Other(d))
        BY <1>1, <1>3 DEF Fresh, FrameInv, TypeOK
    <2> QED
        BY <1>1, <1>3, <1>5, <1>6, <2>1, <2>4, <2>5, NothingComes DEF Greeting
<1>9. \A s \in Sides \ {d} : UNCHANGED <<main[s], tick[s], todo[s], lock[s]>>
    BY <1>1 DEF FrameInv, TypeOK
<1> QED
    BY <1>1, <1>2, <1>6, <1>8, <1>9, OwnBusiness

LEMMA RoundFrames ==
    ASSUME NEW n \in Nat, n > 0
    PROVE  LET q == [i \in 1 .. 2 * n |-> Frame("round")[IF i % 2 = 1 THEN 1 ELSE 2]]
           IN  q \in Seq(Part) /\ q # <<>> /\ Whole(q)
<1> DEFINE e(i) == Frame("round")[IF i % 2 = 1 THEN 1 ELSE 2]
           q == [i \in 1 .. 2 * n |-> e(i)]
<1>1. \A i \in 1 .. 2 * n :
         /\ e(i) \in Part /\ e(i).kind = "round"
         /\ e(i).part = IF i % 2 = 1 THEN "id" ELSE "payload"
    BY DEF Frame, Part, Kinds
<1> HIDE DEF e
<1>2. 2 * n \in Nat /\ (2 * n) % 2 = 0 /\ 2 * n # 0
    OBVIOUS
<1>3. q \in Seq(Part)
    BY <1>1, <1>2, IsASeq
<1>4. Len(q) = 2 * n
    BY <1>2, <1>3
<1>5. \A i \in 1 .. 2 * n : q[i] = e(i)
    OBVIOUS
<1> HIDE DEF q
<1>6. \A i \in 1 .. 2 * n : i % 2 = 0 => i - 1 \in 1 .. 2 * n
    BY <1>2
<1>7. Whole(q)
    BY <1>1, <1>2, <1>4, <1>5, <1>6 DEF Whole, Framed
<1>8. q # <<>>
    BY <1>2, <1>4, EmptySeq
<1> QED
    BY <1>3, <1>7, <1>8 DEF q, e

LEMMA RoundKeeps ==
    ASSUME FrameInv, NEW d \in Sides, NEW n \in 1 .. MaxRound, Round(d, n)
    PROVE  FrameInv'
<1> DEFINE q == [i \in 1 .. 2 * n |-> Frame("round")[IF i % 2 = 1 THEN 1 ELSE 2]]
<1>1. q \in Seq(Part) /\ q # <<>> /\ Whole(q)
    <2>1. n \in Nat /\ n > 0
        BY SessionAssumption
    <2> QED
        BY <2>1, RoundFrames
<1>2. /\ tick[d] = "sleep" /\ tick' = [tick EXCEPT ![d] = "wait"]
      /\ todo' = [todo EXCEPT ![d]["ticker"] = q]
      /\ UNCHANGED <<closed, opened, main, lock, stream, got>>
    BY DEF Round
<1> HIDE DEF q
<1>3. TypeOK'
    BY <1>1, <1>2 DEF FrameInv, TypeOK, Writers
<1>4. Locked(d) /\ (~closed => Aligned(d) /\ Greeting(d))
    BY DEF FrameInv
<1>5. Locked(d)' /\ (Fresh(d)' <=> Fresh(d)) /\ (Fresh(Other(d))' <=> Fresh(Other(d)))
    BY <1>2, <1>4 DEF Locked, Fresh, FrameInv, TypeOK
<1>6. /\ ~Writes(d, "ticker")' /\ ~Writes(d, "ticker")
      /\ Writes(d, "run")' <=> Writes(d, "run")
      /\ Waits(d, "run")' <=> Waits(d, "run")
      /\ todo'[d]["ticker"] = q /\ todo'[d]["run"] = todo[d]["run"]
    BY <1>2 DEF Writes, Waits, FrameInv, TypeOK, Writers
<1>7. ~closed => Aligned(d)'
    BY <1>1, <1>2, <1>4, <1>6, NothingComes DEF Aligned, Writers
<1>8. ~closed => Greeting(d)'
    BY <1>2, <1>4, <1>5, <1>6, NothingComes DEF Greeting
<1>9. \A s \in Sides \ {d} : UNCHANGED <<main[s], tick[s], todo[s], lock[s]>>
    BY <1>2 DEF FrameInv, TypeOK
<1> QED
    BY <1>2, <1>3, <1>5, <1>7, <1>8, <1>9, OwnBusiness

\* A part that is written is the last of what is on the way.
LEMMA Arrives ==
    ASSUME TypeOK, NEW e \in Sides, NEW h \in Part, stream' = [stream EXCEPT ![e] = Append(@, h)],
           UNCHANGED got
    PROVE  Incoming(e)' = Append(Incoming(e), h)
<1>1. stream'[e] = Append(stream[e], h) /\ stream[e] \in Seq(Part) /\ <<h>> \in Seq(Part)
    BY DEF TypeOK
<1>2. CASE got[e] = None
    BY <1>1, <1>2, ConcatEmptySeq, AppendProperties DEF Incoming
<1>3. CASE got[e] # None
    <2>1. <<got[e]>> \in Seq(Part)
        BY <1>3 DEF TypeOK
    <2>2. Append(stream[e], h) = stream[e] \o <<h>>
        BY <1>1, AppendIsConcat
    <2>3. <<got[e]>> \o (stream[e] \o <<h>>) = (<<got[e]>> \o stream[e]) \o <<h>>
        <3> DEFINE a == <<got[e]>>
                   b == stream[e]
                   c == <<h>>
        <3>1. a \in Seq(Part) /\ b \in Seq(Part) /\ c \in Seq(Part)
            BY <1>1, <2>1
        <3> HIDE DEF a, b, c
        <3>2. a \o (b \o c) = (a \o b) \o c
            BY <3>1, ConcatAssociative
        <3> QED
            BY <3>2 DEF a, b, c
    <2>4. (<<got[e]>> \o stream[e]) \o <<h>> = Append(<<got[e]>> \o stream[e], h)
        BY <1>1, <2>1, AppendIsConcat, ConcatProperties
    <2> QED
        BY <1>1, <1>3, <2>2, <2>3, <2>4 DEF Incoming
<1> QED
    BY <1>2, <1>3

LEMMA GreetsOn ==
    ASSUME NEW q \in Seq(Part), NEW r \in Seq(Part), q # <<>>
    PROVE  Greets(q \o r) <=> Greets(q)
<1>1. Len(q) # 0 /\ Len(q) \in Nat
    BY EmptySeq, LenProperties
<1>2. (q \o r)[1] = q[1] /\ q \o r # <<>>
    BY <1>1, ConcatAt, EmptySeq
<1> QED
    BY <1>2 DEF Greets

LEMMA WritePartKeeps ==
    ASSUME FrameInv, NEW d \in Sides, NEW w \in Writers, WritePart(d, w) PROVE FrameInv'
<1> DEFINE e == Other(d)
           q == Incoming(e)
           r == todo[d][w]
<1>1. /\ Writes(d, w) /\ ~closed /\ Len(stream[e]) < Window
      /\ stream' = [stream EXCEPT ![e] = Append(@, Head(r))]
      /\ todo' = [todo EXCEPT ![d][w] = Tail(@)]
      /\ opened' = (opened \/ d = Dialer)
      /\ IF Len(r) = 1 THEN Written(d, w) ELSE UNCHANGED <<main, tick, lock>>
      /\ UNCHANGED <<closed, got>>
    BY DEF WritePart, Room
<1>2. e \in Sides /\ e # d /\ Other(e) = d /\ \A s \in Sides : s \in {d, e}
    BY SidesOther
<1>3. Locked(d) /\ Locked(e) /\ Sound(d) /\ Aligned(d) /\ Greeting(d) /\ Aligned(e) /\ Greeting(e)
    BY <1>1, <1>2 DEF FrameInv
<1>4. /\ q \in Seq(Part) /\ r \in Seq(Part) /\ r # <<>> /\ Whole(q \o r)
    BY <1>1, <1>2, <1>3, IncomingType DEF Aligned, FrameInv, TypeOK
<1> HIDE DEF e, q, r
<1> DEFINE h == Head(r)
           t == Tail(r)
<1>5. /\ h \in Part /\ t \in Seq(Part) /\ Append(q, h) \in Seq(Part)
      /\ Append(q, h) \o t = q \o r /\ (Len(r) = 1 <=> t = <<>>) /\ Append(q, h) # <<>>
    BY <1>4, Moved, AppendProperties
<1>6. Incoming(e)' = Append(q, h) /\ Incoming(d)' = Incoming(d)
    <2>1. Incoming(e)' = Append(q, h)
        BY <1>1, <1>2, <1>5, Arrives DEF FrameInv, q
    <2>2. Incoming(d)' = Incoming(d)
        BY <1>1, <1>2 DEF Incoming, FrameInv, TypeOK
    <2> QED
        BY <2>1, <2>2
<1> HIDE DEF h, t
<1>7. main' \in [Sides -> {"open", "hello", "first", "read", "wait", "write", "ended"}]
      /\ tick' \in [Sides -> {"off", "sleep", "wait", "write", "dead"}]
      /\ lock' \in [Sides -> Writers \cup {None}]
    <2>1. CASE UNCHANGED <<main, tick, lock>>
        BY <2>1 DEF FrameInv, TypeOK
    <2>2. CASE Written(d, w)
        BY <2>2 DEF Written, FrameInv, TypeOK
    <2> QED
        BY <1>1, <2>1, <2>2
<1>8. stream' \in [Sides -> Seq(Part)] /\ \A s \in Sides : Len(stream'[s]) <= Window
    <2>1. Append(stream[e], h) \in Seq(Part) /\ Len(Append(stream[e], h)) <= Window
        BY <1>1, <1>2, <1>5, AppendProperties, LenProperties, SessionAssumption DEF FrameInv, TypeOK
    <2> QED
        BY <1>1, <2>1 DEF h, FrameInv, TypeOK
<1>9. todo' \in [Sides -> [Writers -> Seq(Part)]]
    BY <1>1, <1>5 DEF r, t, FrameInv, TypeOK
<1>10. TypeOK'
    BY <1>1, <1>7, <1>8, <1>9 DEF FrameInv, TypeOK
<1>11. /\ todo'[d][w] = t /\ \A v \in Writers \ {w} : todo'[d][v] = todo[d][v]
       /\ todo'[e] = todo[e] /\ main'[e] = main[e] /\ tick'[e] = tick[e] /\ lock'[e] = lock[e]
    BY <1>1, <1>2 DEF r, t, Written, FrameInv, TypeOK
<1>12. \A v \in Writers \ {w} : ~Writes(d, v)
    BY <1>1, <1>3, OneWriter
<1>13. main[d] # "open" /\ (Fresh(d)' <=> Fresh(d)) /\ Locked(d)'
       /\ (main[d] # "hello" => main'[d] # "hello") /\ main'[d] # "open"
    BY <1>1, <1>3 DEF Writes, Written, Locked, Fresh, FrameInv, TypeOK, Writers
<1>14. \A v \in Writers \ {w} : ~Writes(d, v)' /\ (Waits(d, v)' => Waits(d, v))
    BY <1>1, <1>12 DEF Writes, Waits, Written, FrameInv, TypeOK, Writers
<1>15. /\ ~Waits(d, w)' 
       /\ t # <<>> => Writes(d, w)' /\ UNCHANGED main
       /\ t = <<>> => ~Writes(d, w)' /\ (main[d] = "hello" => main'[d] = "first")
    <2>1. t # <<>> => UNCHANGED <<main, tick>>
        BY <1>1, <1>5
    <2>2. t = <<>> => Written(d, w)
        BY <1>1, <1>5
    <2>3. CASE w = "run"
        BY <1>1, <2>1, <2>2, <2>3 DEF Writes, Waits, Written, FrameInv, TypeOK
    <2>4. CASE w = "ticker"
        BY <1>1, <1>3, <2>1, <2>2, <2>4 DEF Writes, Waits, Written, Locked, Fresh, FrameInv, TypeOK
    <2> QED
        BY <2>3, <2>4 DEF Writers
<1>16. Aligned(d)'
    <2>1. t = <<>> => Append(q, h) = q \o r
        BY <1>5, ConcatEmptySeq
    <2>2. Other(d)' = e /\ Other(d) = e
        BY DEF e
    <2> QED
        BY <1>3, <1>4, <1>5, <1>6, <1>11, <1>14, <1>15, <2>1, <2>2 DEF Aligned, q
<1>17. Fresh(e) => Greets(Append(q, h))
    <2>1. CASE main[d] = "hello"
        <3>1. w = "run"
            BY <1>1, <1>3, <2>1 DEF Locked, Fresh, Writes, Writers
        <3>2. Fresh(e) => Greets(q \o r)
            BY <1>3, <2>1, <3>1 DEF Greeting, e, q, r
        <3> QED
            BY <1>5, <3>2, GreetsOn
    <2>2. CASE main[d] # "hello"
        <3>1. Fresh(e) => Greets(q)
            BY <1>3, <1>13, <2>2 DEF Greeting, e, q
        <3>2. Greets(q) => Greets(Append(q, h))
            BY <1>4, <1>5, AppendIsConcat, GreetsOn DEF Greets
        <3> QED
            BY <3>1, <3>2
    <2> QED
        BY <2>1, <2>2
<1>18. Fresh(e)' <=> Fresh(e)
    BY <1>11 DEF Fresh
<1>19. Greeting(d)'
    <2>1. CASE main'[d] = "hello"
        <3>1. w = "run" /\ main[d] = "hello"
            BY <1>1, <1>3, <1>13, <2>1 DEF Locked, Fresh, Writes, Writers
        <3>2. Fresh(e) => Greets(q \o r)
            BY <1>3, <3>1 DEF Greeting, e, q, r
        <3> QED
            BY <1>5, <1>6, <1>11, <1>18, <2>1, <3>1, <3>2 DEF Greeting, e
    <2>2. CASE main'[d] # "hello"
        BY <1>6, <1>13, <1>17, <1>18, <2>2 DEF Greeting, e
    <2> QED
        BY <2>1, <2>2
<1>20. Aligned(e)' /\ Greeting(e)' /\ Locked(e)'
    <2>1. \A v \in Writers : (Waits(e, v)' <=> Waits(e, v)) /\ (Writes(e, v)' <=> Writes(e, v))
        BY <1>11 DEF Waits, Writes
    <2> QED
        BY <1>2, <1>3, <1>6, <1>11, <1>13, <1>18, <2>1 DEF Aligned, Greeting, Locked
<1>21. Sound(d)' /\ Sound(e)'
    <2>1. Framed(Append(q, h))
        BY <1>4, <1>5, FramedStart DEF Whole
    <2> QED
        BY <1>3, <1>6, <1>13, <1>17, <1>18, <2>1 DEF Sound
<1> QED
    BY <1>2, <1>10, <1>13, <1>16, <1>19, <1>20, <1>21 DEF FrameInv

\* A frame is given up before its first part or with the connection.
LEMMA TickerFailsKeeps ==
    ASSUME FrameInv, NEW d \in Sides, TickerFails(d) PROVE FrameInv'
<1> DEFINE q == Incoming(Other(d))
           r == todo[d]["ticker"]
<1>1. /\ tick[d] = "write" /\ (closed \/ Head(r).part = "id")
      /\ tick' = [tick EXCEPT ![d] = "dead"]
      /\ todo' = [todo EXCEPT ![d]["ticker"] = <<>>]
      /\ lock' = [lock EXCEPT ![d] = None]
      /\ UNCHANGED <<closed, opened, main, stream, got>>
    BY DEF TickerFails, TooLarge
<1>2. Locked(d) /\ Other(d) \in Sides /\ q \in Seq(Part) /\ r \in Seq(Part)
    BY SidesOther, IncomingType DEF FrameInv, TypeOK, Writers
<1>3. TypeOK'
    BY <1>1, EmptySeq DEF FrameInv, TypeOK, Writers
<1>4. ~Fresh(d) /\ main[d] # "write"
    BY <1>1, <1>2, SessionAssumption DEF Locked, Writers
<1>5. Locked(d)' /\ (Fresh(d)' <=> Fresh(d))
    BY <1>1, <1>4 DEF Locked, Fresh, FrameInv, TypeOK
<1>6. ASSUME ~closed PROVE Aligned(d)' /\ Greeting(d)'
    <2>1. Aligned(d) /\ Greeting(d)
        BY <1>6 DEF FrameInv
    <2>2. r # <<>> /\ Whole(q \o r) /\ r[1].part = "id"
        BY <1>1, <1>2, <1>6, <2>1 DEF Aligned, Writes, Writers
    <2> HIDE DEF q, r
    <2>3. Framed(q)
        BY <1>2, <2>2, FramedStart DEF Whole
    <2>4. Len(q) % 2 = 0
        <3>1. Len(q) \in Nat /\ Len(r) \in Nat /\ Len(r) # 0 /\ Len(q \o r) = Len(q) + Len(r)
            BY <1>2, <2>2, ConcatAt, EmptySeq
        <3>2. (q \o r)[Len(q) + 1] = r[1] /\ Len(q) + 1 \in 1 .. Len(q \o r)
            BY <1>2, <3>1, ConcatAt
        <3>3. (Len(q) + 1) % 2 = 1
            BY <2>2, <3>2 DEF Whole, Framed
        <3> QED
            BY <3>1, <3>3, Parity
    <2>5. \A v \in Writers : ~Writes(d, v)' /\ (Waits(d, v)' => v = "run" /\ Waits(d, v))
        BY <1>1, <1>4 DEF Writes, Waits, Writers, Fresh, FrameInv, TypeOK
    <2>6. todo'[d]["run"] = todo[d]["run"]
        BY <1>1 DEF FrameInv, TypeOK, Writers
    <2>7. Aligned(d)'
        BY <1>1, <2>1, <2>3, <2>4, <2>5, <2>6, NothingComes DEF Aligned, Whole, q
    <2>8. Greeting(d)'
        BY <1>1, <2>1, <2>6, NothingComes DEF Greeting, Fresh
    <2> QED
        BY <2>7, <2>8
<1>7. \A s \in Sides \ {d} : UNCHANGED <<main[s], tick[s], todo[s], lock[s]>>
    BY <1>1 DEF FrameInv, TypeOK
<1> HIDE DEF q, r
<1> QED
    BY <1>1, <1>3, <1>5, <1>6, <1>7, OwnBusiness

\* A read moves the front part to where the reader keeps it, or takes a frame off.
LEMMA FrontRead ==
    ASSUME TypeOK, NEW d \in Sides, ReadPart(d)
    PROVE  /\ got[d] = None => Incoming(d)' = Incoming(d)
           /\ got[d] # None =>
                \E a, b \in Part : Incoming(d) = <<a>> \o (<<b>> \o Incoming(d)')
           /\ Incoming(d)' \in Seq(Part)
           /\ stream' \in [Sides -> Seq(Part)] /\ got' \in [Sides -> Part \cup {None}]
           /\ \A s \in Sides : Len(stream'[s]) <= Window
<1> DEFINE q == stream[d]
<1>1. q \in Seq(Part) /\ q # <<>> /\ stream' = [stream EXCEPT ![d] = Tail(@)]
    BY DEF ReadPart, TypeOK
<1>2. /\ Head(q) \in Part /\ Tail(q) \in Seq(Part) /\ q = <<Head(q)>> \o Tail(q)
      /\ Len(Tail(q)) = Len(q) - 1 /\ Len(q) \in Nat
    <2> HIDE DEF q
    <2>1. /\ Head(q) \in Part /\ Tail(q) \in Seq(Part)
          /\ Append(<<>>, Head(q)) \o Tail(q) = <<>> \o q
        BY <1>1, Moved, EmptySeq
    <2>2. Append(<<>>, Head(q)) = <<Head(q)>>
        OBVIOUS
    <2>3. <<>> \o q = q
        BY <1>1, ConcatEmptySeq
    <2> QED
        BY <1>1, <2>1, <2>2, <2>3, HeadTailProperties, LenProperties
<1>3. stream'[d] = Tail(q) /\ \A s \in Sides \ {d} : stream'[s] = stream[s]
    BY <1>1 DEF TypeOK
<1>4. stream' \in [Sides -> Seq(Part)]
    BY <1>1, <1>2 DEF TypeOK
<1>5. \A s \in Sides : Len(stream'[s]) <= Window
    <2>1. Len(q) <= Window
        BY DEF TypeOK
    <2> HIDE DEF q
    <2>2. Len(Tail(q)) <= Window
        BY <1>2, <2>1, SessionAssumption
    <2> QED
        BY <1>3, <2>2 DEF TypeOK
<1>6. CASE got[d] = None
    <2>1. got' = [got EXCEPT ![d] = Head(q)]
        BY <1>6 DEF ReadPart
    <2>2. got'[d] = Head(q) /\ got'[d] # None /\ got' \in [Sides -> Part \cup {None}]
        BY <1>2, <2>1, SessionAssumption DEF TypeOK
    <2>3. Incoming(d)' = <<Head(q)>> \o Tail(q)
        BY <1>3, <2>2 DEF Incoming
    <2>4. Incoming(d) = <<>> \o q
        BY <1>6 DEF Incoming
    <2> HIDE DEF q
    <2>5. <<>> \o q = q
        BY <1>1, ConcatEmptySeq
    <2> QED
        BY <1>1, <1>2, <1>4, <1>5, <1>6, <2>2, <2>3, <2>4, <2>5
<1>7. CASE got[d] # None
    <2>1. got' = [got EXCEPT ![d] = None] /\ got[d] \in Part
        BY <1>7 DEF ReadPart, TypeOK
    <2>2. got'[d] = None /\ got' \in [Sides -> Part \cup {None}]
        BY <2>1 DEF TypeOK
    <2>3. Incoming(d)' = <<>> \o Tail(q)
        BY <1>3, <2>2 DEF Incoming
    <2>4. Incoming(d) = <<got[d]>> \o q
        BY <1>7 DEF Incoming
    <2> HIDE DEF q
    <2>5. <<>> \o Tail(q) = Tail(q)
        BY <1>2, ConcatEmptySeq
    <2>6. Incoming(d) = <<got[d]>> \o (<<Head(q)>> \o Incoming(d)')
        BY <1>2, <2>3, <2>4, <2>5
    <2> QED
        BY <1>2, <1>4, <1>5, <1>7, <2>1, <2>2, <2>3, <2>5, <2>6
<1> QED
    BY <1>6, <1>7

LEMMA ReadPartKeeps ==
    ASSUME FrameInv, NEW d \in Sides, ReadPart(d) PROVE FrameInv'
<1> DEFINE e == Other(d)
           q == Incoming(d)
<1>1. /\ main[d] \in {"first", "read"} /\ ~closed
      /\ UNCHANGED <<closed, opened, lock>>
      /\ \/ got[d] = None /\ UNCHANGED <<main, tick, todo>>
         \/ got[d] # None /\ Handle(d, got[d].kind)
    BY DEF ReadPart
<1>2. e \in Sides /\ e # d /\ Other(e) = d /\ \A s \in Sides : s \in {d, e}
    BY SidesOther
<1>3. /\ Locked(d) /\ Locked(e) /\ Sound(d) /\ Sound(e)
      /\ Aligned(d) /\ Greeting(d) /\ Aligned(e) /\ Greeting(e)
    BY <1>1, <1>2 DEF FrameInv
<1>4. /\ got[d] = None => q' = q
      /\ got[d] # None => \E a, b \in Part : q = <<a>> \o (<<b>> \o q')
      /\ q \in Seq(Part) /\ q' \in Seq(Part)
      /\ stream' \in [Sides -> Seq(Part)] /\ got' \in [Sides -> Part \cup {None}]
      /\ \A s \in Sides : Len(stream'[s]) <= Window
    BY FrontRead, IncomingType DEF FrameInv
<1>5. Incoming(e)' = Incoming(e)
    BY <1>2 DEF ReadPart, Incoming, FrameInv, TypeOK
<1>6. got[d] # None => ~Fresh(d)'
    BY <1>1 DEF Handle, Answer, Fresh, FrameInv, TypeOK
<1>7. /\ main'[e] = main[e] /\ tick'[e] = tick[e] /\ todo'[e] = todo[e] /\ lock'[e] = lock[e]
      /\ main'[d] \in {"first", "read", "wait"}
      /\ tick'[d] # "write" \/ tick'[d] = tick[d]
      /\ Fresh(d)' => Fresh(d) /\ tick'[d] = tick[d]
      /\ todo'[d]["ticker"] = todo[d]["ticker"]
      /\ main'[d] = "wait" => todo'[d]["run"] = Frame("reply")
      /\ lock'[d] = lock[d]
    BY <1>1, <1>2 DEF Handle, Answer, Fresh, FrameInv, TypeOK, Writers
<1> HIDE DEF e, q
<1>8. TypeOK'
    <2>1. main' \in [Sides -> {"open", "hello", "first", "read", "wait", "write", "ended"}]
          /\ tick' \in [Sides -> {"off", "sleep", "wait", "write", "dead"}]
        BY <1>1 DEF Handle, Answer, FrameInv, TypeOK
    <2>2. todo' \in [Sides -> [Writers -> Seq(Part)]]
        <3> DEFINE r == Frame("reply")
        <3>1. r \in Seq(Part)
            BY PreludeWhole
        <3>2. todo' = todo \/ todo' = [todo EXCEPT ![d]["run"] = r]
            BY <1>1 DEF Handle, Answer
        <3> HIDE DEF r
        <3>3. todo \in [Sides -> [Writers -> Seq(Part)]] /\ "run" \in Writers
            BY DEF FrameInv, TypeOK, Writers
        <3>4. [todo[d] EXCEPT !["run"] = r] \in [Writers -> Seq(Part)]
            BY <3>1, <3>3
        <3> QED
            BY <3>2, <3>3, <3>4
    <2> QED
        BY <1>1, <1>4, <2>1, <2>2 DEF FrameInv, TypeOK
<1>9. Locked(d)' /\ Locked(e)'
    BY <1>3, <1>7 DEF Locked, Fresh
<1>10. Sound(d)' /\ Sound(e)'
    <2>1. Framed(q')
        BY <1>3, <1>4, FrameRead DEF Sound, q
    <2>2. Fresh(d)' /\ q' # <<>> => Greets(q')
        BY <1>3, <1>4, <1>6, <1>7 DEF Sound, q
    <2>3. Sound(e)'
        BY <1>3, <1>5, <1>7 DEF Sound, Fresh
    <2> QED
        BY <2>1, <2>2, <2>3 DEF Sound, q
<1>11. Aligned(d)' /\ Greeting(d)'
    <2>1. /\ Writes(d, "ticker")' <=> Writes(d, "ticker")
          /\ Waits(d, "ticker")' => Waits(d, "ticker")
          /\ ~Writes(d, "run")' /\ ~Writes(d, "run")
          /\ Waits(d, "run")' => todo'[d]["run"] = Frame("reply")
        <3>1. tick'[d] = "wait" => tick[d] = "wait"
            BY <1>1 DEF Handle, FrameInv, TypeOK
        <3>2. tick[d] = "write" => tick'[d] = "write"
            BY <1>1, <1>3 DEF Handle, FrameInv, TypeOK, Locked, Fresh
        <3> QED
            BY <1>1, <1>7, <3>1, <3>2 DEF Writes, Waits
    <2>2. Aligned(d)'
        BY <1>3, <1>5, <1>7, <2>1, PreludeWhole DEF Aligned, Writers, e
    <2>3. Fresh(e)' <=> Fresh(e)
        BY <1>7 DEF Fresh
    <2> QED
        BY <1>1, <1>3, <1>5, <1>7, <2>2, <2>3 DEF Greeting, e
<1>12. Aligned(e)' /\ Greeting(e)'
    <2>1. \A v \in Writers : (Waits(e, v)' <=> Waits(e, v)) /\ (Writes(e, v)' <=> Writes(e, v))
        BY <1>7 DEF Waits, Writes
    <2>2. CASE got[d] = None
        BY <1>2, <1>3, <1>4, <1>7, <2>1, <2>2 DEF Aligned, Greeting, q
    <2>3. CASE got[d] # None
        <3>1. PICK a, b \in Part : q = <<a>> \o (<<b>> \o q')
            BY <1>4, <2>3
        <3>2. ASSUME NEW r \in Seq(Part), Whole(q \o r) PROVE Whole(q' \o r)
            BY <1>4, <3>1, <3>2, FrameReadOf
        <3>3. Whole(q) => Whole(q')
            BY <1>4, <3>2, ConcatEmptySeq, EmptySeq
        <3>4. \A v \in Writers : todo[e][v] \in Seq(Part)
            BY <1>2 DEF FrameInv, TypeOK
        <3>5. Aligned(e)'
            BY <1>2, <1>3, <1>7, <2>1, <3>2, <3>3, <3>4 DEF Aligned, q
        <3>6. q # <<>>
            BY <1>4, <3>1, FrameNotEmpty
        <3>7. main[e] # "open"
            BY <1>2, <1>3, <3>6 DEF Greeting, q
        <3> QED
            BY <1>2, <1>6, <1>7, <2>3, <3>5, <3>7 DEF Greeting
    <2> QED
        BY <2>2, <2>3
<1> QED
    BY <1>2, <1>8, <1>9, <1>10, <1>11, <1>12 DEF FrameInv

\* A session that ends takes its connection along, so nothing more is written.
LEMMA EndKeeps ==
    ASSUME FrameInv, NEW d \in Sides, End(d) PROVE FrameInv'
<1>1. /\ main' = [main EXCEPT ![d] = "ended"] /\ tick' = [tick EXCEPT ![d] = "off"]
      /\ lock' = [lock EXCEPT ![d] = None] /\ got' = [got EXCEPT ![d] = None]
      /\ stream' = [stream EXCEPT ![d] = <<>>]
      /\ todo' = [todo EXCEPT ![d] = [w \in Writers |-> <<>>]]
      /\ closed' = TRUE /\ UNCHANGED opened
    BY DEF End
<1>2. TypeOK'
    <2>1. <<>> \in Seq(Part) /\ Len(<<>>) = 0
        BY EmptySeq
    <2> QED
        BY <1>1, <2>1, SessionAssumption DEF FrameInv, TypeOK
<1>3. ASSUME NEW s \in Sides PROVE Locked(s)' /\ Sound(s)'
    <2>1. Locked(s) /\ Sound(s)
        BY DEF FrameInv
    <2>2. CASE s = d
        <3>1. main'[s] = "ended" /\ tick'[s] = "off" /\ got'[s] = None /\ stream'[s] = <<>>
            BY <1>1, <2>2 DEF FrameInv, TypeOK
        <3>2. Incoming(s)' = <<>>
            BY <3>1, ConcatEmptySeq, EmptySeq DEF Incoming
        <3>3. Framed(<<>>)
            BY EmptySeq DEF Framed
        <3> QED
            BY <3>1, <3>2, <3>3 DEF Locked, Sound, Fresh
    <2>3. CASE s # d
        <3>1. UNCHANGED <<main[s], tick[s], lock[s], got[s], stream[s]>>
            BY <1>1, <2>3 DEF FrameInv, TypeOK
        <3> QED
            BY <2>1, <3>1 DEF Locked, Sound, Fresh, Incoming
    <2> QED
        BY <2>2, <2>3
<1> QED
    BY <1>1, <1>2, <1>3 DEF FrameInv

LEMMA CloseKeeps ==
    ASSUME FrameInv, Close PROVE FrameInv'
BY DEF Close, FrameInv, TypeOK, Locked, Sound, Fresh, Incoming

-----------------------------------------------------------------------------
LEMMA FrameInvInit == Init => FrameInv
<1> SUFFICES ASSUME Init PROVE FrameInv
    OBVIOUS
<1>1. <<>> \in Seq(Part) /\ Len(<<>>) = 0 /\ Whole(<<>>)
    BY EmptySeq DEF Whole, Framed
<1>2. TypeOK
    <2>1. \A d \in Sides : stream[d] = <<>>
        BY DEF Init
    <2>2. \A d \in Sides : Len(stream[d]) <= Window
        BY <1>1, <2>1, SessionAssumption
    <2> QED
        BY <1>1, <2>2 DEF Init, TypeOK
<1>3. ASSUME NEW s \in Sides PROVE Incoming(s) = <<>>
    BY <1>1, ConcatEmptySeq DEF Init, Incoming
<1>4. ASSUME NEW s \in Sides PROVE Locked(s) /\ Sound(s) /\ Aligned(s) /\ Greeting(s)
    <2>1. Other(s) \in Sides
        BY SidesOther
    <2>2. main[s] = "open" /\ tick[s] = "off"
        BY DEF Init
    <2> QED
        BY <1>1, <1>3, <2>1, <2>2
           DEF Locked, Sound, Aligned, Greeting, Waits, Writes, Fresh, Whole
<1> QED
    BY <1>2, <1>4 DEF FrameInv

LEMMA FrameInvStep == FrameInv /\ [Next]_vars => FrameInv'
<1> SUFFICES ASSUME FrameInv, [Next]_vars PROVE FrameInv'
    OBVIOUS
<1>1. CASE UNCHANGED vars
    BY <1>1 DEF vars, FrameInv, TypeOK, Locked, Sound, Aligned, Greeting, Waits, Writes, Fresh,
                Incoming
<1> QED
    BY <1>1, OpenKeeps, TakeLockKeeps, WritePartKeeps, RoundKeeps, TickerFailsKeeps,
       ReadPartKeeps, EndKeeps, CloseKeeps DEF Next

(* Every queue, stream and half-read frame of a session stays what its type  *)
(* says, and no stream takes more than its window.                           *)
THEOREM SessionTypes == Spec => []TypeOK
<1>1. FrameInv => TypeOK
    BY DEF FrameInv
<1> QED
    BY <1>1, FrameInvInit, FrameInvStep, PTL DEF Spec

(* Ticker and reader never mix their frames on the stream they share, and    *)
(* the ticket comes before anything else: the send lock is held for whole    *)
(* frames, a write that fails either begins a frame or finds the connection  *)
(* gone, and no ticker runs before the prelude is over (session.rs).         *)
THEOREM FramesStayIntact == Spec => []FramesIntact
<1>1. FrameInv => FramesIntact
    <2> SUFFICES ASSUME FrameInv, NEW d \in Sides, NEW i \in DOMAIN Incoming(d)
                 PROVE  LET p == Incoming(d)[i]
                        IN  /\ p.part = IF i % 2 = 1 THEN "id" ELSE "payload"
                            /\ i % 2 = 0 => p.kind = Incoming(d)[i - 1].kind
                            /\ main[d] \in {"open", "hello", "first"} /\ i = 1 => p.kind = "pair"
        BY DEF FramesIntact
    <2>1. Incoming(d) \in Seq(Part) /\ Sound(d)
        BY IncomingType DEF FrameInv
    <2>2. i \in 1 .. Len(Incoming(d)) /\ Incoming(d) # <<>>
        BY <2>1, LenProperties, EmptySeq
    <2> QED
        BY <2>1, <2>2 DEF Sound, Framed, Fresh, Greets
<1> QED
    BY <1>1, FrameInvInit, FrameInvStep, PTL DEF Spec
==============================================================================
