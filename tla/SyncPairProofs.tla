---------------------------- MODULE SyncPairProofs ----------------------------
(***************************************************************************)
(* The documents, sync states and cached parses of two engines, for any     *)
(* notes, any number of edits and wherever connections are cut: their types  *)
(* and the parses that are used unseen; each device as a DocRegistry; and    *)
(* what the engines know of each other while they talk, which makes a quiet  *)
(* pair agree.                                                               *)
(***************************************************************************)
EXTENDS SyncPair, FiniteSetTheorems, WellFoundedInduction, TLAPS

\* What a history can be made of by now.
Known(x) == IF x = Tomb THEN Notes ELSE 0 .. next

StateOf(K) ==
    [shared: SUBSET K, heard: BOOLEAN, heads: SUBSET K, last: SUBSET K,
     knows: SUBSET K, sent: SUBSET K, lastSent: SUBSET K,
     inFlight: BOOLEAN, responded: BOOLEAN]
MessageOf(x, K) ==
    [doc: {x}, heads: SUBSET K, last: SUBSET K, knows: SUBSET K, changes: SUBSET K]

Stores ==
    /\ next \in Changes
    /\ row \in [Devs -> [Notes -> SUBSET (0 .. next)]]
    /\ purged \in [Devs -> SUBSET Notes]
    /\ parked \in [Devs -> SUBSET Notes]

\* Sync states and messages say nothing of a change nobody has made.
States ==
    /\ states \in [Devs -> [Docs -> State]]
    /\ \A d \in Devs, x \in Docs : states[d][x] \in StateOf(Known(x))
Messages ==
    /\ chan \in [Devs -> Seq(Message)]
    /\ \A d \in Devs : \A i \in 1 .. Len(chan[d]) :
          LET m == chan[d][i] IN m \in MessageOf(m.doc, Known(m.doc)) /\ m.doc \in Minted \cup {Tomb}

\* A stored note was created, is neither purged nor pending; what is pending
\* exists, or was purged, somewhere.
Rows ==
    \A d \in Devs :
        /\ parked[d] \subseteq Minted
        /\ \A n \in Notes : row[d][n] # {} => 0 \in row[d][n] /\ n \notin purged[d] \cup parked[d]

\* A stamp is of a row that was there, and no newer than the newest change.
Parses ==
    /\ loaded \in [Devs -> [Notes -> (SUBSET (0 .. next)) \cup {None}]]
    /\ stamps \in [Devs -> [Notes -> (0 .. next) \cup {None}]]
    /\ \A d \in Devs, n \in Notes :
          /\ stamps[d][n] # None /\ row[d][n] = {} => n \in purged[d]
          /\ CacheHit(d, n) => loaded[d][n] = row[d][n]

Links ==
    /\ link \in BOOLEAN /\ cuts \in 0 .. MaxCuts
    /\ side \in [Devs -> {"on", "ending", "off"}]

\* What a tombstone document lists, or will once a purge is through, was
\* purged; unless a document lost an id, what was purged is listed.
Tombs ==
    /\ listed \in [Devs -> SUBSET Notes] /\ purging \in [Devs -> SUBSET Purges]
    /\ dropped \in SUBSET Notes
    /\ \A d \in Devs :
          /\ listed[d] \subseteq purged[d]
          /\ \A p \in purging[d] : p.doc \subseteq purged[d] \cup {p.note} /\ p.note \in p.doc
    /\ dropped = {} => \A d \in Devs : purged[d] \subseteq listed[d]

PairInv == Stores /\ States /\ Messages /\ Rows /\ Parses /\ Links /\ Tombs

-----------------------------------------------------------------------------
(* Numbers: a set of them that is bounded has a largest.                    *)

LEMMA LessIsWellFounded ==
    \E R : IsWellFoundedOn(R, Nat) /\ \A x, y \in Nat : x < y => <<x, y>> \in R
<1> DEFINE R == OpToRel(<, Nat)
<1>1. IsWellFoundedOn(R, Nat)
    BY NatLessThanWellFounded
<1>2. \A x, y \in Nat : x < y => <<x, y>> \in R
    BY DEF OpToRel
<1> HIDE DEF R
<1> WITNESS R
<1> QED
    BY <1>1, <1>2, Zenon

LEMMA LeastNat ==
    ASSUME NEW T \in SUBSET Nat, T # {}
    PROVE  \E x \in T : \A y \in T : x <= y
<1>1. PICK R : IsWellFoundedOn(R, Nat) /\ \A x, y \in Nat : x < y => <<x, y>> \in R
    BY LessIsWellFounded, Zenon
<1>2. IsWellFoundedOn(R, Nat)
    BY <1>1, Zenon
<1>3. \A x, y \in Nat : x < y => <<x, y>> \in R
    BY <1>1, Zenon
<1>4. PICK x \in T : \A y \in T : ~(<<y, x>> \in R)
    BY <1>2, WFMin, Zenon
<1>5. ASSUME NEW y \in T PROVE x <= y
    <2>1. x \in Nat /\ y \in Nat
        OBVIOUS
    <2>2. ~(y < x)
        BY <1>3, <1>4, <2>1, Zenon
    <2> QED
        BY <2>1, <2>2
<1> QED
    BY <1>5

LEMMA MaxIs ==
    ASSUME NEW k \in Nat, NEW S \in SUBSET (0 .. k), S # {}
    PROVE  Max(S) \in S /\ \A y \in S : y <= Max(S)
<1> DEFINE T == {k - x : x \in S}
<1>1. T \in SUBSET Nat /\ T # {}
    OBVIOUS
<1>2. PICK t \in T : \A u \in T : t <= u
    BY <1>1, LeastNat
<1>3. PICK x \in S : t = k - x
    OBVIOUS
<1>4. \A y \in S : x >= y
    <2> SUFFICES ASSUME NEW y \in S PROVE x >= y
        OBVIOUS
    <2>1. t <= k - y
        BY <1>2
    <2> QED
        BY <1>3, <2>1
<1>5. \A y \in S : Max(S) >= y /\ Max(S) \in S
    BY <1>4 DEF Max
<1> QED
    BY <1>5

\* A change made now is the newest of its note.
LEMMA NewestIs ==
    ASSUME NEW k \in Nat, NEW S \in SUBSET (0 .. k)
    PROVE  Max(S \cup {k + 1}) = k + 1
<1>1. S \cup {k + 1} \in SUBSET (0 .. k + 1) /\ S \cup {k + 1} # {} /\ k + 1 \in Nat
    OBVIOUS
<1> DEFINE T == S \cup {k + 1}
           j == k + 1
<1>2. T \in SUBSET (0 .. j) /\ T # {} /\ j \in Nat /\ j \in T
    BY <1>1
<1> HIDE DEF T, j
<1>3. Max(T) \in T /\ \A y \in T : y <= Max(T)
    BY <1>2, MaxIs
<1>4. Max(T) \in 0 .. j /\ j <= Max(T)
    BY <1>2, <1>3
<1>5. Max(T) = j
    BY <1>2, <1>4
<1> QED
    BY <1>5 DEF T, j

-----------------------------------------------------------------------------
(* What the protocol step says is made of what it was told.                 *)

LEMMA FitsAll ==
    ASSUME NEW K, SUBSET K \subseteq Contents
    PROVE  /\ StateOf(K) \subseteq State
           /\ \A x \in Docs : MessageOf(x, K) \subseteq Message
<1> DEFINE H == SUBSET K
<1>1. StateOf(K) = [shared: H, heard: BOOLEAN, heads: H, last: H, knows: H, sent: H,
                    lastSent: H, inFlight: BOOLEAN, responded: BOOLEAN]
    BY DEF StateOf
<1>2. \A x : MessageOf(x, K) = [doc: {x}, heads: H, last: H, knows: H, changes: H]
    BY DEF MessageOf
<1>0. H \subseteq Contents
    OBVIOUS
<1> HIDE DEF H
<1>3. StateOf(K) \subseteq State
    BY <1>0, <1>1 DEF State
<1>4. ASSUME NEW x \in Docs PROVE MessageOf(x, K) \subseteq Message
    <2>1. MessageOf(x, K) = [doc: {x}, heads: H, last: H, knows: H, changes: H]
        BY <1>2
    <2> QED
        BY <1>0, <2>1 DEF Message
<1> QED
    BY <1>3, <1>4

LEMMA KnownIs ==
    ASSUME next \in Changes, NEW x \in Docs
    PROVE  StateOf(Known(x)) \subseteq State /\ MessageOf(x, Known(x)) \subseteq Message
<1> DEFINE K == Known(x)
<1>1. 0 .. next \subseteq Changes
    BY PairAssumption DEF Changes
<1>2. SUBSET K \subseteq Contents
    <2>1. CASE x = Tomb
        BY <2>1 DEF Known, Contents
    <2>2. CASE x # Tomb
        BY <1>1, <2>2 DEF Known, Contents
    <2> QED
        BY <2>1, <2>2
<1> HIDE DEF K
<1>3. StateOf(K) \subseteq State /\ MessageOf(x, K) \subseteq Message
    BY <1>2, FitsAll
<1> QED
    BY <1>3 DEF K

LEMMA FreshFits == ASSUME NEW K PROVE Fresh \in StateOf(K)
BY DEF Fresh, StateOf

LEMMA ResumedFits ==
    ASSUME NEW K, NEW s \in StateOf(K) PROVE Resumed(s) \in StateOf(K)
BY DEF Resumed, Fresh, StateOf

LEMMA GenerateFits ==
    ASSUME NEW K, NEW s \in StateOf(K), NEW x, NEW mine \in SUBSET K
    PROVE  /\ Generate(s, x, mine).state \in StateOf(K)
           /\ Generate(s, x, mine).msg = None \/ Generate(s, x, mine).msg \in MessageOf(x, K)
<1> DEFINE missing == IF s.heard THEN (mine \ s.knows) \ s.sent ELSE {}
           ask == [doc |-> x, heads |-> mine, last |-> {}, knows |-> {}, changes |-> {}]
           say == [doc |-> x, heads |-> mine, last |-> s.shared, knows |-> mine,
                   changes |-> missing]
           after == [s EXCEPT !.responded = TRUE, !.lastSent = mine, !.inFlight = TRUE,
                              !.sent = @ \cup missing]
<1>1. missing \in SUBSET K /\ s.shared \in SUBSET K
    BY DEF StateOf
<1>2. ask \in MessageOf(x, K)
    BY DEF MessageOf
<1>3. say \in MessageOf(x, K)
    BY <1>1 DEF MessageOf
<1>4. after \in StateOf(K)
    BY <1>1 DEF StateOf
<1>5. Generate(s, x, mine) \in {[msg |-> ask, state |-> s], [msg |-> None, state |-> s],
                                [msg |-> say, state |-> after]}
    BY DEF Generate
<1> HIDE DEF ask, say, after, missing
<1> QED
    BY <1>2, <1>3, <1>4, <1>5

LEMMA ReceiveFits ==
    ASSUME NEW K, NEW s \in StateOf(K), NEW x, NEW mine \in SUBSET K, NEW m \in MessageOf(x, K)
    PROVE  Receive(s, mine, m) \in StateOf(K)
<1>1. /\ m.heads \in SUBSET K /\ m.last \in SUBSET K /\ m.knows \in SUBSET K
      /\ m.changes \in SUBSET K
    BY DEF MessageOf
<1>2. s.shared \in SUBSET K /\ s.sent \in SUBSET K /\ s.lastSent \in SUBSET K
    BY DEF StateOf
<1> DEFINE shared == IF m.heads \subseteq mine \cup m.changes THEN m.heads
                     ELSE s.shared \cup (m.heads \cap (mine \cup m.changes))
           sent == IF m.heads = {} THEN {} ELSE s.sent \ m.heads
           lastSent == IF m.heads = {} THEN {}
                       ELSE IF m.changes = {} /\ m.heads = mine THEN mine ELSE s.lastSent
<1>3. shared \in SUBSET K /\ sent \in SUBSET K /\ lastSent \in SUBSET K
    BY <1>1, <1>2
<1>4. Receive(s, mine, m) =
         [s EXCEPT !.heard = TRUE, !.inFlight = FALSE,
                   !.heads = m.heads, !.last = m.last, !.knows = m.knows,
                   !.shared = shared, !.sent = sent, !.lastSent = lastSent]
    BY DEF Receive
<1> HIDE DEF shared, sent, lastSent
<1> QED
    BY <1>1, <1>3, <1>4 DEF StateOf

-----------------------------------------------------------------------------
(* Time only adds to what is known.                                          *)

LEMMA MoreFits ==
    ASSUME NEW K, NEW L, K \subseteq L
    PROVE  /\ StateOf(K) \subseteq StateOf(L)
           /\ \A x : MessageOf(x, K) \subseteq MessageOf(x, L)
<1> DEFINE H == SUBSET K
           I == SUBSET L
<1>1. H \subseteq I
    OBVIOUS
<1> HIDE DEF H, I
<1>2. StateOf(K) = [shared: H, heard: BOOLEAN, heads: H, last: H, knows: H, sent: H,
                    lastSent: H, inFlight: BOOLEAN, responded: BOOLEAN]
    BY DEF StateOf, H
<1>3. StateOf(L) = [shared: I, heard: BOOLEAN, heads: I, last: I, knows: I, sent: I,
                    lastSent: I, inFlight: BOOLEAN, responded: BOOLEAN]
    BY DEF StateOf, I
<1>4. StateOf(K) \subseteq StateOf(L)
    BY <1>1, <1>2, <1>3
<1>5. \A x : MessageOf(x, K) \subseteq MessageOf(x, L)
    BY <1>1 DEF MessageOf, H, I
<1> QED
    BY <1>4, <1>5

LEMMA KnownGrows ==
    ASSUME next \in Changes, next' \in Changes, next <= next'
    PROVE  \A x \in Docs : Known(x) \subseteq Known(x)'
<1>1. next \in Nat /\ next' \in Nat
    BY PairAssumption DEF Changes
<1>2. 0 .. next \subseteq 0 .. next'
    BY <1>1
<1> QED
    BY <1>2 DEF Known

LEMMA KnownIsThen ==
    ASSUME next' \in Changes, NEW x \in Docs
    PROVE  /\ SUBSET (Known(x)') \subseteq Contents
           /\ StateOf(Known(x)') \subseteq State
           /\ MessageOf(x, Known(x)') \subseteq Message
<1> DEFINE K == Known(x)'
<1>1. 0 .. next' \subseteq Changes
    BY PairAssumption DEF Changes
<1>2. SUBSET K \subseteq Contents
    <2>1. CASE x = Tomb
        BY <2>1 DEF Known, Contents
    <2>2. CASE x # Tomb
        BY <1>1, <2>2 DEF Known, Contents
    <2> QED
        BY <2>1, <2>2
<1> HIDE DEF K
<1>3. StateOf(K) \subseteq State /\ MessageOf(x, K) \subseteq Message
    BY <1>2, FitsAll
<1> QED
    BY <1>2, <1>3 DEF K

\* A step that changes no sync state keeps them fitting.
LEMMA StatesKept ==
    ASSUME States, next \in Changes, next' \in Changes, next <= next', UNCHANGED states
    PROVE  States'
<1>1. ASSUME NEW d \in Devs, NEW x \in Docs PROVE states[d][x] \in StateOf(Known(x)')
    <2>1. Known(x) \subseteq Known(x)' /\ states[d][x] \in StateOf(Known(x))
        BY KnownGrows DEF States
    <2> QED
        BY <2>1, MoreFits
<1> QED
    BY <1>1 DEF States

\* A message that was said stays true, and so does what it is about.
LEMMA MessageKept ==
    ASSUME next \in Changes, next' \in Changes, next <= next', Minted \subseteq Minted',
           NEW m, m \in MessageOf(m.doc, Known(m.doc)), m.doc \in Minted \cup {Tomb}
    PROVE  m \in MessageOf(m.doc, Known(m.doc)') /\ m.doc \in Minted' \cup {Tomb}
<1>1. m.doc \in Docs
    BY DEF Minted, Docs
<1>2. Known(m.doc) \subseteq Known(m.doc)'
    BY <1>1, KnownGrows
<1> QED
    BY <1>2, MoreFits

LEMMA MessagesKept ==
    ASSUME Messages, next \in Changes, next' \in Changes, next <= next',
           Minted \subseteq Minted', UNCHANGED chan
    PROVE  Messages'
<1>1. ASSUME NEW d \in Devs, NEW i \in 1 .. Len(chan[d])
      PROVE  LET m == chan[d][i]
             IN  m \in MessageOf(m.doc, Known(m.doc)') /\ m.doc \in Minted' \cup {Tomb}
    BY MessageKept DEF Messages
<1> QED
    BY <1>1 DEF Messages

-----------------------------------------------------------------------------
(* A finite set can be put in a sequence.                                    *)

LEMMA SetToSeqIs ==
    ASSUME NEW S, IsFiniteSet(S)
    PROVE  SetToSeq(S) \in Seq(S)
<1>1. Cardinality(S) \in Nat /\ ExistsBijection(1 .. Cardinality(S), S)
    BY FS_CardinalityType
<1>2. PICK f : f \in Bijection(1 .. Cardinality(S), S)
    BY <1>1, Zenon DEF ExistsBijection
<1>3. f \in [1 .. Cardinality(S) -> S] /\ IsInjective(f)
    BY <1>2, Zenon DEF Bijection, Injection
<1>4. SetToSeq(S) \in [1 .. Cardinality(S) -> S]
    BY <1>3, Zenon DEF SetToSeq
<1> QED
    BY <1>1, <1>4

LEMMA InOrderIs ==
    ASSUME Stores, NEW d \in Devs, NEW ids \in SUBSET DocIds(d)
    PROVE  InOrder(d, ids) \in Seq(ids)
<1> DEFINE A == ids \cap Stored(d)
           B == ids \cap {Tomb}
           C == ids \cap (parked[d] \ Stored(d))
<1>1. A \in SUBSET Notes /\ C \in SUBSET Notes
    BY DEF Stores, Stored
<1>2. IsFiniteSet(A) /\ IsFiniteSet(C)
    BY <1>1, FS_Subset, PairAssumption
<1>3. IsFiniteSet({Tomb}) /\ B \in SUBSET {Tomb}
    BY FS_Singleton
<1>4. IsFiniteSet(B)
    BY <1>3, FS_Subset
<1>5. SetToSeq(A) \in Seq(A) /\ SetToSeq(B) \in Seq(B) /\ SetToSeq(C) \in Seq(C)
    BY <1>2, <1>4, SetToSeqIs
<1>6. A \subseteq ids /\ B \subseteq ids /\ C \subseteq ids
    OBVIOUS
<1> HIDE DEF A, B, C
<1>7. SetToSeq(A) \in Seq(ids) /\ SetToSeq(B) \in Seq(ids) /\ SetToSeq(C) \in Seq(ids)
    BY <1>5, <1>6
<1>8. SetToSeq(A) \o SetToSeq(B) \o SetToSeq(C) \in Seq(ids)
    BY <1>7
<1> QED
    BY <1>8 DEF InOrder, A, B, C

\* Said to a peer, on top of what is already on the way.
LEMMA SendIs ==
    ASSUME chan \in [Devs -> Seq(Message)], NEW d \in Devs, NEW msgs \in Seq(Message)
    PROVE  /\ Send(d, msgs) \in [Devs -> Seq(Message)]
           /\ \A e \in Devs : \A i \in 1 .. Len(Send(d, msgs)[e]) :
                 \/ i \in 1 .. Len(chan[e]) /\ Send(d, msgs)[e][i] = chan[e][i]
                 \/ \E j \in 1 .. Len(msgs) : Send(d, msgs)[e][i] = msgs[j]
<1>1. CASE link
    <2> DEFINE o == Other(d)
    <2>1. Send(d, msgs) = [chan EXCEPT ![o] = @ \o msgs]
        BY <1>1 DEF Send
    <2> HIDE DEF o
    <2>2. ASSUME NEW e \in Devs
          PROVE  Send(d, msgs)[e] = chan[e] \/ Send(d, msgs)[e] = chan[e] \o msgs
        BY <2>1
    <2>3. DOMAIN Send(d, msgs) = Devs /\ Send(d, msgs) = [e \in Devs |-> Send(d, msgs)[e]]
        BY <2>1
    <2>4. ASSUME NEW e \in Devs
          PROVE  /\ Send(d, msgs)[e] \in Seq(Message)
                 /\ \A i \in 1 .. Len(Send(d, msgs)[e]) :
                      \/ i \in 1 .. Len(chan[e]) /\ Send(d, msgs)[e][i] = chan[e][i]
                      \/ \E j \in 1 .. Len(msgs) : Send(d, msgs)[e][i] = msgs[j]
        <3>1. CASE Send(d, msgs)[e] = chan[e]
            BY <3>1
        <3>2. CASE Send(d, msgs)[e] = chan[e] \o msgs
            <4>1. chan[e] \in Seq(Message) /\ chan[e] \o msgs \in Seq(Message)
                OBVIOUS
            <4>2. ASSUME NEW i \in 1 .. Len(chan[e] \o msgs)
                  PROVE  \/ i \in 1 .. Len(chan[e]) /\ (chan[e] \o msgs)[i] = chan[e][i]
                         \/ \E j \in 1 .. Len(msgs) : (chan[e] \o msgs)[i] = msgs[j]
                <5>1. Len(chan[e]) \in Nat /\ Len(msgs) \in Nat
                      /\ Len(chan[e] \o msgs) = Len(chan[e]) + Len(msgs)
                    BY <4>1
                <5>2. CASE i <= Len(chan[e])
                    BY <5>1, <5>2
                <5>3. CASE ~(i <= Len(chan[e]))
                    <6>1. i - Len(chan[e]) \in 1 .. Len(msgs)
                        BY <5>1, <5>3
                    <6>2. (chan[e] \o msgs)[i] = msgs[i - Len(chan[e])]
                        BY <4>1, <5>1, <5>3
                    <6> QED
                        BY <6>1, <6>2
                <5> QED
                    BY <5>2, <5>3
            <4> QED
                BY <3>2, <4>1, <4>2
        <3> QED
            BY <2>2, <3>1, <3>2
    <2> QED
        BY <2>3, <2>4
<1>2. CASE ~link
    BY <1>2 DEF Send
<1> QED
    BY <1>1, <1>2

LEMMA SaidFits ==
    ASSUME Messages, next \in Changes, next' \in Changes, next <= next',
           Minted \subseteq Minted', NEW d \in Devs, NEW msgs \in Seq(Message),
           \A j \in 1 .. Len(msgs) :
              \E x \in Minted' \cup {Tomb} : msgs[j] \in MessageOf(x, Known(x)'),
           chan' = Send(d, msgs)
    PROVE  Messages'
<1>1. chan \in [Devs -> Seq(Message)]
    BY DEF Messages
<1>2. /\ chan' \in [Devs -> Seq(Message)]
      /\ \A e \in Devs : \A i \in 1 .. Len(chan'[e]) :
            \/ i \in 1 .. Len(chan[e]) /\ chan'[e][i] = chan[e][i]
            \/ \E j \in 1 .. Len(msgs) : chan'[e][i] = msgs[j]
    <2>1. /\ Send(d, msgs) \in [Devs -> Seq(Message)]
          /\ \A e \in Devs : \A i \in 1 .. Len(Send(d, msgs)[e]) :
                \/ i \in 1 .. Len(chan[e]) /\ Send(d, msgs)[e][i] = chan[e][i]
                \/ \E j \in 1 .. Len(msgs) : Send(d, msgs)[e][i] = msgs[j]
        BY <1>1, SendIs, Zenon
    <2> QED
        BY <2>1, Zenon
<1>3. ASSUME NEW e \in Devs, NEW i \in 1 .. Len(chan'[e]), NEW m, m = chan'[e][i]
      PROVE  m \in MessageOf(m.doc, Known(m.doc)') /\ m.doc \in Minted' \cup {Tomb}
    <2>1. CASE i \in 1 .. Len(chan[e]) /\ m = chan[e][i]
        <3>1. m \in MessageOf(m.doc, Known(m.doc)) /\ m.doc \in Minted \cup {Tomb}
            BY <2>1 DEF Messages
        <3> QED
            BY <3>1, MessageKept
    <2>2. CASE \E j \in 1 .. Len(msgs) : m = msgs[j]
        <3>1. PICK x \in Minted' \cup {Tomb} : m \in MessageOf(x, Known(x)')
            BY <2>2
        <3>2. m.doc = x
            BY <3>1 DEF MessageOf
        <3> QED
            BY <3>1, <3>2
    <2> QED
        BY <1>2, <1>3, <2>1, <2>2
<1> QED
    BY <1>2, <1>3, Zenon DEF Messages

-----------------------------------------------------------------------------
(* Connections and processes.  No row, and no change, depends on them.       *)

LEMMA TombsKept ==
    ASSUME Tombs, UNCHANGED <<purged, tombVars>>
    PROVE  Tombs'
BY DEF Tombs, tombVars

LEMMA NothingStored ==
    ASSUME PairInv, UNCHANGED <<storeVars, parked>>
    PROVE  Stores' /\ Rows' /\ Tombs' /\ Minted' = Minted /\ next \in Changes /\ next' \in Changes
           /\ next <= next'
<1>1. Minted' = Minted
    BY DEF storeVars, Minted
<1>2. next \in Changes /\ next' = next
    BY DEF PairInv, Stores, storeVars
<1>3. next <= next'
    BY <1>2, PairAssumption DEF Changes
<1>4. Stores'
    BY DEF PairInv, Stores, storeVars
<1>5. Rows'
    BY <1>1 DEF PairInv, Rows, storeVars
<1>6. Tombs'
    BY TombsKept DEF PairInv, storeVars
<1> QED
    BY <1>1, <1>2, <1>3, <1>4, <1>5, <1>6

LEMMA ParsesKept ==
    ASSUME PairInv, UNCHANGED <<storeVars, parked, loaded, stamps>>
    PROVE  Parses'
BY DEF PairInv, Parses, storeVars, CacheHit, Stamp

LEMMA NoMessages ==
    ASSUME chan' = [d \in Devs |-> <<>>]
    PROVE  Messages'
<1>1. chan' \in [Devs -> Seq(Message)]
    OBVIOUS
<1>2. \A d \in Devs : 1 .. Len(chan'[d]) = {}
    OBVIOUS
<1> QED
    BY <1>1, <1>2 DEF Messages

LEMMA LinkKeeps ==
    ASSUME PairInv, Connect \/ Cut \/ \E d \in Devs : Abort(d)
    PROVE  PairInv'
<1>1. UNCHANGED <<storeVars, parked, loaded, stamps, states>>
    BY DEF Connect, Cut, Abort, engineVars
<1>2. Links'
    <2>1. side' \in [Devs -> {"on", "ending", "off"}] /\ link' \in BOOLEAN
        BY DEF PairInv, Links, Connect, Cut, Abort
    <2>2. cuts' = cuts \/ (cuts < MaxCuts /\ cuts' = cuts + 1)
        BY DEF Connect, Cut, Abort
    <2> QED
        BY <2>1, <2>2, PairAssumption DEF PairInv, Links
<1>3. Stores' /\ Rows' /\ Parses' /\ States' /\ Tombs'
    BY <1>1, NothingStored, ParsesKept, StatesKept DEF PairInv
<1>4. Messages'
    <2>1. CASE Cut
        BY <2>1, NoMessages DEF Cut
    <2>2. CASE ~Cut
        <3>1. UNCHANGED chan
            BY <2>2 DEF Connect, Abort
        <3> QED
            BY <1>1, <3>1, NothingStored, MessagesKept DEF PairInv
    <2> QED
        BY <2>1, <2>2
<1> QED
    BY <1>2, <1>3, <1>4 DEF PairInv

LEMMA ResetPeerKeeps ==
    ASSUME PairInv, NEW d \in Devs, ResetPeer(d) \/ ForgetPeer(d)
    PROVE  PairInv'
<1>1. UNCHANGED <<storeVars, parked, loaded, stamps, chan>>
    BY DEF ResetPeer, ForgetPeer
<1>2. Links'
    BY DEF PairInv, Links, ResetPeer, ForgetPeer, linkVars
<1>3. Stores' /\ Rows' /\ Parses' /\ Messages' /\ Tombs'
    BY <1>1, NothingStored, ParsesKept, MessagesKept DEF PairInv
<1>4. ASSUME NEW x \in Docs
      PROVE  /\ Resumed(states[d][x]) \in StateOf(Known(x)) \cap State
             /\ Fresh \in StateOf(Known(x)) \cap State
    <2>1. states[d][x] \in StateOf(Known(x))
        BY DEF PairInv, States
    <2>2. StateOf(Known(x)) \subseteq State
        BY KnownIs DEF PairInv, Stores
    <2> QED
        BY <2>1, <2>2, ResumedFits, FreshFits
<1>5. PICK F \in [Docs -> State] : /\ \A x \in Docs : F[x] \in StateOf(Known(x))
                                   /\ states' = [states EXCEPT ![d] = F]
    <2>1. CASE ResetPeer(d)
        <3> DEFINE F == [x \in Docs |-> Resumed(states[d][x])]
        <3>1. states' = [states EXCEPT ![d] = F]
            BY <2>1 DEF ResetPeer
        <3>2. F \in [Docs -> State] /\ \A x \in Docs : F[x] \in StateOf(Known(x))
            BY <1>4
        <3> QED
            BY <3>1, <3>2
    <2>2. CASE ForgetPeer(d)
        <3> DEFINE F == [x \in Docs |-> Fresh]
        <3>1. states' = [states EXCEPT ![d] = F]
            BY <2>2 DEF ForgetPeer
        <3>2. F \in [Docs -> State] /\ \A x \in Docs : F[x] \in StateOf(Known(x))
            BY <1>4
        <3> QED
            BY <3>1, <3>2
    <2> QED
        BY <2>1, <2>2
<1>6. next' = next
    BY <1>1 DEF storeVars
<1>7. States'
    <2>1. states' \in [Devs -> [Docs -> State]]
        BY <1>5 DEF PairInv, States
    <2>2. \A e \in Devs, x \in Docs : states'[e][x] \in StateOf(Known(x))
        BY <1>5 DEF PairInv, States
    <2>3. \A x \in Docs : Known(x)' = Known(x)
        BY <1>6 DEF Known
    <2> QED
        BY <2>1, <2>2, <2>3 DEF States
<1> QED
    BY <1>2, <1>3, <1>7 DEF PairInv

LEMMA RestartKeeps ==
    ASSUME PairInv, NEW d \in Devs, Restart(d)
    PROVE  PairInv'
<1>1. UNCHANGED storeVars
    BY DEF Restart
<1>2. Links'
    <2>1. side' \in [Devs -> {"on", "ending", "off"}] /\ link' \in BOOLEAN
        BY DEF PairInv, Links, Restart
    <2>2. cuts < MaxCuts /\ cuts' = cuts + 1
        BY DEF Restart
    <2> QED
        BY <2>1, <2>2, PairAssumption DEF PairInv, Links
<1>3. Messages'
    BY NoMessages DEF Restart
<1>4. Minted' = Minted /\ next' = next /\ row' = row /\ purged' = purged
    BY <1>1 DEF storeVars, Minted
<1>5. parked' = [parked EXCEPT ![d] = {}]
    BY DEF Restart
<1>6. Stores'
    BY <1>4, <1>5 DEF PairInv, Stores
<1>7. Rows'
    BY <1>4, <1>5 DEF PairInv, Rows, Stores
<1>8. Parses'
    <2>1. /\ loaded' = [loaded EXCEPT ![d] = [n \in Notes |-> None]]
          /\ stamps' = [stamps EXCEPT ![d] = [n \in Notes |-> None]]
        BY DEF Restart
    <2>2. /\ loaded' \in [Devs -> [Notes -> (SUBSET (0 .. next)) \cup {None}]]
          /\ stamps' \in [Devs -> [Notes -> (0 .. next) \cup {None}]]
        BY <2>1 DEF PairInv, Parses
    <2>3. ASSUME NEW e \in Devs, NEW n \in Notes
          PROVE  /\ stamps'[e][n] # None /\ row'[e][n] = {} => n \in purged'[e]
                 /\ CacheHit(e, n)' => loaded'[e][n] = row'[e][n]
        <3>1. CASE e = d
            <4>1. stamps'[e][n] = None
                BY <2>1, <3>1 DEF PairInv, Parses
            <4> QED
                BY <4>1 DEF CacheHit
        <3>2. CASE e # d
            <4>1. stamps'[e] = stamps[e] /\ loaded'[e] = loaded[e]
                BY <2>1, <3>2 DEF PairInv, Parses
            <4> QED
                BY <1>4, <4>1 DEF PairInv, Parses, CacheHit, Stamp
        <3> QED
            BY <3>1, <3>2
    <2> QED
        BY <1>4, <2>2, <2>3 DEF Parses
<1>9. States'
    <2>1. states' = [states EXCEPT ![d] = [x \in Docs |-> Fresh]]
        BY DEF Restart
    <2>2. \A x \in Docs : Fresh \in StateOf(Known(x)) /\ StateOf(Known(x)) \subseteq State
        BY FreshFits, KnownIs DEF PairInv, Stores
    <2>3. states' \in [Devs -> [Docs -> State]]
        BY <2>1, <2>2 DEF PairInv, States
    <2>4. \A e \in Devs, x \in Docs : states'[e][x] \in StateOf(Known(x))
        BY <2>1, <2>2 DEF PairInv, States
    <2>5. \A x \in Docs : Known(x)' = Known(x)
        BY <1>4 DEF Known
    <2> QED
        BY <2>3, <2>4, <2>5 DEF States
<1>10. Tombs'
    BY <1>1, TombsKept DEF PairInv, storeVars
<1> QED
    BY <1>2, <1>3, <1>6, <1>7, <1>8, <1>9, <1>10 DEF PairInv

-----------------------------------------------------------------------------
(* The other processes of a device.                                          *)

\* The number of a stamp is that of a change of the row.
LEMMA StampIs ==
    ASSUME Stores, NEW d \in Devs, NEW n \in Notes, row[d][n] # {}
    PROVE  Stamp(d, n) = Max(row[d][n]) /\ Stamp(d, n) \in 0 .. next
<1>1. next \in Nat /\ row[d][n] \in SUBSET (0 .. next)
    BY PairAssumption DEF Stores, Changes
<1>2. Max(row[d][n]) \in row[d][n]
    BY <1>1, MaxIs
<1> QED
    BY <1>1, <1>2 DEF Stamp

LEMMA CreateKeeps ==
    ASSUME PairInv, NEW d \in Devs, NEW n \in Notes, Create(d, n)
    PROVE  PairInv'
<1>1. /\ row' = [row EXCEPT ![d][n] = {0}] /\ n \notin Minted
      /\ next' = next /\ purged' = purged /\ parked' = parked
      /\ loaded' = loaded /\ stamps' = stamps /\ states' = states
      /\ chan' = chan /\ link' = link /\ side' = side /\ cuts' = cuts
    BY DEF Create, engineVars, linkVars
<1>2. next \in Changes /\ next' \in Changes /\ next \in Nat /\ next <= next'
    BY <1>1, PairAssumption DEF PairInv, Stores, Changes
<1>3. /\ row \in [Devs -> [Notes -> SUBSET (0 .. next)]]
      /\ \A e \in Devs : row[e][n] = {} /\ n \notin purged[e] /\ n \notin parked[e]
    BY <1>1 DEF PairInv, Stores, Rows, Minted
<1>4. /\ row' \in [Devs -> [Notes -> SUBSET (0 .. next)]]
      /\ row'[d][n] = {0}
      /\ \A e \in Devs, k \in Notes : e # d \/ k # n => row'[e][k] = row[e][k]
    <2>1. {0} \in SUBSET (0 .. next)
        BY <1>2
    <2> QED
        BY <1>1, <1>3, <2>1
<1>5. Stores'
    BY <1>1, <1>4 DEF PairInv, Stores
<1>6. Minted \subseteq Minted'
    BY <1>1, <1>3, <1>4 DEF Minted
<1>7. States' /\ Messages'
    BY <1>1, <1>2, <1>6, StatesKept, MessagesKept DEF PairInv
<1>8. Rows'
    <2>1. \A e \in Devs : parked'[e] \subseteq Minted'
        BY <1>1, <1>6 DEF PairInv, Rows
    <2>2. ASSUME NEW e \in Devs, NEW k \in Notes, row'[e][k] # {}
          PROVE  0 \in row'[e][k] /\ k \notin purged'[e] \cup parked'[e]
        BY <1>1, <1>3, <1>4, <2>2 DEF PairInv, Rows
    <2> QED
        BY <2>1, <2>2 DEF Rows
<1>9. Parses'
    <2>1. ASSUME NEW e \in Devs, NEW k \in Notes
          PROVE  /\ stamps'[e][k] # None /\ row'[e][k] = {} => k \in purged'[e]
                 /\ CacheHit(e, k)' => loaded'[e][k] = row'[e][k]
        <3>1. CASE e = d /\ k = n
            <4>1. stamps[d][n] = None
                BY <1>3 DEF PairInv, Parses
            <4> QED
                BY <1>1, <3>1, <4>1 DEF CacheHit
        <3>2. CASE e # d \/ k # n
            BY <1>1, <1>4, <3>2 DEF PairInv, Parses, CacheHit, Stamp
        <3> QED
            BY <3>1, <3>2
    <2> QED
        BY <1>1, <2>1 DEF PairInv, Parses
<1>10. Links'
    BY <1>1 DEF PairInv, Links
<1>11. Tombs'
    BY TombsKept DEF Create, PairInv
<1> QED
    BY <1>5, <1>7, <1>8, <1>9, <1>10, <1>11 DEF PairInv

\* What a write does to the stores, whoever makes it.
LEMMA WriteDoes ==
    ASSUME Stores, Rows, NEW d \in Devs, NEW n \in Notes, Write(d, n), UNCHANGED <<purged, parked>>
    PROVE  /\ next \in Changes /\ next' \in Changes /\ next \in Nat /\ next' = next + 1
           /\ next <= next' /\ 0 .. next \subseteq 0 .. next'
           /\ row[d][n] # {} /\ row'[d][n] = row[d][n] \cup {next + 1}
           /\ \A e \in Devs, k \in Notes : e # d \/ k # n => row'[e][k] = row[e][k]
           /\ Stores' /\ Rows' /\ Minted' = Minted
<1>1. /\ row[d][n] # {} /\ next < MaxChange /\ next' = next + 1
      /\ row' = [row EXCEPT ![d][n] = @ \cup {next'}]
    BY DEF Write, Stored
<1>2. next \in Changes /\ next' \in Changes /\ next \in Nat /\ next <= next'
    BY <1>1, PairAssumption DEF Stores, Changes
<1>3. 0 .. next \subseteq 0 .. next' /\ next' \in 0 .. next'
    BY <1>1, <1>2
<1>4. row \in [Devs -> [Notes -> SUBSET (0 .. next)]]
    BY DEF Stores
<1>5. row'[d][n] = row[d][n] \cup {next + 1}
    BY <1>1, <1>4
<1>6. \A e \in Devs, k \in Notes : e # d \/ k # n => row'[e][k] = row[e][k]
    BY <1>1, <1>4
<1>7. row' \in [Devs -> [Notes -> SUBSET (0 .. next')]]
    <2> DEFINE H == SUBSET (0 .. next')
               W == row[d][n] \cup {next'}
    <2>1. row \in [Devs -> [Notes -> H]] /\ W \in H
        BY <1>3, <1>4
    <2> HIDE DEF H
    <2>2. row' = [row EXCEPT ![d][n] = W]
        BY <1>1
    <2> HIDE DEF W
    <2>3. row' \in [Devs -> [Notes -> H]]
        BY <2>1, <2>2
    <2> QED
        BY <2>3 DEF H
<1>8. Stores'
    BY <1>2, <1>7 DEF Stores
<1>9. \A e \in Devs, k \in Notes : row'[e][k] = {} <=> row[e][k] = {}
    BY <1>1, <1>5, <1>6
<1>10. Minted' = Minted
    BY <1>9 DEF Minted
<1>11. ASSUME NEW e \in Devs, NEW k \in Notes, row'[e][k] # {}
       PROVE  0 \in row'[e][k] /\ k \notin purged'[e] \cup parked'[e]
    BY <1>5, <1>6, <1>9, <1>11 DEF Rows
<1>12. Rows'
    BY <1>10, <1>11 DEF Rows
<1> QED
    BY <1>1, <1>2, <1>3, <1>5, <1>6, <1>8, <1>10, <1>12

LEMMA EditKeeps ==
    ASSUME PairInv, NEW d \in Devs, NEW n \in Notes, Edit(d, n)
    PROVE  PairInv'
<1>1. /\ Write(d, n) /\ purged' = purged /\ parked' = parked
      /\ loaded' = loaded /\ stamps' = stamps /\ states' = states
      /\ chan' = chan /\ link' = link /\ side' = side /\ cuts' = cuts
    BY DEF Edit, engineVars, linkVars
<1>2. /\ next \in Changes /\ next' \in Changes /\ next \in Nat /\ next' = next + 1
      /\ next <= next' /\ 0 .. next \subseteq 0 .. next'
      /\ row[d][n] # {} /\ row'[d][n] = row[d][n] \cup {next + 1}
      /\ \A e \in Devs, k \in Notes : e # d \/ k # n => row'[e][k] = row[e][k]
      /\ Stores' /\ Rows' /\ Minted' = Minted
    BY <1>1, WriteDoes DEF PairInv
<1>3. States' /\ Messages'
    BY <1>1, <1>2, StatesKept, MessagesKept DEF PairInv
<1>4. Parses'
    <2>1. /\ loaded' \in [Devs -> [Notes -> (SUBSET (0 .. next')) \cup {None}]]
          /\ stamps' \in [Devs -> [Notes -> (0 .. next') \cup {None}]]
        <3>1. /\ loaded \in [Devs -> [Notes -> (SUBSET (0 .. next)) \cup {None}]]
              /\ stamps \in [Devs -> [Notes -> (0 .. next) \cup {None}]]
            BY DEF PairInv, Parses
        <3>2. (SUBSET (0 .. next)) \cup {None} \subseteq (SUBSET (0 .. next')) \cup {None}
              /\ (0 .. next) \cup {None} \subseteq (0 .. next') \cup {None}
            BY <1>2
        <3> QED
            BY <1>1, <3>1, <3>2
    <2>2. ASSUME NEW e \in Devs, NEW k \in Notes
          PROVE  /\ stamps'[e][k] # None /\ row'[e][k] = {} => k \in purged'[e]
                 /\ CacheHit(e, k)' => loaded'[e][k] = row'[e][k]
        <3>1. CASE e = d /\ k = n
            <4>1. row'[d][n] # {} /\ Stamp(d, n)' = next + 1
                <5>1. row[d][n] \in SUBSET (0 .. next)
                    BY DEF PairInv, Stores
                <5>2. Max(row'[d][n]) = next + 1
                    BY <1>2, <5>1, NewestIs
                <5> QED
                    BY <1>2, <5>2 DEF Stamp
            <4>2. stamps[d][n] \in (0 .. next) \cup {None}
                BY DEF PairInv, Parses
            <4>3. ~CacheHit(d, n)'
                BY <1>1, <1>2, <4>1, <4>2 DEF CacheHit
            <4> QED
                BY <3>1, <4>1, <4>3
        <3>2. CASE e # d \/ k # n
            BY <1>1, <1>2, <3>2 DEF PairInv, Parses, CacheHit, Stamp
        <3> QED
            BY <3>1, <3>2
    <2> QED
        BY <2>1, <2>2 DEF Parses
<1>5. Links'
    BY <1>1 DEF PairInv, Links
<1>6. Tombs'
    BY TombsKept DEF Edit, PairInv
<1> QED
    BY <1>2, <1>3, <1>4, <1>5, <1>6 DEF PairInv

LEMMA BeginPurgeKeeps ==
    ASSUME PairInv, NEW d \in Devs, NEW n \in Notes, BeginPurge(d, n)
    PROVE  PairInv'
<1> DEFINE p == [note |-> n, doc |-> listed[d] \cup {n}]
<1>1. /\ purging' = [purging EXCEPT ![d] = @ \cup {p}]
      /\ UNCHANGED <<row, purged, listed, dropped, next, parked, loaded, stamps, states, chan>>
      /\ UNCHANGED <<link, side, cuts>>
    BY DEF BeginPurge, engineVars, linkVars
<1>2. next \in Changes /\ next' \in Changes /\ next <= next'
    BY <1>1, PairAssumption DEF PairInv, Stores, Changes
<1>3. Minted' = Minted
    BY <1>1 DEF Minted
<1>4. States' /\ Messages'
    BY <1>1, <1>2, <1>3, StatesKept, MessagesKept DEF PairInv
<1>5. Stores' /\ Rows' /\ Links'
    BY <1>1, <1>3 DEF PairInv, Stores, Rows, Links
<1>6. Parses'
    BY <1>1 DEF PairInv, Parses, CacheHit, Stamp
<1>7. Tombs'
    <2>1. /\ p \in Purges /\ p.doc \subseteq purged[d] \cup {p.note} /\ p.note \in p.doc
        BY DEF Purges, PairInv, Tombs
    <2> HIDE DEF p
    <2>2. purging' \in [Devs -> SUBSET Purges]
        BY <1>1, <2>1 DEF PairInv, Tombs
    <2>3. ASSUME NEW e \in Devs, NEW q \in purging'[e]
          PROVE  q.doc \subseteq purged[e] \cup {q.note} /\ q.note \in q.doc
        <3>1. q \in purging[e] \/ (e = d /\ q = p)
            BY <1>1 DEF PairInv, Tombs
        <3> QED
            BY <2>1, <3>1 DEF PairInv, Tombs
    <2> QED
        BY <1>1, <2>2, <2>3 DEF PairInv, Tombs
<1> QED
    BY <1>4, <1>5, <1>6, <1>7 DEF PairInv

\* What is erased with the purges `done', and listed then, by one of them or
\* by the engine; and what that makes of the stores.
Erases(d, erased, ids, done) ==
    /\ Erase(d, erased, ids, done) /\ next' = next /\ parked' = parked
    /\ ids \subseteq purged[d] \cup erased
    /\ \A p \in done : p.note \in erased
    /\ \A n \in erased : n \in ids \/ \E p \in done : n \in p.doc
ErasedFrom(d, erased, ids) ==
    /\ purged'[d] = purged[d] \cup erased /\ listed'[d] = ids
    /\ \A n \in Notes : row'[d][n] = IF n \in erased THEN {} ELSE row[d][n]
    /\ \A e \in Devs : e # d => row'[e] = row[e] /\ purged'[e] = purged[e]
    /\ \A e \in Devs : purged[e] \subseteq purged'[e]
    /\ \A e \in Devs, n \in Notes :
         row'[e][n] = row[e][n] \/ (n \in purged'[e] /\ row'[e][n] = {})
    /\ Stores' /\ Rows' /\ Tombs' /\ Minted \subseteq Minted'

LEMMA EraseDoes ==
    ASSUME PairInv, NEW d \in Devs, NEW erased \in SUBSET Notes, NEW ids \in SUBSET Notes,
           NEW done \in SUBSET purging[d], Erases(d, erased, ids, done)
    PROVE  ErasedFrom(d, erased, ids)
<1>1. /\ row' = [row EXCEPT ![d] = [n \in Notes |-> IF n \in erased THEN {} ELSE @[n]]]
      /\ purged' = [purged EXCEPT ![d] = @ \cup erased]
      /\ listed' = [listed EXCEPT ![d] = ids]
      /\ dropped' = dropped \cup ((listed[d] \cup UNION {p.doc : p \in done}) \ ids)
      /\ purging' = [purging EXCEPT ![d] = @ \ done]
      /\ next' = next /\ parked' = parked
    BY DEF Erase, Erases
<1>2. /\ next \in Changes /\ row \in [Devs -> [Notes -> SUBSET (0 .. next)]]
      /\ purged \in [Devs -> SUBSET Notes] /\ parked \in [Devs -> SUBSET Notes]
      /\ listed \in [Devs -> SUBSET Notes] /\ purging \in [Devs -> SUBSET Purges]
      /\ dropped \in SUBSET Notes
    BY DEF PairInv, Stores, Tombs
<1>3. \A e \in Devs : e # d => row'[e] = row[e] /\ purged'[e] = purged[e]
    BY <1>1, <1>2
<1>4. /\ purged'[d] = purged[d] \cup erased /\ listed'[d] = ids
      /\ \A n \in Notes : row'[d][n] = IF n \in erased THEN {} ELSE row[d][n]
    BY <1>1, <1>2
<1>5. purged' \in [Devs -> SUBSET Notes] /\ listed' \in [Devs -> SUBSET Notes]
    BY <1>1, <1>2
<1>6. row' \in [Devs -> [Notes -> SUBSET (0 .. next)]]
    <2> DEFINE H == SUBSET (0 .. next)
               W == [n \in Notes |-> IF n \in erased THEN {} ELSE row[d][n]]
    <2>1. W \in [Notes -> H] /\ row \in [Devs -> [Notes -> H]]
        BY <1>2
    <2>2. row' = [row EXCEPT ![d] = W]
        BY <1>1
    <2> HIDE DEF W, H
    <2>3. row' \in [Devs -> [Notes -> H]]
        BY <2>1, <2>2
    <2> QED
        BY <2>3 DEF H
<1>7. Stores'
    BY <1>1, <1>2, <1>5, <1>6 DEF Stores
<1>8. \A e \in Devs : purged[e] \subseteq purged'[e]
    BY <1>3, <1>4
<1>9. ASSUME NEW e \in Devs, NEW n \in Notes
      PROVE  row'[e][n] = row[e][n] \/ (n \in purged'[e] /\ row'[e][n] = {})
    <2>1. CASE e = d
        BY <1>4, <2>1
    <2>2. CASE e # d
        BY <1>3, <2>2
    <2> QED
        BY <2>1, <2>2
<1>10. Minted \subseteq Minted'
    BY <1>8, <1>9 DEF Minted
<1>11. Rows'
    <2>1. \A e \in Devs : parked'[e] \subseteq Minted'
        BY <1>1, <1>10 DEF PairInv, Rows
    <2>2. ASSUME NEW e \in Devs, NEW n \in Notes, row'[e][n] # {}
          PROVE  0 \in row'[e][n] /\ n \notin purged'[e] \cup parked'[e]
        BY <1>1, <1>3, <1>4, <2>2 DEF PairInv, Rows
    <2> QED
        BY <2>1, <2>2 DEF Rows
<1>12. Tombs'
    <2>1. UNION {p.doc : p \in done} \in SUBSET Notes
        BY <1>2 DEF Purges
    <2>2. dropped' \in SUBSET Notes /\ purging' \in [Devs -> SUBSET Purges]
        BY <1>1, <1>2, <2>1
    <2>3. ASSUME NEW e \in Devs PROVE listed'[e] \subseteq purged'[e]
        <3>1. CASE e = d
            BY <1>4, <3>1 DEF Erases
        <3>2. CASE e # d
            BY <1>1, <1>2, <1>3, <3>2 DEF PairInv, Tombs
        <3> QED
            BY <3>1, <3>2
    <2>4. ASSUME NEW e \in Devs, NEW p \in purging'[e]
          PROVE  p.doc \subseteq purged'[e] \cup {p.note} /\ p.note \in p.doc
        <3>1. p \in purging[e]
            BY <1>1, <1>2
        <3> QED
            BY <1>8, <3>1 DEF PairInv, Tombs
    <2>5. ASSUME dropped' = {}, NEW e \in Devs PROVE purged'[e] \subseteq listed'[e]
        <3>1. /\ dropped = {} /\ listed[d] \subseteq ids
              /\ \A p \in done : p.doc \subseteq ids
            BY <1>1, <2>5
        <3>2. CASE e = d
            <4>1. purged[d] \subseteq ids
                BY <3>1 DEF PairInv, Tombs
            <4>2. erased \subseteq ids
                BY <3>1 DEF Erases
            <4> QED
                BY <1>4, <3>2, <4>1, <4>2
        <3>3. CASE e # d
            BY <1>1, <1>2, <1>3, <3>1, <3>3 DEF PairInv, Tombs
        <3> QED
            BY <3>2, <3>3
    <2> QED
        BY <1>5, <2>2, <2>3, <2>4, <2>5 DEF Tombs
<1> QED
    BY <1>3, <1>4, <1>7, <1>8, <1>9, <1>10, <1>11, <1>12 DEF ErasedFrom

LEMMA PurgeDoes ==
    ASSUME PairInv, NEW d \in Devs, NEW p \in purging[d], PurgeNote(d, p)
    PROVE  /\ p.note \in Notes
           /\ purged'[d] = purged[d] \cup {p.note} /\ listed'[d] = p.doc
           /\ \A n \in Notes : row'[d][n] = IF n \in {p.note} THEN {} ELSE row[d][n]
           /\ \A e \in Devs : e # d => row'[e] = row[e] /\ purged'[e] = purged[e]
           /\ \A e \in Devs : purged[e] \subseteq purged'[e]
           /\ \A e \in Devs, n \in Notes :
                row'[e][n] = row[e][n] \/ (n \in purged'[e] /\ row'[e][n] = {})
           /\ Stores' /\ Rows' /\ Tombs' /\ Minted \subseteq Minted'
<1>1. p \in Purges /\ p.doc \subseteq purged[d] \cup {p.note} /\ p.note \in p.doc
    BY DEF PairInv, Tombs
<1>2. p.note \in Notes /\ p.doc \in SUBSET Notes
    BY <1>1 DEF Purges
<1>3. Erases(d, {p.note}, p.doc, {p})
    BY <1>1 DEF PurgeNote, engineVars, Erases
<1>4. /\ {p.note} \in SUBSET Notes /\ {p} \in SUBSET purging[d]
    BY <1>1, <1>2
<1>5. ErasedFrom(d, {p.note}, p.doc)
    BY <1>2, <1>3, <1>4, EraseDoes
<1> QED
    BY <1>2, <1>5 DEF ErasedFrom

LEMMA PurgeKeeps ==
    ASSUME PairInv, NEW d \in Devs, NEW p \in purging[d], PurgeNote(d, p)
    PROVE  PairInv'
<1>1. /\ next' = next /\ parked' = parked
      /\ loaded' = loaded /\ stamps' = stamps /\ states' = states
      /\ chan' = chan /\ link' = link /\ side' = side /\ cuts' = cuts
    BY DEF PurgeNote, engineVars, linkVars
<1>2. next \in Changes /\ next' \in Changes /\ next <= next'
    BY <1>1, PairAssumption DEF PairInv, Stores, Changes
<1>3. /\ \A e \in Devs : purged[e] \subseteq purged'[e]
      /\ \A e \in Devs, n \in Notes :
            row'[e][n] = row[e][n] \/ (n \in purged'[e] /\ row'[e][n] = {})
      /\ Stores' /\ Rows' /\ Tombs' /\ Minted \subseteq Minted'
    BY PurgeDoes
<1>4. States' /\ Messages'
    BY <1>1, <1>2, <1>3, StatesKept, MessagesKept DEF PairInv
<1>5. Parses'
    <2>1. ASSUME NEW e \in Devs, NEW k \in Notes
          PROVE  /\ stamps'[e][k] # None /\ row'[e][k] = {} => k \in purged'[e]
                 /\ CacheHit(e, k)' => loaded'[e][k] = row'[e][k]
        <3>1. CASE k \in purged'[e] /\ row'[e][k] = {}
            BY <3>1 DEF CacheHit, Stamp
        <3>2. CASE row'[e][k] = row[e][k]
            BY <1>1, <1>3, <3>2 DEF PairInv, Parses, CacheHit, Stamp
        <3> QED
            BY <1>3, <3>1, <3>2
    <2> QED
        BY <1>1, <2>1 DEF PairInv, Parses
<1>6. Links'
    BY <1>1 DEF PairInv, Links
<1> QED
    BY <1>3, <1>4, <1>5, <1>6 DEF PairInv

-----------------------------------------------------------------------------
(* A round.                                                                  *)

\* What another process writes between the two reads of a note.
LEMMA RacedDoes ==
    ASSUME PairInv, NEW d \in Devs, NEW raced \in Notes \cup {None},
           IF raced = None THEN UNCHANGED <<row, next>> ELSE Write(d, raced) /\ ~CacheHit(d, raced),
           UNCHANGED <<purged, parked>>
    PROVE  /\ next \in Changes /\ next' \in Changes /\ next <= next' /\ 0 .. next \subseteq 0 .. next'
           /\ Stores' /\ Rows' /\ Minted' = Minted
           /\ \A e \in Devs, n \in Notes : row'[e][n] = {} <=> row[e][n] = {}
           /\ \A e \in Devs, n \in Notes : e # d \/ ~Reloads(d, n) => row'[e][n] = row[e][n]
<1>1. CASE raced = None
    <2>1. row' = row /\ next' = next
        BY <1>1
    <2>2. next \in Changes /\ next <= next'
        BY <2>1, PairAssumption DEF PairInv, Stores, Changes
    <2>3. Minted' = Minted
        BY <2>1 DEF Minted
    <2>4. Stores' /\ Rows'
        BY <2>1, <2>3 DEF PairInv, Stores, Rows
    <2> QED
        BY <2>1, <2>2, <2>3, <2>4
<1>2. CASE raced # None
    <2>1. raced \in Notes /\ Write(d, raced) /\ ~CacheHit(d, raced)
        BY <1>2
    <2>2. /\ next \in Changes /\ next' \in Changes /\ next <= next' /\ 0 .. next \subseteq 0 .. next'
          /\ row[d][raced] # {} /\ row'[d][raced] = row[d][raced] \cup {next + 1}
          /\ \A e \in Devs, k \in Notes : e # d \/ k # raced => row'[e][k] = row[e][k]
          /\ Stores' /\ Rows' /\ Minted' = Minted
        BY <2>1, WriteDoes DEF PairInv
    <2>3. Reloads(d, raced)
        BY <2>1, <2>2 DEF PairInv, Rows, Reloads, Stored
    <2>4. \A e \in Devs, n \in Notes : row'[e][n] = {} <=> row[e][n] = {}
        BY <2>2
    <2>5. \A e \in Devs, n \in Notes : e # d \/ ~Reloads(d, n) => row'[e][n] = row[e][n]
        BY <2>2, <2>3
    <2> QED
        BY <2>2, <2>4, <2>5
<1> QED
    BY <1>1, <1>2

\* What is offered is made of changes that exist.
LEMMA OfferedIs ==
    ASSUME Stores', 0 .. next \subseteq 0 .. next', Parses, Stores, Tombs,
           NEW d \in Devs, NEW x \in DocIds(d), Offered(d, x, row'[d]) # None
    PROVE  x \in Docs /\ Offered(d, x, row'[d]) \in SUBSET (Known(x)')
<1>1. x \in Docs
    BY DEF DocIds, Docs, Stored, Stores
<1>2. CASE x = Tomb
    <2>1. Offered(d, x, row'[d]) = listed[d] /\ Known(x)' = Notes
        BY <1>2 DEF Offered, Known
    <2>2. listed[d] \in SUBSET Notes
        BY DEF Tombs
    <2> QED
        BY <1>1, <2>1, <2>2
<1>3. CASE x # Tomb
    <2>1. x \in Notes /\ Known(x)' = 0 .. next'
        BY <1>1, <1>3 DEF Docs, Known
    <2>2. row'[d][x] \in SUBSET (0 .. next')
        BY <2>1 DEF Stores
    <2>3. CacheHit(d, x) => loaded[d][x] \in SUBSET (0 .. next)
        BY <2>1 DEF CacheHit, Parses
    <2> QED
        BY <1>1, <1>3, <2>1, <2>2, <2>3 DEF Offered
<1> QED
    BY <1>1, <1>2, <1>3

LEMMA RoundParses ==
    ASSUME PairInv, NEW d \in Devs, NEW raced \in Notes \cup {None}, Round(d, raced)
    PROVE  Parses'
<1>1. /\ IF raced = None THEN UNCHANGED <<row, next>> ELSE Write(d, raced) /\ ~CacheHit(d, raced)
      /\ purged' = purged /\ parked' = parked
      /\ loaded' = [loaded EXCEPT ![d] =
                      [n \in Notes |-> IF Reloads(d, n) THEN row'[d][n] ELSE @[n]]]
      /\ stamps' = [stamps EXCEPT ![d] =
                      [n \in Notes |-> IF Reloads(d, n) THEN Stamp(d, n) ELSE @[n]]]
    BY DEF Round
<1>2. /\ 0 .. next \subseteq 0 .. next' /\ Stores'
      /\ \A e \in Devs, n \in Notes : row'[e][n] = {} <=> row[e][n] = {}
      /\ \A e \in Devs, n \in Notes : e # d \/ ~Reloads(d, n) => row'[e][n] = row[e][n]
    BY <1>1, RacedDoes
<1> DEFINE D == (SUBSET (0 .. next')) \cup {None}
           T == (0 .. next') \cup {None}
           L == [n \in Notes |-> IF Reloads(d, n) THEN row'[d][n] ELSE loaded[d][n]]
           U == [n \in Notes |-> IF Reloads(d, n) THEN Stamp(d, n) ELSE stamps[d][n]]
<1>3. loaded \in [Devs -> [Notes -> D]] /\ stamps \in [Devs -> [Notes -> T]]
    <2>1. (SUBSET (0 .. next)) \cup {None} \subseteq D /\ (0 .. next) \cup {None} \subseteq T
        BY <1>2
    <2>2. /\ loaded \in [Devs -> [Notes -> (SUBSET (0 .. next)) \cup {None}]]
          /\ stamps \in [Devs -> [Notes -> (0 .. next) \cup {None}]]
        BY DEF PairInv, Parses
    <2> HIDE DEF D, T
    <2> QED
        BY <2>1, <2>2
<1>4. loaded' = [loaded EXCEPT ![d] = L] /\ stamps' = [stamps EXCEPT ![d] = U]
    BY <1>1
<1>5. \A n \in Notes : row'[d][n] \in D
    BY <1>2 DEF Stores
<1>6. ASSUME NEW n \in Notes, Reloads(d, n) PROVE Stamp(d, n) \in T /\ row[d][n] # {}
    <2>1. row[d][n] # {}
        BY <1>6 DEF Reloads, Stored
    <2>2. Stamp(d, n) \in 0 .. next
        BY <2>1, StampIs DEF PairInv
    <2> QED
        BY <1>2, <2>1, <2>2
<1> HIDE DEF D, T
<1>7. L \in [Notes -> D] /\ U \in [Notes -> T]
    BY <1>3, <1>5, <1>6
<1> HIDE DEF L, U
<1>8. loaded' \in [Devs -> [Notes -> D]] /\ stamps' \in [Devs -> [Notes -> T]]
    BY <1>3, <1>4, <1>7
<1>9. ASSUME NEW e \in Devs, NEW n \in Notes
      PROVE  /\ stamps'[e][n] # None /\ row'[e][n] = {} => n \in purged'[e]
             /\ CacheHit(e, n)' => loaded'[e][n] = row'[e][n]
    <2>1. CASE e = d /\ Reloads(d, n)
        <3>1. loaded'[d] = L /\ L[n] = row'[d][n]
            BY <1>3, <1>4, <2>1 DEF L
        <3>2. row'[d][n] # {}
            BY <1>2, <1>6, <2>1
        <3> QED
            BY <2>1, <3>1, <3>2
    <2>2. CASE e # d \/ ~Reloads(d, n)
        <3>1. loaded'[e][n] = loaded[e][n] /\ stamps'[e][n] = stamps[e][n]
            BY <1>3, <1>4, <2>2 DEF L, U
        <3>2. row'[e][n] = row[e][n]
            BY <1>2, <2>2
        <3> QED
            BY <1>1, <3>1, <3>2 DEF PairInv, Parses, CacheHit, Stamp
    <2> QED
        BY <2>1, <2>2
<1> QED
    BY <1>8, <1>9 DEF Parses, D, T

LEMMA RoundStates ==
    ASSUME PairInv, NEW d \in Devs, NEW raced \in Notes \cup {None}, Round(d, raced)
    PROVE  States' /\ Messages'
<1> DEFINE doc == [x \in DocIds(d) |-> Offered(d, x, row'[d])]
           out == [x \in DocIds(d) |-> Said(states[d][x], x, Offered(d, x, row'[d]))]
           some == {x \in DocIds(d) : out[x].msg # None}
           ids == InOrder(d, some)
           msgs == [i \in DOMAIN ids |-> out[ids[i]].msg]
           S == [x \in Docs |-> IF x \in DocIds(d) THEN out[x].state ELSE states[d][x]]
<1>16. \E o \in {out} : SayAll(d, o)
    BY Zenon DEF Round
<1>17. SayAll(d, out)
    BY <1>16, Zenon
<1>1. /\ IF raced = None THEN UNCHANGED <<row, next>> ELSE Write(d, raced) /\ ~CacheHit(d, raced)
      /\ purged' = purged /\ parked' = parked
      /\ states' = [states EXCEPT ![d] = S]
      /\ chan' = Send(d, msgs)
    BY <1>17 DEF Round, SayAll
<1>2. /\ next \in Changes /\ next' \in Changes /\ next <= next' /\ 0 .. next \subseteq 0 .. next'
      /\ Stores' /\ Minted' = Minted
    BY <1>1, RacedDoes
<1>3. ASSUME NEW x \in Docs
      PROVE  /\ states[d][x] \in StateOf(Known(x)') /\ StateOf(Known(x)') \subseteq State
             /\ MessageOf(x, Known(x)') \subseteq Message
    <2>1. Known(x) \subseteq Known(x)'
        BY <1>2, KnownGrows
    <2>2. states[d][x] \in StateOf(Known(x))
        BY DEF PairInv, States
    <2>3. /\ SUBSET (Known(x)') \subseteq Contents
          /\ StateOf(Known(x)') \subseteq State
          /\ MessageOf(x, Known(x)') \subseteq Message
        BY <1>2, KnownIsThen
    <2> QED
        BY <2>1, <2>2, <2>3, MoreFits
<1>4. ASSUME NEW x \in DocIds(d)
      PROVE  /\ x \in Docs /\ out[x].state \in StateOf(Known(x)')
             /\ out[x].msg = None \/ out[x].msg \in MessageOf(x, Known(x)')
    <2>1. x \in Docs
        BY DEF DocIds, Docs, Stored, PairInv, Stores
    <2>2. CASE doc[x] = None
        BY <1>3, <2>1, <2>2 DEF Said
    <2>3. CASE doc[x] # None
        <3>1. doc[x] \in SUBSET (Known(x)')
            BY <1>2, <2>3, OfferedIs DEF PairInv
        <3>2. out[x] = Generate(states[d][x], x, doc[x])
            BY <2>3 DEF Said
        <3> HIDE DEF doc, out
        <3>3. states[d][x] \in StateOf(Known(x)')
            BY <1>3, <2>1
        <3> QED
            BY <2>1, <3>1, <3>2, <3>3, GenerateFits
    <2> QED
        BY <2>2, <2>3
<1> HIDE DEF doc, out
<1>5. S \in [Docs -> State] /\ \A x \in Docs : S[x] \in StateOf(Known(x)')
    BY <1>3, <1>4
<1>6. ids \in Seq(some) /\ some \subseteq DocIds(d)
    BY InOrderIs DEF PairInv
<1> HIDE DEF S, ids
<1>7. States'
    <2>1. states' \in [Devs -> [Docs -> State]]
        BY <1>1, <1>5 DEF PairInv, States
    <2>2. ASSUME NEW e \in Devs, NEW x \in Docs PROVE states'[e][x] \in StateOf(Known(x)')
        <3>1. CASE e = d
            BY <1>1, <1>5, <3>1 DEF PairInv, States
        <3>2. CASE e # d
            <4>1. states'[e] = states[e] /\ states[e][x] \in StateOf(Known(x))
                BY <1>1, <3>2 DEF PairInv, States
            <4>2. Known(x) \subseteq Known(x)'
                BY <1>2, KnownGrows
            <4> QED
                BY <4>1, <4>2, MoreFits
        <3> QED
            BY <3>1, <3>2
    <2> QED
        BY <2>1, <2>2 DEF States
<1> DEFINE Fit(m) == m \in Message /\ \E x \in Minted' \cup {Tomb} : m \in MessageOf(x, Known(x)')
<1>8. ASSUME NEW x \in some PROVE Fit(out[x].msg)
    <2>1. x \in DocIds(d) /\ out[x].msg # None
        OBVIOUS
    <2>2. x \in Docs /\ out[x].msg \in MessageOf(x, Known(x)')
        BY <1>4, <2>1
    <2>3. x \in Minted \cup {Tomb}
        BY <2>1 DEF DocIds, Stored, PairInv, Rows, Minted
    <2> QED
        BY <1>2, <1>3, <2>2, <2>3
<1> HIDE DEF Fit, some
<1>9. ids \in Seq(some) /\ DOMAIN ids = 1 .. Len(ids) /\ Len(ids) \in Nat
      /\ \A i \in 1 .. Len(ids) : ids[i] \in some
    BY <1>6
<1>10. msgs \in Seq(Message) /\ Len(msgs) = Len(ids) /\ \A i \in 1 .. Len(ids) : Fit(msgs[i])
    <2>1. \A x \in some : out[x].msg \in Message
        BY <1>8 DEF Fit
    <2>2. msgs = [i \in 1 .. Len(ids) |-> out[ids[i]].msg]
        BY <1>9
    <2> HIDE DEF msgs
    <2>3. msgs \in Seq(Message) /\ Len(msgs) = Len(ids)
        BY <1>9, <2>1, <2>2
    <2>4. \A i \in 1 .. Len(ids) : Fit(msgs[i])
        BY <1>8, <1>9, <2>2, Zenon
    <2> QED
        BY <2>3, <2>4
<1> HIDE DEF msgs
<1>11. Messages'
    <2>1. \A j \in 1 .. Len(msgs) :
             \E x \in Minted' \cup {Tomb} : msgs[j] \in MessageOf(x, Known(x)')
        BY <1>10 DEF Fit
    <2>2. Messages /\ Minted \subseteq Minted'
        BY <1>2 DEF PairInv
    <2> QED
        BY <1>1, <1>2, <1>10, <2>1, <2>2, SaidFits
<1> QED
    BY <1>7, <1>11

LEMMA RoundKeeps ==
    ASSUME PairInv, NEW d \in Devs, NEW raced \in Notes \cup {None}, Round(d, raced)
    PROVE  PairInv'
<1>1. /\ IF raced = None THEN UNCHANGED <<row, next>> ELSE Write(d, raced) /\ ~CacheHit(d, raced)
      /\ purged' = purged /\ parked' = parked
      /\ link' = link /\ side' = side /\ cuts' = cuts
    BY DEF Round, linkVars
<1>2. Stores' /\ Rows'
    BY <1>1, RacedDoes
<1>3. Links'
    BY <1>1 DEF PairInv, Links
<1>4. Tombs'
    BY TombsKept DEF Round, PairInv
<1> QED
    BY <1>2, <1>3, <1>4, RoundParses, RoundStates DEF PairInv

-----------------------------------------------------------------------------
(* A message.                                                                *)

\* What the stores are after one: nothing is forgotten of, nothing invented.
LEMMA ReceiveStores ==
    ASSUME PairInv, NEW d \in Devs, NEW done \in SUBSET purging[d], ReceiveMessage(d, done),
           NEW m, m = Head(chan[d])
    PROVE  /\ m \in MessageOf(m.doc, Known(m.doc)) /\ m.doc \in Minted \cup {Tomb}
           /\ chan[d] # <<>> /\ Current(d, m.doc) \in SUBSET Known(m.doc)
           /\ next' = next /\ Stores' /\ Rows' /\ Tombs' /\ Minted \subseteq Minted'
           /\ \A e \in Devs : purged[e] \subseteq purged'[e]
           /\ \A e \in Devs, n \in Notes :
                 \/ row'[e][n] = row[e][n]
                 \/ n \in purged'[e] /\ row'[e][n] = {}
                 \/ e = d /\ n = m.doc /\ row'[d][n] # {} /\ n \notin parked'[d]
           /\ m.doc # Tomb => purged' = purged /\ (m.doc \in parked'[d] => row'[d][m.doc] = {})
<1> DEFINE x == m.doc
           new == Current(d, x) \cup m.changes
<1>1. /\ chan[d] # <<>> /\ next' = next
      /\ IF x = Tomb THEN AdoptTombstones(d, new, done) ELSE Keep(d, x, new)
    BY DEF ReceiveMessage
<1>2. m \in MessageOf(x, Known(x)) /\ x \in Minted \cup {Tomb} /\ x \in Docs
    <2>1. m = chan[d][1] /\ 1 \in 1 .. Len(chan[d])
        BY <1>1 DEF PairInv, Messages
    <2>2. m \in MessageOf(x, Known(x)) /\ x \in Minted \cup {Tomb}
        BY <2>1 DEF PairInv, Messages
    <2> QED
        BY <2>2 DEF Minted, Docs
<1>3. m.changes \in SUBSET Known(x)
    BY <1>2 DEF MessageOf
<1> HIDE DEF x
<1>4. /\ next \in Changes
      /\ row \in [Devs -> [Notes -> SUBSET (0 .. next)]]
      /\ purged \in [Devs -> SUBSET Notes]
      /\ parked \in [Devs -> SUBSET Notes]
    BY DEF PairInv, Stores
<1>5. CASE x = Tomb
    <2> DEFINE erased == new \cup {p.note : p \in done}
    <2>1. Erase(d, erased, new, done) /\ parked' = parked
        BY <1>1, <1>5 DEF AdoptTombstones
    <2>2. Current(d, x) = listed[d] /\ Known(x) = Notes
        BY <1>5 DEF Current, Known
    <2>3. listed[d] \in SUBSET Notes /\ listed[d] \subseteq purged[d]
        BY DEF PairInv, Tombs
    <2>4. Current(d, x) \in SUBSET Known(x) /\ new \in SUBSET Notes
        BY <1>3, <2>2, <2>3
    <2> HIDE DEF new
    <2>5. \A p \in done : p.note \in Notes /\ p.note \in p.doc
        BY DEF PairInv, Tombs, Purges
    <2>6. erased \in SUBSET Notes /\ Erases(d, erased, new, done)
        BY <1>1, <2>1, <2>4, <2>5 DEF Erases
    <2> HIDE DEF erased
    <2>7. ErasedFrom(d, erased, new)
        BY <2>4, <2>6, EraseDoes
    <2>8. /\ \A e \in Devs : purged[e] \subseteq purged'[e]
          /\ \A e \in Devs, n \in Notes :
               row'[e][n] = row[e][n] \/ (n \in purged'[e] /\ row'[e][n] = {})
          /\ Stores' /\ Rows' /\ Tombs' /\ Minted \subseteq Minted'
        BY <2>7 DEF ErasedFrom
    <2> QED
        BY <1>1, <1>2, <1>5, <2>4, <2>8 DEF x
<1>6. CASE x # Tomb
    <2>1. /\ row' = IF Hydrates(new) /\ x \notin purged[d]
                    THEN [row EXCEPT ![d][x] = @ \cup new] ELSE row
          /\ parked' = [parked EXCEPT ![d] = IF Hydrates(new) THEN @ \ {x} ELSE @ \cup {x}]
          /\ purged' = purged
        BY <1>1, <1>6 DEF Keep, MayKeep
    <2>17. Tombs'
        BY <1>1, <1>6, TombsKept DEF Keep, PairInv
    <2>2. x \in Notes /\ Known(x) = 0 .. next /\ x \in Minted
        BY <1>2, <1>6 DEF Docs, Known
    <2>3. Current(d, x) = IF x \in parked[d] THEN {} ELSE row[d][x]
        BY <1>6 DEF Current
    <2>4. Current(d, x) \in SUBSET Known(x) /\ new \in SUBSET (0 .. next)
        BY <1>3, <1>4, <2>2, <2>3
    <2>5. /\ row[d][x] # {} => x \notin purged[d] \cup parked[d] /\ Hydrates(new) /\ row[d][x] \subseteq new
        BY <2>2, <2>3 DEF PairInv, Rows, Hydrates
    <2> HIDE DEF new
    <2>6. \A e \in Devs, n \in Notes : e # d \/ n # x => row'[e][n] = row[e][n]
        BY <1>4, <2>1, <2>2
    <2>7. row'[d][x] = IF Hydrates(new) /\ x \notin purged[d] THEN row[d][x] \cup new ELSE row[d][x]
        BY <1>4, <2>1, <2>2
    <2>8. row' \in [Devs -> [Notes -> SUBSET (0 .. next)]]
        <3> DEFINE H == SUBSET (0 .. next)
                   W == row[d][x] \cup new
        <3>1. row \in [Devs -> [Notes -> H]] /\ W \in H
            BY <1>4, <2>2, <2>4
        <3> HIDE DEF H
        <3>2. row' = row \/ row' = [row EXCEPT ![d][x] = W]
            BY <2>1
        <3> HIDE DEF W
        <3>3. row' \in [Devs -> [Notes -> H]]
            BY <2>2, <3>1, <3>2
        <3> QED
            BY <3>3 DEF H
    <2>9. parked' \in [Devs -> SUBSET Notes]
        BY <1>4, <2>1, <2>2
    <2>10. Stores'
        BY <1>1, <1>4, <2>1, <2>8, <2>9 DEF Stores
    <2>11. Hydrates(new) => x \notin parked'[d] /\ new # {}
        BY <1>4, <2>1 DEF Hydrates
    <2>12. ~Hydrates(new) => row'[d][x] = {} /\ row[d][x] = {}
        BY <2>5, <2>7
    <2>13. \A e \in Devs, n \in Notes :
              \/ row'[e][n] = row[e][n]
              \/ e = d /\ n = x /\ row'[d][n] # {} /\ n \notin parked'[d]
        BY <2>6, <2>7, <2>11
    <2>14. Minted \subseteq Minted'
        BY <2>1, <2>13 DEF Minted
    <2>15. Rows'
        <3>1. \A e \in Devs : parked'[e] \subseteq parked[e] \cup {x}
            BY <1>4, <2>1
        <3>2. \A e \in Devs : parked'[e] \subseteq Minted'
            BY <2>2, <2>14, <3>1 DEF PairInv, Rows
        <3>3. ASSUME NEW e \in Devs, NEW n \in Notes, row'[e][n] # {}
              PROVE  0 \in row'[e][n] /\ n \notin purged'[e] \cup parked'[e]
            <4>1. CASE e = d /\ n = x
                <5>1. Hydrates(new)
                    BY <2>12, <3>3, <4>1
                <5>2. x \notin purged[d]
                    BY <2>5, <2>7, <3>3, <4>1
                <5>3. 0 \in row'[d][x]
                    BY <2>7, <5>1, <5>2 DEF Hydrates
                <5> QED
                    BY <2>1, <2>11, <4>1, <5>1, <5>2, <5>3
            <4>2. CASE e # d \/ n # x
                <5>1. row'[e][n] = row[e][n] /\ n \in parked'[e] => n \in parked[e]
                    BY <1>4, <2>1, <2>6, <4>2
                <5>2. row'[e][n] = row[e][n]
                    BY <2>6, <4>2
                <5>3. n \in parked'[e] => n \in parked[e]
                    BY <5>1, <5>2
                <5> QED
                    BY <2>1, <3>3, <5>2, <5>3 DEF PairInv, Rows
            <4> QED
                BY <4>1, <4>2
        <3> QED
            BY <3>2, <3>3 DEF Rows
    <2>16. x \in parked'[d] => row'[d][x] = {}
        BY <2>11, <2>12
    <2> QED
        BY <1>1, <1>2, <1>6, <2>1, <2>4, <2>10, <2>13, <2>14, <2>15, <2>16, <2>17 DEF x
<1> QED
    BY <1>5, <1>6

\* What is replied with, or nothing, is made of changes that exist.
LEMMA RepliedIs ==
    ASSUME PairInv, Stores', Tombs', next' = next, NEW d \in Devs, NEW x \in Docs
    PROVE  Replied(d, x) \in (SUBSET Known(x)) \cup {None}
<1>1. CASE x = Tomb
    <2>1. Replied(d, x) = listed'[d] /\ Known(x) = Notes
        BY <1>1 DEF Replied, Known
    <2>2. listed'[d] \in SUBSET Notes
        BY DEF Tombs
    <2> QED
        BY <2>1, <2>2
<1>2. CASE x # Tomb
    <2>1. x \in Notes /\ Known(x) = 0 .. next
        BY <1>2 DEF Docs, Known
    <2>2. row'[d][x] \in SUBSET (0 .. next)
        BY <2>1 DEF Stores
    <2>3. TakenParse(d, x) \in (SUBSET (0 .. next)) \cup {None}
        BY <2>1 DEF PairInv, Parses, TakenParse
    <2>4. \/ Replied(d, x) = {} \/ Replied(d, x) = None
          \/ Replied(d, x) = TakenParse(d, x) \/ Replied(d, x) = row'[d][x]
        BY <1>2 DEF Replied
    <2> QED
        BY <2>1, <2>2, <2>3, <2>4
<1> QED
    BY <1>1, <1>2

LEMMA ReceiveParses ==
    ASSUME PairInv, NEW d \in Devs, NEW done \in SUBSET purging[d], ReceiveMessage(d, done)
    PROVE  Parses'
<1> DEFINE m == Head(chan[d])
           x == m.doc
<1>1. /\ m \in MessageOf(m.doc, Known(m.doc)) /\ m.doc \in Minted \cup {Tomb}
      /\ next' = next /\ Stores' /\ Rows' /\ Tombs'
      /\ \A e \in Devs : purged[e] \subseteq purged'[e]
      /\ \A e \in Devs, n \in Notes :
            \/ row'[e][n] = row[e][n]
            \/ n \in purged'[e] /\ row'[e][n] = {}
            \/ e = d /\ n = m.doc /\ row'[d][n] # {} /\ n \notin parked'[d]
      /\ m.doc # Tomb => purged' = purged /\ (m.doc \in parked'[d] => row'[d][m.doc] = {})
    <2>1. PICK h : h = Head(chan[d])
        OBVIOUS
    <2> QED
        BY <2>1, ReceiveStores
<1>2. IF x = Tomb THEN UNCHANGED <<loaded, stamps>>
      ELSE IF x \in parked'[d] \/ row'[d][x] = {}
      THEN loaded' = [loaded EXCEPT ![d][x] = TakenParse(d, x)] /\ UNCHANGED stamps
      ELSE /\ loaded' = [loaded EXCEPT ![d][x] = Replied(d, x)]
           /\ stamps' = [stamps EXCEPT ![d][x] = Max(row'[d][x])]
    BY DEF ReceiveMessage
<1>3. x \in Docs
    BY <1>1 DEF Minted, Docs
<1> HIDE DEF m, x
<1> DEFINE D == (SUBSET (0 .. next)) \cup {None}
           T == (0 .. next) \cup {None}
<1>4. loaded \in [Devs -> [Notes -> D]] /\ stamps \in [Devs -> [Notes -> T]]
    BY DEF PairInv, Parses
\* A note the step does not name, or leaves without a row, needs no new parse.
<1>5. ASSUME NEW e \in Devs, NEW n \in Notes,
             loaded'[e][n] = loaded[e][n] \/ row'[e][n] = {}, stamps'[e][n] = stamps[e][n],
             row'[e][n] = row[e][n] \/ (n \in purged'[e] /\ row'[e][n] = {})
      PROVE  /\ stamps'[e][n] # None /\ row'[e][n] = {} => n \in purged'[e]
             /\ CacheHit(e, n)' => loaded'[e][n] = row'[e][n]
    <2>1. CASE row'[e][n] = {}
        <3>1. ~CacheHit(e, n)'
            BY <2>1 DEF CacheHit, Stamp
        <3>2. stamps'[e][n] # None => n \in purged'[e]
            BY <1>1, <1>5, <2>1 DEF PairInv, Parses
        <3> QED
            BY <3>1, <3>2
    <2>2. CASE row'[e][n] # {}
        BY <1>5, <2>2 DEF PairInv, Parses, CacheHit, Stamp
    <2> QED
        BY <2>1, <2>2
<1>6. CASE x = Tomb
    <2>1. loaded' = loaded /\ stamps' = stamps
        BY <1>2, <1>6
    <2>2. \A e \in Devs, n \in Notes : row'[e][n] = row[e][n] \/ (n \in purged'[e] /\ row'[e][n] = {})
        BY <1>1, <1>6, PairAssumption DEF x
    <2> QED
        BY <1>1, <1>4, <1>5, <2>1, <2>2 DEF Parses
<1>7. CASE x # Tomb
    <2>1. x \in Notes
        BY <1>3, <1>7 DEF Docs
    <2>2. \A e \in Devs, n \in Notes : e # d \/ n # x =>
              row'[e][n] = row[e][n] \/ (n \in purged'[e] /\ row'[e][n] = {})
        BY <1>1 DEF x
    <2>3. CASE x \in parked'[d] \/ row'[d][x] = {}
        <3>1. row'[d][x] = {}
            BY <1>1, <1>7, <2>3 DEF x
        <3>2. loaded' = [loaded EXCEPT ![d][x] = TakenParse(d, x)] /\ stamps' = stamps
            BY <1>2, <1>7, <2>3
        <3>3. TakenParse(d, x) \in D
            BY <1>4, <2>1 DEF TakenParse
        <3>4. loaded' \in [Devs -> [Notes -> D]] /\ stamps' \in [Devs -> [Notes -> T]]
            <4> HIDE DEF D, T
            <4> QED
                BY <1>4, <2>1, <3>2, <3>3
        <3>5. row'[d][x] = row[d][x] \/ (x \in purged'[d] /\ row'[d][x] = {})
            BY <1>1, <2>1, <3>1 DEF x
        <3>6. ASSUME NEW e \in Devs, NEW n \in Notes
              PROVE  /\ loaded'[e][n] = loaded[e][n] \/ row'[e][n] = {}
                     /\ stamps'[e][n] = stamps[e][n]
                     /\ row'[e][n] = row[e][n] \/ (n \in purged'[e] /\ row'[e][n] = {})
            <4>1. CASE e = d /\ n = x
                BY <3>1, <3>2, <3>5, <4>1
            <4>2. CASE e # d \/ n # x
                <5>1. loaded'[e][n] = loaded[e][n]
                    BY <1>4, <2>1, <3>2, <4>2
                <5> QED
                    BY <2>2, <3>2, <4>2, <5>1
            <4> QED
                BY <4>1, <4>2
        <3> QED
            BY <1>1, <1>5, <3>4, <3>6 DEF Parses
    <2>4. CASE ~(x \in parked'[d] \/ row'[d][x] = {})
        <3>1. row'[d][x] # {} /\ x \notin parked'[d] /\ x \notin purged'[d]
            BY <1>1, <2>1, <2>4 DEF Rows
        <3> DEFINE L == Replied(d, x)
                   U == Max(row'[d][x])
        <3>2. loaded' = [loaded EXCEPT ![d][x] = L] /\ stamps' = [stamps EXCEPT ![d][x] = U]
            BY <1>2, <1>7, <2>4
        <3>3. L \in D
            <4>1. Known(x) = 0 .. next
                BY <1>7 DEF Known
            <4> QED
                BY <1>1, <1>3, <4>1, RepliedIs
        <3>4. U \in T
            <4>1. next \in Nat /\ row'[d][x] \in SUBSET (0 .. next)
                BY <1>1, <2>1, PairAssumption DEF Stores, Changes
            <4>2. U \in row'[d][x]
                BY <3>1, <4>1, MaxIs
            <4> QED
                BY <4>1, <4>2
        <3>5. L = row'[d][x] \/ U = None
            <4>1. CASE TakenParse(d, x) # None /\ stamps[d][x] = U /\ U # None
                <5>1. x \in parked[d] \/ row[d][x] = {}
                    BY <2>1, <4>1 DEF TakenParse, Stored
                <5>2. row[d][x] = {}
                    BY <2>1, <5>1 DEF PairInv, Rows
                <5>3. x \in purged[d]
                    BY <2>1, <4>1, <5>2 DEF PairInv, Parses
                <5> QED
                    BY <1>1, <3>1, <5>3
            <4>2. CASE ~(TakenParse(d, x) # None /\ stamps[d][x] = U)
                BY <1>7, <3>1, <4>2 DEF Replied
            <4> QED
                BY <4>1, <4>2
        <3> HIDE DEF L
        <3>6. loaded' \in [Devs -> [Notes -> D]] /\ stamps' \in [Devs -> [Notes -> T]]
            <4> HIDE DEF D, T, U
            <4> QED
                BY <1>4, <2>1, <3>2, <3>3, <3>4
        <3>7. loaded'[d][x] = L /\ stamps'[d][x] = U
            BY <1>4, <2>1, <3>2
        <3>8. ASSUME NEW e \in Devs, NEW n \in Notes
              PROVE  /\ stamps'[e][n] # None /\ row'[e][n] = {} => n \in purged'[e]
                     /\ CacheHit(e, n)' => loaded'[e][n] = row'[e][n]
            <4>1. CASE e = d /\ n = x
                BY <3>1, <3>5, <3>7, <4>1 DEF CacheHit, Stamp
            <4>2. CASE e # d \/ n # x
                <5>1. loaded'[e][n] = loaded[e][n] /\ stamps'[e][n] = stamps[e][n]
                    BY <1>4, <2>1, <3>2, <4>2
                <5> QED
                    BY <1>5, <2>2, <4>2, <5>1
            <4> QED
                BY <4>1, <4>2
        <3> QED
            BY <1>1, <3>6, <3>8 DEF Parses
    <2> QED
        BY <2>3, <2>4
<1> QED
    BY <1>6, <1>7

LEMMA ReceiveStates ==
    ASSUME PairInv, NEW d \in Devs, NEW done \in SUBSET purging[d], ReceiveMessage(d, done)
    PROVE  States' /\ Messages'
<1> DEFINE m == Head(chan[d])
           x == m.doc
           K == Known(x)
           after == Receive(states[d][x], Current(d, x), m)
           reply == Said(after, x, Replied(d, x))
           s == reply.state
           said == IF reply.msg = None THEN <<>> ELSE <<reply.msg>>
<1>1. /\ m \in MessageOf(m.doc, Known(m.doc)) /\ m.doc \in Minted \cup {Tomb}
      /\ chan[d] # <<>> /\ Current(d, m.doc) \in SUBSET Known(m.doc)
      /\ next' = next /\ Stores' /\ Tombs' /\ Minted \subseteq Minted'
    <2>1. PICK h : h = Head(chan[d])
        OBVIOUS
    <2> QED
        BY <2>1, ReceiveStores
<1>2. /\ states' = [states EXCEPT ![d][x] = s]
      /\ chan' = [e \in Devs |-> IF e = d THEN Tail(chan[d]) ELSE Send(d, said)[e]]
    BY DEF ReceiveMessage
<1>3. x \in Docs /\ m \in MessageOf(x, K) /\ Current(d, x) \in SUBSET K
    BY <1>1 DEF Minted, Docs
<1>4. next \in Changes /\ next <= next' /\ next' \in Changes
    BY <1>1, PairAssumption DEF PairInv, Stores, Changes
<1>5. states[d][x] \in StateOf(K)
    BY <1>3 DEF PairInv, States
<1>6. Replied(d, x) \in (SUBSET K) \cup {None}
    BY <1>1, <1>3, RepliedIs
<1> HIDE DEF m, x, K
<1>7. after \in StateOf(K)
    BY <1>3, <1>5, ReceiveFits
<1> HIDE DEF after
<1>8. s \in StateOf(K) /\ (said = <<>> \/ (said = <<reply.msg>> /\ reply.msg \in MessageOf(x, K)))
    <2>1. CASE Replied(d, x) = None
        BY <1>7, <2>1 DEF Said
    <2>2. CASE Replied(d, x) # None
        <3>1. Replied(d, x) \in SUBSET K
            BY <1>6, <2>2
        <3> DEFINE mine == Replied(d, x)
        <3> HIDE DEF mine
        <3>2. mine \in SUBSET K
            BY <3>1 DEF mine
        <3>3. /\ Generate(after, x, mine).state \in StateOf(K)
              /\ Generate(after, x, mine).msg = None \/ Generate(after, x, mine).msg \in MessageOf(x, K)
            BY <1>7, <3>2, GenerateFits
        <3> QED
            BY <2>2, <3>3 DEF mine, Said
    <2> QED
        BY <2>1, <2>2
<1>9. StateOf(K) \subseteq State /\ MessageOf(x, K) \subseteq Message /\ K = Known(x)
    BY <1>3, <1>4, KnownIs DEF K
<1> HIDE DEF s, said
<1>10. States'
    <2>1. states' \in [Devs -> [Docs -> State]]
        BY <1>2, <1>3, <1>8, <1>9 DEF PairInv, States
    <2>2. ASSUME NEW e \in Devs, NEW y \in Docs PROVE states'[e][y] \in StateOf(Known(y))
        <3>1. CASE e = d /\ y = x
            BY <1>2, <1>3, <1>8, <1>9, <3>1 DEF PairInv, States
        <3>2. CASE e # d \/ y # x
            <4>1. states'[e][y] = states[e][y]
                BY <1>2, <1>3, <3>2 DEF PairInv, States
            <4> QED
                BY <4>1 DEF PairInv, States
        <3> QED
            BY <3>1, <3>2
    <2>3. \A y \in Docs : Known(y)' = Known(y)
        BY <1>1 DEF Known
    <2> QED
        BY <2>1, <2>2, <2>3 DEF States
<1>11. chan \in [Devs -> Seq(Message)]
    BY DEF PairInv, Messages
<1>12. said \in Seq(Message) /\ \A j \in 1 .. Len(said) : said[j] \in MessageOf(x, K)
    <2>1. CASE said = <<>>
        BY <2>1
    <2>2. CASE said = <<reply.msg>> /\ reply.msg \in MessageOf(x, K)
        <3> HIDE DEF reply
        <3> QED
            BY <1>9, <2>2
    <2> QED
        BY <1>8, <2>1, <2>2
\* What is on the way after it was on the way, or is the reply.
<1>13. /\ chan' \in [Devs -> Seq(Message)]
       /\ \A e \in Devs : \A i \in 1 .. Len(chan'[e]) :
            \/ \E k \in 1 .. Len(chan[e]) : chan'[e][i] = chan[e][k]
            \/ chan'[e][i] \in MessageOf(x, K)
    <2> DEFINE sent == Send(d, said)
    <2>1. /\ sent \in [Devs -> Seq(Message)]
          /\ \A e \in Devs : \A i \in 1 .. Len(sent[e]) :
                \/ i \in 1 .. Len(chan[e]) /\ sent[e][i] = chan[e][i]
                \/ \E j \in 1 .. Len(said) : sent[e][i] = said[j]
        BY <1>11, <1>12, SendIs
    <2> HIDE DEF sent
    <2>2. chan' = [e \in Devs |-> IF e = d THEN Tail(chan[d]) ELSE sent[e]]
        BY <1>2 DEF sent
    <2>3. chan[d] \in Seq(Message) /\ chan[d] # <<>>
        BY <1>1, <1>11 DEF m
    <2>4. /\ Tail(chan[d]) \in Seq(Message)
          /\ \A i \in 1 .. Len(Tail(chan[d])) :
                i + 1 \in 1 .. Len(chan[d]) /\ Tail(chan[d])[i] = chan[d][i + 1]
        BY <2>3
    <2>5. chan' \in [Devs -> Seq(Message)]
        BY <2>1, <2>2, <2>4
    <2>6. ASSUME NEW e \in Devs, NEW i \in 1 .. Len(chan'[e])
          PROVE  \/ \E k \in 1 .. Len(chan[e]) : chan'[e][i] = chan[e][k]
                 \/ chan'[e][i] \in MessageOf(x, K)
        <3>1. CASE e = d
            BY <2>2, <2>4, <3>1
        <3>2. CASE e # d
            <4>1. chan'[e] = sent[e]
                BY <2>2, <3>2
            <4> QED
                BY <1>12, <2>1, <4>1
        <3> QED
            BY <3>1, <3>2
    <2> QED
        BY <2>5, <2>6
<1>14. ASSUME NEW e \in Devs, NEW i \in 1 .. Len(chan'[e]), NEW h, h = chan'[e][i]
       PROVE  h \in MessageOf(h.doc, Known(h.doc)') /\ h.doc \in Minted' \cup {Tomb}
    <2>1. h \in MessageOf(h.doc, Known(h.doc)) /\ h.doc \in Minted \cup {Tomb}
        <3>1. CASE \E k \in 1 .. Len(chan[e]) : h = chan[e][k]
            BY <3>1 DEF PairInv, Messages
        <3>2. CASE h \in MessageOf(x, K)
            <4>1. h.doc = x /\ x \in Minted \cup {Tomb}
                BY <1>1, <3>2 DEF MessageOf, x
            <4> QED
                BY <1>9, <3>2, <4>1
        <3> QED
            BY <1>13, <1>14, <3>1, <3>2
    <2> QED
        BY <1>1, <1>4, <2>1, MessageKept
<1>15. Messages'
    BY <1>13, <1>14, Zenon DEF Messages
<1> QED
    BY <1>10, <1>15

LEMMA ReceiveKeeps ==
    ASSUME PairInv, NEW d \in Devs, NEW done \in SUBSET purging[d], ReceiveMessage(d, done)
    PROVE  PairInv'
<1>1. Stores' /\ Rows' /\ Tombs'
    <2>1. PICK h : h = Head(chan[d])
        OBVIOUS
    <2> QED
        BY <2>1, ReceiveStores
<1>2. Links'
    BY DEF PairInv, Links, ReceiveMessage, linkVars
<1> QED
    BY <1>1, <1>2, ReceiveParses, ReceiveStates DEF PairInv

-----------------------------------------------------------------------------
LEMMA PairInit == Init => PairInv
<1> SUFFICES ASSUME Init PROVE PairInv
    OBVIOUS
<1>1. next \in Changes /\ next = 0 /\ 0 \in 0 .. MaxCuts /\ 0 \in Changes
    BY PairAssumption DEF Init, Changes
<1>2. Stores
    BY <1>1 DEF Init, Stores
<1>3. States
    <2>1. \A x \in Docs : Fresh \in StateOf(Known(x)) /\ StateOf(Known(x)) \subseteq State
        BY <1>1, FreshFits, KnownIs
    <2>2. states = [d \in Devs |-> [x \in Docs |-> Fresh]]
        BY DEF Init
    <2> QED
        BY <2>1, <2>2 DEF States
<1>4. Messages
    <2>1. chan = [d \in Devs |-> <<>>]
        BY DEF Init
    <2>2. chan \in [Devs -> Seq(Message)] /\ \A d \in Devs : 1 .. Len(chan[d]) = {}
        BY <2>1
    <2> QED
        BY <2>2 DEF Messages
<1>5. Rows
    BY DEF Init, Rows
<1>6. Parses
    BY DEF Init, Parses, CacheHit
<1>7. Links
    BY <1>1 DEF Init, Links
<1>8. Tombs
    BY DEF Init, Tombs
<1> QED
    BY <1>2, <1>3, <1>4, <1>5, <1>6, <1>7, <1>8 DEF PairInv

LEMMA PairStep == PairInv /\ [Next]_vars => PairInv'
<1> SUFFICES ASSUME PairInv, [Next]_vars PROVE PairInv'
    OBVIOUS
<1>1. ASSUME NEW d \in Devs, NEW n \in Notes, Create(d, n) PROVE PairInv'
    BY <1>1, CreateKeeps
<1>2. ASSUME NEW d \in Devs, NEW n \in Notes, Edit(d, n) PROVE PairInv'
    BY <1>2, EditKeeps
<1>3. ASSUME NEW d \in Devs, NEW n \in Notes, BeginPurge(d, n) PROVE PairInv'
    BY <1>3, BeginPurgeKeeps
<1>10. ASSUME NEW d \in Devs, NEW p \in purging[d], PurgeNote(d, p) PROVE PairInv'
    BY <1>10, PurgeKeeps
<1>4. ASSUME NEW d \in Devs, NEW raced \in Notes \cup {None}, Round(d, raced) PROVE PairInv'
    BY <1>4, RoundKeeps
<1>5. ASSUME NEW d \in Devs, NEW done \in SUBSET purging[d], ReceiveMessage(d, done) PROVE PairInv'
    BY <1>5, ReceiveKeeps
<1>6. CASE Connect \/ Cut \/ \E d \in Devs : Abort(d)
    BY <1>6, LinkKeeps
<1>7. ASSUME NEW d \in Devs, ResetPeer(d) \/ ForgetPeer(d) PROVE PairInv'
    BY <1>7, ResetPeerKeeps
<1>8. ASSUME NEW d \in Devs, Restart(d) PROVE PairInv'
    BY <1>8, RestartKeeps
<1>9. CASE UNCHANGED vars
    <2>1. /\ UNCHANGED <<storeVars, parked, loaded, stamps, states, chan>>
          /\ UNCHANGED <<link, side, cuts>>
        BY <1>9 DEF vars, engineVars, linkVars
    <2>2. Links'
        BY <2>1 DEF PairInv, Links
    <2> QED
        BY <2>1, <2>2, NothingStored, ParsesKept, StatesKept, MessagesKept DEF PairInv
<1> QED
    BY <1>1, <1>2, <1>3, <1>4, <1>5, <1>6, <1>7, <1>8, <1>9, <1>10 DEF Next

LEMMA PairInvHolds == Spec => []PairInv
<1> QED
    BY PairInit, PairStep, PTL DEF Spec

(* The engines' states, the messages on the way and the cached parses are of *)
(* the shapes sync.rs gives them, and no note is stored that was never       *)
(* created or is listed as purged.                                           *)
THEOREM PairTypes == Spec => []TypeOK
<1>1. PairInv => TypeOK
    <2> SUFFICES ASSUME PairInv PROVE TypeOK
        OBVIOUS
    <2>1. 0 .. next \subseteq Changes /\ next \in Changes
        BY PairAssumption DEF PairInv, Stores, Changes
    <2>2. row \in [Devs -> [Notes -> SUBSET Changes]]
        <3> DEFINE A == SUBSET (0 .. next)
                   B == SUBSET Changes
        <3>1. A \subseteq B /\ row \in [Devs -> [Notes -> A]]
            BY <2>1 DEF PairInv, Stores
        <3> HIDE DEF A, B
        <3>2. row \in [Devs -> [Notes -> B]]
            BY <3>1
        <3> QED
            BY <3>2 DEF B
    <2>3. /\ loaded \in [Devs -> [Notes -> (SUBSET Changes) \cup {None}]]
          /\ stamps \in [Devs -> [Notes -> Changes \cup {None}]]
        <3> DEFINE A == (SUBSET (0 .. next)) \cup {None}
                   B == (SUBSET Changes) \cup {None}
                   C == (0 .. next) \cup {None}
                   D == Changes \cup {None}
        <3>1. /\ A \subseteq B /\ C \subseteq D
              /\ loaded \in [Devs -> [Notes -> A]] /\ stamps \in [Devs -> [Notes -> C]]
            BY <2>1 DEF PairInv, Parses
        <3> HIDE DEF A, B, C, D
        <3>2. loaded \in [Devs -> [Notes -> B]] /\ stamps \in [Devs -> [Notes -> D]]
            BY <3>1
        <3> QED
            BY <3>2 DEF B, D
    <2>4. \A d \in Devs, n \in Notes : row[d][n] # {} => 0 \in row[d][n] /\ n \notin purged[d]
        BY DEF PairInv, Rows
    <2> QED
        BY <2>1, <2>2, <2>3, <2>4 DEF TypeOK, PairInv, Stores, States, Messages, Links, Tombs
<1> QED
    BY <1>1, PairInvHolds, PTL

(* generate_message never offers a stale document: a cached parse that       *)
(* passes for the row's, because their modified_at agree, is what the row    *)
(* holds, though other processes write and purge rows between the engine's   *)
(* reads, and the engine itself merges into rows it has cached.              *)
THEOREM CachedParseIsTheRow == Spec => []CacheCurrent
<1>1. PairInv => CacheCurrent
    BY DEF PairInv, Parses, CacheCurrent
<1> QED
    BY <1>1, PairInvHolds, PTL

-----------------------------------------------------------------------------
(* What the engine's steps, and other processes', make of a device's notes.  *)

\* What one step may do to the documents of a device.
LEMMA DocumentsGain ==
    ASSUME PairInv, PairInv', NEW d \in Devs, purged'[d] = purged[d],
           \A n \in Notes : row[d][n] \subseteq row'[d][n]
    PROVE  Documents(d)!Gain
<1>1. row'[d] \in [Notes -> SUBSET Changes]
    <2>1. next' \in Changes /\ row' \in [Devs -> [Notes -> SUBSET (0 .. next')]]
        BY DEF PairInv, Stores
    <2>2. 0 .. next' \subseteq Changes
        BY <2>1, PairAssumption DEF Changes
    <2> DEFINE A == SUBSET (0 .. next')
               B == SUBSET Changes
    <2>3. A \subseteq B /\ row'[d] \in [Notes -> A]
        BY <2>1, <2>2
    <2> HIDE DEF A, B
    <2>4. row'[d] \in [Notes -> B]
        BY <2>3
    <2> QED
        BY <2>4 DEF B
<1>2. \A n \in purged[d] : n \in Notes /\ row[d][n] = {} /\ row'[d][n] = {}
    BY DEF PairInv, Stores, Rows
<1> QED
    BY <1>1, <1>2 DEF Documents!Gain

LEMMA DocumentsErased ==
    ASSUME PairInv, PairInv', NEW d \in Devs, NEW gone \in SUBSET Notes,
           purged'[d] = purged[d] \cup gone,
           \A n \in Notes : row'[d][n] = IF n \in gone THEN {} ELSE row[d][n]
    PROVE  Documents(d)!RegNext
<1>1. row'[d] = [n \in Notes |-> IF n \in gone THEN {} ELSE row[d][n]]
    BY DEF PairInv, Stores
<1>2. Documents(d)!Erase(gone)
    BY <1>1 DEF Documents!Erase
<1> QED
    BY <1>2 DEF Documents!RegNext

LEMMA WrittenGains ==
    ASSUME PairInv, PairInv', NEW d \in Devs, NEW e \in Devs, NEW n \in Notes,
           Write(e, n), UNCHANGED <<purged, parked>>
    PROVE  Documents(d)!Gain
<1>1. /\ row'[e][n] = row[e][n] \cup {next + 1}
      /\ \A f \in Devs, k \in Notes : f # e \/ k # n => row'[f][k] = row[f][k]
    BY WriteDoes DEF PairInv
<1>2. \A k \in Notes : row[d][k] \subseteq row'[d][k]
    BY <1>1
<1> QED
    BY <1>2, DocumentsGain

LEMMA ReceivedByDocuments ==
    ASSUME PairInv, PairInv', NEW d \in Devs, NEW e \in Devs, NEW done \in SUBSET purging[e],
           ReceiveMessage(e, done)
    PROVE  Documents(d)!RegNext
<1>1. PICK m : m = Head(chan[e])
    OBVIOUS
<1> DEFINE x == m.doc
           new == Current(e, x) \cup m.changes
<1>2. /\ m \in MessageOf(x, Known(x)) /\ x \in Docs
      /\ Current(e, x) \in SUBSET Known(x)
    BY <1>1, ReceiveStores DEF Minted, Docs
<1>3. IF x = Tomb THEN AdoptTombstones(e, new, done) ELSE Keep(e, x, new)
    BY <1>1 DEF ReceiveMessage
<1>4. row \in [Devs -> [Notes -> SUBSET (0 .. next)]] /\ purged \in [Devs -> SUBSET Notes]
    BY DEF PairInv, Stores
<1> HIDE DEF x
<1>5. CASE x = Tomb
    <2> DEFINE gone == new \cup {p.note : p \in done}
    <2>1. /\ purged' = [purged EXCEPT ![e] = @ \cup gone]
          /\ row' = [row EXCEPT ![e] = [n \in Notes |-> IF n \in gone THEN {} ELSE @[n]]]
        BY <1>3, <1>5 DEF AdoptTombstones, Erase
    <2>2. gone \in SUBSET Notes
        <3>1. new \in SUBSET Notes
            BY <1>2, <1>5 DEF Known, MessageOf
        <3>2. \A p \in done : p.note \in Notes
            BY DEF PairInv, Tombs, Purges
        <3> QED
            BY <3>1, <3>2
    <2> HIDE DEF gone
    <2>3. CASE d = e
        <3>1. /\ purged'[d] = purged[d] \cup gone
              /\ \A n \in Notes : row'[d][n] = IF n \in gone THEN {} ELSE row[d][n]
            BY <1>4, <2>1, <2>2, <2>3
        <3> QED
            BY <2>2, <3>1, DocumentsErased
    <2>4. CASE d # e
        <3>1. purged'[d] = purged[d] /\ row'[d] = row[d]
            BY <1>4, <2>1, <2>4
        <3> QED
            BY <3>1, DocumentsGain DEF Documents!RegNext
    <2> QED
        BY <2>3, <2>4
<1>6. CASE x # Tomb
    <2>1. /\ row' = row \/ row' = [row EXCEPT ![e][x] = @ \cup new]
          /\ purged' = purged
        BY <1>3, <1>6 DEF Keep
    <2>2. \A n \in Notes : row[d][n] \subseteq row'[d][n]
        <3> HIDE DEF new
        <3>1. CASE row' = row
            BY <3>1
        <3>2. CASE row' = [row EXCEPT ![e][x] = @ \cup new]
            BY <1>4, <3>2
        <3> QED
            BY <2>1, <3>1, <3>2
    <2> QED
        BY <2>1, <2>2, DocumentsGain DEF Documents!RegNext
<1> QED
    BY <1>5, <1>6

LEMMA DocumentsStep ==
    ASSUME PairInv, PairInv', NEW d \in Devs, [Next]_vars
    PROVE  [Documents(d)!RegNext]_(Documents(d)!regVars)
<1>1. CASE UNCHANGED <<row, purged>>
    BY <1>1 DEF Documents!regVars
<1>2. ASSUME NEW e \in Devs, NEW n \in Notes, Create(e, n)
      PROVE  Documents(d)!RegNext
    <2>1. purged' = purged /\ row' = [row EXCEPT ![e][n] = {0}] /\ row[e][n] = {}
        BY <1>2 DEF Create, Minted
    <2>2. \A k \in Notes : row[d][k] \subseteq row'[d][k]
        BY <2>1 DEF PairInv, Stores
    <2> QED
        BY <2>1, <2>2, DocumentsGain DEF Documents!RegNext
<1>3. ASSUME NEW e \in Devs, NEW n \in Notes, Edit(e, n)
      PROVE  Documents(d)!RegNext
    BY <1>3, WrittenGains DEF Edit, engineVars, Documents!RegNext
<1>4. ASSUME NEW e \in Devs, NEW p \in purging[e], PurgeNote(e, p)
      PROVE  [Documents(d)!RegNext]_(Documents(d)!regVars)
    <2>1. CASE d = e
        <3>1. /\ purged'[d] = purged[d] \cup {p.note} /\ {p.note} \in SUBSET Notes
              /\ \A k \in Notes : row'[d][k] = IF k \in {p.note} THEN {} ELSE row[d][k]
            BY <1>4, <2>1, PurgeDoes
        <3> QED
            BY <3>1, DocumentsErased
    <2>2. CASE d # e
        <3>1. purged'[d] = purged[d] /\ row'[d] = row[d]
            BY <1>4, <2>2, PurgeDoes
        <3> QED
            BY <3>1 DEF Documents!regVars
    <2> QED
        BY <2>1, <2>2
<1>5. ASSUME NEW e \in Devs, NEW raced \in Notes \cup {None}, Round(e, raced)
      PROVE  [Documents(d)!RegNext]_(Documents(d)!regVars)
    <2>1. /\ IF raced = None THEN UNCHANGED <<row, next>> ELSE Write(e, raced) /\ ~CacheHit(e, raced)
          /\ purged' = purged /\ parked' = parked
        BY <1>5 DEF Round
    <2>2. CASE raced = None
        BY <2>1, <2>2 DEF Documents!regVars
    <2>3. CASE raced # None
        BY <2>1, <2>3, WrittenGains DEF Documents!RegNext
    <2> QED
        BY <2>2, <2>3
<1>6. ASSUME NEW e \in Devs, NEW done \in SUBSET purging[e], ReceiveMessage(e, done)
      PROVE  Documents(d)!RegNext
    BY <1>6, ReceivedByDocuments
<1>7. CASE \/ Connect \/ Cut
           \/ \E e \in Devs : ResetPeer(e) \/ Abort(e) \/ ForgetPeer(e) \/ Restart(e)
           \/ UNCHANGED vars \/ \E e \in Devs, n \in Notes : BeginPurge(e, n)
    BY <1>1, <1>7 DEF BeginPurge, Connect, Cut, ResetPeer, Abort, ForgetPeer, Restart, vars, storeVars
<1> QED
    BY <1>2, <1>3, <1>4, <1>5, <1>6, <1>7 DEF Next

(* Seen from its rows and its purges each of the two devices implements      *)
(* DocRegistry, however its engine merges, parks, replies and starts over:   *)
(* what put_doc and adopt_tombstone_doc do to a note is to add changes or to *)
(* erase it for good, and no message brings a purged note back.              *)
THEOREM EachImplementsRegistry == \A d \in Devs : Spec => Documents(d)!RegSpec
<1> SUFFICES ASSUME NEW d \in Devs PROVE Spec => Documents(d)!RegSpec
    OBVIOUS
<1>1. Init => Documents(d)!RegInit
    BY DEF Init, Documents!RegInit
<1>2. PairInv /\ PairInv' /\ [Next]_vars => [Documents(d)!RegNext]_(Documents(d)!regVars)
    BY DocumentsStep
<1> QED
    BY <1>1, <1>2, PairInvHolds, PTL DEF Spec, Documents!RegSpec

\* The same of both at once: each step of the pair is a step of each registry.
THEOREM EachDeviceIsARegistry == Spec => EachIsARegistry
<1> DEFINE Start == \A d \in Devs : Documents(d)!RegInit
           Step == \A d \in Devs : Documents(d)!RegNext \/ UNCHANGED <<row[d], purged[d]>>
<1>1. Init => Start
    BY DEF Init, Documents!RegInit
<1>2. PairInv /\ PairInv' /\ [Next]_vars => Step \/ UNCHANGED vars
    <2> SUFFICES ASSUME PairInv, PairInv', [Next]_vars, NEW d \in Devs
                 PROVE  Documents(d)!RegNext \/ UNCHANGED <<row[d], purged[d]>>
        BY DEF Step
    <2>1. [Documents(d)!RegNext]_(Documents(d)!regVars)
        BY DocumentsStep
    <2> QED
        BY <2>1 DEF Documents!regVars
<1> HIDE DEF Start, Step
<1>3. Spec => Start /\ [][Step]_vars
    BY <1>1, <1>2, PairInvHolds, PTL DEF Spec
<1> QED
    BY <1>3 DEF EachIsARegistry, Start, Step

-----------------------------------------------------------------------------
(* What two engines know of each other while they talk.                      *)

\* What a device has of a document.
Doc(d, x) == IF x = Tomb THEN purged[d] ELSE row[d][x]

\* It is offered in a round, or was purged.
Knows(d, x) == x = Tomb \/ row[d][x] # {} \/ x \in parked[d] \/ x \in purged[d]

\* The messages about a document, and the heads the last of them names.
Of(q, x) == {i \in 1 .. Len(q) : q[i].doc = x}
EndsWith(q, x, h) == \E i \in Of(q, x) : q[i].heads = h /\ \A j \in Of(q, x) : j <= i

\* The last that e heard, or will have heard, of x are the heads h.
Told(e, x, h) ==
    IF Of(chan[e], x) = {} THEN states[e][x].heard /\ states[e][x].heads = h
    ELSE EndsWith(chan[e], x, h)

\* A session begins with what reset_peer left, and nothing on the way.
Reset ==
    /\ link => \A d \in Devs : side[d] = "on"
    /\ ~link => \A d \in Devs : chan[d] = <<>>
    /\ \A d \in Devs : side[d] # "on" =>
          \A x \in Docs : ~states[d][x].heard /\ ~states[d][x].inFlight
                          /\ ~states[d][x].responded /\ states[d][x].lastSent = {}

\* What a device says it has, it has, until it purges it.
SaidIsHad(d, x) ==
    /\ states[d][x].lastSent \subseteq Doc(d, x)
    /\ \A i \in Of(chan[Other(d)], x) : chan[Other(d)][i].heads \subseteq Doc(d, x)
    /\ states[Other(d)][x].heard => states[Other(d)][x].heads \subseteq Doc(d, x)

\* Who has nothing new was told the same, or told the other last.
SaidIsTold(d, x) ==
    states[d][x].responded /\ states[d][x].lastSent = Doc(d, x) =>
        \/ states[d][x].heard /\ states[d][x].heads = Doc(d, x)
        \/ Told(Other(d), x, Doc(d, x))

\* What is in flight is on its way, is being answered, or needed no answer.
Answers(d, x) ==
    states[d][x].inFlight =>
        \/ Of(chan[d], x) # {} \/ Of(chan[Other(d)], x) # {} \/ x \in purged[Other(d)]
        \/ /\ states[Other(d)][x].heard /\ states[Other(d)][x].responded
           /\ states[Other(d)][x].heads = states[Other(d)][x].lastSent

\* Who was told of a document knows of it, and so does who told of it.
Heeds(d, x) ==
    /\ states[d][x].responded => Of(chan[Other(d)], x) # {} \/ Knows(Other(d), x)
    /\ states[d][x].heard \/ Of(chan[d], x) # {} => Knows(Other(d), x)

TalkInv ==
    /\ Reset
    /\ \A d \in Devs, x \in Docs : x \notin purged[d] => SaidIsHad(d, x)
    /\ link => \A d \in Devs, x \in Docs :
                  (x \notin purged[d] => SaidIsTold(d, x)) /\ Answers(d, x) /\ Heeds(d, x)

\* No tombstone document has lost an id that its device purged.
Intact == \A d \in Devs : listed[d] = purged[d]

QuietInv == PairInv /\ Intact /\ TalkInv

LEMMA NothingDropped ==
    ASSUME PairInv, dropped = {}
    PROVE  Intact
BY DEF PairInv, Tombs, Intact

LEMMA TwoDevices ==
    ASSUME NEW d \in Devs
    PROVE  /\ Other(d) \in Devs /\ Other(d) # d /\ Other(Other(d)) = d
           /\ \A e \in Devs : e = d \/ e = Other(d)
<1>1. Cardinality(Devs) = 2
    BY PairAssumption
<1>2. PICK a, b : Devs = {a, b} /\ a # b
    <2>1. IsFiniteSet(Devs)
        BY PairAssumption
    <2>2. ExistsBijection(1 .. 2, Devs)
        BY <1>1, <2>1, FS_CardinalityType
    <2>3. PICK f : f \in Bijection(1 .. 2, Devs)
        BY <2>2, Zenon DEF ExistsBijection
    <2>4. f \in Surjection(1 .. 2, Devs) /\ f \in Injection(1 .. 2, Devs)
        BY <2>3 DEF Bijection
    <2>5. Devs = {f[1], f[2]} /\ f[1] # f[2]
        BY <2>4 DEF Surjection, Injection, IsInjective
    <2> QED
        BY <2>5
<1> QED
    BY <1>2 DEF Other

LEMMA MessagesAppended ==
    ASSUME NEW s \in Seq(Message), NEW t \in Seq(Message), NEW x
    PROVE  /\ Of(s \o t, x) # {} <=> Of(s, x) # {} \/ Of(t, x) # {}
           /\ Of(t, x) = {} => \A h : EndsWith(s \o t, x, h) <=> EndsWith(s, x, h)
           /\ \A i \in Of(s \o t, x) :
                 \/ i \in Of(s, x) /\ (s \o t)[i] = s[i]
                 \/ \E j \in Of(t, x) : (s \o t)[i] = t[j]
           /\ \A h : Of(t, x) # {} /\ (\A j \in Of(t, x) : t[j].heads = h) => EndsWith(s \o t, x, h)
<1> DEFINE q == s \o t
<1>1. /\ Len(s) \in Nat /\ Len(t) \in Nat /\ Len(q) = Len(s) + Len(t)
      /\ \A i \in 1 .. Len(s) : q[i] = s[i]
      /\ \A j \in 1 .. Len(t) : q[Len(s) + j] = t[j]
      /\ \A i \in 1 .. Len(q) : i \in 1 .. Len(s) \/ i - Len(s) \in 1 .. Len(t)
    OBVIOUS
<1> HIDE DEF q
<1>2. \A i \in Of(s, x) : i \in Of(q, x) /\ q[i] = s[i]
    BY <1>1 DEF Of
<1>3. \A j \in Of(t, x) : Len(s) + j \in Of(q, x) /\ q[Len(s) + j] = t[j]
    BY <1>1 DEF Of
<1>4. \A i \in Of(q, x) : (i \in Of(s, x) /\ q[i] = s[i])
                          \/ (i - Len(s) \in Of(t, x) /\ q[i] = t[i - Len(s)])
    <2> TAKE i \in Of(q, x)
    <2>1. CASE i \in 1 .. Len(s)
        BY <1>1, <2>1 DEF Of
    <2>2. CASE i - Len(s) \in 1 .. Len(t)
        <3>1. Len(s) + (i - Len(s)) = i
            BY <1>1 DEF Of
        <3>2. q[i] = t[i - Len(s)]
            BY <1>1, <2>2, <3>1
        <3> QED
            BY <2>2, <3>2 DEF Of
    <2> QED
        BY <1>1, <2>1, <2>2 DEF Of
<1>5. ASSUME Of(t, x) = {}, NEW h
      PROVE  EndsWith(q, x, h) <=> EndsWith(s, x, h)
    <2>1. Of(q, x) = Of(s, x) /\ \A i \in Of(s, x) : q[i] = s[i]
        BY <1>2, <1>4, <1>5
    <2> QED
        BY <2>1 DEF EndsWith
<1>6. ASSUME NEW h, Of(t, x) # {}, \A j \in Of(t, x) : t[j].heads = h
      PROVE  EndsWith(q, x, h)
    <2>1. Of(t, x) \in SUBSET (0 .. Len(t))
        BY <1>1 DEF Of
    <2>2. PICK k \in Of(t, x) : \A j \in Of(t, x) : j <= k
        BY <1>1, <1>6, <2>1, MaxIs
    <2>3. Len(s) + k \in Of(q, x) /\ q[Len(s) + k].heads = h
        BY <1>3, <1>6, <2>2
    <2>4. ASSUME NEW i \in Of(q, x) PROVE i <= Len(s) + k
        <3>0. i \in Int /\ k \in Nat
            BY <1>1, <2>1 DEF Of
        <3>1. CASE i \in Of(s, x)
            BY <1>1, <3>0, <3>1 DEF Of
        <3>2. CASE i - Len(s) \in Of(t, x)
            <4>1. i - Len(s) <= k
                BY <2>2, <3>2
            <4> QED
                BY <1>1, <3>0, <4>1
        <3> QED
            BY <1>4, <3>1, <3>2
    <2> QED
        BY <2>3, <2>4 DEF EndsWith
<1>7. Of(q, x) # {} <=> Of(s, x) # {} \/ Of(t, x) # {}
    BY <1>2, <1>3, <1>4
<1>8. \A i \in Of(q, x) : (i \in Of(s, x) /\ q[i] = s[i]) \/ \E j \in Of(t, x) : q[i] = t[j]
    BY <1>4
<1> QED
    BY <1>5, <1>6, <1>7, <1>8 DEF q

LEMMA MessageTaken ==
    ASSUME NEW s \in Seq(Message), s # <<>>, NEW x
    PROVE  /\ \A i \in Of(Tail(s), x) : i + 1 \in Of(s, x) /\ Tail(s)[i] = s[i + 1]
           /\ Head(s) = s[1] /\ (s[1].doc = x => 1 \in Of(s, x))
           /\ s[1].doc # x => (Of(Tail(s), x) # {} <=> Of(s, x) # {})
           /\ \A h : EndsWith(s, x, h) =>
                 IF Of(Tail(s), x) # {} THEN EndsWith(Tail(s), x, h)
                 ELSE s[1].doc = x /\ s[1].heads = h
<1> DEFINE q == Tail(s)
<1>1. /\ Len(s) \in Nat \ {0} /\ Len(q) = Len(s) - 1
      /\ \A i \in 1 .. Len(q) : i + 1 \in 1 .. Len(s) /\ q[i] = s[i + 1]
      /\ \A i \in 1 .. Len(s) : i = 1 \/ i - 1 \in 1 .. Len(q)
      /\ Head(s) = s[1]
    OBVIOUS
<1> HIDE DEF q
<1>2. \A i \in Of(q, x) : i + 1 \in Of(s, x) /\ q[i] = s[i + 1]
    BY <1>1 DEF Of
<1>3. \A i \in Of(s, x) : (i = 1 /\ s[1].doc = x) \/ (i - 1 \in Of(q, x) /\ q[i - 1] = s[i])
    <2> TAKE i \in Of(s, x)
    <2>1. CASE i = 1
        BY <2>1 DEF Of
    <2>2. CASE i - 1 \in 1 .. Len(q)
        <3>1. i - 1 + 1 = i
            BY DEF Of
        <3>2. q[i - 1] = s[i]
            BY <1>1, <2>2, <3>1
        <3> QED
            BY <2>2, <3>2 DEF Of
    <2> QED
        BY <1>1, <2>1, <2>2 DEF Of
<1>4. ASSUME NEW h, EndsWith(s, x, h)
      PROVE  IF Of(q, x) # {} THEN EndsWith(q, x, h) ELSE s[1].doc = x /\ s[1].heads = h
    <2>1. PICK i \in Of(s, x) : s[i].heads = h /\ \A j \in Of(s, x) : j <= i
        BY <1>4 DEF EndsWith
    <2>2. ASSUME NEW k \in Of(q, x) PROVE EndsWith(q, x, h)
        <3>1. k + 1 <= i /\ k \in Nat /\ i \in Nat /\ k >= 1
            BY <1>1, <1>2, <2>1, <2>2 DEF Of
        <3>2. i - 1 \in Of(q, x) /\ q[i - 1] = s[i]
            BY <1>3, <2>1, <3>1
        <3>3. ASSUME NEW j \in Of(q, x) PROVE j <= i - 1
            <4>1. j + 1 <= i /\ j \in Nat
                BY <1>1, <1>2, <2>1 DEF Of
            <4> QED
                BY <3>1, <4>1
        <3> QED
            BY <2>1, <3>2, <3>3 DEF EndsWith
    <2>3. CASE Of(q, x) = {}
        BY <1>3, <2>1, <2>3
    <2> QED
        BY <2>2, <2>3
<1>5. s[1].doc = x => 1 \in Of(s, x)
    BY <1>1 DEF Of
<1>6. s[1].doc # x => (Of(q, x) # {} <=> Of(s, x) # {})
    BY <1>2, <1>3
<1> QED
    BY <1>1, <1>2, <1>4, <1>5, <1>6 DEF q

-----------------------------------------------------------------------------
(* The protocol step: what is said, and what it leaves behind.               *)

\* Silence: the peer has the same, or has been told and has yet to answer.
LEMMA GeneratedIs ==
    ASSUME NEW s \in State, NEW x \in Docs, NEW mine \in Contents
    PROVE  LET g == Generate(s, x, mine) IN
           /\ g.msg = None => /\ g.state = s /\ s.responded /\ s.lastSent = mine
                              /\ s.inFlight \/ (s.heard /\ s.heads = mine)
           /\ g.msg # None => /\ g.msg.doc = x /\ g.msg.heads = mine
                              /\ \/ g.state = s
                                 \/ /\ g.state.lastSent = mine /\ g.state.responded
                                    /\ g.state.inFlight /\ g.state.heard = s.heard
                                    /\ g.state.heads = s.heads
<1> DEFINE missing == IF s.heard THEN (mine \ s.knows) \ s.sent ELSE {}
           ask == [doc |-> x, heads |-> mine, last |-> {}, knows |-> {}, changes |-> {}]
           say == [doc |-> x, heads |-> mine, last |-> s.shared, knows |-> mine,
                   changes |-> missing]
           after == [s EXCEPT !.responded = TRUE, !.lastSent = mine, !.inFlight = TRUE,
                              !.sent = @ \cup missing]
<1>1. \/ Generate(s, x, mine) = [msg |-> ask, state |-> s]
      \/ Generate(s, x, mine) = [msg |-> None, state |-> s] /\ Silent(s, mine, missing)
      \/ Generate(s, x, mine) = [msg |-> say, state |-> after]
    BY DEF Generate
<1>2. /\ after.lastSent = mine /\ after.responded /\ after.inFlight
      /\ after.heard = s.heard /\ after.heads = s.heads
    BY DEF State
<1>3. ask.doc = x /\ ask.heads = mine /\ say.doc = x /\ say.heads = mine
    OBVIOUS
<1>7. {} \in Contents /\ missing \in Contents /\ s.shared \in Contents
    BY DEF Contents, State
<1> HIDE DEF missing
<1>8. ask \in Message /\ say \in Message
    BY <1>7 DEF Message
<1>9. ask # None /\ say # None
    <2> HIDE DEF ask, say
    <2> QED
        BY <1>8, NoneAssumption
<1> HIDE DEF ask, say, after
<1>4. CASE Generate(s, x, mine) = [msg |-> ask, state |-> s]
    BY <1>3, <1>4, <1>9
<1>5. CASE Generate(s, x, mine) = [msg |-> None, state |-> s] /\ Silent(s, mine, missing)
    BY <1>5 DEF Silent
<1>6. CASE Generate(s, x, mine) = [msg |-> say, state |-> after]
    BY <1>2, <1>3, <1>6, <1>9
<1> QED
    BY <1>1, <1>4, <1>5, <1>6

LEMMA ReceivedIs ==
    ASSUME NEW s \in State, NEW mine, NEW m
    PROVE  LET r == Receive(s, mine, m) IN
           /\ r.heard /\ ~r.inFlight /\ r.heads = m.heads /\ r.responded = s.responded
           /\ r.lastSent \in {{}, mine, s.lastSent}
BY DEF Receive, State

LEMMA ContentsKnown ==
    ASSUME next \in Changes, NEW x \in Docs
    PROVE  SUBSET Known(x) \subseteq Contents
BY PairAssumption DEF Known, Contents, Changes

\* In a round, and after a message, the document offered is the device's.
LEMMA OfferedIsDoc ==
    ASSUME PairInv, NEW d \in Devs, NEW x \in DocIds(d), NEW now \in [Notes -> SUBSET Changes],
           \A n \in Notes : now[n] = {} <=> row[d][n] = {},
           \A n \in Notes : now[n] = row[d][n] \/ ~CacheHit(d, n), listed[d] = purged[d]
    PROVE  Offered(d, x, now) = IF x = Tomb THEN purged[d] ELSE now[x]
<1>1. CASE x = Tomb
    BY <1>1 DEF Offered
<1>2. CASE x # Tomb
    <2>1. x \in Notes /\ (row[d][x] # {} \/ x \in parked[d])
        BY <1>2 DEF DocIds, Stored, PairInv, Stores
    <2>2. CASE x \in parked[d]
        <3>1. row[d][x] = {}
            BY <2>1, <2>2 DEF PairInv, Rows
        <3> QED
            BY <1>2, <2>1, <2>2, <3>1 DEF Offered
    <2>3. CASE x \notin parked[d] /\ CacheHit(d, x)
        <3>1. loaded[d][x] = row[d][x] /\ now[x] = row[d][x]
            BY <2>1, <2>3 DEF PairInv, Parses
        <3> QED
            BY <1>2, <2>3, <3>1 DEF Offered
    <2>4. CASE x \notin parked[d] /\ ~CacheHit(d, x)
        BY <1>2, <2>1, <2>4 DEF Offered
    <2> QED
        BY <2>2, <2>3, <2>4
<1> QED
    BY <1>1, <1>2

LEMMA RepliedIsDoc ==
    ASSUME PairInv, PairInv', Intact', next' = next, NEW d \in Devs, NEW x \in Docs,
           x # Tomb => purged' = purged,
           x # Tomb => row'[d][x] # {} \/ x \in parked'[d] \/ x \in purged[d]
    PROVE  Replied(d, x) = Doc(d, x)' \/ (Replied(d, x) = None /\ x \in purged'[d])
<1>1. CASE x = Tomb
    BY <1>1 DEF Replied, Doc, Intact
<1>2. CASE x # Tomb /\ x \in parked'[d]
    <2>1. row'[d][x] = {}
        BY <1>2 DEF PairInv, Rows, Docs
    <2> QED
        BY <1>2, <2>1 DEF Replied, Doc
<1>3. CASE x # Tomb /\ x \notin parked'[d] /\ row'[d][x] = {}
    BY <1>3 DEF Replied
<1>4. CASE x # Tomb /\ x \notin parked'[d] /\ row'[d][x] # {}
    <2>1. x \in Notes
        BY <1>4 DEF Docs
    <2> DEFINE U == Max(row'[d][x])
    <2>2. U # None
        <3>1. row'[d][x] \in SUBSET (0 .. next) /\ next \in Nat /\ 0 .. next \subseteq Changes
            BY <2>1, PairAssumption DEF PairInv, Stores, Changes
        <3>2. U \in row'[d][x]
            BY <1>4, <3>1, MaxIs
        <3> QED
            BY <3>1, <3>2, NoneAssumption
    <2>3. ~(TakenParse(d, x) # None /\ stamps[d][x] = U)
        <3> SUFFICES ASSUME TakenParse(d, x) # None, stamps[d][x] = U PROVE FALSE
            OBVIOUS
        <3>1. x \in parked[d] \/ row[d][x] = {}
            BY <2>1 DEF TakenParse, Stored
        <3>2. row[d][x] = {}
            BY <2>1, <3>1 DEF PairInv, Rows
        <3>3. x \in purged[d] /\ purged' = purged
            BY <1>4, <2>1, <2>2, <3>2 DEF PairInv, Parses
        <3> QED
            BY <1>4, <2>1, <3>3 DEF PairInv, Rows
    <2> HIDE DEF U
    <2>4. Replied(d, x) = row'[d][x]
        BY <1>4, <2>3 DEF Replied, U
    <2> QED
        BY <1>4, <2>4 DEF Doc
<1> QED
    BY <1>1, <1>2, <1>3, <1>4

-----------------------------------------------------------------------------
(* Steps that tell nothing.                                                  *)

\* Other processes write, and what was said stays true.
LEMMA WritesTellNothing ==
    ASSUME PairInv, TalkInv, UNCHANGED <<states, chan, link, side>>,
           \A d \in Devs : purged[d] \subseteq purged'[d],
           \A d \in Devs, x \in Docs : x \in purged'[d] \/ Doc(d, x) \subseteq Doc(d, x)',
           \A d \in Devs, x \in Docs : Knows(d, x) => Knows(d, x)'
    PROVE  TalkInv'
<1>1. Reset'
    BY DEF TalkInv, Reset
<1>2. ASSUME NEW d \in Devs, NEW x \in Docs, x \notin purged'[d]
      PROVE  SaidIsHad(d, x)' /\ (link' => SaidIsTold(d, x)')
    <2>1. x \notin purged[d] /\ Doc(d, x) \subseteq Doc(d, x)'
        BY <1>2
    <2>2. SaidIsHad(d, x) /\ (link => SaidIsTold(d, x))
        BY <2>1 DEF TalkInv
    <2>3. SaidIsHad(d, x)'
        BY <2>1, <2>2 DEF SaidIsHad
    <2>4. states[d][x].lastSent = Doc(d, x)' => Doc(d, x) = Doc(d, x)'
        BY <2>1, <2>2 DEF SaidIsHad
    <2>5. link => SaidIsTold(d, x)'
        BY <2>2, <2>4 DEF SaidIsTold, Told
    <2> QED
        BY <2>3, <2>5
<1>3. ASSUME NEW d \in Devs, NEW x \in Docs, link'
      PROVE  Answers(d, x)' /\ Heeds(d, x)'
    <2>1. Answers(d, x) /\ Heeds(d, x) /\ Other(d) \in Devs
        BY <1>3, TwoDevices DEF TalkInv
    <2>2. Answers(d, x)'
        BY <2>1 DEF Answers
    <2>3. Heeds(d, x)'
        BY <2>1 DEF Heeds
    <2> QED
        BY <2>2, <2>3
<1> QED
    BY <1>1, <1>2, <1>3 DEF TalkInv

LEMMA CreateTalk ==
    ASSUME QuietInv, NEW d \in Devs, NEW n \in Notes, Create(d, n)
    PROVE  TalkInv'
<1>1. /\ row' = [row EXCEPT ![d][n] = {0}] /\ row[d][n] = {} /\ UNCHANGED <<purged, parked>>
      /\ UNCHANGED <<states, chan, link, side>>
    BY DEF Create, Minted, engineVars, linkVars
<1>2. \A e \in Devs, k \in Notes : row[e][k] \subseteq row'[e][k]
    BY <1>1 DEF QuietInv, PairInv, Stores
<1>3. ASSUME NEW e \in Devs, NEW x \in Docs
      PROVE  Doc(e, x) \subseteq Doc(e, x)' /\ (Knows(e, x) => Knows(e, x)')
    BY <1>1, <1>2 DEF Doc, Knows, Docs
<1> QED
    BY <1>1, <1>3, WritesTellNothing DEF QuietInv

LEMMA EditTalk ==
    ASSUME QuietInv, NEW d \in Devs, NEW n \in Notes, Edit(d, n)
    PROVE  TalkInv'
<1>1. /\ Write(d, n) /\ UNCHANGED <<purged, parked>>
      /\ UNCHANGED <<states, chan, link, side>>
    BY DEF Edit, engineVars, linkVars
<1>2. \A e \in Devs, k \in Notes : row[e][k] \subseteq row'[e][k]
    <2>1. /\ row'[d][n] = row[d][n] \cup {next + 1}
          /\ \A e \in Devs, k \in Notes : e # d \/ k # n => row'[e][k] = row[e][k]
        BY <1>1, WriteDoes DEF QuietInv, PairInv
    <2> QED
        BY <2>1
<1>3. ASSUME NEW e \in Devs, NEW x \in Docs
      PROVE  Doc(e, x) \subseteq Doc(e, x)' /\ (Knows(e, x) => Knows(e, x)')
    BY <1>1, <1>2 DEF Doc, Knows, Docs
<1> QED
    BY <1>1, <1>3, WritesTellNothing DEF QuietInv

LEMMA BeginPurgeTalk ==
    ASSUME QuietInv, NEW d \in Devs, NEW n \in Notes, BeginPurge(d, n)
    PROVE  TalkInv'
<1>1. UNCHANGED <<row, purged, parked>> /\ UNCHANGED <<states, chan, link, side>>
    BY DEF BeginPurge, engineVars, linkVars
<1>2. ASSUME NEW e \in Devs, NEW x \in Docs
      PROVE  Doc(e, x)' = Doc(e, x) /\ (Knows(e, x) => Knows(e, x)')
    BY <1>1 DEF Doc, Knows
<1> QED
    BY <1>1, <1>2, WritesTellNothing DEF QuietInv

LEMMA PurgeTalk ==
    ASSUME QuietInv, NEW d \in Devs, NEW p \in purging[d], PurgeNote(d, p)
    PROVE  TalkInv'
<1>1. UNCHANGED <<states, chan, link, side, parked>>
    BY DEF PurgeNote, engineVars, linkVars
<1>2. /\ \A e \in Devs : purged[e] \subseteq purged'[e]
      /\ \A e \in Devs, k \in Notes :
           row'[e][k] = row[e][k] \/ (k \in purged'[e] /\ row'[e][k] = {})
    BY PurgeDoes DEF QuietInv
<1>3. ASSUME NEW e \in Devs, NEW x \in Docs
      PROVE  /\ x \in purged'[e] \/ Doc(e, x) \subseteq Doc(e, x)'
             /\ Knows(e, x) => Knows(e, x)'
    <2>1. CASE x = Tomb
        BY <1>2, <2>1 DEF Doc, Knows
    <2>2. CASE x # Tomb
        <3>1. x \in Notes
            BY <2>2 DEF Docs
        <3> QED
            BY <1>1, <1>2, <2>2, <3>1 DEF Doc, Knows
    <2> QED
        BY <2>1, <2>2
<1> QED
    BY <1>1, <1>2, <1>3, WritesTellNothing DEF QuietInv

\* Without a connection only what was said remains, or nothing at all.
LEMMA CutTellsNothing ==
    ASSUME PairInv, TalkInv, UNCHANGED <<row, purged>>, ~link',
           \A d \in Devs : chan'[d] = <<>>,
           \A e \in Devs, x \in Docs :
              \/ states'[e][x] = states[e][x]
              \/ ~states'[e][x].heard /\ ~states'[e][x].inFlight
                 /\ ~states'[e][x].responded /\ states'[e][x].lastSent = {},
           \A e \in Devs : side'[e] = "on" \/ side[e] # "on" \/
              \A x \in Docs : ~states'[e][x].heard /\ ~states'[e][x].inFlight
                              /\ ~states'[e][x].responded /\ states'[e][x].lastSent = {}
    PROVE  TalkInv'
<1>1. Reset'
    BY DEF TalkInv, Reset
<1>2. ASSUME NEW e \in Devs, NEW x \in Docs, x \notin purged'[e]
      PROVE  SaidIsHad(e, x)'
    <2>1. SaidIsHad(e, x) /\ Doc(e, x)' = Doc(e, x) /\ Other(e) \in Devs
        BY <1>2, TwoDevices DEF TalkInv, Doc
    <2>2. Of(chan'[Other(e)], x) = {}
        BY <2>1 DEF Of
    <2>3. states'[e][x].lastSent \subseteq Doc(e, x)
        BY <2>1 DEF SaidIsHad
    <2>4. states'[Other(e)][x].heard => states'[Other(e)][x].heads \subseteq Doc(e, x)
        BY <2>1 DEF SaidIsHad
    <2> QED
        BY <2>1, <2>2, <2>3, <2>4 DEF SaidIsHad
<1> QED
    BY <1>1, <1>2 DEF TalkInv

LEMMA ResumedIs ==
    ASSUME NEW s
    PROVE  /\ ~Resumed(s).heard /\ ~Resumed(s).inFlight
           /\ ~Resumed(s).responded /\ Resumed(s).lastSent = {}
           /\ ~Fresh.heard /\ ~Fresh.inFlight /\ ~Fresh.responded /\ Fresh.lastSent = {}
BY DEF Resumed, Fresh

LEMMA UncutTalk ==
    ASSUME QuietInv, Cut \/ \E d \in Devs : Restart(d)
    PROVE  TalkInv'
<1>1. UNCHANGED <<row, purged>> /\ ~link' /\ (\A d \in Devs : chan'[d] = <<>>)
    BY DEF Cut, Restart, storeVars
<1>2. CASE Cut
    <2>1. states' = states /\ side' = side
        BY <1>2 DEF Cut, engineVars
    <2> QED
        BY <1>1, <2>1, CutTellsNothing DEF QuietInv
<1>3. ASSUME NEW d \in Devs, Restart(d) PROVE TalkInv'
    <2>1. /\ states' = [states EXCEPT ![d] = [x \in Docs |-> Fresh]]
          /\ side' = [side EXCEPT ![d] = "off"]
        BY <1>3 DEF Restart
    <2>2. \A x \in Docs : states'[d][x] = Fresh
        BY <2>1 DEF QuietInv, PairInv, States
    <2>3. \A e \in Devs : e # d => states'[e] = states[e] /\ side'[e] = side[e]
        BY <2>1 DEF QuietInv, PairInv, States, Links
    <2> QED
        BY <1>1, <2>2, <2>3, CutTellsNothing, ResumedIs DEF QuietInv
<1> QED
    BY <1>2, <1>3

\* reset_peer and forget_peer are between connections, and so is the abort.
LEMMA EndTalk ==
    ASSUME QuietInv, NEW d \in Devs, ResetPeer(d) \/ ForgetPeer(d) \/ Abort(d)
    PROVE  TalkInv'
<1>1. UNCHANGED <<row, purged, link, chan>>
    BY DEF ResetPeer, ForgetPeer, Abort, storeVars, linkVars
<1>2. ~link /\ \A e \in Devs : chan[e] = <<>>
    BY DEF ResetPeer, ForgetPeer, Abort, QuietInv, TalkInv, Reset
<1>3. states \in [Devs -> [Docs -> State]]
    BY DEF QuietInv, PairInv, States
<1>4. CASE ResetPeer(d)
    <2>1. /\ states' = [states EXCEPT ![d] = [x \in Docs |-> Resumed(@[x])]]
          /\ side' = [side EXCEPT ![d] = "ending"]
        BY <1>4 DEF ResetPeer
    <2>2. \A x \in Docs : states'[d][x] = Resumed(states[d][x])
        BY <1>3, <2>1
    <2>3. \A e \in Devs : e # d => states'[e] = states[e] /\ side'[e] = side[e]
        BY <1>3, <2>1 DEF QuietInv, PairInv, Links
    <2> QED
        BY <1>1, <1>2, <2>2, <2>3, CutTellsNothing, ResumedIs DEF QuietInv
<1>5. CASE ForgetPeer(d)
    <2>1. states' = [states EXCEPT ![d] = [x \in Docs |-> Fresh]] /\ side' = side
        BY <1>5 DEF ForgetPeer, linkVars
    <2>2. \A x \in Docs : states'[d][x] = Fresh
        BY <1>3, <2>1
    <2>3. \A e \in Devs : e # d => states'[e] = states[e]
        BY <1>3, <2>1
    <2> QED
        BY <1>1, <1>2, <2>1, <2>2, <2>3, CutTellsNothing, ResumedIs DEF QuietInv
<1>6. CASE Abort(d)
    <2>1. states' = states /\ side[d] # "on" /\ side' = [side EXCEPT ![d] = "off"]
        BY <1>6 DEF Abort, engineVars
    <2>2. \A e \in Devs : side'[e] = side[e] \/ side[e] # "on"
        BY <2>1 DEF QuietInv, PairInv, Links
    <2>3. \A e \in Devs : side'[e] = "on" \/ side[e] # "on"
        BY <2>2
    <2> QED
        BY <1>1, <1>2, <2>1, <2>3, CutTellsNothing DEF QuietInv
<1> QED
    BY <1>4, <1>5, <1>6

LEMMA ConnectTalk ==
    ASSUME QuietInv, Connect
    PROVE  TalkInv'
<1>1. /\ ~link /\ link' /\ UNCHANGED <<row, purged, states, chan>>
      /\ \A d \in Devs : side[d] = "off" /\ side'[d] = "on"
    BY DEF Connect, storeVars, engineVars
<1>2. \A d \in Devs, x \in Docs :
        /\ ~states[d][x].heard /\ ~states[d][x].inFlight
        /\ ~states[d][x].responded /\ Of(chan[d], x) = {}
    BY <1>1 DEF QuietInv, TalkInv, Reset, Of
<1>3. Reset'
    BY <1>1 DEF Reset
<1>4. ASSUME NEW d \in Devs, NEW x \in Docs
      PROVE  /\ x \notin purged'[d] => SaidIsHad(d, x)' /\ SaidIsTold(d, x)'
             /\ Answers(d, x)' /\ Heeds(d, x)'
    <2>1. x \notin purged[d] => SaidIsHad(d, x)
        BY DEF QuietInv, TalkInv
    <2>2. x \notin purged'[d] => SaidIsHad(d, x)'
        BY <1>1, <2>1 DEF SaidIsHad, Doc
    <2>3. SaidIsTold(d, x)' /\ Answers(d, x)' /\ Heeds(d, x)'
        BY <1>1, <1>2 DEF SaidIsTold, Answers, Heeds
    <2> QED
        BY <2>2, <2>3
<1> QED
    BY <1>3, <1>4 DEF TalkInv

LEMMA TalkInit == Init => TalkInv
<1> SUFFICES ASSUME Init PROVE TalkInv
    OBVIOUS
<1>1. /\ ~link /\ \A d \in Devs : chan[d] = <<>>
      /\ \A d \in Devs, x \in Docs : states[d][x] = Fresh
    BY DEF Init
<1>2. Reset
    BY <1>1, ResumedIs DEF Reset
<1>3. ASSUME NEW d \in Devs, NEW x \in Docs PROVE SaidIsHad(d, x)
    <2>1. Of(chan[Other(d)], x) = {} /\ Other(d) \in Devs
        BY <1>1, TwoDevices DEF Of
    <2> QED
        BY <1>1, <2>1, ResumedIs DEF SaidIsHad
<1> QED
    BY <1>1, <1>2, <1>3 DEF TalkInv

-----------------------------------------------------------------------------
(* A round.                                                                  *)

LEMMA SetToSeqCovers ==
    ASSUME NEW S, IsFiniteSet(S), NEW x \in S
    PROVE  \E i \in 1 .. Len(SetToSeq(S)) : SetToSeq(S)[i] = x
<1> DEFINE n == Cardinality(S)
           f == SetToSeq(S)
<1>1. n \in Nat /\ ExistsBijection(1 .. n, S)
    BY FS_CardinalityType
<1>2. PICK g : g \in Bijection(1 .. n, S)
    BY <1>1, Zenon DEF ExistsBijection
<1>3. g \in [1 .. n -> S] /\ IsInjective(g)
    BY <1>2, Zenon DEF Bijection, Injection
<1>4. f \in [1 .. n -> S] /\ IsInjective(f)
    BY <1>3, Zenon DEF SetToSeq
<1>5. f \in Injection(1 .. n, S)
    BY <1>4 DEF Injection
<1>6. IsFiniteSet(1 .. n) /\ Cardinality(1 .. n) = n
    <2>1. 1 \in Int /\ n \in Int
        BY <1>1
    <2> HIDE DEF n
    <2> QED
        BY <1>1, <2>1, FS_Interval
<1> HIDE DEF n, f
<1>7. Cardinality(1 .. n) = Cardinality(S)
    BY <1>6 DEF n
<1>8. f \in Surjection(1 .. n, S)
    BY <1>5, <1>7, FS_Injection
<1>9. \E i \in 1 .. n : f[i] = x
    BY <1>8 DEF Surjection
<1>10. Len(f) = n
    BY <1>1, <1>4
<1> QED
    BY <1>9, <1>10 DEF f

LEMMA InOrderCovers ==
    ASSUME Stores, NEW d \in Devs, NEW ids \in SUBSET DocIds(d), NEW x \in ids
    PROVE  \E i \in 1 .. Len(InOrder(d, ids)) : InOrder(d, ids)[i] = x
<1> DEFINE A == ids \cap Stored(d)
           B == ids \cap {Tomb}
           C == ids \cap (parked[d] \ Stored(d))
<1>1. A \in SUBSET Notes /\ C \in SUBSET Notes
    BY DEF Stores, Stored
<1>2. IsFiniteSet(A) /\ IsFiniteSet(C)
    BY <1>1, FS_Subset, PairAssumption
<1>3. IsFiniteSet({Tomb}) /\ B \in SUBSET {Tomb}
    BY FS_Singleton
<1>4. IsFiniteSet(B)
    BY <1>3, FS_Subset
<1>5. SetToSeq(A) \in Seq(A) /\ SetToSeq(B) \in Seq(B) /\ SetToSeq(C) \in Seq(C)
    BY <1>2, <1>4, SetToSeqIs
<1>6. x \in A \/ x \in B \/ x \in C
    BY DEF DocIds
<1>7. InOrder(d, ids) = SetToSeq(A) \o SetToSeq(B) \o SetToSeq(C)
    BY DEF InOrder
<1> HIDE DEF A, B, C
<1> DEFINE a == SetToSeq(A)
           b == SetToSeq(B)
           c == SetToSeq(C)
<1>8. /\ x \in A => \E i \in 1 .. Len(a) : a[i] = x
      /\ x \in B => \E i \in 1 .. Len(b) : b[i] = x
      /\ x \in C => \E i \in 1 .. Len(c) : c[i] = x
    BY <1>2, <1>4, SetToSeqCovers
<1> HIDE DEF a, b, c
<1>9. a \in Seq(A) /\ b \in Seq(B) /\ c \in Seq(C)
    BY <1>5 DEF a, b, c
<1> DEFINE q == a \o b \o c
<1>10. /\ Len(a) \in Nat /\ Len(b) \in Nat /\ Len(c) \in Nat
       /\ Len(q) = Len(a) + Len(b) + Len(c)
       /\ \A i \in 1 .. Len(a) : i \in 1 .. Len(q) /\ q[i] = a[i]
       /\ \A i \in 1 .. Len(b) : Len(a) + i \in 1 .. Len(q) /\ q[Len(a) + i] = b[i]
       /\ \A i \in 1 .. Len(c) : Len(a) + Len(b) + i \in 1 .. Len(q)
                                 /\ q[Len(a) + Len(b) + i] = c[i]
    BY <1>9
<1> HIDE DEF q
<1>11. \E i \in 1 .. Len(q) : q[i] = x
    BY <1>6, <1>8, <1>10
<1> QED
    BY <1>7, <1>11 DEF q, a, b, c

LEMMA DocIsKnown ==
    ASSUME Stores, NEW d \in Devs, NEW x \in Docs
    PROVE  Doc(d, x) \in SUBSET Known(x)
BY DEF Stores, Doc, Known, Docs

LEMMA DocIsKnownThen ==
    ASSUME Stores', NEW d \in Devs, NEW x \in Docs
    PROVE  Doc(d, x)' \in SUBSET (Known(x)')
BY DEF Stores, Doc, Known, Docs

\* What a round says of a document, if anything, is what the device has.
LEMMA RoundSays ==
    ASSUME PairInv, Intact, NEW d \in Devs, NEW raced \in Notes \cup {None}, Round(d, raced)
    PROVE  \E msgs \in Seq(Message) :
             /\ chan' = Send(d, msgs)
             /\ \A x \in Docs :
                  \/ states'[d][x] = states[d][x] /\ Of(msgs, x) = {}
                  \/ /\ x \in DocIds(d) /\ Of(msgs, x) # {}
                     /\ \A j \in Of(msgs, x) : msgs[j].heads = Doc(d, x)'
                     /\ \/ states'[d][x] = states[d][x]
                        \/ /\ states'[d][x].lastSent = Doc(d, x)' /\ states'[d][x].responded
                           /\ states'[d][x].inFlight /\ states'[d][x].heard = states[d][x].heard
                           /\ states'[d][x].heads = states[d][x].heads
<1> DEFINE doc == [x \in DocIds(d) |-> Offered(d, x, row'[d])]
           out == [x \in DocIds(d) |-> Said(states[d][x], x, Offered(d, x, row'[d]))]
           some == {x \in DocIds(d) : out[x].msg # None}
           ids == InOrder(d, some)
           msgs == [i \in DOMAIN ids |-> out[ids[i]].msg]
           S == [x \in Docs |-> IF x \in DocIds(d) THEN out[x].state ELSE states[d][x]]
<1>16. \E o \in {out} : SayAll(d, o)
    BY Zenon DEF Round
<1>17. SayAll(d, out)
    BY <1>16, Zenon
<1>1. /\ IF raced = None THEN UNCHANGED <<row, next>> ELSE Write(d, raced) /\ ~CacheHit(d, raced)
      /\ purged' = purged /\ parked' = parked
      /\ states' = [states EXCEPT ![d] = S]
      /\ chan' = Send(d, msgs)
    <2>1. states' = [states EXCEPT ![d] = S] /\ chan' = Send(d, msgs)
        BY <1>17, Zenon DEF SayAll
    <2> HIDE DEF S, msgs
    <2> QED
        BY <2>1 DEF Round
<1>2. /\ next \in Changes /\ next' \in Changes /\ next <= next' /\ 0 .. next \subseteq 0 .. next'
      /\ Stores' /\ Minted' = Minted
      /\ \A e \in Devs, n \in Notes : row'[e][n] = {} <=> row[e][n] = {}
    BY <1>1, RacedDoes
<1>3. \A n \in Notes : row'[d][n] = row[d][n] \/ ~CacheHit(d, n)
    <2>1. CASE raced = None
        BY <1>1, <2>1
    <2>2. CASE raced # None
        <3>0. Stores /\ Rows /\ raced \in Notes /\ Write(d, raced) /\ UNCHANGED <<purged, parked>>
            BY <1>1, <2>2 DEF PairInv
        <3>1. \A k \in Notes : k # raced => row'[d][k] = row[d][k]
            BY <3>0, WriteDoes
        <3> QED
            BY <1>1, <2>2, <3>1
    <2> QED
        BY <2>1, <2>2
<1>4. row'[d] \in [Notes -> SUBSET Changes]
    <2>1. row' \in [Devs -> [Notes -> SUBSET (0 .. next')]] /\ 0 .. next' \subseteq Changes
        BY <1>2, PairAssumption DEF Stores, Changes
    <2> DEFINE A == SUBSET (0 .. next')
               B == SUBSET Changes
    <2>2. A \subseteq B /\ row'[d] \in [Notes -> A]
        BY <2>1
    <2> HIDE DEF A, B
    <2>3. row'[d] \in [Notes -> B]
        BY <2>2
    <2> QED
        BY <2>3 DEF B
<1>5. ASSUME NEW x \in DocIds(d)
      PROVE  x \in Docs /\ doc[x] = Doc(d, x)' /\ doc[x] \in Contents /\ states[d][x] \in State
    <2>1. x \in Docs /\ states[d][x] \in State
        BY DEF DocIds, Docs, Stored, PairInv, Stores, States
    <2>2. doc[x] = Doc(d, x)'
        <3> DEFINE now == row'[d]
        <3>1. /\ now \in [Notes -> SUBSET Changes]
              /\ \A n \in Notes : now[n] = {} <=> row[d][n] = {}
              /\ \A n \in Notes : now[n] = row[d][n] \/ ~CacheHit(d, n)
            BY <1>2, <1>3, <1>4
        <3>2. doc[x] = Offered(d, x, now)
            OBVIOUS
        <3> HIDE DEF now, doc, out, S, msgs, ids, some
        <3>4. listed[d] = purged[d] /\ purged' = purged
            BY <1>1 DEF Intact
        <3>3. Offered(d, x, now) = IF x = Tomb THEN purged[d] ELSE now[x]
            BY <3>1, <3>4, OfferedIsDoc
        <3>5. Doc(d, x)' = IF x = Tomb THEN purged[d] ELSE now[x]
            BY <3>4 DEF Doc, now
        <3> QED
            BY <3>2, <3>3, <3>5
    <2>3. Doc(d, x)' \in SUBSET (Known(x)') /\ SUBSET (Known(x)') \subseteq Contents
        BY <1>2, <2>1, DocIsKnownThen, KnownIsThen
    <2> QED
        BY <2>1, <2>2, <2>3
<1>6. ASSUME NEW x \in DocIds(d)
      PROVE  /\ out[x].msg = None => out[x].state = states[d][x]
             /\ out[x].msg # None =>
                   /\ out[x].msg.doc = x /\ out[x].msg.heads = Doc(d, x)'
                   /\ LET s == out[x].state IN
                      \/ s = states[d][x]
                      \/ /\ s.lastSent = Doc(d, x)' /\ s.responded /\ s.inFlight
                         /\ s.heard = states[d][x].heard /\ s.heads = states[d][x].heads
    <2>1. doc[x] # None
        BY <1>5, NoneAssumption
    <2>2. out[x] = Generate(states[d][x], x, doc[x])
        BY <2>1 DEF Said
    <2>3. x \in Docs /\ doc[x] = Doc(d, x)' /\ doc[x] \in Contents /\ states[d][x] \in State
        BY <1>5
    <2> DEFINE s == states[d][x]
               mine == doc[x]
               g == Generate(s, x, mine)
    <2>4. s \in State /\ mine \in Contents /\ g = out[x] /\ mine = Doc(d, x)'
        BY <2>2, <2>3
    <2> HIDE DEF s, mine, out, doc
    <2>5. /\ g.msg = None => g.state = s
          /\ g.msg # None => /\ g.msg.doc = x /\ g.msg.heads = mine
                             /\ \/ g.state = s
                                \/ /\ g.state.lastSent = mine /\ g.state.responded
                                   /\ g.state.inFlight /\ g.state.heard = s.heard
                                   /\ g.state.heads = s.heads
        BY <2>3, <2>4, GeneratedIs
    <2> HIDE DEF g
    <2> QED
        BY <2>4, <2>5 DEF s
<1>7. ASSUME NEW x \in some PROVE out[x].msg \in Message /\ out[x].msg.doc = x
    <2>1. x \in DocIds(d) /\ out[x].msg # None /\ x \in Docs
        BY <1>5
    <2>2. doc[x] # None
        BY <1>5, <2>1, NoneAssumption
    <2>3. out[x] = Generate(states[d][x], x, doc[x])
        BY <2>1, <2>2 DEF Said
    <2>4. doc[x] \in SUBSET (Known(x)')
        BY <1>2, <1>5, <2>1, DocIsKnownThen
    <2>5. states[d][x] \in StateOf(Known(x)') /\ MessageOf(x, Known(x)') \subseteq Message
        <3>1. Known(x) \subseteq Known(x)' /\ states[d][x] \in StateOf(Known(x))
            BY <1>2, <2>1, KnownGrows DEF PairInv, States
        <3> QED
            BY <1>2, <2>1, <3>1, KnownIsThen, MoreFits
    <2> HIDE DEF doc, out
    <2>6. out[x].msg \in MessageOf(x, Known(x)')
        BY <2>1, <2>3, <2>4, <2>5, GenerateFits
    <2> QED
        BY <1>6, <2>1, <2>5, <2>6
<1> HIDE DEF doc, out
<1>8. ids \in Seq(some) /\ \A x \in some : \E i \in 1 .. Len(ids) : ids[i] = x
    <2>1. some \in SUBSET DocIds(d) /\ Stores
        BY DEF PairInv
    <2> HIDE DEF some
    <2> QED
        BY <2>1, InOrderIs, InOrderCovers
<1>9. S = [x \in Docs |-> IF x \in DocIds(d) THEN out[x].state ELSE states[d][x]]
    OBVIOUS
<1> HIDE DEF S, ids
<1>10. \A x \in Docs : states'[d][x] = IF x \in DocIds(d) THEN out[x].state ELSE states[d][x]
    BY <1>1, <1>9 DEF PairInv, States
<1>11. some = {x \in DocIds(d) : out[x].msg # None}
    OBVIOUS
<1> HIDE DEF some
<1>12. /\ Len(ids) \in Nat /\ msgs = [i \in 1 .. Len(ids) |-> out[ids[i]].msg]
       /\ \A i \in 1 .. Len(ids) : ids[i] \in some
    BY <1>8
<1> HIDE DEF msgs
<1>13. msgs \in Seq(Message) /\ Len(msgs) = Len(ids)
    BY <1>7, <1>12
<1>14. \A i \in 1 .. Len(msgs) : ids[i] \in some /\ msgs[i] = out[ids[i]].msg /\ msgs[i].doc = ids[i]
    BY <1>7, <1>12, <1>13
<1>15. ASSUME NEW x \in Docs
       PROVE  \/ states'[d][x] = states[d][x] /\ Of(msgs, x) = {}
              \/ /\ x \in DocIds(d) /\ Of(msgs, x) # {}
                 /\ \A j \in Of(msgs, x) : msgs[j].heads = Doc(d, x)'
                 /\ \/ states'[d][x] = states[d][x]
                    \/ /\ states'[d][x].lastSent = Doc(d, x)' /\ states'[d][x].responded
                       /\ states'[d][x].inFlight /\ states'[d][x].heard = states[d][x].heard
                       /\ states'[d][x].heads = states[d][x].heads
    <2>1. \A j \in Of(msgs, x) : x \in some /\ msgs[j] = out[x].msg
        BY <1>14 DEF Of
    <2>2. CASE x \notin some
        <3>1. Of(msgs, x) = {}
            BY <2>1, <2>2
        <3>2. states'[d][x] = states[d][x]
            BY <1>6, <1>10, <1>11, <2>2
        <3> QED
            BY <3>1, <3>2
    <2>3. CASE x \in some
        <3>1. x \in DocIds(d) /\ out[x].msg # None
            BY <1>11, <2>3
        <3>2. PICK i \in 1 .. Len(ids) : ids[i] = x
            BY <1>8, <2>3
        <3>3. i \in Of(msgs, x)
            BY <1>13, <1>14, <3>2 DEF Of
        <3>4. \A j \in Of(msgs, x) : msgs[j].heads = Doc(d, x)'
            BY <1>6, <2>1, <3>1
        <3>5. states'[d][x] = out[x].state
            BY <1>10, <3>1
        <3> QED
            BY <1>6, <3>1, <3>3, <3>4, <3>5
    <2> QED
        BY <2>2, <2>3
<1> QED
    BY <1>1, <1>13, <1>15

\* What a device sends arrives behind what is on the way to its peer.
LEMMA SentIs ==
    ASSUME chan \in [Devs -> Seq(Message)], NEW d \in Devs, NEW msgs, chan' = Send(d, msgs)
    PROVE  /\ link => chan'[Other(d)] = chan[Other(d)] \o msgs
           /\ ~link => chan' = chan
           /\ chan'[d] = chan[d]
<1>1. Other(d) \in Devs /\ Other(d) # d
    BY TwoDevices
<1>2. CASE link
    <2>1. chan' = [chan EXCEPT ![Other(d)] = @ \o msgs]
        BY <1>2 DEF Send
    <2> QED
        BY <1>1, <1>2, <2>1
<1>3. CASE ~link
    BY <1>3 DEF Send
<1> QED
    BY <1>2, <1>3

LEMMA RoundTalk ==
    ASSUME QuietInv, ~LateRounds, NEW d \in Devs, NEW raced \in Notes \cup {None},
           Round(d, raced)
    PROVE  TalkInv'
<1> DEFINE e == Other(d)
<1>1. /\ e \in Devs /\ e # d /\ Other(e) = d /\ \A f \in Devs : f = d \/ f = e
    BY TwoDevices
<1>2. PICK msgs \in Seq(Message) :
         /\ chan' = Send(d, msgs)
         /\ \A x \in Docs :
              \/ states'[d][x] = states[d][x] /\ Of(msgs, x) = {}
              \/ /\ x \in DocIds(d) /\ Of(msgs, x) # {}
                 /\ \A j \in Of(msgs, x) : msgs[j].heads = Doc(d, x)'
                 /\ \/ states'[d][x] = states[d][x]
                    \/ /\ states'[d][x].lastSent = Doc(d, x)' /\ states'[d][x].responded
                       /\ states'[d][x].inFlight /\ states'[d][x].heard = states[d][x].heard
                       /\ states'[d][x].heads = states[d][x].heads
    BY RoundSays DEF QuietInv
<1>3. chan \in [Devs -> Seq(Message)] /\ states \in [Devs -> [Docs -> State]]
    BY DEF QuietInv, PairInv, Messages, States
<1>4. /\ link => chan'[e] = chan[e] \o msgs
      /\ ~link => chan' = chan
      /\ chan'[d] = chan[d]
    BY <1>2, <1>3, SentIs
<1>5. /\ IF raced = None THEN UNCHANGED <<row, next>> ELSE Write(d, raced) /\ ~CacheHit(d, raced)
      /\ purged' = purged /\ parked' = parked /\ link' = link /\ side' = side
      /\ side[d] = "on"
    BY DEF Round, linkVars
<1>6. states'[e] = states[e]
    BY <1>1, <1>3 DEF Round, SayAll
<1>7. /\ \A n \in Notes : row'[d][n] = {} <=> row[d][n] = {}
      /\ \A n \in Notes : row[d][n] \subseteq row'[d][n]
      /\ \A n \in Notes : row'[e][n] = row[e][n]
    <2>1. CASE raced = None
        BY <1>5, <2>1
    <2>2. CASE raced # None
        <3>1. Stores /\ Rows /\ raced \in Notes /\ Write(d, raced) /\ UNCHANGED <<purged, parked>>
            BY <1>5, <2>2 DEF QuietInv, PairInv
        <3>2. /\ row[d][raced] # {} /\ row'[d][raced] = row[d][raced] \cup {next + 1}
              /\ \A f \in Devs, k \in Notes : f # d \/ k # raced => row'[f][k] = row[f][k]
            BY <3>1, WriteDoes
        <3> QED
            BY <1>1, <3>2
    <2> QED
        BY <2>1, <2>2
<1>8. \A x \in Docs : /\ Doc(d, x) \subseteq Doc(d, x)' /\ Doc(e, x)' = Doc(e, x)
                      /\ Knows(d, x)' <=> Knows(d, x)
                      /\ Knows(e, x)' <=> Knows(e, x)
    BY <1>5, <1>7 DEF Doc, Knows, Docs
<1>9. \A x \in DocIds(d) : Knows(d, x)
    BY DEF DocIds, Knows, Stored
<1>10. Reset'
    <2>1. link' => \A f \in Devs : side'[f] = "on"
        BY <1>5 DEF QuietInv, TalkInv, Reset
    <2>2. ~link' => \A f \in Devs : chan'[f] = <<>>
        BY <1>4, <1>5 DEF QuietInv, TalkInv, Reset
    <2>3. ASSUME NEW f \in Devs, side'[f] # "on", NEW x \in Docs
          PROVE  ~states'[f][x].heard /\ ~states'[f][x].inFlight
                 /\ ~states'[f][x].responded /\ states'[f][x].lastSent = {}
        <3>1. f = e /\ states'[f] = states[f]
            BY <1>1, <1>5, <1>6, <2>3
        <3> QED
            BY <1>5, <2>3, <3>1 DEF QuietInv, TalkInv, Reset
    <2> QED
        BY <2>1, <2>2, <2>3 DEF Reset
<1> HIDE DEF e
<1>11. ASSUME NEW x \in Docs
       PROVE  /\ x \notin purged'[d] => SaidIsHad(d, x)' /\ (link' => SaidIsTold(d, x)')
              /\ x \notin purged'[e] => SaidIsHad(e, x)' /\ (link' => SaidIsTold(e, x)')
              /\ link' => Answers(d, x)' /\ Answers(e, x)' /\ Heeds(d, x)' /\ Heeds(e, x)'
    <2> DEFINE S == states[d][x]
               T == states'[d][x]
               said == Of(msgs, x) # {}
    <2>1. /\ Doc(d, x) \subseteq Doc(d, x)' /\ Doc(e, x)' = Doc(e, x)
          /\ Knows(d, x)' <=> Knows(d, x)
          /\ Knows(e, x)' <=> Knows(e, x)
        BY <1>8
    <2>2. T.heard = S.heard /\ T.heads = S.heads /\ (~said => T = S)
        BY <1>2
    <2>3. T = S \/ (T.lastSent = Doc(d, x)' /\ T.responded /\ T.inFlight /\ said)
        BY <1>2
    <2>4. said => x \in DocIds(d) /\ \A j \in Of(msgs, x) : msgs[j].heads = Doc(d, x)'
        BY <1>2
    <2>5. /\ link => (Of(chan'[e], x) # {} <=> Of(chan[e], x) # {} \/ said)
          /\ link /\ ~said => \A h : EndsWith(chan'[e], x, h) <=> EndsWith(chan[e], x, h)
          /\ link => \A i \in Of(chan'[e], x) :
                        \/ i \in Of(chan[e], x) /\ chan'[e][i] = chan[e][i]
                        \/ \E j \in Of(msgs, x) : chan'[e][i] = msgs[j]
          /\ link /\ said => EndsWith(chan'[e], x, Doc(d, x)')
        <3>1. chan[e] \in Seq(Message)
            BY <1>1, <1>3
        <3>2. /\ Of(chan[e] \o msgs, x) # {} <=> Of(chan[e], x) # {} \/ Of(msgs, x) # {}
              /\ Of(msgs, x) = {} =>
                    \A h : EndsWith(chan[e] \o msgs, x, h) <=> EndsWith(chan[e], x, h)
              /\ \A i \in Of(chan[e] \o msgs, x) :
                    \/ i \in Of(chan[e], x) /\ (chan[e] \o msgs)[i] = chan[e][i]
                    \/ \E j \in Of(msgs, x) : (chan[e] \o msgs)[i] = msgs[j]
              /\ \A h : Of(msgs, x) # {} /\ (\A j \in Of(msgs, x) : msgs[j].heads = h)
                           => EndsWith(chan[e] \o msgs, x, h)
            BY <3>1, MessagesAppended
        <3> QED
            BY <1>4, <2>4, <3>2
    <2>6. /\ x \notin purged[d] => SaidIsHad(d, x) /\ (link => SaidIsTold(d, x))
          /\ x \notin purged[e] => SaidIsHad(e, x) /\ (link => SaidIsTold(e, x))
          /\ link => Answers(d, x) /\ Answers(e, x) /\ Heeds(d, x) /\ Heeds(e, x)
        BY <1>1 DEF QuietInv, TalkInv
    <2>7. /\ states'[e][x] = states[e][x] /\ chan'[d] = chan[d] /\ purged' = purged
          /\ link' = link /\ Other(d) = e /\ Other(e) = d
        BY <1>1, <1>4, <1>5, <1>6 DEF e
    <2> HIDE DEF said
    <2>8. ASSUME x \notin purged'[d] PROVE SaidIsHad(d, x)'
        <3>1. SaidIsHad(d, x)
            BY <2>6, <2>7, <2>8
        <3>2. T.lastSent \subseteq Doc(d, x)'
            BY <2>1, <2>3, <2>7, <3>1 DEF SaidIsHad
        <3>3. \A i \in Of(chan'[e], x) : chan'[e][i].heads \subseteq Doc(d, x)'
            <4>1. CASE link
                <5>1. ASSUME NEW i \in Of(chan'[e], x)
                      PROVE  chan'[e][i].heads \subseteq Doc(d, x)'
                    <6>1. CASE i \in Of(chan[e], x) /\ chan'[e][i] = chan[e][i]
                        BY <2>1, <2>7, <3>1, <6>1 DEF SaidIsHad
                    <6>2. CASE \E j \in Of(msgs, x) : chan'[e][i] = msgs[j]
                        BY <2>4, <6>2 DEF said
                    <6> QED
                        BY <2>5, <4>1, <6>1, <6>2
                <5> QED
                    BY <5>1
            <4>2. CASE ~link
                BY <1>4, <2>1, <2>7, <3>1, <4>2 DEF SaidIsHad
            <4> QED
                BY <4>1, <4>2
        <3>4. states'[e][x].heard => states'[e][x].heads \subseteq Doc(d, x)'
            BY <2>1, <2>7, <3>1 DEF SaidIsHad
        <3> QED
            BY <2>7, <3>2, <3>3, <3>4 DEF SaidIsHad
    <2>9. ASSUME x \notin purged'[e] PROVE SaidIsHad(e, x)' /\ (link' => SaidIsTold(e, x)')
        <3>1. SaidIsHad(e, x) /\ (link => SaidIsTold(e, x))
            BY <2>6, <2>7, <2>9
        <3>2. SaidIsHad(e, x)'
            BY <2>1, <2>2, <2>7, <3>1 DEF SaidIsHad
        <3>3. link => SaidIsTold(e, x)'
            BY <2>1, <2>2, <2>7, <3>1 DEF SaidIsTold, Told
        <3> QED
            BY <2>7, <3>2, <3>3
    <2>10. ASSUME x \notin purged'[d], link' PROVE SaidIsTold(d, x)'
        <3>1. SaidIsHad(d, x) /\ SaidIsTold(d, x)
            BY <2>6, <2>7, <2>10
        <3>2. CASE said
            <4>1. Of(chan'[e], x) # {} /\ EndsWith(chan'[e], x, Doc(d, x)')
                BY <2>5, <2>7, <2>10, <3>2
            <4> QED
                BY <2>7, <4>1 DEF SaidIsTold, Told
        <3>3. CASE ~said
            <4>1. T.lastSent = Doc(d, x)' => Doc(d, x)' = Doc(d, x)
                BY <2>1, <2>2, <3>1, <3>3 DEF SaidIsHad
            <4>2. \A h : Told(e, x, h) => (Told(e, x, h))'
                BY <2>5, <2>7, <2>10, <3>3 DEF Told
            <4> QED
                BY <2>2, <2>7, <3>1, <3>3, <4>1, <4>2 DEF SaidIsTold
        <3> QED
            BY <3>2, <3>3
    <2>11. ASSUME link' PROVE Answers(d, x)' /\ Answers(e, x)'
        <3>1. Answers(d, x) /\ Answers(e, x)
            BY <2>6, <2>7, <2>11
        <3>2. Answers(d, x)'
            BY <2>2, <2>5, <2>7, <2>11, <3>1 DEF Answers
        <3>3. Answers(e, x)'
            BY <2>2, <2>5, <2>7, <2>11, <3>1 DEF Answers
        <3> QED
            BY <3>2, <3>3
    <2>12. ASSUME link' PROVE Heeds(d, x)' /\ Heeds(e, x)'
        <3>1. Heeds(d, x) /\ Heeds(e, x)
            BY <2>6, <2>7, <2>12
        <3>2. Heeds(d, x)'
            BY <2>1, <2>2, <2>5, <2>7, <2>12, <3>1 DEF Heeds
        <3>3. said => Knows(d, x)
            BY <1>9, <2>4
        <3>4. Heeds(e, x)'
            BY <2>1, <2>2, <2>5, <2>7, <2>12, <3>1, <3>3 DEF Heeds
        <3> QED
            BY <3>2, <3>4
    <2> QED
        BY <2>8, <2>9, <2>10, <2>11, <2>12
<1> QED
    BY <1>1, <1>10, <1>11 DEF TalkInv

-----------------------------------------------------------------------------
(* A message and its reply.                                                  *)

LEMMA ReceiveDocs ==
    ASSUME PairInv, Intact, NEW d \in Devs, NEW done \in SUBSET purging[d],
           ReceiveMessage(d, done), NEW m, m = Head(chan[d])
    PROVE  /\ m.doc \in Docs /\ next' = next /\ (m.doc # Tomb => purged' = purged)
           /\ m.doc # Tomb => \/ row'[d][m.doc] # {} \/ m.doc \in parked'[d]
                              \/ m.doc \in purged[d]
           /\ purged[d] \subseteq purged'[d]
           /\ \A x \in Docs :
                /\ x \in purged'[d] \/ Doc(d, x) \subseteq Doc(d, x)'
                /\ x # m.doc => x \in purged'[d] \/ Doc(d, x)' = Doc(d, x)
                /\ Knows(d, x) \/ x = m.doc => Knows(d, x)'
           /\ LET e == Other(d) IN
              /\ purged'[e] = purged[e]
              /\ \A x \in Docs : Doc(e, x)' = Doc(e, x) /\ (Knows(e, x)' <=> Knows(e, x))
<1> DEFINE x == m.doc
           new == Current(d, x) \cup m.changes
           e == Other(d)
<1>1. /\ m \in MessageOf(x, Known(x)) /\ x \in Docs /\ next' = next
      /\ Current(d, x) \in SUBSET Known(x)
    BY ReceiveStores DEF Minted, Docs
<1>2. IF x = Tomb THEN AdoptTombstones(d, new, done) ELSE Keep(d, x, new)
    <2> DEFINE h == Head(chan[d])
    <2>1. IF h.doc = Tomb THEN AdoptTombstones(d, Current(d, h.doc) \cup h.changes, done)
          ELSE Keep(d, h.doc, Current(d, h.doc) \cup h.changes)
        BY Zenon DEF ReceiveMessage
    <2>2. m = h
        OBVIOUS
    <2> HIDE DEF h
    <2> QED
        BY <2>1, <2>2
<1>3. /\ row \in [Devs -> [Notes -> SUBSET (0 .. next)]] /\ purged \in [Devs -> SUBSET Notes]
      /\ parked \in [Devs -> SUBSET Notes]
    BY DEF PairInv, Stores
<1>4. e \in Devs /\ e # d
    BY TwoDevices
<1> HIDE DEF x, e
<1>5. CASE x = Tomb
    <2> DEFINE all == purged[d] \cup (new \cup {p.note : p \in done})
               gone == new \cup {p.note : p \in done}
    <2>1. /\ purged' = [purged EXCEPT ![d] = @ \cup gone] /\ parked' = parked
          /\ row' = [row EXCEPT ![d] = [n \in Notes |-> IF n \in gone THEN {} ELSE @[n]]]
        BY <1>2, <1>5 DEF AdoptTombstones, Erase
    <2>2. Current(d, x) = purged[d] /\ purged[d] \subseteq gone /\ all = gone
        BY <1>5 DEF Current, Intact
    <2> HIDE DEF new, gone
    <2>3. /\ purged'[d] = gone /\ purged'[e] = purged[e] /\ row'[e] = row[e]
          /\ \A n \in Notes : row'[d][n] = IF n \in gone THEN {} ELSE row[d][n]
        BY <1>3, <1>4, <2>1, <2>2 DEF gone
    <2>4. ASSUME NEW z \in Docs
          PROVE  /\ z \in purged'[d] \/ Doc(d, z) \subseteq Doc(d, z)'
                 /\ z # x => z \in purged'[d] \/ Doc(d, z)' = Doc(d, z)
                 /\ Knows(d, z) \/ z = x => Knows(d, z)'
                 /\ Doc(e, z)' = Doc(e, z) /\ (Knows(e, z)' <=> Knows(e, z))
        <3>1. CASE z = Tomb
            BY <1>5, <2>2, <2>3, <3>1 DEF Doc, Knows
        <3>2. CASE z # Tomb
            <4>1. z \in Notes /\ z # x
                BY <1>5, <3>2 DEF Docs
            <4> QED
                BY <2>1, <2>2, <2>3, <3>2, <4>1 DEF Doc, Knows
        <3> QED
            BY <3>1, <3>2
    <2> QED
        BY <1>1, <1>5, <2>2, <2>3, <2>4 DEF x, e
<1>6. CASE x # Tomb
    <2>1. /\ row' = IF Hydrates(new) /\ x \notin purged[d]
                    THEN [row EXCEPT ![d][x] = @ \cup new] ELSE row
          /\ parked' = [parked EXCEPT ![d] = IF Hydrates(new) THEN @ \ {x} ELSE @ \cup {x}]
          /\ purged' = purged
        BY <1>2, <1>6 DEF Keep, MayKeep
    <2>2. x \in Notes
        BY <1>1, <1>6 DEF Docs
    <2> HIDE DEF new
    <2>3. Hydrates(new) => new # {}
        BY DEF Hydrates
    <2>4. row'[e] = row[e] /\ parked'[e] = parked[e]
        BY <1>3, <1>4, <2>1
    <2>5. /\ \A n \in Notes : n # x => row'[d][n] = row[d][n]
          /\ row'[d][x] = IF Hydrates(new) /\ x \notin purged[d] THEN row[d][x] \cup new
                          ELSE row[d][x]
        BY <1>3, <2>1, <2>2
    <2>6. parked'[d] = IF Hydrates(new) THEN parked[d] \ {x} ELSE parked[d] \cup {x}
        BY <1>3, <2>1
    <2>7. row'[d][x] # {} \/ x \in parked'[d] \/ x \in purged[d]
        BY <2>3, <2>5, <2>6
    <2>8. \A n \in Notes : row[d][n] \subseteq row'[d][n]
        BY <2>5
    <2>9. ASSUME NEW z \in Docs
          PROVE  /\ Doc(d, z) \subseteq Doc(d, z)'
                 /\ z # x => Doc(d, z)' = Doc(d, z)
                 /\ Knows(d, z) \/ z = x => Knows(d, z)'
                 /\ Doc(e, z)' = Doc(e, z) /\ (Knows(e, z)' <=> Knows(e, z))
        <3>1. CASE z = Tomb
            BY <1>6, <2>1, <3>1 DEF Doc, Knows
        <3>2. CASE z # Tomb /\ z # x
            <4>1. z \in Notes
                BY <3>2 DEF Docs
            <4>2. row'[d][z] = row[d][z] /\ (z \in parked'[d] <=> z \in parked[d])
                BY <2>5, <2>6, <3>2, <4>1
            <4> QED
                BY <2>1, <2>4, <3>2, <4>1, <4>2 DEF Doc, Knows
        <3>3. CASE z = x
            <4>1. /\ Doc(d, x) = row[d][x] /\ Doc(d, x)' = row'[d][x]
                  /\ Doc(e, x) = row[e][x] /\ Doc(e, x)' = row'[e][x]
                BY <1>6 DEF Doc
            <4>2. Doc(d, x) \subseteq Doc(d, x)' /\ Doc(e, x)' = Doc(e, x)
                BY <2>2, <2>4, <2>8, <4>1
            <4>3. Knows(d, x)' /\ (Knows(e, x)' <=> Knows(e, x))
                BY <2>1, <2>4, <2>7 DEF Knows
            <4> QED
                BY <3>3, <4>2, <4>3
        <3> QED
            BY <3>1, <3>2, <3>3
    <2> QED
        BY <1>1, <1>6, <2>1, <2>7, <2>9 DEF x, e
<1> QED
    BY <1>5, <1>6

\* What a device says when it has taken in m, about y: what it now has of it;
\* or nothing, when the peer has the same or y is purged here.
Says(d, m, y, said) ==
  /\ chan'[Other(d)] = Send(d, said)[Other(d)]
  /\ chan'[d] = Tail(chan[d])
  /\ states'[Other(d)] = states[Other(d)]
  /\ \A z \in Docs : z # y => states'[d][z] = states[d][z] /\ Of(said, z) = {}
  /\ states'[d][y].heard /\ states'[d][y].heads = m.heads
  /\ \/ /\ y \in purged'[d] /\ ~states'[d][y].inFlight
        /\ states'[d][y].responded = states[d][y].responded
     \/ /\ states'[d][y].responded /\ ~states'[d][y].inFlight
        /\ states'[d][y].lastSent = Doc(d, y)' /\ states'[d][y].heads = Doc(d, y)'
        /\ Of(said, y) = {}
     \/ /\ Of(said, y) # {} /\ \A j \in Of(said, y) : said[j].heads = Doc(d, y)'
        /\ states'[d][y].lastSent \in {{}, Doc(d, y), Doc(d, y)', states[d][y].lastSent}

LEMMA ReceiveSays ==
    ASSUME PairInv, PairInv', Intact, Intact', NEW d \in Devs,
           NEW done \in SUBSET purging[d], ReceiveMessage(d, done),
           NEW m, m = Head(chan[d]), NEW y, y = m.doc
    PROVE  \E said \in Seq(Message) : Says(d, m, y, said)
<1> DEFINE x == m.doc
           K == Known(x)
           s == states[d][x]
           mine == Replied(d, x)
           after == Receive(s, Current(d, x), m)
           silent == mine = None
           reply == Said(after, x, mine)
           T == reply.state
           said == IF reply.msg = None THEN <<>> ELSE <<reply.msg>>
<1>1. /\ states' = [states EXCEPT ![d][x] = T]
      /\ chan' = [e \in Devs |-> IF e = d THEN Tail(chan[d]) ELSE Send(d, said)[e]]
    BY Zenon DEF ReceiveMessage
<1>2. /\ x \in Docs /\ next' = next /\ (x # Tomb => purged' = purged)
      /\ x # Tomb => row'[d][x] # {} \/ x \in parked'[d] \/ x \in purged[d]
    BY ReceiveDocs
<1>3. m \in MessageOf(x, K) /\ Current(d, x) \in SUBSET K
    BY ReceiveStores
<1>4. mine = Doc(d, x)' \/ (silent /\ x \in purged'[d])
    BY <1>2, RepliedIsDoc
<1>5. Current(d, x) = Doc(d, x)
    BY <1>2 DEF Current, Doc, PairInv, Rows, Docs, Intact
<1>6. /\ next \in Changes /\ s \in StateOf(K) /\ s \in State
    BY <1>2 DEF PairInv, Stores, States
<1>7. StateOf(K) \subseteq State /\ MessageOf(x, K) \subseteq Message /\ SUBSET K \subseteq Contents
    BY <1>2, <1>6, KnownIs, ContentsKnown
<1>8. Doc(d, x)' \in SUBSET K
    <2>1. Known(x)' = Known(x)
        BY <1>2 DEF Known
    <2> QED
        BY <1>2, <2>1, DocIsKnownThen DEF PairInv
<1>9. /\ Other(d) \in Devs /\ Other(d) # d /\ states \in [Devs -> [Docs -> State]]
    BY TwoDevices DEF PairInv, States
<1> HIDE DEF x, K
<1>10. /\ after \in StateOf(K) /\ after \in State
       /\ after.heard /\ ~after.inFlight /\ after.heads = m.heads
       /\ after.responded = s.responded
       /\ after.lastSent \in {{}, Doc(d, x), s.lastSent}
    <2>1. after \in StateOf(K)
        BY <1>3, <1>6, ReceiveFits
    <2> DEFINE cur == Current(d, x)
    <2> HIDE DEF s
    <2>2. /\ after.heard /\ ~after.inFlight /\ after.heads = m.heads
          /\ after.responded = s.responded /\ after.lastSent \in {{}, cur, s.lastSent}
        BY <1>6, ReceivedIs
    <2> QED
        BY <1>5, <1>7, <2>1, <2>2
<1>11. /\ x = y
       /\ chan'[Other(d)] = Send(d, said)[Other(d)]
       /\ chan'[d] = Tail(chan[d])
       /\ states'[Other(d)] = states[Other(d)]
       /\ states'[d][x] = T
       /\ \A z \in Docs : z # x => states'[d][z] = states[d][z]
    <2>1. x = y
        BY DEF x
    <2> HIDE DEF T, said
    <2> QED
        BY <1>1, <1>2, <1>9, <2>1
<1> HIDE DEF after, mine
<1>12. CASE silent
    <2>1. said = <<>> /\ T = after /\ x \in purged'[d]
        <3>0. reply = [msg |-> None, state |-> after]
            BY <1>12 DEF Said
        <3>1. x \in purged'[d]
            <4>1. Doc(d, x)' # None
                BY <1>7, <1>8, NoneAssumption
            <4> QED
                BY <1>4, <1>12, <4>1
        <3> QED
            BY <3>0, <3>1
    <2> HIDE DEF said, T
    <2>2. said \in Seq(Message) /\ \A z : Of(said, z) = {}
        BY <2>1 DEF Of
    <2> QED
        BY <1>10, <1>11, <2>1, <2>2 DEF s, Says
<1>13. CASE ~silent
    <2>1. mine = Doc(d, x)' /\ mine \in SUBSET K /\ mine \in Contents
        BY <1>4, <1>7, <1>8, <1>13
    <2>2. /\ reply.msg = None => /\ reply.state = after /\ after.responded
                                 /\ after.lastSent = mine
                                 /\ after.inFlight \/ (after.heard /\ after.heads = mine)
          /\ reply.msg # None =>
                /\ reply.msg.doc = x /\ reply.msg.heads = mine
                /\ \/ reply.state = after
                   \/ /\ reply.state.lastSent = mine /\ reply.state.heard = after.heard
                      /\ reply.state.heads = after.heads
        <3>1. x \in Docs /\ after \in State /\ mine \in Contents
            BY <1>2, <1>10, <2>1
        <3>2. reply = Generate(after, x, mine)
            BY <1>13 DEF Said
        <3> HIDE DEF T, said, silent, reply
        <3> QED
            BY <3>1, <3>2, GeneratedIs
    <2>3. reply.msg = None \/ reply.msg \in Message
        <3>1. reply = Generate(after, x, mine)
            BY <1>13 DEF Said
        <3> HIDE DEF T, said, silent, reply
        <3> QED
            BY <1>7, <1>10, <2>1, <3>1, GenerateFits
    <2> HIDE DEF reply
    <2>4. CASE reply.msg = None
        <3>1. said = <<>> /\ T = after
            BY <1>13, <2>2, <2>4
        <3> HIDE DEF said, T
        <3>2. said \in Seq(Message) /\ \A z : Of(said, z) = {}
            BY <3>1 DEF Of
        <3>3. /\ T.responded /\ ~T.inFlight /\ T.lastSent = Doc(d, x)' /\ T.heads = Doc(d, x)'
              /\ T.heard /\ T.heads = m.heads /\ Of(said, x) = {}
            BY <1>10, <2>1, <2>2, <2>4, <3>1, <3>2
        <3> QED
            BY <1>11, <3>2, <3>3 DEF Says
    <2>5. CASE reply.msg # None
        <3>1. said = <<reply.msg>> /\ T = reply.state
            BY <1>13, <2>5
        <3>2. reply.msg \in Message /\ reply.msg.doc = x /\ reply.msg.heads = Doc(d, x)'
            BY <2>1, <2>2, <2>3, <2>5
        <3>3. said \in Seq(Message) /\ 1 \in Of(said, x) /\ \A z : \A j \in Of(said, z) : j = 1
            BY <3>1, <3>2 DEF Of
        <3>4. said[1] = reply.msg
            BY <3>1
        <3> HIDE DEF said, T
        <3>5. /\ Of(said, x) # {} /\ \A j \in Of(said, x) : said[j].heads = Doc(d, x)'
              /\ \A z : z # x => Of(said, z) = {}
            BY <3>2, <3>3, <3>4 DEF Of
        <3>6. /\ T.heard /\ T.heads = m.heads
              /\ T.lastSent \in {{}, Doc(d, x), Doc(d, x)', s.lastSent}
            BY <1>10, <2>1, <2>2, <2>5, <3>1
        <3> QED
            BY <1>11, <3>3, <3>5, <3>6 DEF s, Says
    <2> QED
        BY <2>4, <2>5
<1> QED
    BY <1>12, <1>13

LEMMA ReceiveTalk ==
    ASSUME QuietInv, PairInv', Intact', NEW d \in Devs, NEW done \in SUBSET purging[d],
           ReceiveMessage(d, done), NEW m, m = Head(chan[d]), NEW y, y = m.doc
    PROVE  TalkInv'
<1>0. m = Head(chan[d])
    OBVIOUS
<1>9. y = m.doc
    OBVIOUS
<1>10. PICK said \in Seq(Message) : Says(d, m, y, said)
    <2>1. PairInv /\ Intact
        BY DEF QuietInv
    <2> QED
        BY <2>1, ReceiveSays
<1> DEFINE e == Other(d)
           S == states[d][y]
           T == states'[d][y]
<1>1. /\ e \in Devs /\ e # d /\ Other(e) = d /\ \A f \in Devs : f = d \/ f = e
    BY TwoDevices
<1>2. /\ chan'[e] = Send(d, said)[e]
      /\ chan'[d] = Tail(chan[d])
      /\ states'[e] = states[e]
      /\ \A z \in Docs : z # y => states'[d][z] = states[d][z] /\ Of(said, z) = {}
      /\ T.heard /\ T.heads = m.heads
      /\ \/ y \in purged'[d] /\ ~T.inFlight /\ T.responded = S.responded
         \/ /\ T.responded /\ ~T.inFlight
            /\ T.lastSent = Doc(d, y)' /\ T.heads = Doc(d, y)' /\ Of(said, y) = {}
         \/ /\ Of(said, y) # {} /\ \A j \in Of(said, y) : said[j].heads = Doc(d, y)'
            /\ T.lastSent \in {{}, Doc(d, y), Doc(d, y)', S.lastSent}
    BY <1>10 DEF Says
<1>3. /\ chan[d] \in Seq(Message) /\ chan[e] \in Seq(Message)
      /\ chan[d] # <<>> /\ side[d] = "on" /\ link' = link /\ side' = side
    BY <1>1 DEF ReceiveMessage, linkVars, QuietInv, PairInv, Messages
<1>4. link /\ Reset'
    BY <1>3 DEF QuietInv, TalkInv, Reset
<1>5. chan'[e] = chan[e] \o said
    <2>1. Send(d, said) = [chan EXCEPT ![e] = @ \o said]
        BY <1>4 DEF Send
    <2> QED
        BY <1>1, <1>2, <2>1 DEF QuietInv, PairInv, Messages
<1>6. /\ y \in Docs /\ purged[d] \subseteq purged'[d] /\ purged'[e] = purged[e]
      /\ \A x \in Docs :
           /\ x \in purged'[d] \/ Doc(d, x) \subseteq Doc(d, x)'
           /\ x # y => x \in purged'[d] \/ Doc(d, x)' = Doc(d, x)
           /\ Knows(d, x) \/ x = y => Knows(d, x)'
           /\ Doc(e, x)' = Doc(e, x) /\ (Knows(e, x)' <=> Knows(e, x))
    BY <1>0, <1>9, ReceiveDocs DEF QuietInv
<1>7. m = chan[d][1]
    BY <1>0, <1>3, MessageTaken
<1> HIDE DEF e
<1>8. ASSUME NEW x \in Docs
      PROVE  /\ x \notin purged'[d] => SaidIsHad(d, x)' /\ SaidIsTold(d, x)'
             /\ x \notin purged'[e] => SaidIsHad(e, x)' /\ SaidIsTold(e, x)'
             /\ Answers(d, x)' /\ Answers(e, x)' /\ Heeds(d, x)' /\ Heeds(e, x)'
    <2>1. /\ x \in purged'[d] \/ Doc(d, x) \subseteq Doc(d, x)'
          /\ x # y => x \in purged'[d] \/ Doc(d, x)' = Doc(d, x)
          /\ Knows(d, x) \/ x = y => Knows(d, x)'
          /\ Doc(e, x)' = Doc(e, x) /\ (Knows(e, x)' <=> Knows(e, x))
        BY <1>6
    <2>2. /\ x \notin purged[d] => SaidIsHad(d, x) /\ SaidIsTold(d, x)
          /\ x \notin purged[e] => SaidIsHad(e, x) /\ SaidIsTold(e, x)
          /\ Answers(d, x) /\ Answers(e, x) /\ Heeds(d, x) /\ Heeds(e, x)
        BY <1>1, <1>4 DEF QuietInv, TalkInv
    <2>3. /\ states'[e][x] = states[e][x] /\ purged[d] \subseteq purged'[d]
          /\ purged'[e] = purged[e] /\ Other(d) = e /\ Other(e) = d
        BY <1>1, <1>2, <1>6 DEF e
    \* What is on the way to the peer.
    <2>4. /\ Of(chan'[e], x) # {} <=> Of(chan[e], x) # {} \/ Of(said, x) # {}
          /\ Of(said, x) = {} => \A h : EndsWith(chan'[e], x, h) <=> EndsWith(chan[e], x, h)
          /\ \A i \in Of(chan'[e], x) :
                \/ i \in Of(chan[e], x) /\ chan'[e][i] = chan[e][i]
                \/ \E j \in Of(said, x) : chan'[e][i] = said[j]
          /\ \A h : Of(said, x) # {} /\ (\A j \in Of(said, x) : said[j].heads = h)
                       => EndsWith(chan'[e], x, h)
        <3>1. /\ Of(chan[e] \o said, x) # {} <=> Of(chan[e], x) # {} \/ Of(said, x) # {}
              /\ Of(said, x) = {} =>
                    \A h : EndsWith(chan[e] \o said, x, h) <=> EndsWith(chan[e], x, h)
              /\ \A i \in Of(chan[e] \o said, x) :
                    \/ i \in Of(chan[e], x) /\ (chan[e] \o said)[i] = chan[e][i]
                    \/ \E j \in Of(said, x) : (chan[e] \o said)[i] = said[j]
              /\ \A h : Of(said, x) # {} /\ (\A j \in Of(said, x) : said[j].heads = h)
                           => EndsWith(chan[e] \o said, x, h)
            BY <1>3, MessagesAppended
        <3> QED
            BY <1>5, <3>1
    \* What is still on the way to the device.
    <2>5. /\ \A i \in Of(chan'[d], x) : i + 1 \in Of(chan[d], x) /\ chan'[d][i] = chan[d][i + 1]
          /\ x = y => 1 \in Of(chan[d], x)
          /\ x # y => (Of(chan'[d], x) # {} <=> Of(chan[d], x) # {})
          /\ \A h : EndsWith(chan[d], x, h) =>
                IF Of(chan'[d], x) # {} THEN EndsWith(chan'[d], x, h)
                ELSE x = y /\ m.heads = h
        <3>1. /\ \A i \in Of(Tail(chan[d]), x) : i + 1 \in Of(chan[d], x)
                                                 /\ Tail(chan[d])[i] = chan[d][i + 1]
              /\ chan[d][1].doc = x => 1 \in Of(chan[d], x)
              /\ chan[d][1].doc # x => (Of(Tail(chan[d]), x) # {} <=> Of(chan[d], x) # {})
              /\ \A h : EndsWith(chan[d], x, h) =>
                    IF Of(Tail(chan[d]), x) # {} THEN EndsWith(Tail(chan[d]), x, h)
                    ELSE chan[d][1].doc = x /\ chan[d][1].heads = h
            BY <1>3, MessageTaken
        <3>2. chan'[d] = Tail(chan[d])
            BY <1>2
        <3> QED
            BY <1>7, <1>9, <3>1, <3>2
    <2>6. CASE x = y
        <3>1. /\ T.heard /\ T.heads = m.heads
              /\ \/ y \in purged'[d] /\ ~T.inFlight /\ T.responded = S.responded
                 \/ /\ T.responded /\ ~T.inFlight
                    /\ T.lastSent = Doc(d, y)' /\ T.heads = Doc(d, y)' /\ Of(said, y) = {}
                 \/ /\ Of(said, y) # {} /\ \A j \in Of(said, y) : said[j].heads = Doc(d, y)'
                    /\ T.lastSent \in {{}, Doc(d, y), Doc(d, y)', S.lastSent}
            BY <1>2
        <3> HIDE DEF S
        <3>2. ASSUME y \notin purged'[d] PROVE SaidIsHad(d, y)' /\ SaidIsTold(d, y)'
            <4>1. SaidIsHad(d, y) /\ Doc(d, y) \subseteq Doc(d, y)'
                BY <2>1, <2>2, <2>3, <2>6, <3>2
            <4>2. T.lastSent \subseteq Doc(d, y)'
                BY <3>1, <3>2, <4>1 DEF SaidIsHad, S
            <4>3. \A i \in Of(chan'[e], y) : chan'[e][i].heads \subseteq Doc(d, y)'
                <5>1. ASSUME NEW i \in Of(chan'[e], y)
                      PROVE  chan'[e][i].heads \subseteq Doc(d, y)'
                    <6>1. CASE i \in Of(chan[e], y) /\ chan'[e][i] = chan[e][i]
                        BY <2>3, <4>1, <6>1 DEF SaidIsHad
                    <6>2. CASE \E j \in Of(said, y) : chan'[e][i] = said[j]
                        <7>1. \A j \in Of(said, y) : said[j].heads = Doc(d, y)'
                            BY <3>1, <3>2
                        <7> QED
                            BY <6>2, <7>1
                    <6> QED
                        BY <2>4, <2>6, <6>1, <6>2
                <5> QED
                    BY <5>1
            <4>4. states'[e][y].heard => states'[e][y].heads \subseteq Doc(d, y)'
                BY <2>3, <2>6, <4>1 DEF SaidIsHad
            <4>5. SaidIsHad(d, y)'
                BY <2>3, <4>2, <4>3, <4>4 DEF SaidIsHad
            <4>6. SaidIsTold(d, y)'
                <5>1. CASE T.heads = Doc(d, y)'
                    BY <3>1, <5>1 DEF SaidIsTold
                <5>2. CASE Of(said, y) # {} /\ \A j \in Of(said, y) : said[j].heads = Doc(d, y)'
                    <6>1. Of(chan'[e], y) # {} /\ EndsWith(chan'[e], y, Doc(d, y)')
                        BY <2>4, <2>6, <5>2
                    <6> QED
                        BY <2>3, <6>1 DEF SaidIsTold, Told
                <5> QED
                    BY <3>1, <3>2, <5>1, <5>2
            <4> QED
                BY <4>5, <4>6
        <3>3. ASSUME y \notin purged'[e] PROVE SaidIsHad(e, y)' /\ SaidIsTold(e, y)'
            <4>1. SaidIsHad(e, y) /\ SaidIsTold(e, y) /\ Doc(e, y)' = Doc(e, y)
                BY <2>1, <2>2, <2>3, <2>6, <3>3
            <4>2. m.heads \subseteq Doc(e, y)
                BY <1>7, <2>3, <2>5, <2>6, <4>1 DEF SaidIsHad
            <4>3. SaidIsHad(e, y)'
                <5>1. states'[e][y].lastSent \subseteq Doc(e, y)'
                    BY <2>3, <2>6, <4>1 DEF SaidIsHad
                <5>2. \A i \in Of(chan'[d], y) : chan'[d][i].heads \subseteq Doc(e, y)'
                    BY <2>3, <2>5, <2>6, <4>1 DEF SaidIsHad
                <5>3. states'[d][y].heads \subseteq Doc(e, y)'
                    BY <2>6, <3>1, <4>1, <4>2
                <5> QED
                    BY <2>3, <5>1, <5>2, <5>3 DEF SaidIsHad
            <4>4. ASSUME NEW h, Told(d, y, h)
                  PROVE  IF Of(chan'[d], y) = {} THEN T.heard /\ T.heads = h
                         ELSE EndsWith(chan'[d], y, h)
                <5>1. EndsWith(chan[d], y, h)
                    BY <2>5, <2>6, <4>4 DEF Told
                <5> QED
                    BY <2>5, <2>6, <3>1, <5>1
            <4>5. SaidIsTold(e, y)'
                BY <2>3, <2>6, <4>1, <4>4 DEF SaidIsTold, Told
            <4> QED
                BY <4>3, <4>5
        <3>4. Answers(d, y)' /\ Answers(e, y)'
            <4>1. Of(said, y) # {} \/ ~T.inFlight
                BY <3>1
            <4>2. Answers(d, y)'
                BY <2>3, <2>4, <2>6, <4>1 DEF Answers
            <4>3. Of(said, y) # {} \/ y \in purged'[d]
                  \/ (T.heard /\ T.responded /\ T.heads = T.lastSent)
                BY <3>1
            <4>4. Answers(e, y)'
                BY <2>3, <2>4, <2>6, <4>3 DEF Answers
            <4> QED
                BY <4>2, <4>4
        <3>5. Heeds(d, y)' /\ Heeds(e, y)'
            <4>1. Heeds(d, y) /\ Heeds(e, y) /\ Of(chan[d], y) # {}
                BY <2>2, <2>5, <2>6
            <4>2. Knows(d, y)' /\ (Knows(e, y)' <=> Knows(e, y))
                BY <2>1, <2>6
            <4>3. Knows(e, y)
                BY <2>3, <4>1 DEF Heeds
            <4>4. Heeds(d, y)'
                BY <2>3, <4>2, <4>3 DEF Heeds
            <4>5. Heeds(e, y)'
                BY <2>3, <4>2 DEF Heeds
            <4> QED
                BY <4>4, <4>5
        <3> QED
            BY <2>6, <3>2, <3>3, <3>4, <3>5
    <2>7. CASE x # y
        <3>1. states'[d][x] = states[d][x] /\ Of(said, x) = {}
            BY <1>2, <2>7
        <3>2. /\ Of(chan'[e], x) # {} <=> Of(chan[e], x) # {}
              /\ \A h : EndsWith(chan'[e], x, h) <=> EndsWith(chan[e], x, h)
              /\ \A i \in Of(chan'[e], x) : i \in Of(chan[e], x) /\ chan'[e][i] = chan[e][i]
            BY <2>4, <3>1
        <3>3. /\ Of(chan'[d], x) # {} <=> Of(chan[d], x) # {}
              /\ \A h : EndsWith(chan[d], x, h) => EndsWith(chan'[d], x, h)
              /\ \A i \in Of(chan'[d], x) : i + 1 \in Of(chan[d], x)
                                            /\ chan'[d][i] = chan[d][i + 1]
            <4>1. \A h : EndsWith(chan[d], x, h) => EndsWith(chan'[d], x, h)
                BY <2>5, <2>7
            <4> QED
                BY <2>5, <2>7, <4>1
        <3>4. ASSUME x \notin purged'[d] PROVE SaidIsHad(d, x)' /\ SaidIsTold(d, x)'
            <4>1. SaidIsHad(d, x) /\ SaidIsTold(d, x) /\ Doc(d, x)' = Doc(d, x)
                BY <2>1, <2>2, <2>3, <2>7, <3>4
            <4>2. SaidIsHad(d, x)'
                BY <2>3, <3>1, <3>2, <4>1 DEF SaidIsHad
            <4>3. SaidIsTold(d, x)'
                BY <2>3, <3>1, <3>2, <4>1 DEF SaidIsTold, Told
            <4> QED
                BY <4>2, <4>3
        <3>5. ASSUME x \notin purged'[e] PROVE SaidIsHad(e, x)' /\ SaidIsTold(e, x)'
            <4>1. SaidIsHad(e, x) /\ SaidIsTold(e, x) /\ Doc(e, x)' = Doc(e, x)
                BY <2>1, <2>2, <2>3, <3>5
            <4>2. SaidIsHad(e, x)'
                BY <2>3, <3>1, <3>3, <4>1 DEF SaidIsHad
            <4>3. SaidIsTold(e, x)'
                BY <2>3, <3>1, <3>3, <4>1 DEF SaidIsTold, Told
            <4> QED
                BY <4>2, <4>3
        <3>6. Answers(d, x)' /\ Answers(e, x)'
            <4>1. Answers(d, x) /\ Answers(e, x)
                BY <2>2
            <4> QED
                BY <2>3, <3>1, <3>2, <3>3, <4>1 DEF Answers
        <3>7. Heeds(d, x)' /\ Heeds(e, x)'
            <4>1. Heeds(d, x) /\ Heeds(e, x)
                BY <2>2
            <4> QED
                BY <2>1, <2>3, <3>1, <3>2, <3>3, <4>1 DEF Heeds
        <3> QED
            BY <3>4, <3>5, <3>6, <3>7
    <2> QED
        BY <2>6, <2>7
<1> QED
    BY <1>1, <1>4, <1>8 DEF TalkInv

LEMMA TalkStep ==
    ASSUME ~LateRounds, QuietInv, PairInv', Intact', [Next]_vars
    PROVE  TalkInv'
<1>1. ASSUME NEW d \in Devs, NEW n \in Notes, Create(d, n) PROVE TalkInv'
    BY <1>1, CreateTalk
<1>2. ASSUME NEW d \in Devs, NEW n \in Notes, Edit(d, n) PROVE TalkInv'
    BY <1>2, EditTalk
<1>10. ASSUME NEW d \in Devs, NEW n \in Notes, BeginPurge(d, n) PROVE TalkInv'
    BY <1>10, BeginPurgeTalk
<1>3. ASSUME NEW d \in Devs, NEW p \in purging[d], PurgeNote(d, p) PROVE TalkInv'
    BY <1>3, PurgeTalk
<1>4. ASSUME NEW d \in Devs, NEW raced \in Notes \cup {None}, Round(d, raced) PROVE TalkInv'
    BY <1>4, RoundTalk
<1>5. ASSUME NEW d \in Devs, NEW done \in SUBSET purging[d], ReceiveMessage(d, done)
      PROVE  TalkInv'
    <2>1. PICK m : m = Head(chan[d])
        OBVIOUS
    <2>2. PICK y : y = m.doc
        OBVIOUS
    <2> QED
        BY <1>5, <2>1, <2>2, ReceiveTalk
<1>6. CASE Connect
    BY <1>6, ConnectTalk
<1>7. CASE Cut \/ \E d \in Devs : Restart(d)
    BY <1>7, UncutTalk
<1>8. ASSUME NEW d \in Devs, ResetPeer(d) \/ Abort(d) \/ ForgetPeer(d) PROVE TalkInv'
    BY <1>8, EndTalk
<1>9. CASE UNCHANGED vars
    <2>1. /\ UNCHANGED <<states, chan, link, side>> /\ UNCHANGED <<row, purged, parked>>
        BY <1>9 DEF vars, storeVars, engineVars, linkVars
    <2>2. ASSUME NEW d \in Devs, NEW x \in Docs
          PROVE  Doc(d, x)' = Doc(d, x) /\ (Knows(d, x) => Knows(d, x)')
        BY <2>1 DEF Doc, Knows
    <2> QED
        BY <2>1, <2>2, WritesTellNothing DEF QuietInv
<1> QED
    BY <1>1, <1>2, <1>3, <1>4, <1>5, <1>6, <1>7, <1>8, <1>9, <1>10 DEF Next

\* What a tombstone document has lost stays on record.
LEMMA DroppedGrows == [Next]_vars => dropped \subseteq dropped'
<1> SUFFICES ASSUME [Next]_vars PROVE dropped \subseteq dropped'
    OBVIOUS
<1>1. ASSUME NEW d \in Devs, NEW done \in SUBSET purging[d], ReceiveMessage(d, done)
      PROVE  dropped \subseteq dropped'
    <2> DEFINE m == Head(chan[d])
               new == Current(d, m.doc) \cup m.changes
    <2>1. IF m.doc = Tomb THEN AdoptTombstones(d, new, done) ELSE Keep(d, m.doc, new)
        BY <1>1, Zenon DEF ReceiveMessage
    <2> HIDE DEF new, m
    <2> QED
        BY <2>1 DEF AdoptTombstones, Erase, Keep, tombVars
<1>2. ASSUME NEW d \in Devs, NEW p \in purging[d], PurgeNote(d, p)
      PROVE  dropped \subseteq dropped'
    BY <1>2 DEF PurgeNote, Erase
<1>3. ASSUME NEW d \in Devs, NEW n \in Notes \cup {None},
             Create(d, n) \/ Edit(d, n) \/ BeginPurge(d, n) \/ Round(d, n) \/ Connect \/ Cut
             \/ ResetPeer(d) \/ Abort(d) \/ ForgetPeer(d) \/ Restart(d)
      PROVE  dropped' = dropped
    <2>1. Create(d, n) \/ Edit(d, n) \/ BeginPurge(d, n) => dropped' = dropped
        BY DEF Create, Edit, BeginPurge, tombVars
    <2>2. Round(d, n) => dropped' = dropped
        BY DEF Round, tombVars
    <2>3. Connect \/ Cut \/ ResetPeer(d) \/ Abort(d) \/ ForgetPeer(d) \/ Restart(d)
             => dropped' = dropped
        BY DEF Connect, Cut, ResetPeer, Abort, ForgetPeer, Restart, storeVars, tombVars
    <2> QED
        BY <1>3, <2>1, <2>2, <2>3
<1>4. CASE Connect \/ Cut
    BY <1>4 DEF Connect, Cut, storeVars, tombVars
<1>5. CASE UNCHANGED vars
    BY <1>5 DEF vars, storeVars, tombVars
<1> QED
    BY <1>1, <1>2, <1>3, <1>4, <1>5 DEF Next

LEMMA QuietInvHolds ==
    ASSUME LateRounds = FALSE
    PROVE  Spec => [](dropped = {} => QuietInv)
<1> DEFINE I == PairInv /\ (dropped = {} => TalkInv)
<1>1. Init => I
    BY PairInit, TalkInit
<1>2. I /\ [Next]_vars => I'
    <2> SUFFICES ASSUME I, [Next]_vars PROVE I'
        OBVIOUS
    <2>1. PairInv /\ ~LateRounds
        OBVIOUS
    <2>2. PairInv'
        BY <2>1, PairStep
    <2>3. ASSUME dropped' = {} PROVE TalkInv'
        <3>1. dropped = {}
            BY <2>3, DroppedGrows
        <3>2. QuietInv
            BY <3>1, NothingDropped DEF QuietInv
        <3>3. (dropped = {} => Intact)'
            BY <2>2 DEF PairInv, Tombs, Intact
        <3> QED
            BY <2>1, <2>2, <2>3, <3>2, <3>3, TalkStep
    <2> QED
        BY <2>2, <2>3
<1>3. I => (dropped = {} => QuietInv)
    BY NothingDropped DEF QuietInv
<1> HIDE DEF I
<1> QED
    BY <1>1, <1>2, <1>3, PTL DEF Spec

-----------------------------------------------------------------------------
(* Nothing more to say.                                                      *)

\* Of a document a device offers and has not purged: it told all it has, and
\* either asks for an answer or heard the same; nothing is on the way.
LEMMA SilentAbout ==
    ASSUME QuietInv, Quiet, NEW d \in Devs, NEW x \in DocIds(d) \ purged[d]
    PROVE  LET s == states[d][x] IN
           /\ s.responded /\ s.lastSent = Doc(d, x)
           /\ s.inFlight \/ (s.heard /\ s.heads = Doc(d, x))
<1>1. /\ x \in Docs /\ row[d] \in [Notes -> SUBSET Changes] /\ states[d][x] \in State
      /\ Doc(d, x) \in Contents
    <2>1. /\ row \in [Devs -> [Notes -> SUBSET (0 .. next)]] /\ next \in Changes
          /\ parked \in [Devs -> SUBSET Notes]
        BY DEF QuietInv, PairInv, Stores
    <2>2. x \in Docs
        BY <2>1 DEF DocIds, Stored, Docs
    <2>3. (0 .. next) \subseteq Changes
        BY <2>1, PairAssumption DEF Changes
    <2>4. row[d] \in [Notes -> SUBSET Changes]
        <3> DEFINE A == SUBSET (0 .. next)
                   B == SUBSET Changes
        <3>1. A \subseteq B /\ row[d] \in [Notes -> A]
            BY <2>1, <2>3
        <3> HIDE DEF A, B
        <3>2. row[d] \in [Notes -> B]
            BY <3>1
        <3> QED
            BY <3>2 DEF B
    <2>5. Doc(d, x) \in Contents
        BY <2>1, <2>2, DocIsKnown, ContentsKnown DEF QuietInv, PairInv
    <2> QED
        BY <2>2, <2>4, <2>5 DEF QuietInv, PairInv, States
<1>2. Offered(d, x, row[d]) = Doc(d, x)
    BY <1>1, OfferedIsDoc DEF Doc, QuietInv, Intact
<1>3. Doc(d, x) # None
    BY <1>1, NoneAssumption
<1>4. Generate(states[d][x], x, Doc(d, x)).msg = None
    BY <1>2, <1>3 DEF Quiet, NothingToSay
<1> QED
    BY <1>1, <1>4, GeneratedIs

LEMMA NothingOnTheWay ==
    ASSUME Quiet, NEW d \in Devs, NEW x, x \notin purged[d]
    PROVE  Of(chan[d], x) = {}
BY DEF Quiet, Of

LEMMA SameWhenQuiet ==
    ASSUME QuietInv, Quiet, NEW d \in Devs, NEW x \in DocIds(d) \ purged[d],
           x \notin purged[Other(d)]
    PROVE  Doc(d, x) = Doc(Other(d), x)
<1> DEFINE e == Other(d)
           s == states[d][x]
           t == states[e][x]
<1>1. e \in Devs /\ Other(e) = d
    BY TwoDevices
<1>2. x \in Docs /\ x \notin purged[d] /\ x \notin purged[e]
    BY DEF QuietInv, PairInv, Stores, DocIds, Stored, Docs
<1>3. Of(chan[d], x) = {} /\ Of(chan[e], x) = {}
    BY <1>1, <1>2, NothingOnTheWay
<1>4. /\ SaidIsHad(d, x) /\ SaidIsHad(e, x) /\ SaidIsTold(d, x) /\ SaidIsTold(e, x)
      /\ Answers(d, x) /\ Answers(e, x) /\ Heeds(d, x)
    BY <1>1, <1>2 DEF QuietInv, TalkInv, Quiet
<1>5. s.responded /\ s.lastSent = Doc(d, x) /\ (s.inFlight \/ (s.heard /\ s.heads = Doc(d, x)))
    BY SilentAbout
<1>6. x \in DocIds(e)
    <2>1. Knows(e, x)
        BY <1>3, <1>4, <1>5 DEF Heeds
    <2> QED
        BY <1>2, <2>1 DEF Knows, DocIds, Stored, Docs
<1>7. t.responded /\ t.lastSent = Doc(e, x) /\ (t.inFlight \/ (t.heard /\ t.heads = Doc(e, x)))
    BY <1>1, <1>2, <1>6, SilentAbout
<1>8. /\ s.inFlight => t.heard /\ t.heads = Doc(e, x)
      /\ t.inFlight => s.heard /\ s.heads = Doc(d, x)
    BY <1>1, <1>2, <1>3, <1>4, <1>5, <1>7 DEF Answers
<1>9. /\ (s.heard /\ s.heads = Doc(d, x)) \/ (t.heard /\ t.heads = Doc(d, x))
      /\ (t.heard /\ t.heads = Doc(e, x)) \/ (s.heard /\ s.heads = Doc(e, x))
    BY <1>1, <1>3, <1>4, <1>5, <1>7 DEF SaidIsTold, Told
<1>10. /\ t.heard => t.heads \subseteq Doc(d, x)
       /\ s.heard => s.heads \subseteq Doc(e, x)
    BY <1>1, <1>4 DEF SaidIsHad
<1>11. Doc(d, x) = Doc(e, x)
    <2> HIDE DEF e, s, t
    <2>1. CASE s.heard /\ s.heads = Doc(d, x)
        <3>1. CASE t.heard /\ t.heads = Doc(e, x)
            <4>1. Doc(e, x) \subseteq Doc(d, x) /\ Doc(d, x) \subseteq Doc(e, x)
                BY <1>10, <2>1, <3>1
            <4> QED
                BY <4>1
        <3>2. CASE s.heard /\ s.heads = Doc(e, x)
            BY <2>1, <3>2
        <3> QED
            BY <1>9, <3>1, <3>2
    <2>2. CASE ~(s.heard /\ s.heads = Doc(d, x))
        BY <1>5, <1>8, <1>9, <2>2
    <2> QED
        BY <2>1, <2>2
<1> QED
    BY <1>11 DEF e

LEMMA QuietMeansAgree == QuietInv /\ Quiet => Agree
<1> SUFFICES ASSUME QuietInv, Quiet PROVE Agree
    OBVIOUS
<1>1. /\ row \in [Devs -> [Notes -> SUBSET (0 .. next)]] /\ purged \in [Devs -> SUBSET Notes]
      /\ \A d \in Devs, n \in Notes : row[d][n] # {} => n \notin purged[d]
    BY DEF QuietInv, PairInv, Stores, Rows
<1>2. ASSUME NEW d \in Devs PROVE purged[d] = purged[Other(d)]
    <2>1. Tomb \in DocIds(d) /\ Tomb \notin purged[d] /\ Tomb \notin purged[Other(d)]
        BY <1>1, TwoDevices, PairAssumption DEF DocIds
    <2>2. Doc(d, Tomb) = Doc(Other(d), Tomb)
        BY <2>1, SameWhenQuiet
    <2> QED
        BY <2>2 DEF Doc
<1>3. ASSUME NEW d \in Devs, NEW n \in Notes PROVE row[d][n] = row[Other(d)][n]
    <2> DEFINE e == Other(d)
    <2>1. e \in Devs /\ Other(e) = d /\ purged[e] = purged[d] /\ n # Tomb
        BY <1>2, TwoDevices, PairAssumption
    <2>2. ASSUME NEW f \in Devs, row[f][n] # {} PROVE row[f][n] = row[Other(f)][n]
        <3>1. n \in DocIds(f) /\ n \notin purged[f] /\ n \notin purged[Other(f)]
            BY <1>1, <1>2, <2>2 DEF DocIds, Stored
        <3> QED
            BY <2>1, <3>1, SameWhenQuiet DEF Doc
    <2> QED
        BY <2>1, <2>2
<1>4. \A d, e \in Devs : e = d \/ e = Other(d)
    BY TwoDevices
<1>5. ASSUME NEW d \in Devs PROVE row[d] = row[Other(d)]
    BY <1>1, <1>3, TwoDevices
<1> QED
    BY <1>2, <1>4, <1>5 DEF Agree

\* As long as no round runs between reset_peer and the end of the session, and
\* no tombstone document has lost an id to one that overlapped its write, two
\* connected devices that have nothing more to say to each other have the same
\* notes and the same purges, whatever was written, cut, forgotten or restarted
\* before (sync_round, receive_message, reset_peer, forget_peer).
THEOREM QuietPairAgrees ==
    ASSUME LateRounds = FALSE
    PROVE  Spec => []QuietAgrees
<1>1. (dropped = {} => QuietInv) => QuietAgrees
    BY QuietMeansAgree DEF QuietAgrees
<1> QED
    BY <1>1, QuietInvHolds, PTL
===============================================================================
