------------------------------ MODULE SyncPair ------------------------------
(***************************************************************************)
(* The sync engines of two paired devices.  Each keeps, per document, an   *)
(* Automerge sync state for its peer, the documents that do not hydrate    *)
(* yet, and a cache of parsed rows keyed by their modified_at stamp.       *)
(* Messages travel in order over one stream that may be cut; what the      *)
(* other processes of a device write to its rows is seen here as steps of  *)
(* the device that need no lock (NoteStore is about those).  The tombstone *)
(* document is read and later replaced whole, by a purge and by the engine, *)
(* so that of two that overlap one is undone.                              *)
(*                                                                         *)
(* A note is the set of its Automerge changes, 0 creates it.  The highest  *)
(* number among concurrent changes wins, as the highest operation id does. *)
(* The tombstone document is the set of ids it lists.                      *)
(***************************************************************************)
EXTENDS Naturals, Sequences, FiniteSets, SequencesExt, FiniteSetsExt

CONSTANTS Devs,        \* the two devices
          Notes,       \* note ids
          Tomb,        \* TOMBSTONES_DOC_ID
          MaxChange,   \* bound: edits after creation
          MaxCuts,     \* bound: lost connections and restarts
          MaxQueue,    \* bound: messages on the way before a round waits
          Creator,     \* the device that creates the notes
          LateRounds,  \* TRUE: a round may run between reset_peer and abort
          None         \* no stamp, no cached parse, no document

ASSUME PairAssumption ==
  /\ IsFiniteSet(Devs) /\ Cardinality(Devs) = 2 /\ Creator \in Devs
  /\ IsFiniteSet(Notes) /\ Tomb \notin Notes
  /\ MaxChange \in Nat /\ MaxCuts \in Nat /\ MaxQueue \in Nat \ {0}
  /\ LateRounds \in BOOLEAN

Docs == Notes \cup {Tomb}
Changes == 0 .. MaxChange
Contents == (SUBSET Changes) \cup (SUBSET Notes)
Other(d) == CHOOSE e \in Devs : e # d

VARIABLES row,      \* notes.doc per device and id, {} where there is no row
          purged,   \* table `purged' of each device
          listed,   \* ids its tombstone document lists
          purging,  \* purges other processes of it have begun: the note, and the
                    \* tombstone document that each is going to store
          dropped,  \* history: ids a replaced tombstone document has lost
          parked,   \* SyncEngine.pending: known ids whose document is still empty
          loaded,   \* SyncEngine.loaded: the parsed document, or None
          stamps,   \* SyncEngine.stamps: modified_at when it was parsed, or None
          states,   \* SyncEngine.states, of the one peer
          chan,     \* messages on the way to each device
          link,     \* whether the connection is up
          side,     \* the session of each device: "on", "ending" or "off"
          next,     \* number of the last change made
          cuts      \* connections lost and processes restarted so far

tombVars == <<listed, purging, dropped>>
storeVars == <<row, purged, tombVars, next>>
engineVars == <<parked, loaded, stamps, states>>
linkVars == <<link, side, cuts>>
vars == <<storeVars, engineVars, chan, linkVars>>

Message == [doc: Docs, heads: Contents, last: Contents, knows: Contents, changes: Contents]

State == [shared: Contents, heard: BOOLEAN, heads: Contents, last: Contents,
          knows: Contents, sent: Contents, lastSent: Contents,
          inFlight: BOOLEAN, responded: BOOLEAN]

Fresh == [shared |-> {}, heard |-> FALSE, heads |-> {}, last |-> {},
          knows |-> {}, sent |-> {}, lastSent |-> {},
          inFlight |-> FALSE, responded |-> FALSE]

Purges == [note: Notes, doc: SUBSET Notes]

ASSUME NoneAssumption ==
  /\ None \notin Changes /\ None \notin Message /\ \A c \in Contents : c # None
  /\ None \notin Purges

TypeOK ==
  /\ row \in [Devs -> [Notes -> SUBSET Changes]]
  /\ purged \in [Devs -> SUBSET Notes]
  /\ listed \in [Devs -> SUBSET Notes] /\ \A d \in Devs : listed[d] \subseteq purged[d]
  /\ purging \in [Devs -> SUBSET Purges] /\ dropped \in SUBSET Notes
  /\ parked \in [Devs -> SUBSET Notes]
  /\ loaded \in [Devs -> [Notes -> (SUBSET Changes) \cup {None}]]
  /\ stamps \in [Devs -> [Notes -> Changes \cup {None}]]
  /\ states \in [Devs -> [Docs -> State]]
  /\ chan \in [Devs -> Seq(Message)]
  /\ link \in BOOLEAN
  /\ side \in [Devs -> {"on", "ending", "off"}]
  /\ next \in Changes /\ cuts \in 0 .. MaxCuts
  /\ \A d \in Devs, n \in Notes : row[d][n] # {} => 0 \in row[d][n] /\ n \notin purged[d]

Init ==
  /\ row = [d \in Devs |-> [n \in Notes |-> {}]]
  /\ purged = [d \in Devs |-> {}]
  /\ listed = [d \in Devs |-> {}]
  /\ purging = [d \in Devs |-> {}] /\ dropped = {}
  /\ parked = [d \in Devs |-> {}]
  /\ loaded = [d \in Devs |-> [n \in Notes |-> None]]
  /\ stamps = [d \in Devs |-> [n \in Notes |-> None]]
  /\ states = [d \in Devs |-> [x \in Docs |-> Fresh]]
  /\ chan = [d \in Devs |-> <<>>]
  /\ link = FALSE
  /\ side = [d \in Devs |-> "off"]
  /\ next = 0 /\ cuts = 0

-----------------------------------------------------------------------------
(* automerge::sync, as far as the engine relies on it: a message carries   *)
(* the sender's heads, what it says it has, and the changes the peer lacks *)
(* and was not sent in this session; a message unanswered is not repeated. *)

Silent(s, mine, missing) ==
  /\ s.responded /\ s.lastSent = mine
  /\ s.inFlight \/ (s.heard /\ s.heads = mine /\ missing = {})

(* generate_sync_message: the message, or None, and the state after it.  A *)
(* peer that starts from changes unknown here is asked to start over.      *)
Generate(s, x, mine) ==
  LET missing == IF s.heard THEN (mine \ s.knows) \ s.sent ELSE {}
  IN  IF s.heard /\ ~(s.last \subseteq mine)
      THEN [msg |-> [doc |-> x, heads |-> mine, last |-> {}, knows |-> {}, changes |-> {}],
            state |-> s]
      ELSE IF Silent(s, mine, missing) THEN [msg |-> None, state |-> s]
      ELSE [msg |-> [doc |-> x, heads |-> mine, last |-> s.shared,
                     knows |-> mine, changes |-> missing],
            state |-> [s EXCEPT !.responded = TRUE, !.lastSent = mine, !.inFlight = TRUE,
                                !.sent = @ \cup missing]]

(* receive_sync_message: the state after it; the document gains m.changes. *)
Receive(s, mine, m) ==
  LET new == mine \cup m.changes
      lost == m.heads = {}
  IN  [s EXCEPT !.heard = TRUE, !.inFlight = FALSE,
                !.heads = m.heads, !.last = m.last, !.knows = m.knows,
                !.shared = IF m.heads \subseteq new THEN m.heads ELSE @ \cup (m.heads \cap new),
                !.sent = IF lost THEN {} ELSE @ \ m.heads,
                !.lastSent = IF lost THEN {}
                             ELSE IF m.changes = {} /\ m.heads = mine THEN mine ELSE @]

(* State::decode(State::encode): the shared heads survive a disconnect. *)
Resumed(s) == [Fresh EXCEPT !.shared = s.shared]

-----------------------------------------------------------------------------
(* What is stored. *)

Stored(d) == {n \in Notes : row[d][n] # {}}
Hydrates(c) == 0 \in c

(* modified_at of a row: each change sets it, the winning one is read. *)
Stamp(d, n) == IF row[d][n] = {} THEN None ELSE Max(row[d][n])

(* doc_ids: the stored notes, the tombstones, what is pending; *)
DocIds(d) == Stored(d) \cup {Tomb} \cup parked[d]
(* those of them that are of `ids', in the order in which they are named. *)
InOrder(d, ids) == SetToSeq(ids \cap Stored(d)) \o SetToSeq(ids \cap {Tomb})
                     \o SetToSeq(ids \cap (parked[d] \ Stored(d)))

Minted == {n \in Notes : \E d \in Devs : row[d][n] # {} \/ n \in purged[d]}

(* The other processes of the device: create_note, *)
Create(d, n) ==
  /\ d = Creator /\ n \notin Minted
  /\ row' = [row EXCEPT ![d][n] = {0}]
  /\ UNCHANGED <<purged, tombVars, next, engineVars, chan, linkVars>>

(* any update of a note, *)
Write(d, n) ==
  /\ n \in Stored(d) /\ next < MaxChange
  /\ next' = next + 1
  /\ row' = [row EXCEPT ![d][n] = @ \cup {next'}]

Edit(d, n) == Write(d, n) /\ UNCHANGED <<purged, tombVars, engineVars, chan, linkVars>>

(* and a purge: purge_ids reads the tombstone document and adds the note to *)
(* its copy; purge_rows erases the note and stores that copy, whatever the  *)
(* document has become by then.                                             *)
BeginPurge(d, n) ==
  /\ n \in Stored(d)
  /\ purging' = [purging EXCEPT ![d] = @ \cup {[note |-> n, doc |-> listed[d] \cup {n}]}]
  /\ UNCHANGED <<row, purged, listed, dropped, next, engineVars, chan, linkVars>>

(* The purges `done' are completed, and the document lists `ids' after that. *)
Erase(d, erased, ids, done) ==
  /\ row' = [row EXCEPT ![d] = [n \in Notes |-> IF n \in erased THEN {} ELSE @[n]]]
  /\ purged' = [purged EXCEPT ![d] = @ \cup erased]
  /\ listed' = [listed EXCEPT ![d] = ids]
  /\ dropped' = dropped \cup ((listed[d] \cup UNION {p.doc : p \in done}) \ ids)
  /\ purging' = [purging EXCEPT ![d] = @ \ done]

PurgeNote(d, p) ==
  /\ p \in purging[d]
  /\ Erase(d, {p.note}, p.doc, {p})
  /\ UNCHANGED <<next, engineVars, chan, linkVars>>

-----------------------------------------------------------------------------
(* The engine.  A round and the handling of a message each hold the state  *)
(* lock to the end.                                                        *)

(* The cached parse is used unseen when the row still has its stamp. *)
CacheHit(d, n) ==
  Stamp(d, n) # None /\ stamps[d][n] = Stamp(d, n) /\ loaded[d][n] # None

(* generate_message: the cached parse, otherwise the pending document, the *)
(* row, or nothing.  `now' are the rows when the blob is read, which may   *)
(* be later than the stamp.                                                *)
Offered(d, x, now) ==
  IF x = Tomb THEN listed[d]
  ELSE IF x \in parked[d] THEN {}
  ELSE IF CacheHit(d, x) THEN loaded[d][x]
  ELSE IF now[x] # {} THEN now[x] ELSE None

(* What was parsed is kept, under the stamp read before it. *)
Reloads(d, n) == n \in Stored(d) /\ n \notin parked[d] /\ ~CacheHit(d, n)

Send(d, msgs) == IF link THEN [chan EXCEPT ![Other(d)] = @ \o msgs] ELSE chan

(* generate_sync_message, if there is a document at all. *)
Said(s, x, doc) ==
  IF doc = None THEN [msg |-> None, state |-> s] ELSE Generate(s, x, doc)

SayAll(d, out) ==
  LET ids == InOrder(d, {x \in DocIds(d) : out[x].msg # None})
  IN  /\ states' = [states EXCEPT ![d] =
                      [x \in Docs |-> IF x \in DocIds(d) THEN out[x].state ELSE @[x]]]
      /\ chan' = Send(d, [i \in DOMAIN ids |-> out[ids[i]].msg])

(* sync_round.  Another process may write a row between the two reads. *)
Round(d, raced) ==
  /\ side[d] = "on" \/ (side[d] = "ending" /\ LateRounds)
  /\ Len(chan[d]) + Len(chan[Other(d)]) < MaxQueue
  /\ IF raced = None THEN UNCHANGED <<row, next>> ELSE Write(d, raced) /\ ~CacheHit(d, raced)
  /\ \E out \in {[x \in DocIds(d) |-> Said(states[d][x], x, Offered(d, x, row'[d]))]} :
       SayAll(d, out)
  /\ loaded' = [loaded EXCEPT ![d] = [n \in Notes |-> IF Reloads(d, n) THEN row'[d][n] ELSE @[n]]]
  /\ stamps' = [stamps EXCEPT ![d] = [n \in Notes |-> IF Reloads(d, n) THEN Stamp(d, n) ELSE @[n]]]
  /\ UNCHANGED <<purged, tombVars, parked, linkVars>>

(* The document a message is applied to. *)
Current(d, x) ==
  IF x = Tomb THEN listed[d] ELSE IF x \in parked[d] THEN {} ELSE row[d][x]

MayKeepAny(d, n) == TRUE           \* mutant: the purge table is not asked
MayKeep(d, n) == n \notin purged[d]

KeepParked(d, n, new) ==          \* mutant: what was stored stays among the pending
  /\ row' = IF Hydrates(new) /\ MayKeep(d, n)
            THEN [row EXCEPT ![d][n] = @ \cup new] ELSE row
  /\ parked' = [parked EXCEPT ![d] = IF Hydrates(new) THEN @ ELSE @ \cup {n}]
  /\ UNCHANGED <<purged, tombVars>>

(* put_doc and the pending documents: store what hydrates, unless its id   *)
(* was purged; park what does not.                                         *)
Keep(d, n, new) ==
  /\ row' = IF Hydrates(new) /\ MayKeep(d, n)
            THEN [row EXCEPT ![d][n] = @ \cup new] ELSE row
  /\ parked' = [parked EXCEPT ![d] = IF Hydrates(new) THEN @ \ {n} ELSE @ \cup {n}]
  /\ UNCHANGED <<purged, tombVars>>

(* adopt_tombstone_doc: every listed note is erased, and the document as it *)
(* was read when the message was taken, with what the message added, is     *)
(* stored.  What the purges `done' of other processes stored in between is   *)
(* lost with that.                                                          *)
AdoptTombstones(d, new, done) ==
  /\ Erase(d, new \cup {p.note : p \in done}, new, done)
  /\ UNCHANGED parked

(* A cached parse is taken out of the cache when its note is received. *)
KeepsParse(d, n) == loaded[d][n]  \* mutant: the parse outlives the merge
TakenParse(d, n) == IF n \in parked[d] \/ n \notin Stored(d) THEN loaded[d][n] ELSE None

(* The reply is generated from the document just received, if it was kept: *)
(* the parse was taken, so the row is read again and cached.               *)
Replied(d, x) ==
  IF x = Tomb THEN listed'[d]
  ELSE IF x \in parked'[d] THEN {}
  ELSE IF row'[d][x] = {} THEN None
  ELSE IF TakenParse(d, x) # None /\ stamps[d][x] = Max(row'[d][x])
       THEN TakenParse(d, x) ELSE row'[d][x]

(* receive_message, and under the same lock the reply.  (put_doc merges a   *)
(* note again with what was written to it in between: that is taken to be    *)
(* written just before or after.)                                            *)
ReceiveMessage(d, done) ==
  /\ side[d] = "on" /\ chan[d] # <<>> /\ done \subseteq purging[d]
  /\ LET m == Head(chan[d])
         x == m.doc
         new == Current(d, x) \cup m.changes
         after == Receive(states[d][x], Current(d, x), m)
     IN  /\ IF x = Tomb THEN AdoptTombstones(d, new, done)
            ELSE Keep(d, x, new) /\ done = {}
         /\ \E reply \in {Said(after, x, Replied(d, x))} :
              /\ states' = [states EXCEPT ![d][x] = reply.state]
              /\ chan' = [e \in Devs |->
                            IF e = d THEN Tail(chan[d])
                            ELSE Send(d, IF reply.msg = None THEN <<>> ELSE <<reply.msg>>)[e]]
         /\ IF x = Tomb THEN UNCHANGED <<loaded, stamps>>
            ELSE IF x \in parked'[d] \/ row'[d][x] = {}
            THEN loaded' = [loaded EXCEPT ![d][x] = TakenParse(d, x)] /\ UNCHANGED stamps
            ELSE /\ loaded' = [loaded EXCEPT ![d][x] = Replied(d, x)]
                 /\ stamps' = [stamps EXCEPT ![d][x] = Max(row'[d][x])]
  /\ UNCHANGED <<next, linkVars>>

-----------------------------------------------------------------------------
(* Sessions. *)

Connect ==
  /\ ~link /\ \A d \in Devs : side[d] = "off"
  /\ link' = TRUE
  /\ side' = [d \in Devs |-> "on"]
  /\ UNCHANGED <<storeVars, engineVars, chan, cuts>>

(* The connection is lost, with everything on the way. *)
Cut ==
  /\ link /\ cuts < MaxCuts
  /\ link' = FALSE /\ cuts' = cuts + 1
  /\ chan' = [d \in Devs |-> <<>>]
  /\ UNCHANGED <<storeVars, engineVars, side>>

(* The reader ended: reset_peer, then the ticker is aborted. *)
KeepsStates(d) ==                 \* mutant: the session's states are kept as they are
  /\ ~link /\ side[d] = "on"
  /\ side' = [side EXCEPT ![d] = "ending"]
  /\ UNCHANGED <<storeVars, engineVars, chan, link, cuts>>

ResetPeer(d) ==
  /\ ~link /\ side[d] = "on"
  /\ states' = [states EXCEPT ![d] = [x \in Docs |-> Resumed(@[x])]]
  /\ side' = [side EXCEPT ![d] = "ending"]
  /\ UNCHANGED <<storeVars, parked, loaded, stamps, chan, link, cuts>>

Abort(d) ==
  /\ side[d] = "ending"
  /\ side' = [side EXCEPT ![d] = "off"]
  /\ UNCHANGED <<storeVars, engineVars, chan, link, cuts>>

(* forget_peer: unpaired, and perhaps paired again later. *)
ForgetPeer(d) ==
  /\ side[d] = "off"
  /\ states' = [states EXCEPT ![d] = [x \in Docs |-> Fresh]]
  /\ states' # states
  /\ UNCHANGED <<storeVars, parked, loaded, stamps, chan, linkVars>>

(* The process ends and starts again: the engine lives in memory only. *)
Restart(d) ==
  /\ cuts < MaxCuts
  /\ cuts' = cuts + 1
  /\ parked' = [parked EXCEPT ![d] = {}]
  /\ loaded' = [loaded EXCEPT ![d] = [n \in Notes |-> None]]
  /\ stamps' = [stamps EXCEPT ![d] = [n \in Notes |-> None]]
  /\ states' = [states EXCEPT ![d] = [x \in Docs |-> Fresh]]
  /\ link' = FALSE
  /\ chan' = [e \in Devs |-> <<>>]
  /\ side' = [side EXCEPT ![d] = "off"]
  /\ UNCHANGED storeVars

Next ==
  \/ \E d \in Devs, n \in Notes : Create(d, n)
  \/ \E d \in Devs, n \in Notes : Edit(d, n)
  \/ \E d \in Devs, n \in Notes : BeginPurge(d, n)
  \/ \E d \in Devs : \E p \in purging[d] : PurgeNote(d, p)
  \/ \E d \in Devs, raced \in Notes \cup {None} : Round(d, raced)
  \/ \E d \in Devs : \E done \in SUBSET purging[d] : ReceiveMessage(d, done)
  \/ Connect
  \/ Cut
  \/ \E d \in Devs : ResetPeer(d)
  \/ \E d \in Devs : Abort(d)
  \/ \E d \in Devs : ForgetPeer(d)
  \/ \E d \in Devs : Restart(d)

Spec == Init /\ [][Next]_vars

(* A round and a message waiting for the lock both get it: the mutex hands *)
(* it to whoever waits long enough.  The dial loop connects again.         *)
Fairness ==
  /\ WF_vars(Connect)
  /\ \A d \in Devs :
       /\ WF_vars(Round(d, None)) /\ WF_vars(ReceiveMessage(d, {}))
       /\ WF_vars(ResetPeer(d)) /\ WF_vars(Abort(d))

FairSpec == Spec /\ Fairness
-----------------------------------------------------------------------------
(* Properties. *)

(* A parse that generate_message would use without looking at the row is   *)
(* the row: every write changes modified_at, or takes the parse out.       *)
CacheCurrent ==
  \A d \in Devs, n \in Notes :
    CacheHit(d, n) => loaded[d][n] = row[d][n]

(* What a device has of each note, and what it has purged.                 *)
Documents(d) == INSTANCE DocRegistry WITH Ids <- Notes, held <- row[d], erased <- purged[d]

(* Each device is a registry of documents, whatever its engine and its     *)
(* other processes do in between: what put_doc merges and adopt_tombstone_ *)
(* doc erases never loses a change of a note that was not purged, and no   *)
(* message brings a purged note back.                                      *)
EachIsARegistry ==
  /\ \A d \in Devs : Documents(d)!RegInit
  /\ [][\A d \in Devs : Documents(d)!RegNext \/ UNCHANGED <<row[d], purged[d]>>]_vars

Agree ==
  /\ \A d, e \in Devs : purged[d] = purged[e]
  /\ \A d, e \in Devs : row[d] = row[e]

(* A round of a device has nothing to say, about the tombstones or about a *)
(* note it has not purged.                                                 *)
NothingToSay(d) ==
  \A x \in DocIds(d) \ purged[d] :
    LET doc == Offered(d, x, row[d])
    IN  doc # None => Generate(states[d][x], x, doc).msg = None

Quiet ==
  /\ link
  /\ \A d \in Devs :
       /\ NothingToSay(d)
       /\ \A i \in DOMAIN chan[d] : chan[d][i].doc \in purged[d]

(* Two connected devices that have nothing more to tell each other have    *)
(* the same notes and purges: nothing is held back by a state that thinks  *)
(* the peer has it, has been asked, or was told (reset_peer, forget_peer,  *)
(* what is parked, the messages under way).  Unless a tombstone document    *)
(* has lost an id: its device will not say it again.                       *)
QuietAgrees == Quiet /\ dropped = {} => Agree

(* Whatever was written where, and wherever connections were cut and       *)
(* processes restarted, the two devices end up with the same notes and the *)
(* same purges (reset_peer, forget_peer, pending, the tombstone document),  *)
(* as long as no tombstone document loses an id.                           *)
Converges == <>[](dropped = {} => Agree)

(* An idle pair stops talking about every note that was not purged, and    *)
(* about the tombstones: None means there is nothing to say.  (A purged    *)
(* note that one side has parked is offered for ever: the other has no     *)
(* document to answer with.)                                               *)
FallsSilent ==
  <>[](\A d \in Devs : \A i \in DOMAIN chan[d] : chan[d][i].doc \in purged[d])
=============================================================================
