------------------------------ MODULE Session ------------------------------
(***************************************************************************)
(* One connection between two devices, as session.rs drives it on either   *)
(* side: a prelude, then a reader that applies and answers frames beside a *)
(* ticker that sends a round now and then.  Both write to one stream under *)
(* a lock; a stream takes no more than its window.  What the frames say is *)
(* the business of SyncPair.                                               *)
(*                                                                         *)
(* A frame is two parts on the stream: a length-prefixed id and a          *)
(* length-prefixed payload, each cut short or complete as a unit.          *)
(***************************************************************************)
EXTENDS Naturals, Sequences

CONSTANTS Dialer, Acceptor,  \* the two sides
          Window,            \* parts a stream holds before a write waits
          MaxRound,          \* bound: frames in a round
          Oversize,          \* TRUE: some frames exceed MAX_PAYLOAD_LEN
          None               \* nobody holds the lock, no id was read

Sides == {Dialer, Acceptor}
Writers == {"run", "ticker"}
Other(d) == IF d = Dialer THEN Acceptor ELSE Dialer

Kinds == {"pair", "name", "round", "reply"}
Part == [kind: Kinds, part: {"id", "payload"}]
Frame(k) == <<[kind |-> k, part |-> "id"], [kind |-> k, part |-> "payload"]>>

(* The prelude fits the window: both sides write it before they read. *)
ASSUME SessionAssumption ==
  /\ Dialer # Acceptor /\ None \notin Writers \cup Part
  /\ Window \in Nat /\ Window >= 4
  /\ MaxRound \in Nat /\ Oversize \in BOOLEAN

VARIABLES closed,  \* the connection is gone
          opened,  \* the dialer's first write reached the acceptor
          main,    \* where run and its reader_loop are
          tick,    \* where ticker_loop is
          todo,    \* what each writer of a side still has to write
          lock,    \* who holds the send lock of a side
          stream,  \* parts on the way to each side
          got      \* the id each side has read of a frame, or None

vars == <<closed, opened, main, tick, todo, lock, stream, got>>

TypeOK ==
  /\ closed \in BOOLEAN /\ opened \in BOOLEAN
  /\ main \in [Sides -> {"open", "hello", "first", "read", "wait", "write", "ended"}]
  /\ tick \in [Sides -> {"off", "sleep", "wait", "write", "dead"}]
  /\ todo \in [Sides -> [Writers -> Seq(Part)]]
  /\ lock \in [Sides -> Writers \cup {None}]
  /\ stream \in [Sides -> Seq(Part)]
  /\ \A d \in Sides : Len(stream[d]) <= Window
  /\ got \in [Sides -> Part \cup {None}]

Init ==
  /\ closed = FALSE /\ opened = FALSE
  /\ main = [d \in Sides |-> "open"]
  /\ tick = [d \in Sides |-> "off"]
  /\ todo = [d \in Sides |-> [w \in Writers |-> <<>>]]
  /\ lock = [d \in Sides |-> None]
  /\ stream = [d \in Sides |-> <<>>]
  /\ got = [d \in Sides |-> None]

-----------------------------------------------------------------------------
(* The prelude. *)

OpenReads(d) ==  \* mutant: read the peer's frame before writing one's own
  /\ main[d] = "open" /\ ~closed /\ (d = Dialer \/ opened)
  /\ main' = [main EXCEPT ![d] = "first"]
  /\ UNCHANGED <<closed, opened, tick, todo, lock, stream, got>>

(* open_bi returns at once, accept_bi when the stream has been written to. *)
Open(d) ==
  /\ main[d] = "open" /\ ~closed /\ (d = Dialer \/ opened)
  /\ main' = [main EXCEPT ![d] = "hello"]
  /\ todo' = [todo EXCEPT ![d]["run"] = Frame("pair") \o Frame("name")]
  /\ UNCHANGED <<closed, opened, tick, lock, stream, got>>

-----------------------------------------------------------------------------
(* Writing.  A round is written whole under the lock, so is a reply. *)

Waits(d, w) == IF w = "run" THEN main[d] = "wait" ELSE tick[d] = "wait"
Writes(d, w) == IF w = "run" THEN main[d] \in {"hello", "write"} ELSE tick[d] = "write"

FreeAlways(d) == TRUE          \* mutant: the stream is not locked
Free(d) == lock[d] = None

TakeLock(d, w) ==
  /\ Waits(d, w) /\ Free(d)
  /\ lock' = [lock EXCEPT ![d] = w]
  /\ IF w = "run" THEN main' = [main EXCEPT ![d] = "write"] /\ UNCHANGED tick
                  ELSE tick' = [tick EXCEPT ![d] = "write"] /\ UNCHANGED main
  /\ UNCHANGED <<closed, opened, todo, stream, got>>

WrittenKeeps(d, w) ==          \* mutant: the reader's guard lives on in its loop
  IF w = "ticker" THEN tick' = [tick EXCEPT ![d] = "sleep"] /\ lock' = [lock EXCEPT ![d] = None]
                       /\ UNCHANGED main
  ELSE /\ main' = [main EXCEPT ![d] = IF @ = "hello" THEN "first" ELSE "read"]
       /\ UNCHANGED <<tick, lock>>

(* All is written: on to the next read, or the sleep until the next round. *)
Written(d, w) ==
  /\ lock' = [lock EXCEPT ![d] = None]
  /\ IF w = "ticker" THEN tick' = [tick EXCEPT ![d] = "sleep"] /\ UNCHANGED main
     ELSE main' = [main EXCEPT ![d] = IF @ = "hello" THEN "first" ELSE "read"] /\ UNCHANGED tick

RoomAlways(d) == TRUE          \* mutant: a stream without a window
Room(d) == Len(stream[Other(d)]) < Window

(* write_frame, one write_all at a time. *)
WritePart(d, w) ==
  /\ Writes(d, w) /\ ~closed /\ Room(d)
  /\ stream' = [stream EXCEPT ![Other(d)] = Append(@, Head(todo[d][w]))]
  /\ todo' = [todo EXCEPT ![d][w] = Tail(@)]
  /\ opened' = (opened \/ d = Dialer)
  /\ IF Len(todo[d][w]) = 1 THEN Written(d, w) ELSE UNCHANGED <<main, tick, lock>>
  /\ UNCHANGED <<closed, got>>

-----------------------------------------------------------------------------
(* The ticker. *)

(* sync_round up to the send lock; n documents have something to say. *)
Round(d, n) ==
  /\ tick[d] = "sleep" /\ n > 0
  /\ todo' = [todo EXCEPT ![d]["ticker"] =
                [i \in 1 .. 2 * n |-> Frame("round")[IF i % 2 = 1 THEN 1 ELSE 2]]]
  /\ tick' = [tick EXCEPT ![d] = "wait"]
  /\ UNCHANGED <<closed, opened, main, lock, stream, got>>

(* check_len comes before anything of the frame is written. *)
TooLarge(d, w) == Oversize /\ main[d] # "hello" /\ Head(todo[d][w]).part = "id"

TickerKeepsLock(d) ==          \* mutant: the guard outlives a failed write
  /\ tick[d] = "write" /\ (closed \/ TooLarge(d, "ticker"))
  /\ tick' = [tick EXCEPT ![d] = "dead"]
  /\ todo' = [todo EXCEPT ![d]["ticker"] = <<>>]
  /\ UNCHANGED <<closed, opened, main, lock, stream, got>>

(* A write failed: ticker_loop returns for good, the session goes on. *)
TickerFails(d) ==
  /\ tick[d] = "write" /\ (closed \/ TooLarge(d, "ticker"))
  /\ tick' = [tick EXCEPT ![d] = "dead"]
  /\ todo' = [todo EXCEPT ![d]["ticker"] = <<>>]
  /\ lock' = [lock EXCEPT ![d] = None]
  /\ UNCHANGED <<closed, opened, main, stream, got>>

-----------------------------------------------------------------------------
(* The reader. *)

Answer(d) ==
  /\ main' = [main EXCEPT ![d] = "wait"]
  /\ todo' = [todo EXCEPT ![d]["run"] = Frame("reply")]

(* A frame is complete.  The first one ends the prelude and starts the     *)
(* ticker; a name is kept; a document is applied and perhaps answered.     *)
Handle(d, kind) ==
  IF main[d] = "first"
  THEN /\ main' = [main EXCEPT ![d] = "read"]
       /\ tick' = [tick EXCEPT ![d] = "sleep"]
       /\ UNCHANGED todo
  ELSE /\ UNCHANGED tick
       /\ \/ UNCHANGED <<main, todo>>
          \/ kind # "name" /\ Answer(d)

(* read_frame, one read_exact at a time. *)
ReadPart(d) ==
  /\ main[d] \in {"first", "read"} /\ ~closed /\ stream[d] # <<>>
  /\ stream' = [stream EXCEPT ![d] = Tail(@)]
  /\ IF got[d] = None
     THEN got' = [got EXCEPT ![d] = Head(stream[d])] /\ UNCHANGED <<main, tick, todo>>
     ELSE got' = [got EXCEPT ![d] = None] /\ Handle(d, got[d].kind)
  /\ UNCHANGED <<closed, opened, lock>>

(* run returns, at any read or write that fails or a reply too large: the  *)
(* ticker is aborted, and with the session its connection is dropped.      *)
End(d) ==
  /\ \/ closed /\ main[d] \notin {"wait", "ended"}
     \/ main[d] = "write" /\ TooLarge(d, "run")
  /\ main' = [main EXCEPT ![d] = "ended"]
  /\ tick' = [tick EXCEPT ![d] = "off"]
  /\ todo' = [todo EXCEPT ![d] = [w \in Writers |-> <<>>]]
  /\ lock' = [lock EXCEPT ![d] = None]
  /\ got' = [got EXCEPT ![d] = None]
  /\ stream' = [stream EXCEPT ![d] = <<>>]
  /\ closed' = TRUE
  /\ UNCHANGED opened

(* The network, the other process or an unpairing closes the connection. *)
Close ==
  /\ ~closed /\ closed' = TRUE
  /\ UNCHANGED <<opened, main, tick, todo, lock, stream, got>>

Next ==
  \/ \E d \in Sides : Open(d)
  \/ \E d \in Sides, w \in Writers : TakeLock(d, w)
  \/ \E d \in Sides, w \in Writers : WritePart(d, w)
  \/ \E d \in Sides, n \in 1 .. MaxRound : Round(d, n)
  \/ \E d \in Sides : TickerFails(d)
  \/ \E d \in Sides : ReadPart(d)
  \/ \E d \in Sides : End(d)
  \/ Close

Spec == Init /\ [][Next]_vars

(* Tasks run, and the tokio mutex is handed over first come, first served. *)
(* A frame need not be too large: only a closed connection fails for sure. *)
Fairness ==
  \A d \in Sides :
    /\ WF_vars(Open(d)) /\ WF_vars(ReadPart(d))
    /\ WF_vars(closed /\ TickerFails(d)) /\ WF_vars(closed /\ End(d))
    /\ \A w \in Writers : WF_vars(WritePart(d, w)) /\ SF_vars(TakeLock(d, w))

FairSpec == Spec /\ Fairness

-----------------------------------------------------------------------------
(* Properties. *)

(* What a side has read of a frame, followed by what is on the way to it.  *)
Incoming(d) == (IF got[d] = None THEN <<>> ELSE <<got[d]>>) \o stream[d]

(* Two writers never mix their frames: every payload follows its own id,   *)
(* and the first frame on a connection is the ticket (the send lock, the   *)
(* prelude written before the ticker is started).                          *)
FramesIntact ==
  \A d \in Sides : \A i \in DOMAIN Incoming(d) :
    LET p == Incoming(d)[i]
    IN  /\ p.part = IF i % 2 = 1 THEN "id" ELSE "payload"
        /\ i % 2 = 0 => p.kind = Incoming(d)[i - 1].kind
        /\ main[d] \in {"open", "hello", "first"} /\ i = 1 => p.kind = "pair"

(* Both streams are full and neither reader is reading: each waits for a   *)
(* lock or a write, and nothing but the end of the connection helps.       *)
Standstill ==
  \A d \in Sides : Len(stream[d]) = Window /\ main[d] \in {"wait", "write"}

(* A round that has something to send sends it, or the ticker is gone, or  *)
(* both directions stand still: the lock, held for a whole round or one    *)
(* reply, always comes round.                                              *)
RoundSent ==
  \A d \in Sides : tick[d] \in {"wait", "write"} ~> (tick[d] \notin {"wait", "write"} \/ Standstill)

(* A connection that stays up gets both sides into their reader loops: the *)
(* dialer's write opens the stream the acceptor waits for.                 *)
SessionOpens == <>(closed \/ \A d \in Sides : tick[d] # "off")

(* Once the connection is gone both sides return from run, also the reader *)
(* that waits for a lock its ticker holds, which no close would wake.      *)
SessionEnds == closed ~> \A d \in Sides : main[d] = "ended"
=============================================================================
