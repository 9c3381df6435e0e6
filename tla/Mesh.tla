-------------------------------- MODULE Mesh --------------------------------
(***************************************************************************)
(* The mesh of one device: it accepts connections, keeps dialing the known *)
(* peers it is to dial, and runs a session on each connection the gate     *)
(* lets through.  Peers are added and unpaired while all this goes on.     *)
(* The session itself is Session; of it only the prelude counts here, as   *)
(* its ticket puts the peer into the known-peers file.                     *)
(***************************************************************************)
EXTENDS PairingGate

VARIABLES dials,       \* the peers whose EndpointId is larger than ours
          dialing,     \* peers with a slot: Mesh.dialing
          loop,        \* where the dial loop of each peer is
          once,        \* peers pair_dial_once is about to dial
          connected,   \* Mesh.connected: peer to connection, 0 for none
          forgetting,  \* unpaired in the file, the connection not closed yet
          forgot       \* history: peers unpaired while a session was listed

meshVars == <<dials, dialing, loop, once, connected, forgetting, forgot>>
vars == <<gateVars, meshVars>>

(* A loop that runs a connection has its number, else: *)
Resting == {"off", "start", "check", "dial", "sleep", "leave"}

TypeOK ==
  /\ GateTypeOK
  /\ dials \subseteq Peers /\ dialing \subseteq Peers /\ once \subseteq Peers
  /\ loop \in [Peers -> [at: Resting \cup {"busy"}, on: Conns \cup {0}]]
  /\ connected \in [Peers -> Conns \cup {0}]
  /\ forgetting \subseteq Peers /\ forgot \subseteq Peers
  /\ \A p \in Peers : p \in dialing <=> loop[p].at # "off"
  /\ \A p \in Peers : connected[p] # 0 => conn[connected[p]].peer = p

Rest(stage) == [at |-> stage, on |-> 0]

Init ==
  /\ GateInit
  /\ dials \in SUBSET Peers
  /\ dialing = {} /\ once = {} /\ forgetting = {} /\ forgot = {}
  /\ loop = [p \in Peers |-> Rest("off")]
  /\ connected = [p \in Peers |-> 0]

(* A new connection takes a free slot; one of ours passes the gate unasked. *)
Room == \E c \in Conns : conn[c].at = "free"
Slot == CHOOSE c \in Conns : conn[c].at = "free"
Connect(p, dialed) ==
  conn' = [conn EXCEPT ![Slot] =
             [at |-> IF dialed THEN "admitted" ELSE "gate", peer |-> p, closed |-> FALSE]]

(* Mesh::dial: at most one loop per peer. *)
Dial(p) ==
  IF p \in dialing THEN UNCHANGED <<dialing, loop>>
  ELSE dialing' = dialing \cup {p} /\ loop' = [loop EXCEPT ![p] = Rest("start")]

-----------------------------------------------------------------------------
(* The gate and the client session, beside a mesh that stays as it is. *)

Gate(c) == GateStep(c) /\ UNCHANGED meshVars
Session == SessionStep /\ UNCHANGED meshVars
User == (Show \/ Allow \/ Deny \/ HangUp) /\ UNCHANGED meshVars
Expire == Lapse /\ UNCHANGED meshVars

(* An Add session, and add_known_peer of the app: trust, dial once now     *)
(* whatever the ids, and start the loop.                                   *)
Add(p) ==
  /\ Attach(p)
  /\ known' = known \cup {p} /\ chosen' = chosen \cup {p}
  /\ once' = once \cup {p}
  /\ Dial(p)
  /\ UNCHANGED <<window, conn, used, dials, connected, forgetting, forgot>>

-----------------------------------------------------------------------------
(* Connections come about. *)

Accept(p) ==
  /\ Room /\ Connect(p, FALSE)
  /\ UNCHANGED <<known, window, client, inbox, chosen, used, meshVars>>

(* pair_dial_once; the peer may be out of reach. *)
PairDial(p) ==
  /\ p \in once /\ once' = once \ {p}
  /\ \/ connected[p] = 0 /\ Room /\ Connect(p, TRUE)
     \/ UNCHANGED conn
  /\ UNCHANGED <<known, window, client, inbox, chosen, used,
                 dials, dialing, loop, connected, forgetting, forgot>>

(* dial_loop. *)
LoopStep(p) ==
  /\ UNCHANGED <<known, window, client, inbox, chosen, used,
                 dials, once, connected, forgetting, forgot>>

KeepSlot(p) ==                 \* mutant: the slot stays taken by a loop that is gone
  /\ loop[p].at = "leave" \/ (loop[p].at = "start" /\ p \notin dials)
  /\ loop' = [loop EXCEPT ![p] = Rest("off")]
  /\ UNCHANGED <<conn, dialing>> /\ LoopStep(p)

(* Ours is the larger id, or the check found the peer gone. *)
LeaveLoop(p) ==
  /\ \/ loop[p].at = "start" /\ p \notin dials
     \/ loop[p].at = "leave"
  /\ dialing' = dialing \ {p}
  /\ loop' = [loop EXCEPT ![p] = Rest("off")]
  /\ UNCHANGED conn /\ LoopStep(p)

StillKnownAny(p) == TRUE       \* mutant: a forgotten peer is redialed
StillKnown(p) == p \in known

CheckLoop(p) ==
  /\ loop[p].at \in {"start", "sleep"} /\ p \in dials
  /\ loop' = [loop EXCEPT ![p] = Rest(IF ~StillKnown(p) THEN "leave"
                                      ELSE IF connected[p] = 0 THEN "dial" ELSE "sleep")]
  /\ UNCHANGED <<conn, dialing>> /\ LoopStep(p)

LoopDial(p) ==
  /\ loop[p].at = "dial"
  /\ \/ Room /\ Connect(p, TRUE) /\ loop' = [loop EXCEPT ![p] = [at |-> "busy", on |-> Slot]]
     \/ loop' = [loop EXCEPT ![p] = Rest("sleep")] /\ UNCHANGED conn
  /\ UNCHANGED dialing /\ LoopStep(p)

(* A connection is over: its slot is free, a loop that ran it goes on. *)
Finished(c) ==
  /\ conn' = [conn EXCEPT ![c] = FreeSlot]
  /\ loop' = [p \in Peers |-> IF loop[p].on = c THEN Rest("sleep") ELSE loop[p]]

-----------------------------------------------------------------------------
(* handle_connection, after the gate. *)

NotLinkedAny(p) == TRUE        \* mutant: a dial and an accept are both kept
NotLinked(p) == connected[p] = 0

(* An event no client will act on is left out: one that repeats the last,  *)
(* or is of another device while there is no prompt to change that.        *)
Heeded(p) ==
  /\ Attached
  /\ client.target = p \/ client.at = "prompt" \/ inbox # <<>>
  /\ inbox # <<>> => inbox[Len(inbox)] # p

Link(c) ==
  LET p == conn[c].peer
  IN  /\ conn[c].at = "admitted"
      /\ IF NotLinked(p)
         THEN /\ connected' = [connected EXCEPT ![p] = c]
              /\ At(c, "hello")
              /\ inbox' = IF Heeded(p) THEN Append(inbox, p) ELSE inbox
              /\ UNCHANGED loop
         ELSE Finished(c) /\ UNCHANGED <<connected, inbox>>
      /\ UNCHANGED <<known, window, client, chosen, used,
                     dials, dialing, once, forgetting, forgot>>

(* The peer's ticket has been read; on_peer comes next. *)
ReadTicket(c) ==
  /\ conn[c].at = "hello" /\ ~conn[c].closed
  /\ At(c, "trust")
  /\ UNCHANGED <<known, window, client, inbox, chosen, used, meshVars>>

(* on_peer: the file, where a failing write is reported and no more, then  *)
(* the loop.                                                               *)
OnPeer(c) ==
  LET p == conn[c].peer
  IN  /\ conn[c].at = "trust"
      /\ \/ known' = known \cup {p} /\ At(c, "live")
         \/ known' = known /\ At(c, IF p \in known THEN "live" ELSE "unlisted")
      /\ Dial(p)
      /\ UNCHANGED <<window, client, inbox, chosen, used,
                     dials, once, connected, forgetting, forgot>>

(* session::run returns. *)
SessionOver(c) ==
  /\ conn[c].at \in {"hello", "live", "unlisted"}
  /\ At(c, "over")
  /\ UNCHANGED <<known, window, client, inbox, chosen, used, meshVars>>

(* The entry of the peer is removed, whichever connection it names. *)
Unlink(c) ==
  /\ conn[c].at = "over"
  /\ connected' = [connected EXCEPT ![conn[c].peer] = 0]
  /\ Finished(c)
  /\ UNCHANGED <<known, window, client, inbox, chosen, used,
                 dials, dialing, once, forgetting, forgot>>

-----------------------------------------------------------------------------
(* forget_peer: out of the file (and names, and sync states) first. *)

Forget(p) ==
  /\ p \in known
  /\ known' = known \ {p}
  /\ forgetting' = forgetting \cup {p}
  /\ UNCHANGED <<window, conn, client, inbox, chosen, used,
                 dials, dialing, loop, once, connected, forgot>>

(* Then the connection in the map is taken out and closed. *)
CloseForgotten(p) ==
  /\ p \in forgetting /\ forgetting' = forgetting \ {p}
  /\ IF connected[p] = 0 THEN UNCHANGED <<conn, connected, forgot>>
     ELSE /\ conn' = [conn EXCEPT ![connected[p]].closed = TRUE]
          /\ connected' = [connected EXCEPT ![p] = 0]
          /\ forgot' = forgot \cup {p}
  /\ UNCHANGED <<known, window, client, inbox, chosen, used, dials, dialing, loop, once>>

Next ==
  \/ \E c \in Conns : Gate(c)
  \/ Session
  \/ User
  \/ Expire
  \/ \E p \in Peers : Add(p)
  \/ \E p \in Peers : Accept(p)
  \/ \E p \in Peers : PairDial(p)
  \/ \E p \in Peers : LeaveLoop(p)
  \/ \E p \in Peers : CheckLoop(p)
  \/ \E p \in Peers : LoopDial(p)
  \/ \E c \in Conns : Link(c)
  \/ \E c \in Conns : ReadTicket(c)
  \/ \E c \in Conns : OnPeer(c)
  \/ \E c \in Conns : SessionOver(c)
  \/ \E c \in Conns : Unlink(c)
  \/ \E p \in Peers : Forget(p)
  \/ \E p \in Peers : CloseForgotten(p)

Spec == Init /\ [][Next]_vars

(* What the task of a connection does next without waiting for the peer: a *)
(* connection that was closed ends its session, and a prelude comes to an  *)
(* end one way or the other (SessionEnds, SessionOpens of Session).        *)
Handle(c) ==
  \/ Gate(c) \/ Link(c) \/ OnPeer(c) \/ Unlink(c)
  \/ conn[c].at = "hello" /\ (ReadTicket(c) \/ SessionOver(c))
  \/ conn[c].closed /\ SessionOver(c)

(* Tasks run.  Nobody need answer a prompt, peers need not be in reach and *)
(* sessions need not end.                                                  *)
Fairness ==
  /\ WF_vars(Session)
  /\ \A c \in Conns : WF_vars(Handle(c))
  /\ \A p \in Peers :
       /\ WF_vars(LeaveLoop(p) \/ CheckLoop(p) \/ LoopDial(p))
       /\ WF_vars(PairDial(p)) /\ WF_vars(CloseForgotten(p))

FairSpec == Spec /\ Fairness

-----------------------------------------------------------------------------
(* Properties. *)

InSession(c) == conn[c].at \in {"hello", "trust", "live", "unlisted"}

(* Whoever is in the file or past the gate was put there by the user once: *)
(* a ticket added, or a prompt answered with yes.                          *)
ChosenByUser ==
  /\ known \subseteq chosen
  /\ \A c \in Conns : InSession(c) \/ conn[c].at = "admitted" => conn[c].peer \in chosen

(* A peer never unpaired in mid-session has one session, however often     *)
(* both sides dial at once.                                                *)
OneSession ==
  \A c, e \in Conns :
    InSession(c) /\ InSession(e) /\ conn[c].peer = conn[e].peer /\ conn[c].peer \notin forgot
    => c = e

(* Whoever knocks gets an answer, as long as no prompt stays up for ever:  *)
(* the prompt is relayed, refused, or dies with the session it was sent to. *)
(* Nothing but the user takes a prompt down, so one that nobody answers     *)
(* keeps everybody behind it waiting.                                      *)
KnockAnswered ==
  []<>(client.at # "prompt") =>
    \A c \in Conns : []<>(conn[c].at # "asked")

(* A peer that is unpaired for good is not dialed any more, and the        *)
(* session of the map is not left running, unless it got in again without  *)
(* the file being written.  (A session the map lost sight of, when an      *)
(* older one ended, is left: its loop stays busy with it.)                 *)
Unlisted(p) == \E c \in Conns : conn[c].peer = p /\ conn[c].at = "unlisted"
UnpairedIsLeft ==
  \A p \in Peers :
    <>[](p \notin known /\ ~Unlisted(p)) =>
      <>[]/\ loop[p].at = "off" \/ (loop[p].at = "busy" /\ loop[p].on # connected[p])
          /\ connected[p] = 0 \/ conn[connected[p]].at # "live"
=============================================================================
