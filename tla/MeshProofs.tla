----------------------------- MODULE MeshProofs -----------------------------
(***************************************************************************)
(* Theorems about who is let in: for any peers, any number of connections   *)
(* and whatever the network does.                                          *)
(***************************************************************************)
EXTENDS Mesh, TLAPS

-----------------------------------------------------------------------------
(* One stranger per window.                                                *)

\* A window that is open has let nobody in yet.
WindowInv ==
    /\ used \in {0, 1}
    /\ window => used = 0

LEMMA WindowInvStep == WindowInv /\ [Next]_vars => WindowInv'
<1> SUFFICES ASSUME WindowInv, [Next]_vars PROVE WindowInv'
    OBVIOUS
<1> USE DEF WindowInv
<1>1. CASE UNCHANGED <<used, window>>
    BY <1>1
<1>2. ASSUME NEW c \in Conns, Gate(c) PROVE WindowInv'
    <2>1. CASE ConsumeWindow(c)
        BY <2>1 DEF ConsumeWindow, StillOpen
    <2>2. CASE AdmitKnown(c) \/ CheckWindow(c) \/ AskClient(c)
        BY <1>1, <2>2 DEF AdmitKnown, CheckWindow, AskClient
    <2> QED BY <1>2, <2>1, <2>2 DEF Gate, GateStep
<1>3. CASE Session
    <2>1. CASE Disarm
        BY <2>1 DEF Disarm
    <2>2. CASE HearApprove \/ HearConnected
        BY <1>1, <2>2 DEF HearApprove, HearConnected
    <2> QED BY <1>3, <2>1, <2>2 DEF Session, SessionStep
<1>4. CASE User
    <2>1. CASE Show
        BY <2>1 DEF Show
    <2>2. CASE Allow \/ Deny \/ HangUp
        BY <1>1, <2>2 DEF Allow, Deny, HangUp
    <2> QED BY <1>4, <2>1, <2>2 DEF User
<1>5. CASE Expire
    BY <1>5 DEF Expire, Lapse
<1>6. ASSUME NEW p \in Peers,
             Add(p) \/ Accept(p) \/ PairDial(p) \/ LeaveLoop(p) \/ CheckLoop(p)
               \/ LoopDial(p) \/ Forget(p) \/ CloseForgotten(p)
      PROVE  WindowInv'
    BY <1>1, <1>6 DEF Add, Accept, PairDial, LeaveLoop, CheckLoop, LoopDial, LoopStep,
                      Forget, CloseForgotten
<1>7. ASSUME NEW c \in Conns,
             Link(c) \/ ReadTicket(c) \/ OnPeer(c) \/ SessionOver(c) \/ Unlink(c)
      PROVE  WindowInv'
    BY <1>1, <1>7 DEF Link, ReadTicket, OnPeer, SessionOver, Unlink
<1>8. CASE UNCHANGED vars
    BY <1>1, <1>8 DEF vars, gateVars
<1> QED BY <1>2, <1>3, <1>4, <1>5, <1>6, <1>7, <1>8 DEF Next

(* However many strangers knock while the prompt of the first is up, one    *)
(* arming of the pairing window lets in one (admit_incoming looks at the    *)
(* window again when the answer is in, and closes it).                     *)
THEOREM OneStrangerPerWindow == Spec => []OnePerArming
<1>1. Init => WindowInv
    BY DEF Init, GateInit, WindowInv
<1>2. WindowInv /\ [Next]_vars => WindowInv'
    BY WindowInvStep
<1>3. WindowInv => OnePerArming
    BY DEF WindowInv, OnePerArming
<1> QED BY <1>1, <1>2, <1>3, PTL DEF Spec

-----------------------------------------------------------------------------
(* Nobody the user did not choose.                                         *)

\* Stages of a connection whose peer somebody vouched for.
Vouched == {"approved", "admitted", "hello", "trust", "live", "unlisted"}

Conn == conn \in [Conns -> Connection]
ConnsVouched == \A c \in Conns : conn[c].at \in Vouched => conn[c].peer \in chosen
Loops ==
    /\ loop = [p \in Peers |-> loop[p]]
    /\ \A p \in Peers : loop[p].at = "dial" => p \in chosen

ChosenInv ==
    /\ Conn /\ ConnsVouched /\ Loops
    /\ known \subseteq chosen
    /\ once \subseteq chosen

\* A connection gets to another stage,
LEMMA StageKeeps ==
    ASSUME Conn, ConnsVouched, chosen \subseteq chosen',
           NEW c, NEW stage \in Stages, At(c, stage),
           stage \in Vouched => conn[c].at \in Vouched \/ conn[c].peer \in chosen'
    PROVE  Conn' /\ ConnsVouched'
<1>1. ASSUME NEW e \in Conns
      PROVE  /\ conn'[e] = IF e = c THEN [conn[e] EXCEPT !.at = stage] ELSE conn[e]
             /\ conn[e] \in Connection
    BY <1>1 DEF At, Conn
<1>2. conn' = [e \in Conns |-> conn'[e]]
    BY DEF At, Conn
<1>3. ASSUME NEW e \in Conns
      PROVE  /\ conn'[e] \in Connection
             /\ conn'[e].at = IF e = c THEN stage ELSE conn[e].at
             /\ conn'[e].peer = conn[e].peer
    BY <1>1, <1>3 DEF Connection
<1>4. Conn'
    BY <1>2, <1>3 DEF Conn
<1>5. ConnsVouched'
    BY <1>3 DEF ConnsVouched
<1> QED BY <1>4, <1>5

\* or its slot holds another.
LEMMA SlotKeeps ==
    ASSUME Conn, ConnsVouched, chosen \subseteq chosen',
           NEW c, NEW r \in Connection, conn' = [conn EXCEPT ![c] = r],
           r.at \in Vouched => r.peer \in chosen'
    PROVE  Conn' /\ ConnsVouched'
<1>1. ASSUME NEW e \in Conns PROVE conn'[e] = IF e = c THEN r ELSE conn[e]
    BY <1>1 DEF Conn
<1>2. Conn'
    BY DEF Conn
<1>3. ConnsVouched'
    BY <1>1 DEF ConnsVouched
<1> QED BY <1>2, <1>3

LEMMA FreeSlotType == FreeSlot \in Connection /\ FreeSlot.at \notin Vouched
BY DEF FreeSlot, Connection, Stages, Vouched

LEMMA GateKeepsChosen ==
    ASSUME ChosenInv, NEW c \in Conns, Gate(c) PROVE ChosenInv'
<1>1. UNCHANGED <<known, chosen, meshVars>>
    BY DEF Gate, GateStep, AdmitKnown, CheckWindow, AskClient, ConsumeWindow
<1>2. \/ At(c, "ask") \/ At(c, "asked") \/ conn' = [conn EXCEPT ![c] = FreeSlot]
      \/ At(c, "admitted") /\ conn[c].peer \in chosen
    BY DEF Gate, GateStep, AdmitKnown, CheckWindow, AskClient, ConsumeWindow,
           Trusted, ChosenInv, ConnsVouched, Vouched
<1>3. Conn' /\ ConnsVouched'
    <2> USE <1>1 DEF ChosenInv
    <2>1. CASE At(c, "ask")
        BY <2>1, StageKeeps DEF Stages, Vouched
    <2>2. CASE At(c, "asked")
        BY <2>2, StageKeeps DEF Stages, Vouched
    <2>3. CASE At(c, "admitted") /\ conn[c].peer \in chosen
        BY <2>3, StageKeeps DEF Stages
    <2>4. CASE conn' = [conn EXCEPT ![c] = FreeSlot]
        BY <2>4, SlotKeeps, FreeSlotType
    <2> QED BY <1>2, <2>1, <2>2, <2>3, <2>4
<1> QED BY <1>1, <1>3 DEF ChosenInv, Loops, meshVars

\* A client session that returns refuses whoever still waits.
LEMMA ReturnKeeps ==
    ASSUME Conn, ConnsVouched, UNCHANGED chosen, SessionReturns
    PROVE  Conn' /\ ConnsVouched'
<1>1. ASSUME NEW e \in Conns PROVE conn'[e] \in {conn[e], FreeSlot}
    BY <1>1 DEF SessionReturns, Refused
<1>2. Conn'
    <2>1. conn' = [e \in Conns |-> conn'[e]]
        BY DEF SessionReturns, Refused
    <2> QED BY <1>1, <2>1, FreeSlotType DEF Conn
<1>3. ConnsVouched'
    BY <1>1, FreeSlotType DEF ConnsVouched
<1> QED BY <1>2, <1>3

LEMMA ClientKeepsChosen ==
    ASSUME ChosenInv, Session \/ User \/ Expire PROVE ChosenInv'
<1> USE DEF ChosenInv
<1>1. UNCHANGED <<known, meshVars>> /\ chosen \subseteq chosen'
    BY DEF Session, SessionStep, HearApprove, HearConnected, SessionReturns, Disarm,
           User, Show, Attach, Allow, Deny, HangUp, Expire, Lapse
<1>2. Conn' /\ ConnsVouched'
    <2>1. CASE UNCHANGED <<conn, chosen>>
        BY <2>1 DEF Conn, ConnsVouched
    <2>2. CASE UNCHANGED chosen /\ SessionReturns
        BY <2>2, ReturnKeeps
    <2>3. ASSUME NEW c, conn' = [conn EXCEPT ![c] = FreeSlot], UNCHANGED chosen
          PROVE  Conn' /\ ConnsVouched'
        BY <2>3, SlotKeeps, FreeSlotType
    <2>4. CASE Allow
        <3>1. At(client.about, "approved") /\ conn[client.about].peer \in chosen'
            BY <2>4 DEF Allow
        <3> QED BY <1>1, <3>1, StageKeeps DEF Stages
    <2>5. CASE Session
        BY <2>1, <2>2, <2>3, <2>5 DEF Session, SessionStep, HearApprove, HearConnected, Disarm
    <2>6. CASE User
        BY <2>1, <2>2, <2>3, <2>4, <2>6 DEF User, Show, Attach, Deny, HangUp
    <2>7. CASE Expire
        BY <2>1, <2>7 DEF Expire, Lapse
    <2> QED BY <2>5, <2>6, <2>7
<1>3. Loops'
    BY <1>1 DEF Loops, meshVars
<1> QED BY <1>1, <1>2, <1>3 DEF meshVars

\* A loop goes to rest, or on with a connection; it dials whom it may.
LEMMA LoopKeeps ==
    ASSUME Loops, chosen \subseteq chosen', NEW p, NEW l,
           loop' = [loop EXCEPT ![p] = l], l.at = "dial" => p \in chosen'
    PROVE  Loops'
<1>1. loop' = [q \in Peers |-> loop'[q]]
    BY DEF Loops
<1>2. ASSUME NEW q \in Peers, loop'[q].at = "dial" PROVE q \in chosen'
    BY <1>2 DEF Loops
<1> QED BY <1>1, <1>2 DEF Loops

LEMMA DialKeeps ==
    ASSUME Loops, chosen \subseteq chosen', NEW p, Dial(p) PROVE Loops'
<1>1. Rest("start").at # "dial"
    BY DEF Rest
<1>2. CASE UNCHANGED loop
    BY <1>2 DEF Loops
<1>3. CASE loop' = [loop EXCEPT ![p] = Rest("start")]
    BY <1>1, <1>3, LoopKeeps
<1> QED BY <1>2, <1>3 DEF Dial

LEMMA FinishedKeeps ==
    ASSUME Conn, ConnsVouched, Loops, UNCHANGED chosen, NEW c, Finished(c)
    PROVE  Conn' /\ ConnsVouched' /\ Loops'
<1>1. Conn' /\ ConnsVouched'
    BY SlotKeeps, FreeSlotType DEF Finished
<1>2. ASSUME NEW q \in Peers, loop'[q].at = "dial" PROVE q \in chosen'
    BY <1>2 DEF Finished, Loops, Rest
<1>3. loop' = [q \in Peers |-> loop'[q]]
    BY DEF Finished
<1> QED BY <1>1, <1>2, <1>3 DEF Loops

\* A new connection is at the gate, or of a peer that may be dialed.
LEMMA ConnectKeeps ==
    ASSUME Conn, ConnsVouched, UNCHANGED chosen, NEW p \in Peers, NEW dialed \in BOOLEAN,
           Connect(p, dialed), dialed => p \in chosen
    PROVE  Conn' /\ ConnsVouched'
<1> DEFINE r == [at |-> IF dialed THEN "admitted" ELSE "gate", peer |-> p, closed |-> FALSE]
<1>1. r \in Connection
    BY DEF Connection, Stages
<1>2. r.at \in Vouched => r.peer \in chosen'
    BY DEF Vouched
<1>3. conn' = [conn EXCEPT ![Slot] = r]
    BY DEF Connect
<1> HIDE DEF r
<1> QED BY <1>1, <1>2, <1>3, SlotKeeps

LEMMA PeerKeepsChosen ==
    ASSUME ChosenInv, NEW p \in Peers,
           Add(p) \/ Accept(p) \/ PairDial(p) \/ LeaveLoop(p) \/ CheckLoop(p)
             \/ LoopDial(p) \/ Forget(p) \/ CloseForgotten(p)
    PROVE  ChosenInv'
<1> USE DEF ChosenInv
<1>1. CASE Add(p)
    <2>1. chosen \subseteq chosen' /\ p \in chosen' /\ UNCHANGED conn
        BY <1>1 DEF Add
    <2>2. Conn' /\ ConnsVouched'
        BY <2>1 DEF Conn, ConnsVouched
    <2>3. Loops'
        BY <1>1, <2>1, DialKeeps DEF Add
    <2> QED BY <1>1, <2>1, <2>2, <2>3 DEF Add
<1>2. CASE Accept(p)
    <2>1. Conn' /\ ConnsVouched'
        BY <1>2, ConnectKeeps DEF Accept
    <2>2. Loops'
        BY <1>2 DEF Accept, meshVars, Loops
    <2> QED BY <1>2, <2>1, <2>2 DEF Accept, meshVars
<1>3. CASE PairDial(p)
    <2>1. CASE UNCHANGED conn
        BY <1>3, <2>1 DEF PairDial, Conn, ConnsVouched, Loops
    <2>2. CASE Connect(p, TRUE)
        <3>1. Conn' /\ ConnsVouched'
            BY <1>3, <2>2, ConnectKeeps DEF PairDial
        <3> QED BY <1>3, <3>1 DEF PairDial, Loops
    <2> QED BY <1>3, <2>1, <2>2 DEF PairDial
<1>4. CASE LeaveLoop(p)
    <2>1. Rest("off").at # "dial"
        BY DEF Rest
    <2>2. Loops'
        BY <1>4, <2>1, LoopKeeps DEF LeaveLoop, LoopStep
    <2> QED BY <1>4, <2>2 DEF LeaveLoop, LoopStep, Conn, ConnsVouched
<1>5. CASE CheckLoop(p)
    <2> DEFINE l == Rest(IF ~StillKnown(p) THEN "leave"
                         ELSE IF connected[p] = 0 THEN "dial" ELSE "sleep")
    <2>1. l.at = "dial" => p \in chosen
        BY DEF Rest, StillKnown
    <2>2. loop' = [loop EXCEPT ![p] = l] /\ UNCHANGED <<conn, known, chosen, once>>
        BY <1>5 DEF CheckLoop, LoopStep
    <2> HIDE DEF l
    <2>3. Loops'
        BY <2>1, <2>2, LoopKeeps
    <2> QED BY <2>2, <2>3 DEF Conn, ConnsVouched
<1>6. CASE LoopDial(p)
    <2>1. UNCHANGED <<known, chosen, once>> /\ p \in chosen
        BY <1>6 DEF LoopDial, LoopStep, Loops
    <2>2. CASE Connect(p, TRUE) /\ loop' = [loop EXCEPT ![p] = [at |-> "busy", on |-> Slot]]
        <3>1. Conn' /\ ConnsVouched'
            BY <2>1, <2>2, ConnectKeeps
        <3>2. [at |-> "busy", on |-> Slot].at # "dial"
            OBVIOUS
        <3>3. Loops'
            BY <2>1, <2>2, <3>2, LoopKeeps
        <3> QED BY <2>1, <3>1, <3>3
    <2>3. CASE UNCHANGED conn /\ loop' = [loop EXCEPT ![p] = Rest("sleep")]
        <3>1. Rest("sleep").at # "dial"
            BY DEF Rest
        <3>2. Loops'
            BY <2>1, <2>3, <3>1, LoopKeeps
        <3> QED BY <2>1, <2>3, <3>2 DEF Conn, ConnsVouched
    <2> QED BY <1>6, <2>2, <2>3 DEF LoopDial
<1>7. CASE Forget(p)
    BY <1>7 DEF Forget, Conn, ConnsVouched, Loops
<1>8. CASE CloseForgotten(p)
    <2>1. ASSUME NEW e \in Conns
          PROVE  conn'[e] \in Connection /\ conn'[e].at = conn[e].at /\ conn'[e].peer = conn[e].peer
        <3>1. conn[e] \in Connection
            BY DEF Conn
        <3>2. conn'[e] \in {conn[e], [conn[e] EXCEPT !.closed = TRUE]}
            BY <1>8 DEF CloseForgotten, Conn
        <3> QED BY <3>1, <3>2 DEF Connection
    <2>2. conn' = [e \in Conns |-> conn'[e]]
        BY <1>8 DEF CloseForgotten, Conn
    <2> QED BY <1>8, <2>1, <2>2 DEF CloseForgotten, Conn, ConnsVouched, Loops
<1> QED BY <1>1, <1>2, <1>3, <1>4, <1>5, <1>6, <1>7, <1>8

LEMMA ConnKeepsChosen ==
    ASSUME ChosenInv, NEW c \in Conns,
           Link(c) \/ ReadTicket(c) \/ OnPeer(c) \/ SessionOver(c) \/ Unlink(c)
    PROVE  ChosenInv'
<1> USE DEF ChosenInv
<1>1. CASE Link(c)
    <2>1. UNCHANGED <<known, chosen, once>> /\ conn[c].at = "admitted"
        BY <1>1 DEF Link
    <2>2. CASE At(c, "hello") /\ UNCHANGED loop
        <3>1. Conn' /\ ConnsVouched'
            BY <2>1, <2>2, StageKeeps DEF Stages, Vouched
        <3> QED BY <2>1, <2>2, <3>1 DEF Loops
    <2>3. CASE Finished(c)
        BY <2>1, <2>3, FinishedKeeps
    <2> QED BY <1>1, <2>2, <2>3 DEF Link
<1>2. CASE ReadTicket(c)
    <2>1. Conn' /\ ConnsVouched'
        BY <1>2, StageKeeps DEF ReadTicket, Stages, Vouched
    <2> QED BY <1>2, <2>1 DEF ReadTicket, meshVars, Loops
<1>3. CASE OnPeer(c)
    <2>1. UNCHANGED <<chosen, once>> /\ conn[c].peer \in chosen
        BY <1>3 DEF OnPeer, ConnsVouched, Vouched
    <2>2. Conn' /\ ConnsVouched'
        BY <1>3, <2>1, StageKeeps DEF OnPeer, Stages
    <2>3. Loops'
        BY <1>3, <2>1, DialKeeps DEF OnPeer
    <2> QED BY <1>3, <2>1, <2>2, <2>3 DEF OnPeer
<1>4. CASE SessionOver(c)
    <2>1. Conn' /\ ConnsVouched'
        BY <1>4, StageKeeps DEF SessionOver, Stages, Vouched
    <2> QED BY <1>4, <2>1 DEF SessionOver, meshVars, Loops
<1>5. CASE Unlink(c)
    BY <1>5, FinishedKeeps DEF Unlink
<1> QED BY <1>1, <1>2, <1>3, <1>4, <1>5

(* Whoever is in the known-peers file or past the gate was put there by the *)
(* user once, with a ticket or a yes: no order of knocks, dials, hellos and *)
(* unpairings lets in anyone else (admit_incoming, on_peer, dial_loop).     *)
THEOREM OnlyChosenPeers == Spec => []ChosenByUser
<1>1. Init => ChosenInv
    <2> SUFFICES ASSUME Init PROVE ChosenInv
        OBVIOUS
    <2>1. Conn /\ ConnsVouched
        BY FreeSlotType DEF Init, GateInit, Conn, ConnsVouched
    <2>2. Loops
        BY DEF Init, Loops, Rest
    <2> QED BY <2>1, <2>2 DEF Init, GateInit, ChosenInv
<1>2. ChosenInv /\ [Next]_vars => ChosenInv'
    <2> SUFFICES ASSUME ChosenInv, [Next]_vars PROVE ChosenInv'
        OBVIOUS
    <2>1. CASE UNCHANGED vars
        BY <2>1 DEF vars, gateVars, meshVars, ChosenInv, Conn, ConnsVouched, Loops
    <2> QED BY <2>1, GateKeepsChosen, ClientKeepsChosen, PeerKeepsChosen, ConnKeepsChosen
            DEF Next
<1>3. ChosenInv => ChosenByUser
    BY DEF ChosenInv, ChosenByUser, ConnsVouched, InSession, Vouched
<1> QED BY <1>1, <1>2, <1>3, PTL DEF Spec
-----------------------------------------------------------------------------
(* One session per peer.                                                   *)

\* Stages of a connection that entered the map when it was linked.
Linked == {"hello", "trust", "live", "unlisted", "over"}

Sets ==
    /\ known \subseteq Peers /\ chosen \subseteq Peers /\ window \in BOOLEAN
    /\ dials \subseteq Peers /\ once \subseteq Peers
    /\ forgetting \subseteq Peers /\ forgot \subseteq Peers
Named == Conn /\ \A c \in Conns : conn[c].at # "free" => conn[c].peer \in Peers

\* What the map names is linked; what is linked is in the map, if its peer was
\* never unpaired in mid-session.
Mapped ==
    /\ connected \in [Peers -> Conns \cup {0}]
    /\ \A p \in Peers :
          connected[p] # 0 => conn[connected[p]].peer = p /\ conn[connected[p]].at \in Linked
    /\ \A c \in Conns :
          conn[c].at \in Linked /\ conn[c].peer \notin forgot => connected[conn[c].peer] = c

Slots ==
    /\ dialing \subseteq Peers
    /\ loop \in [Peers -> [at: Resting \cup {"busy"}, on: Conns \cup {0}]]
    /\ \A p \in Peers : /\ p \in dialing <=> loop[p].at # "off"
                        /\ loop[p].on # 0 => loop[p].at = "busy"

\* Every prompt, shown or still in the inbox, is of a connection of its own
\* that waits for the answer.
Prompts ==
    /\ client \in [at: {"none", "ready", "prompt", "gone"}, about: Conns \cup {0},
                   target: Peers \cup {None}]
    /\ inbox \in Seq(Conns \cup Peers)
    /\ client.at = "prompt" => client.about \in Conns /\ conn[client.about].at = "asked"
    /\ \A i \in 1 .. Len(inbox) : inbox[i] \in Conns =>
          /\ conn[inbox[i]].at = "asked"
          /\ client.at = "prompt" => inbox[i] # client.about
          /\ \A j \in 1 .. Len(inbox) : j # i => inbox[j] # inbox[i]

MeshInv == WindowInv /\ Sets /\ Named /\ Mapped /\ Slots /\ Prompts

LEMMA SlotFree == Room => Slot \in Conns /\ conn[Slot].at = "free"
BY DEF Room, Slot

LEMMA FreeSlotIs == FreeSlot \in Connection /\ FreeSlot.at = "free"
BY DEF FreeSlot, Connection, Stages

\* One slot changes its connection: what it was and what it is then say all.
LEMMA NamedKeeps ==
    ASSUME Named, NEW c, NEW r \in Connection, conn' = [conn EXCEPT ![c] = r],
           r.at # "free" => r.peer \in Peers
    PROVE  Named'
<1>1. \A e \in Conns : conn'[e] = IF e = c THEN r ELSE conn[e]
    BY DEF Named, Conn
<1> QED
    BY <1>1 DEF Named, Conn

LEMMA MappedKeeps ==
    ASSUME Named, Mapped, NEW c \in Conns, NEW r \in Connection, conn' = [conn EXCEPT ![c] = r],
           UNCHANGED <<connected, forgot>>,
           r.at \in Linked => conn[c].at \in Linked,
           conn[c].at \in Linked => r.at \in Linked /\ r.peer = conn[c].peer
    PROVE  Mapped'
<1>1. \A e \in Conns : conn'[e] = IF e = c THEN r ELSE conn[e]
    BY DEF Named, Conn
<1>2. ASSUME NEW p \in Peers, connected'[p] # 0
      PROVE  conn'[connected'[p]].peer = p /\ conn'[connected'[p]].at \in Linked
    BY <1>1, <1>2 DEF Mapped
<1>3. ASSUME NEW e \in Conns, conn'[e].at \in Linked, conn'[e].peer \notin forgot'
      PROVE  connected'[conn'[e].peer] = e
    BY <1>1, <1>3 DEF Mapped
<1> QED
    BY <1>2, <1>3 DEF Mapped

LEMMA PromptsKeep ==
    ASSUME Named, Prompts, NEW c, NEW r, conn' = [conn EXCEPT ![c] = r],
           UNCHANGED <<client, inbox>>, conn[c].at = "asked" => r.at = "asked"
    PROVE  Prompts'
<1>1. \A e \in Conns : conn'[e] = IF e = c THEN r ELSE conn[e]
    BY DEF Named, Conn
<1> QED
    BY <1>1 DEF Prompts

\* A stage is such a change.
LEMMA StageIs ==
    ASSUME Named, NEW c \in Conns, NEW stage \in Stages, At(c, stage)
    PROVE  \E r \in Connection :
              /\ conn' = [conn EXCEPT ![c] = r]
              /\ r.at = stage /\ r.peer = conn[c].peer /\ r.closed = conn[c].closed
<1> DEFINE r == [conn[c] EXCEPT !.at = stage]
<1>1. conn[c] \in Connection
    BY DEF Named, Conn
<1>2. r \in Connection /\ r.at = stage /\ r.peer = conn[c].peer /\ r.closed = conn[c].closed
    BY <1>1 DEF Connection
<1>3. conn' = [conn EXCEPT ![c] = r]
    BY DEF At
<1> QED
    BY <1>2, <1>3

\* A move between stages outside the map, of a connection nobody is asked about.
LEMMA QuietStage ==
    ASSUME Named, Mapped, Prompts, NEW c \in Conns, conn[c].at # "asked", conn[c].at \notin Linked,
           \/ \E stage \in Stages \ (Linked \cup {"free"}) : At(c, stage) /\ conn[c].at # "free"
           \/ conn' = [conn EXCEPT ![c] = FreeSlot],
           UNCHANGED <<connected, forgot>>
    PROVE  Named' /\ Mapped' /\ (UNCHANGED <<client, inbox>> => Prompts')
<1>1. CASE conn' = [conn EXCEPT ![c] = FreeSlot]
    <2>1. FreeSlot.at \notin Linked
        BY FreeSlotIs DEF Linked
    <2> QED
        BY <1>1, <2>1, FreeSlotIs, NamedKeeps, MappedKeeps, PromptsKeep
<1>2. ASSUME NEW stage \in Stages \ (Linked \cup {"free"}), At(c, stage), conn[c].at # "free"
      PROVE  Named' /\ Mapped' /\ (UNCHANGED <<client, inbox>> => Prompts')
    <2>1. PICK r \in Connection : conn' = [conn EXCEPT ![c] = r] /\ r.at = stage
                                  /\ r.peer = conn[c].peer
        BY <1>2, StageIs
    <2>2. conn[c].peer \in Peers
        BY <1>2 DEF Named
    <2> QED
        BY <1>2, <2>1, <2>2, NamedKeeps, MappedKeeps, PromptsKeep
<1> QED
    BY <1>1, <1>2

LEMMA StillPrompts ==
    ASSUME Prompts, UNCHANGED <<conn, client, inbox>> PROVE Prompts'
BY DEF Prompts

LEMMA StillMapped ==
    ASSUME Named, Mapped, UNCHANGED <<conn, connected, forgot>> PROVE Named' /\ Mapped'
BY DEF Named, Conn, Mapped

LEMMA StillSlots ==
    ASSUME Slots, UNCHANGED <<dialing, loop>> PROVE Slots'
BY DEF Slots

\* An event is put at the end of the inbox.
LEMMA InboxGrows ==
    ASSUME Prompts, NEW v \in Conns \cup Peers, inbox' = Append(inbox, v)
    PROVE  /\ inbox' \in Seq(Conns \cup Peers) /\ Len(inbox') = Len(inbox) + 1
           /\ Len(inbox) \in Nat
           /\ \A i \in 1 .. Len(inbox') :
                inbox'[i] = IF i = Len(inbox) + 1 THEN v ELSE inbox[i]
BY DEF Prompts

\* and the first is taken.
LEMMA InboxShrinks ==
    ASSUME Prompts, inbox # <<>>, inbox' = Tail(inbox)
    PROVE  /\ Head(inbox) = inbox[1] /\ 1 \in 1 .. Len(inbox)
           /\ inbox' \in Seq(Conns \cup Peers) /\ Len(inbox') = Len(inbox) - 1
           /\ \A i \in 1 .. Len(inbox') : inbox'[i] = inbox[i + 1] /\ i + 1 \in 2 .. Len(inbox)
BY DEF Prompts

LEMMA AskKeepsMesh ==
    ASSUME Sets, Named, Mapped, Prompts, NEW c \in Conns, AskClient(c),
           UNCHANGED <<connected, forgot>>
    PROVE  Named' /\ Mapped' /\ Prompts'
<1>1. conn[c].at = "ask" /\ UNCHANGED client
    BY DEF AskClient
<1>2. CASE conn' = [conn EXCEPT ![c] = FreeSlot] /\ UNCHANGED inbox
    BY <1>1, <1>2, QuietStage DEF Linked
<1>3. CASE At(c, "asked") /\ inbox' = Append(inbox, c)
    <2>1. Named' /\ Mapped'
        BY <1>1, <1>3, QuietStage DEF Linked, Stages
    <2>2. \A e \in Conns : conn'[e].at = IF e = c THEN "asked" ELSE conn[e].at
        <3>1. conn[c] \in Connection /\ conn' = [conn EXCEPT ![c] = [conn[c] EXCEPT !.at = "asked"]]
            BY <1>3 DEF At, Named, Conn
        <3> QED
            BY <3>1 DEF Named, Conn, Connection
    <2>3. /\ inbox' \in Seq(Conns \cup Peers) /\ Len(inbox') = Len(inbox) + 1
          /\ Len(inbox) \in Nat
          /\ \A i \in 1 .. Len(inbox') : inbox'[i] = IF i = Len(inbox) + 1 THEN c ELSE inbox[i]
        BY <1>3, InboxGrows
    <2>4. \A i \in 1 .. Len(inbox) : inbox[i] # c
        BY <1>1 DEF Prompts
    <2>5. client.at = "prompt" => client.about # c
        BY <1>1 DEF Prompts
    <2>6. ASSUME NEW i \in 1 .. Len(inbox'), inbox'[i] \in Conns
          PROVE  /\ conn'[inbox'[i]].at = "asked"
                 /\ client.at = "prompt" => inbox'[i] # client.about
                 /\ \A j \in 1 .. Len(inbox') : j # i => inbox'[j] # inbox'[i]
        <3>1. CASE i = Len(inbox) + 1
            BY <2>2, <2>3, <2>4, <2>5, <3>1
        <3>2. CASE i # Len(inbox) + 1
            BY <2>2, <2>3, <2>4, <2>6, <3>2 DEF Prompts
        <3> QED
            BY <3>1, <3>2
    <2>7. client.at = "prompt" => client.about \in Conns /\ conn'[client.about].at = "asked"
        BY <2>2 DEF Prompts
    <2> QED
        BY <1>1, <2>1, <2>3, <2>6, <2>7 DEF Prompts
<1> QED
    BY <1>2, <1>3 DEF AskClient

LEMMA GateKeepsMesh ==
    ASSUME MeshInv, NEW c \in Conns, Gate(c)
    PROVE  Sets' /\ Named' /\ Mapped' /\ Slots' /\ Prompts'
<1> USE DEF MeshInv
<1>1. UNCHANGED <<known, chosen, client, meshVars>> /\ window' \in BOOLEAN
    BY DEF Gate, GateStep, AdmitKnown, CheckWindow, AskClient, ConsumeWindow, Sets
<1>2. Sets' /\ Slots'
    BY <1>1, StillSlots DEF Sets, meshVars
<1>3. CASE AskClient(c)
    BY <1>1, <1>2, <1>3, AskKeepsMesh DEF meshVars
<1>4. CASE AdmitKnown(c) \/ CheckWindow(c) \/ ConsumeWindow(c)
    <2>1. UNCHANGED inbox /\ conn[c].at \in {"gate", "approved"}
        BY <1>4 DEF AdmitKnown, CheckWindow, ConsumeWindow
    <2>2. \/ At(c, "admitted") \/ At(c, "ask")
          \/ conn' = [conn EXCEPT ![c] = FreeSlot]
        BY <1>4 DEF AdmitKnown, CheckWindow, ConsumeWindow
    <2>3. {"admitted", "ask"} \subseteq Stages \ (Linked \cup {"free"})
        BY DEF Stages, Linked
    <2> QED
        BY <1>1, <1>2, <2>1, <2>2, <2>3, QuietStage DEF meshVars, Linked
<1> QED
    BY <1>3, <1>4 DEF Gate, GateStep

\* The client session ends: the waiting are refused, the inbox is dropped.
LEMMA ReturnKeepsMesh ==
    ASSUME Named, Mapped, Prompts, SessionReturns, UNCHANGED <<connected, forgot>>
    PROVE  Named' /\ Mapped' /\ Prompts'
<1>1. /\ conn' = [c \in Conns |-> IF conn[c].at = "asked" THEN FreeSlot ELSE conn[c]]
      /\ client' = [at |-> "gone", about |-> 0, target |-> None] /\ inbox' = <<>>
    BY DEF SessionReturns, Refused
<1>2. Named'
    BY <1>1, FreeSlotIs DEF Named, Conn
<1>3. Mapped'
    <2>1. \A e \in Conns : conn[e].at \in Linked => conn'[e] = conn[e]
        BY <1>1 DEF Linked
    <2>2. \A e \in Conns : conn'[e].at \in Linked => conn'[e] = conn[e]
        BY <1>1, FreeSlotIs DEF Linked
    <2> QED
        BY <2>1, <2>2 DEF Mapped
<1>4. Prompts'
    BY <1>1 DEF Prompts
<1> QED
    BY <1>2, <1>3, <1>4

LEMMA HearKeepsMesh ==
    ASSUME Named, Mapped, Prompts, HearApprove, UNCHANGED <<connected, forgot>>
    PROVE  Named' /\ Mapped' /\ Prompts'
<1> DEFINE c == Head(inbox)
<1>1. client.at = "ready" /\ inbox # <<>> /\ c \in Conns /\ inbox' = Tail(inbox)
    BY DEF HearApprove
<1>2. /\ c = inbox[1] /\ 1 \in 1 .. Len(inbox)
      /\ inbox' \in Seq(Conns \cup Peers) /\ Len(inbox') = Len(inbox) - 1
      /\ \A i \in 1 .. Len(inbox') : inbox'[i] = inbox[i + 1] /\ i + 1 \in 2 .. Len(inbox)
    BY <1>1, InboxShrinks
<1> HIDE DEF c
<1>3. conn[c].at = "asked" /\ \A j \in 1 .. Len(inbox) : j # 1 => inbox[j] # c
    BY <1>1, <1>2 DEF Prompts
<1>4. \A i \in 1 .. Len(inbox') : inbox'[i] # c
    BY <1>2, <1>3
<1>5. \A i \in 1 .. Len(inbox') : inbox'[i] \in Conns =>
         /\ conn[inbox'[i]].at = "asked"
         /\ \A j \in 1 .. Len(inbox') : j # i => inbox'[j] # inbox'[i]
    <2> SUFFICES ASSUME NEW i \in 1 .. Len(inbox'), inbox'[i] \in Conns
                 PROVE  /\ conn[inbox'[i]].at = "asked"
                        /\ \A j \in 1 .. Len(inbox') : j # i => inbox'[j] # inbox'[i]
        OBVIOUS
    <2>1. i + 1 \in 1 .. Len(inbox) /\ inbox'[i] = inbox[i + 1]
        BY <1>2
    <2>2. \A j \in 1 .. Len(inbox') : j # i =>
             j + 1 \in 1 .. Len(inbox) /\ j + 1 # i + 1 /\ inbox'[j] = inbox[j + 1]
        BY <1>2
    <2> QED
        BY <2>1, <2>2 DEF Prompts
<1>6. CASE conn' = [conn EXCEPT ![c] = FreeSlot] /\ UNCHANGED client
    <2>1. Named' /\ Mapped'
        BY <1>1, <1>3, <1>6, FreeSlotIs, NamedKeeps, MappedKeeps DEF Linked
    <2>2. \A e \in Conns : e # c => conn'[e] = conn[e]
        BY <1>6 DEF Named, Conn
    <2> QED
        BY <1>1, <1>2, <1>4, <1>5, <1>6, <2>1, <2>2 DEF Prompts
<1>7. CASE client' = [client EXCEPT !.at = "prompt", !.about = c] /\ UNCHANGED conn
    <2>1. Named' /\ Mapped'
        BY <1>7, StillMapped
    <2>2. /\ client'.at = "prompt" /\ client'.about = c
          /\ client' \in [at: {"none", "ready", "prompt", "gone"}, about: Conns \cup {0},
                          target: Peers \cup {None}]
        BY <1>1, <1>7 DEF Prompts
    <2> QED
        BY <1>1, <1>2, <1>3, <1>4, <1>5, <1>7, <2>1, <2>2 DEF Prompts
<1> QED
    BY <1>6, <1>7 DEF HearApprove, c

LEMMA ConnectedKeepsMesh ==
    ASSUME Named, Mapped, Prompts, HearConnected, UNCHANGED <<connected, forgot>>
    PROVE  Named' /\ Mapped' /\ Prompts'
<1>1. CASE SessionReturns
    BY <1>1, ReturnKeepsMesh
<1>2. CASE inbox' = Tail(inbox) /\ UNCHANGED <<client, conn>>
    <2>1. Named' /\ Mapped'
        BY <1>2, StillMapped
    <2>2. inbox # <<>> /\ client.at = "ready"
        BY DEF HearConnected
    <2>3. /\ inbox' \in Seq(Conns \cup Peers) /\ Len(inbox') = Len(inbox) - 1
          /\ \A i \in 1 .. Len(inbox') : inbox'[i] = inbox[i + 1] /\ i + 1 \in 2 .. Len(inbox)
        BY <1>2, <2>2, InboxShrinks
    <2>4. \A i \in 1 .. Len(inbox') : inbox'[i] \in Conns =>
             /\ conn[inbox'[i]].at = "asked"
             /\ \A j \in 1 .. Len(inbox') : j # i => inbox'[j] # inbox'[i]
        <3> SUFFICES ASSUME NEW i \in 1 .. Len(inbox'), inbox'[i] \in Conns
                     PROVE  /\ conn[inbox'[i]].at = "asked"
                            /\ \A j \in 1 .. Len(inbox') : j # i => inbox'[j] # inbox'[i]
            OBVIOUS
        <3>1. i + 1 \in 1 .. Len(inbox) /\ inbox'[i] = inbox[i + 1]
            BY <2>3
        <3>2. \A j \in 1 .. Len(inbox') : j # i =>
                 j + 1 \in 1 .. Len(inbox) /\ j + 1 # i + 1 /\ inbox'[j] = inbox[j + 1]
            BY <2>3
        <3> QED
            BY <3>1, <3>2 DEF Prompts
    <2> QED
        BY <1>2, <2>1, <2>2, <2>3, <2>4 DEF Prompts
<1> QED
    BY <1>1, <1>2 DEF HearConnected

\* The user answers the prompt that is shown, and no other.
LEMMA AnswerKeepsMesh ==
    ASSUME Sets, Named, Mapped, Prompts, Allow \/ Deny, UNCHANGED <<connected, forgot>>
    PROVE  Named' /\ Mapped' /\ Prompts' /\ chosen' \subseteq Peers
<1> DEFINE c == client.about
<1>1. client.at = "prompt" /\ UNCHANGED inbox
    BY DEF Allow, Deny
<1>2. c \in Conns /\ conn[c].at = "asked" /\ conn[c].peer \in Peers
    BY <1>1 DEF Prompts, Named
<1>3. \A i \in 1 .. Len(inbox) : inbox[i] \in Conns => inbox[i] # c
    BY <1>1 DEF Prompts
<1>4. \E r \in Connection : /\ conn' = [conn EXCEPT ![c] = r]
                            /\ r.at \notin Linked /\ (r.at # "free" => r.peer = conn[c].peer)
    <2>1. CASE Allow
        <3>1. At(c, "approved") /\ "approved" \in Stages \ Linked
            BY <2>1 DEF Allow, Stages, Linked
        <3> HIDE DEF c
        <3> QED
            BY <1>2, <3>1, StageIs
    <2>2. CASE Deny
        BY <2>2, FreeSlotIs DEF Deny, Linked
    <2> QED
        BY <2>1, <2>2
<1>5. PICK r \in Connection : /\ conn' = [conn EXCEPT ![c] = r] /\ r.at \notin Linked
                              /\ (r.at # "free" => r.peer = conn[c].peer)
    BY <1>4
<1>6. /\ client'.at = "ready"
      /\ client' \in [at: {"none", "ready", "prompt", "gone"}, about: Conns \cup {0},
                      target: Peers \cup {None}]
    <2> DEFINE Clients == [at: {"none", "ready", "prompt", "gone"}, about: Conns \cup {0},
                           target: Peers \cup {None}]
    <2>1. client \in Clients
        BY DEF Prompts
    <2>2. CASE client' = [at |-> "ready", about |-> 0, target |-> conn[c].peer]
        BY <1>2, <2>2
    <2>3. CASE client' = [client EXCEPT !.at = "ready", !.about = 0]
        BY <2>1, <2>3
    <2> QED
        BY <2>2, <2>3 DEF Allow, Deny
<1>7. chosen' \subseteq Peers
    BY <1>2 DEF Allow, Deny, Sets
<1> HIDE DEF c
<1>8. Named' /\ Mapped'
    BY <1>2, <1>5, NamedKeeps, MappedKeeps DEF Linked
<1>9. \A e \in Conns : e # c => conn'[e] = conn[e]
    BY <1>5 DEF Named, Conn
<1> QED
    BY <1>1, <1>3, <1>6, <1>7, <1>8, <1>9 DEF Prompts

LEMMA ClientKeepsMesh ==
    ASSUME MeshInv, Session \/ User \/ Expire
    PROVE  Sets' /\ Named' /\ Mapped' /\ Slots' /\ Prompts'
<1> USE DEF MeshInv
<1>1. UNCHANGED <<known, meshVars>> /\ window' \in BOOLEAN
    BY DEF Session, SessionStep, HearApprove, HearConnected, Disarm,
           User, Show, Attach, Allow, Deny, HangUp, Expire, Lapse, Sets
<1>2. Slots' /\ UNCHANGED <<connected, forgot, dials, once, forgetting>>
    BY <1>1, StillSlots DEF meshVars
<1>3. UNCHANGED chosen => Sets'
    BY <1>1, <1>2 DEF Sets
<1>4. CASE HearApprove
    BY <1>2, <1>3, <1>4, HearKeepsMesh DEF HearApprove
<1>5. CASE HearConnected
    BY <1>2, <1>3, <1>5, ConnectedKeepsMesh DEF HearConnected
<1>6. CASE Disarm
    <2>1. Named' /\ Mapped'
        BY <1>2, <1>6, StillMapped DEF Disarm
    <2> QED
        BY <1>2, <1>3, <1>6, <2>1 DEF Disarm, Prompts
<1>7. CASE Show
    <2>1. Named' /\ Mapped'
        BY <1>2, <1>7, StillMapped DEF Show
    <2> QED
        BY <1>2, <1>3, <1>7, <2>1 DEF Show, Attach, Prompts
<1>8. CASE Allow \/ Deny
    <2>1. Named' /\ Mapped' /\ Prompts' /\ chosen' \subseteq Peers
        BY <1>2, <1>8, AnswerKeepsMesh
    <2> QED
        BY <1>1, <1>2, <2>1 DEF Sets
<1>9. CASE HangUp
    BY <1>2, <1>3, <1>9, ReturnKeepsMesh DEF HangUp
<1>10. CASE Lapse
    BY <1>2, <1>3, <1>10, StillMapped, StillPrompts DEF Lapse
<1> QED
    BY <1>4, <1>5, <1>6, <1>7, <1>8, <1>9, <1>10 DEF Session, SessionStep, User, Expire

\* A loop goes somewhere else; a peer without one gets one.
LEMMA SlotsKeep ==
    ASSUME Slots, NEW p \in Peers, NEW stage \in Resting, loop' = [loop EXCEPT ![p] = Rest(stage)],
           dialing' = IF stage = "off" THEN dialing \ {p} ELSE dialing,
           loop[p].at # "off"
    PROVE  Slots'
<1>1. Rest(stage) \in [at: Resting \cup {"busy"}, on: Conns \cup {0}]
      /\ Rest(stage).at = stage /\ Rest(stage).on = 0
    BY DEF Rest
<1> QED
    BY <1>1 DEF Slots

LEMMA DialKeepsSlots ==
    ASSUME Slots, NEW p \in Peers, Dial(p) PROVE Slots'
<1>1. Rest("start") \in [at: Resting \cup {"busy"}, on: Conns \cup {0}]
      /\ Rest("start").at = "start" /\ Rest("start").on = 0
    BY DEF Rest, Resting
<1> QED
    BY <1>1 DEF Slots, Dial

LEMMA FinishedKeepsSlots ==
    ASSUME Slots, NEW c \in Conns, Finished(c), UNCHANGED dialing PROVE Slots'
<1>1. Rest("sleep") \in [at: Resting \cup {"busy"}, on: Conns \cup {0}]
      /\ Rest("sleep").at = "sleep" /\ Rest("sleep").on = 0
    BY DEF Rest, Resting
<1>2. c # 0
    BY GateAssumption DEF Conns
<1>3. \A p \in Peers : loop'[p] = IF loop[p].on = c THEN Rest("sleep") ELSE loop[p]
    BY DEF Finished
<1>4. \A p \in Peers : loop'[p].at # "off" <=> loop[p].at # "off"
    BY <1>1, <1>2, <1>3 DEF Slots
<1>5. loop' \in [Peers -> [at: Resting \cup {"busy"}, on: Conns \cup {0}]]
    BY <1>1 DEF Finished, Slots
<1> QED
    BY <1>1, <1>3, <1>4, <1>5 DEF Slots

LEMMA ConnectKeepsMesh ==
    ASSUME Named, Mapped, Prompts, NEW p \in Peers, NEW dialed \in BOOLEAN, Room,
           Connect(p, dialed), UNCHANGED <<connected, forgot, client, inbox>>
    PROVE  Named' /\ Mapped' /\ Prompts'
<1> DEFINE r == [at |-> IF dialed THEN "admitted" ELSE "gate", peer |-> p, closed |-> FALSE]
<1>1. r \in Connection /\ r.at \notin Linked /\ r.peer \in Peers
    BY DEF Connection, Stages, Linked
<1>2. conn' = [conn EXCEPT ![Slot] = r]
    BY DEF Connect
<1> HIDE DEF r
<1>3. Slot \in Conns /\ conn[Slot].at = "free"
    BY SlotFree
<1> QED
    BY <1>1, <1>2, <1>3, NamedKeeps, MappedKeeps, PromptsKeep DEF Linked

LEMMA LoopKeepsMesh ==
    ASSUME MeshInv, NEW p \in Peers, LeaveLoop(p) \/ CheckLoop(p) \/ LoopDial(p)
    PROVE  Sets' /\ Named' /\ Mapped' /\ Slots' /\ Prompts'
<1> USE DEF MeshInv
<1>1. /\ UNCHANGED <<known, window, client, inbox, chosen, used,
                    dials, once, connected, forgetting, forgot>>
    BY DEF LeaveLoop, CheckLoop, LoopDial, LoopStep
<1>2. Sets'
    BY <1>1 DEF Sets
<1>3. UNCHANGED conn => Named' /\ Mapped' /\ Prompts'
    BY <1>1, StillMapped, StillPrompts
<1>4. CASE LeaveLoop(p)
    BY <1>2, <1>3, <1>4, SlotsKeep DEF LeaveLoop, Resting
<1>5. CASE CheckLoop(p)
    <2>1. PICK stage \in {"leave", "dial", "sleep"} : loop' = [loop EXCEPT ![p] = Rest(stage)]
        <3>1. loop' = [loop EXCEPT ![p] = Rest("leave")]
              \/ loop' = [loop EXCEPT ![p] = Rest("dial")]
              \/ loop' = [loop EXCEPT ![p] = Rest("sleep")]
            BY <1>5 DEF CheckLoop
        <3> QED
            BY <3>1
    <2>2. stage \in Resting /\ stage # "off" /\ loop[p].at # "off"
          /\ UNCHANGED <<dialing, conn>>
        BY <1>5 DEF Resting, CheckLoop
    <2> QED
        BY <1>2, <1>3, <2>1, <2>2, SlotsKeep
<1>6. CASE LoopDial(p)
    <2>1. loop[p].at = "dial" /\ UNCHANGED dialing
        BY <1>6 DEF LoopDial
    <2>2. CASE loop' = [loop EXCEPT ![p] = Rest("sleep")] /\ UNCHANGED conn
        BY <1>2, <1>3, <2>1, <2>2, SlotsKeep DEF Resting
    <2>3. CASE Room /\ Connect(p, TRUE) /\ loop' = [loop EXCEPT ![p] = [at |-> "busy", on |-> Slot]]
        <3>1. Named' /\ Mapped' /\ Prompts'
            BY <1>1, <2>3, ConnectKeepsMesh
        <3> DEFINE b == [at |-> "busy", on |-> Slot]
        <3>2. b \in [at: Resting \cup {"busy"}, on: Conns \cup {0}] /\ b.at = "busy"
            BY <2>3, SlotFree
        <3>3. loop' = [loop EXCEPT ![p] = b]
            BY <2>3
        <3> HIDE DEF b
        <3>4. Slots'
            BY <2>1, <3>2, <3>3 DEF Slots
        <3> QED
            BY <1>2, <3>1, <3>4
    <2> QED
        BY <1>6, <2>2, <2>3 DEF LoopDial
<1> QED
    BY <1>4, <1>5, <1>6

\* The map forgets what is unpaired in mid-session.
LEMMA CloseKeepsMapped ==
    ASSUME Named, Mapped, Sets, Prompts, NEW p \in Peers, CloseForgotten(p)
    PROVE  Named' /\ Mapped' /\ Prompts'
<1>1. CASE UNCHANGED <<conn, connected, forgot>>
    BY <1>1, StillMapped, StillPrompts DEF CloseForgotten
<1>2. CASE /\ connected[p] # 0
           /\ conn' = [conn EXCEPT ![connected[p]].closed = TRUE]
           /\ connected' = [connected EXCEPT ![p] = 0] /\ forgot' = forgot \cup {p}
    <2>1. connected[p] \in Conns
        BY <1>2 DEF Mapped
    <2>2. ASSUME NEW e \in Conns
          PROVE  conn'[e] \in Connection /\ conn'[e].at = conn[e].at /\ conn'[e].peer = conn[e].peer
        <3>1. conn[e] \in Connection
            BY DEF Named, Conn
        <3>2. conn'[e] \in {conn[e], [conn[e] EXCEPT !.closed = TRUE]}
            BY <1>2 DEF Named, Conn
        <3> QED
            BY <3>1, <3>2 DEF Connection
    <2>3. conn' = [e \in Conns |-> conn'[e]]
        BY <1>2 DEF Named, Conn
    <2>4. Named'
        BY <2>2, <2>3 DEF Named, Conn
    <2>5. \A q \in Peers : connected'[q] = IF q = p THEN 0 ELSE connected[q]
        BY <1>2 DEF Mapped
    <2>6. connected' \in [Peers -> Conns \cup {0}]
        BY <1>2 DEF Mapped
    <2>7. ASSUME NEW q \in Peers, connected'[q] # 0
          PROVE  conn'[connected'[q]].peer = q /\ conn'[connected'[q]].at \in Linked
        BY <2>2, <2>5, <2>6, <2>7 DEF Mapped
    <2>8. ASSUME NEW c \in Conns, conn'[c].at \in Linked, conn'[c].peer \notin forgot'
          PROVE  connected'[conn'[c].peer] = c
        <3>1. conn[c].at \in Linked /\ conn[c].peer \notin forgot /\ conn[c].peer # p
            BY <1>2, <2>2, <2>8
        <3>2. conn[c].peer \in Peers
            BY <3>1 DEF Named, Linked
        <3> QED
            BY <2>2, <2>5, <3>1, <3>2 DEF Mapped
    <2>9. Prompts'
        BY <2>2 DEF Prompts, CloseForgotten
    <2> QED
        BY <2>4, <2>6, <2>7, <2>8, <2>9 DEF Mapped
<1> QED
    BY <1>1, <1>2 DEF CloseForgotten

LEMMA PeerKeepsMesh ==
    ASSUME MeshInv, NEW p \in Peers,
           Add(p) \/ Accept(p) \/ PairDial(p) \/ Forget(p) \/ CloseForgotten(p)
    PROVE  Sets' /\ Named' /\ Mapped' /\ Slots' /\ Prompts'
<1> USE DEF MeshInv
<1>1. CASE Add(p)
    <2>1. Sets' /\ Named' /\ Mapped' /\ Slots'
        BY <1>1, StillMapped, DialKeepsSlots DEF Add, Sets
    <2>2. client' = [at |-> "ready", about |-> 0, target |-> p] /\ inbox' = <<>> /\ UNCHANGED conn
        BY <1>1 DEF Add, Attach
    <2> QED
        BY <2>1, <2>2 DEF Prompts
<1>2. CASE Accept(p)
    BY <1>2, ConnectKeepsMesh, StillSlots DEF Accept, meshVars, Sets
<1>3. CASE PairDial(p)
    <2>1. Sets' /\ Slots' /\ UNCHANGED <<connected, forgot, client, inbox>>
        BY <1>3, StillSlots DEF PairDial, Sets
    <2>2. CASE UNCHANGED conn
        BY <2>1, <2>2, StillMapped, StillPrompts
    <2>3. CASE Room /\ Connect(p, TRUE)
        BY <2>1, <2>3, ConnectKeepsMesh
    <2> QED
        BY <1>3, <2>2, <2>3 DEF PairDial
<1>4. CASE Forget(p)
    BY <1>4, StillMapped, StillPrompts, StillSlots DEF Forget, Sets
<1>5. CASE CloseForgotten(p)
    <2>1. Named' /\ Mapped' /\ Prompts'
        BY <1>5, CloseKeepsMapped
    <2> QED
        BY <1>5, <2>1, StillSlots DEF CloseForgotten, Sets
<1> QED
    BY <1>1, <1>2, <1>3, <1>4, <1>5

\* The first connection of a peer is linked, and told to the client.
LEMMA LinkKeepsMesh ==
    ASSUME MeshInv, NEW c \in Conns, Link(c)
    PROVE  Named' /\ Mapped' /\ Slots' /\ Prompts'
<1> USE DEF MeshInv
<1> DEFINE p == conn[c].peer
<1>1. /\ conn[c].at = "admitted" /\ p \in Peers
      /\ UNCHANGED <<known, window, client, chosen, used, dials, dialing, once, forgetting, forgot>>
    BY DEF Link, Named
<1> HIDE DEF p
<1>2. CASE connected[p] = 0
    <2>1. /\ connected' = [connected EXCEPT ![p] = c] /\ At(c, "hello") /\ UNCHANGED loop
          /\ inbox' = IF Heeded(p) THEN Append(inbox, p) ELSE inbox
        BY <1>2 DEF Link, NotLinked, p
    <2>2. PICK r \in Connection : conn' = [conn EXCEPT ![c] = r] /\ r.at = "hello" /\ r.peer = p
        BY <2>1, StageIs DEF Stages, p
    <2>3. \A e \in Conns : conn'[e] = IF e = c THEN r ELSE conn[e]
        BY <2>2 DEF Named, Conn
    <2>4. Named'
        BY <1>1, <2>2, NamedKeeps
    <2>5. connected' \in [Peers -> Conns \cup {0}]
          /\ \A q \in Peers : connected'[q] = IF q = p THEN c ELSE connected[q]
        BY <1>1, <2>1 DEF Mapped
    <2>6. ASSUME NEW q \in Peers, connected'[q] # 0
          PROVE  conn'[connected'[q]].peer = q /\ conn'[connected'[q]].at \in Linked
        BY <1>1, <2>2, <2>3, <2>5, <2>6 DEF Mapped, Linked
    <2>7. ASSUME NEW e \in Conns, conn'[e].at \in Linked, conn'[e].peer \notin forgot'
          PROVE  connected'[conn'[e].peer] = e
        <3>1. CASE e = c
            BY <1>1, <2>2, <2>3, <2>5, <3>1
        <3>2. CASE e # c
            <4>1. connected[conn[e].peer] = e /\ conn[e].peer \in Peers
                BY <1>1, <2>3, <2>7, <3>2 DEF Mapped, Named, Linked
            <4>2. e # 0
                BY GateAssumption DEF Conns
            <4>3. conn[e].peer # p
                BY <1>2, <4>1, <4>2
            <4> QED
                BY <2>3, <2>5, <3>2, <4>1, <4>3
        <3> QED
            BY <3>1, <3>2
    <2>8. Mapped'
        BY <2>5, <2>6, <2>7 DEF Mapped
    <2>9. Slots'
        BY <1>1, <2>1, StillSlots
    <2>10. ASSUME UNCHANGED inbox PROVE Prompts'
        BY <1>1, <2>2, <2>10, PromptsKeep
    <2>11. ASSUME inbox' = Append(inbox, p) PROVE Prompts'
        <3>1. /\ inbox' \in Seq(Conns \cup Peers) /\ Len(inbox') = Len(inbox) + 1
              /\ Len(inbox) \in Nat
              /\ \A i \in 1 .. Len(inbox') : inbox'[i] = IF i = Len(inbox) + 1 THEN p ELSE inbox[i]
            BY <1>1, <2>11, InboxGrows
        <3>2. p \notin Conns
            BY <1>1, GateAssumption
        <3>3. \A i \in 1 .. Len(inbox') : inbox'[i] \in Conns =>
                i \in 1 .. Len(inbox) /\ inbox'[i] = inbox[i]
            BY <3>1, <3>2
        <3>4. \A e \in Conns : conn[e].at = "asked" => conn'[e] = conn[e]
            BY <1>1, <2>3 DEF p
        <3>5. ASSUME NEW i \in 1 .. Len(inbox'), inbox'[i] \in Conns
              PROVE  /\ conn'[inbox'[i]].at = "asked"
                     /\ client'.at = "prompt" => inbox'[i] # client'.about
                     /\ \A j \in 1 .. Len(inbox') : j # i => inbox'[j] # inbox'[i]
            <4>1. i \in 1 .. Len(inbox) /\ inbox'[i] = inbox[i]
                BY <3>3, <3>5
            <4>2. /\ conn[inbox[i]].at = "asked"
                  /\ client.at = "prompt" => inbox[i] # client.about
                  /\ \A j \in 1 .. Len(inbox) : j # i => inbox[j] # inbox[i]
                BY <3>5, <4>1 DEF Prompts
            <4>3. \A j \in 1 .. Len(inbox') : j # i => inbox'[j] # inbox'[i]
                BY <3>1, <3>2, <3>5, <4>1, <4>2
            <4> QED
                BY <1>1, <3>4, <3>5, <4>1, <4>2, <4>3
        <3>6. client'.at = "prompt" => client'.about \in Conns /\ conn'[client'.about].at = "asked"
            BY <1>1, <3>4 DEF Prompts
        <3> QED
            BY <1>1, <3>1, <3>5, <3>6 DEF Prompts
    <2> QED
        BY <2>1, <2>4, <2>8, <2>9, <2>10, <2>11
<1>3. CASE connected[p] # 0
    <2>1. Finished(c) /\ UNCHANGED <<connected, inbox>>
        BY <1>3 DEF Link, NotLinked, p
    <2>2. Slots'
        BY <1>1, <2>1, FinishedKeepsSlots
    <2> QED
        BY <1>1, <2>1, <2>2, QuietStage DEF Finished, Linked
<1> QED
    BY <1>2, <1>3

LEMMA StageInMap ==
    ASSUME Named, Mapped, Prompts, NEW c \in Conns, conn[c].at \in Linked,
           NEW stage \in Linked, At(c, stage), UNCHANGED <<connected, forgot, client, inbox>>
    PROVE  Named' /\ Mapped' /\ Prompts'
<1>1. PICK r \in Connection : conn' = [conn EXCEPT ![c] = r] /\ r.at = stage
                              /\ r.peer = conn[c].peer
    BY StageIs DEF Linked, Stages
<1>2. conn[c].at # "free" /\ conn[c].at # "asked" /\ conn[c].peer \in Peers
    BY DEF Linked, Named
<1> QED
    BY <1>1, <1>2, NamedKeeps, MappedKeeps, PromptsKeep

LEMMA ConnKeepsMesh ==
    ASSUME MeshInv, NEW c \in Conns,
           Link(c) \/ ReadTicket(c) \/ OnPeer(c) \/ SessionOver(c) \/ Unlink(c)
    PROVE  Sets' /\ Named' /\ Mapped' /\ Slots' /\ Prompts'
<1> USE DEF MeshInv
<1>1. CASE Link(c)
    <2>1. Sets'
        BY <1>1 DEF Link, Sets
    <2> QED
        BY <1>1, <2>1, LinkKeepsMesh
<1>2. CASE ReadTicket(c)
    BY <1>2, StageInMap, StillSlots DEF ReadTicket, meshVars, Sets, Linked
<1>3. CASE OnPeer(c)
    <2>1. conn[c].peer \in Peers
        BY <1>3 DEF OnPeer, Named
    <2> QED
        BY <1>3, <2>1, StageInMap, DialKeepsSlots DEF OnPeer, Sets, Linked
<1>4. CASE SessionOver(c)
    BY <1>4, StageInMap, StillSlots DEF SessionOver, meshVars, Sets, Linked
<1>5. CASE Unlink(c)
    <2> DEFINE p == conn[c].peer
    <2>1. /\ conn[c].at = "over" /\ p \in Peers
          /\ connected' = [connected EXCEPT ![p] = 0]
          /\ conn' = [conn EXCEPT ![c] = FreeSlot] /\ Finished(c)
          /\ UNCHANGED <<known, window, client, inbox, chosen, used,
                         dials, dialing, once, forgetting, forgot>>
        BY <1>5 DEF Unlink, Named, Finished
    <2>2. Sets' /\ Slots'
        BY <2>1, FinishedKeepsSlots DEF Sets
    <2>3. Named' /\ Prompts'
        BY <2>1, FreeSlotIs, NamedKeeps, PromptsKeep
    <2>4. /\ \A e \in Conns : conn'[e] = IF e = c THEN FreeSlot ELSE conn[e]
          /\ connected' \in [Peers -> Conns \cup {0}]
          /\ \A q \in Peers : connected'[q] = IF q = p THEN 0 ELSE connected[q]
        BY <2>1 DEF Named, Conn, Mapped
    <2>5. ASSUME NEW q \in Peers, connected'[q] # 0
          PROVE  conn'[connected'[q]].peer = q /\ conn'[connected'[q]].at \in Linked
        <3>1. q # p /\ connected'[q] = connected[q] /\ connected[q] # c
            BY <2>4, <2>5 DEF Mapped
        <3> QED
            BY <2>4, <2>5, <3>1 DEF Mapped
    <2>6. ASSUME NEW e \in Conns, conn'[e].at \in Linked, conn'[e].peer \notin forgot'
          PROVE  connected'[conn'[e].peer] = e
        <3>1. e # c /\ conn'[e] = conn[e] /\ connected[conn[e].peer] = e
            BY <2>1, <2>4, <2>6, FreeSlotIs DEF Mapped, Linked
        <3>2. conn[e].peer \in Peers
            BY <2>6, <3>1 DEF Named, Linked
        <3>3. conn[c].at \in Linked
            BY <2>1 DEF Linked
        <3>4. conn[e].peer # p
            BY <2>1, <2>6, <3>1, <3>3 DEF Mapped
        <3> QED
            BY <2>4, <3>1, <3>2, <3>4
    <2> QED
        BY <2>2, <2>3, <2>4, <2>5, <2>6 DEF Mapped
<1> QED
    BY <1>1, <1>2, <1>3, <1>4, <1>5

LEMMA MeshInvInit == Init => MeshInv
<1> SUFFICES ASSUME Init PROVE MeshInv
    OBVIOUS
<1>1. WindowInv /\ Sets
    BY DEF Init, GateInit, WindowInv, Sets
<1>2. Named /\ Mapped
    BY FreeSlotIs DEF Init, GateInit, Named, Conn, Mapped, Linked
<1>3. Slots
    BY DEF Init, Slots, Rest, Resting
<1>4. Prompts
    BY DEF Init, GateInit, Prompts
<1> QED
    BY <1>1, <1>2, <1>3, <1>4 DEF MeshInv

LEMMA MeshInvStep == MeshInv /\ [Next]_vars => MeshInv'
<1> SUFFICES ASSUME MeshInv, [Next]_vars PROVE MeshInv'
    OBVIOUS
<1>1. WindowInv'
    BY WindowInvStep DEF MeshInv
<1>2. CASE UNCHANGED vars
    BY <1>1, <1>2, StillMapped, StillPrompts, StillSlots
       DEF MeshInv, Sets, vars, gateVars, meshVars
<1>3. CASE Next
    BY <1>1, <1>3, GateKeepsMesh, ClientKeepsMesh, PeerKeepsMesh, LoopKeepsMesh, ConnKeepsMesh
       DEF Next, MeshInv
<1> QED
    BY <1>2, <1>3

(* The records of the mesh fit each other: a peer has a slot exactly while   *)
(* it has a loop, and the map names a connection of that very peer (mesh.rs: *)
(* dialing, connected).                                                      *)
THEOREM MeshTypes == Spec => []TypeOK
<1>1. MeshInv => TypeOK
    BY DEF MeshInv, WindowInv, Sets, Named, Conn, Mapped, Slots, Prompts, TypeOK, GateTypeOK
<1> QED
    BY <1>1, MeshInvInit, MeshInvStep, PTL DEF Spec

(* However many connections both sides make at once, a peer that was never   *)
(* unpaired in mid-session has one session: whoever is linked second is      *)
(* dropped, and the map forgets a connection only when it ends               *)
(* (handle_connection).                                                      *)
THEOREM OneSessionPerPeer == Spec => []OneSession
<1>1. MeshInv => OneSession
    BY DEF MeshInv, Mapped, OneSession, InSession, Linked
<1> QED
    BY <1>1, MeshInvInit, MeshInvStep, PTL DEF Spec

=============================================================================
