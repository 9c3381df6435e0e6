---------------------------- MODULE PairingGate ----------------------------
(***************************************************************************)
(* Who may connect: the known peers always, a stranger once per pairing    *)
(* window and only if the user says yes.  The user is asked through the    *)
(* control socket of the daemon, which serves one client session at a      *)
(* time.  What becomes of an admitted connection is in Mesh.               *)
(***************************************************************************)
EXTENDS Naturals, Sequences, FiniteSets

CONSTANTS Peers,     \* other devices
          MaxConn,   \* bound: connections at once
          None       \* nobody

Conns == 1 .. MaxConn

(* A prompt (a connection) and a connect (a peer) are two kinds of event.  *)
ASSUME GateAssumption ==
  /\ None \notin Peers /\ Peers \cap Conns = {}
  /\ MaxConn \in Nat \ {0}

VARIABLES known,    \* the known-peers file
          window,   \* whether the pairing window is open
          conn,     \* the connections, and how far each has come
          client,   \* the client session of the control socket
          inbox,    \* PairEvents the session has not handled yet
          chosen,   \* history: peers the user ever added or approved
          used      \* history: strangers let in since the window was armed

gateVars == <<known, window, conn, client, inbox, chosen, used>>

Stages == {"free", "gate", "ask", "asked", "approved", "admitted",
           "hello", "trust", "live", "unlisted", "over"}
Connection == [at: Stages, peer: Peers \cup {None}, closed: BOOLEAN]
FreeSlot == [at |-> "free", peer |-> None, closed |-> FALSE]

GateTypeOK ==
  /\ known \subseteq Peers /\ chosen \subseteq Peers
  /\ window \in BOOLEAN
  /\ conn \in [Conns -> Connection]
  /\ client \in [at: {"none", "ready", "prompt", "gone"}, about: Conns \cup {0},
                 target: Peers \cup {None}]
  /\ inbox \in Seq(Conns \cup Peers)
  /\ used \in 0 .. 2

GateInit ==
  /\ known = {} /\ chosen = {} /\ used = 0
  /\ window = FALSE
  /\ conn = [c \in Conns |-> FreeSlot]
  /\ client = [at |-> "none", about |-> 0, target |-> None]
  /\ inbox = <<>>

At(c, stage) == conn' = [conn EXCEPT ![c].at = stage]

-----------------------------------------------------------------------------
(* admit_incoming, of a connection that was accepted: one that was dialed  *)
(* starts as admitted.  A connection that is refused is dropped.           *)

(* The file is read every time. *)
Trusted(c) == conn[c].peer \in known

AdmitKnown(c) ==
  /\ conn[c].at = "gate" /\ Trusted(c)
  /\ At(c, "admitted")
  /\ UNCHANGED <<known, window, client, inbox, chosen, used>>

CheckWindow(c) ==
  /\ conn[c].at = "gate" /\ ~Trusted(c)
  /\ IF window THEN At(c, "ask") ELSE conn' = [conn EXCEPT ![c] = FreeSlot]
  /\ UNCHANGED <<known, window, client, inbox, chosen, used>>

(* The session receives until handle_client returns and drops its end. *)
Attached == client.at \in {"ready", "prompt"}

(* approve_pairing: without a client the answer is no. *)
AskClient(c) ==
  /\ conn[c].at = "ask"
  /\ IF Attached THEN At(c, "asked") /\ inbox' = Append(inbox, c)
                 ELSE conn' = [conn EXCEPT ![c] = FreeSlot] /\ UNCHANGED inbox
  /\ UNCHANGED <<known, window, client, chosen, used>>

StillOpenAny == TRUE           \* mutant: the window is not looked at again
StillOpen == window

(* Approved: the window is looked at again, and closed either way. *)
ConsumeWindow(c) ==
  /\ conn[c].at = "approved"
  /\ window' = FALSE
  /\ IF StillOpen THEN At(c, "admitted") /\ used' = used + 1
                  ELSE conn' = [conn EXCEPT ![c] = FreeSlot] /\ UNCHANGED used
  /\ UNCHANGED <<known, client, inbox, chosen>>

(* The deadline passes. *)
Lapse ==
  /\ window /\ window' = FALSE
  /\ UNCHANGED <<known, conn, client, inbox, chosen, used>>

-----------------------------------------------------------------------------
(* A client session: attach, then the request. *)

Attach(target) ==
  /\ client.at = "none"
  /\ client' = [at |-> "ready", about |-> 0, target |-> target]
  /\ inbox' = <<>>

Show ==
  /\ Attach(None)
  /\ window' = TRUE /\ used' = 0
  /\ UNCHANGED <<known, conn, chosen>>

AnsweredYes(s) == [c \in Conns |->  \* mutant: a dropped reply counts as a yes
  IF c \in s THEN [conn[c] EXCEPT !.at = "approved"] ELSE conn[c]]
KeptWaiting(s) == conn              \* mutant: nobody answers what is left
(* The sender of a reply that is dropped unsent makes the answer a no. *)
Refused(s) == [c \in Conns |-> IF c \in s THEN FreeSlot ELSE conn[c]]

(* handle_client returns; whoever still waits for an answer is refused. *)
SessionReturns ==
  LET waiting == {c \in Conns : conn[c].at = "asked"}
  IN  /\ client' = [at |-> "gone", about |-> 0, target |-> None]
      /\ conn' = Refused(waiting)
      /\ inbox' = <<>>

(* serve: detach and disarm, however the session ended. *)
Disarm ==
  /\ client.at = "gone"
  /\ client' = [client EXCEPT !.at = "none"]
  /\ window' = FALSE
  /\ UNCHANGED <<known, conn, inbox, chosen, used>>

(* wait_for_pairing takes a prompt; with a target strangers are refused. *)
HearApprove ==
  /\ client.at = "ready" /\ inbox # <<>> /\ Head(inbox) \in Conns
  /\ inbox' = Tail(inbox)
  /\ IF client.target # None
     THEN conn' = [conn EXCEPT ![Head(inbox)] = FreeSlot] /\ UNCHANGED client
     ELSE client' = [client EXCEPT !.at = "prompt", !.about = Head(inbox)] /\ UNCHANGED conn
  /\ UNCHANGED <<known, window, chosen, used>>

(* A connect: of the target it ends the session, of another it is ignored. *)
HearConnected ==
  /\ client.at = "ready" /\ inbox # <<>> /\ Head(inbox) \in Peers
  /\ IF client.target = Head(inbox) THEN SessionReturns
     ELSE inbox' = Tail(inbox) /\ UNCHANGED <<client, conn>>
  /\ UNCHANGED <<known, window, chosen, used>>

(* The user answers the prompt. *)
Allow ==
  /\ client.at = "prompt"
  /\ At(client.about, "approved")
  /\ client' = [at |-> "ready", about |-> 0, target |-> conn[client.about].peer]
  /\ chosen' = chosen \cup {conn[client.about].peer}
  /\ UNCHANGED <<known, window, inbox, used>>

Deny ==
  /\ client.at = "prompt"
  /\ conn' = [conn EXCEPT ![client.about] = FreeSlot]
  /\ client' = [client EXCEPT !.at = "ready", !.about = 0]
  /\ UNCHANGED <<known, window, inbox, chosen, used>>

(* The client goes away, at its deadline or when the user interrupts it. *)
HangUp ==
  /\ Attached
  /\ SessionReturns
  /\ UNCHANGED <<known, window, chosen, used>>

GateStep(c) == AdmitKnown(c) \/ CheckWindow(c) \/ AskClient(c) \/ ConsumeWindow(c)
SessionStep == HearApprove \/ HearConnected \/ Disarm

-----------------------------------------------------------------------------
(* Properties. *)

(* One window lets in one stranger, however many knock while the prompt of *)
(* the first is up (the window is looked at again and closed when the      *)
(* answer is in).                                                          *)
OnePerArming == used <= 1
=============================================================================
