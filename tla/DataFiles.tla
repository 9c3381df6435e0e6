------------------------------ MODULE DataFiles ------------------------------
(***************************************************************************)
(* The small files of a data directory and the processes that share it:    *)
(* the app, the sync daemon and one-shot `kiem` commands.  No lock covers   *)
(* the directory as a whole; each file has a protocol of its own:           *)
(*   .kiem-data-version  read, back the directory up, write in place;       *)
(*   identity.key        a finished temporary file linked into place;       *)
(*   known-peers         read, change, rename under an update lock;         *)
(*   peer-names          read whole, truncate, write in place;              *)
(*   control.sock        probe, remove, bind;                               *)
(*   mesh.lock           held for the life of a mesh.                       *)
(* A process is at one step of one of these at a time, and may be killed    *)
(* at any of them; the kernel then releases its locks and its listener.     *)
(***************************************************************************)
EXTENDS Naturals, FiniteSets

CONSTANTS
    Procs,       \* processes that open the directory
    Ids,         \* peers that are paired
    None,        \* no file, no holder
    MaxVersion   \* versions of the program: 1..MaxVersion

ASSUME DataFilesAssumption ==
    /\ MaxVersion \in Nat \ {0}
    /\ None \notin Procs \cup Ids \cup Nat

VARIABLES
    installed,  \* the version a process that starts now runs; none is installed
                \* while a process opens, so it is the opening one's own
    marker,     \* .kiem-data-version: None, 0 when truncated, or a version
    lived,      \* versions that have opened the database
    backups,    \* finished backups, each the versions its files are from
    keyFile,    \* identity.key, named by the process that made the key
    meshLock,   \* the holder of mesh.lock
    peersLock,  \* the holder of .known-peers.lock
    sock,       \* whose listener control.sock leads to
    peers,      \* known-peers
    named,      \* whether peer-names holds a map that parses
    pc,         \* the step each process is at
    mem,        \* what its current operation has read
    key,        \* the identity it uses
    serving,    \* whether it listens on a control socket
    raced       \* another daemon was past its probe when this one bound

vars == <<installed, marker, lived, backups, keyFile, meshLock, peersLock, sock,
          peers, named, pc, mem, key, serving, raced>>
versionVars == <<installed, marker, lived, backups>>
meshVars == <<meshLock, sock, serving, raced>>
peerVars == <<peersLock, peers>>

Versions == 1 .. MaxVersion
Opening == {"read", "copy", "stamp", "stamping", "open"}
Steps == Opening \cup {"off", "ready", "newkey", "winner", "meshkey", "probed",
    "removed", "bound", "locked", "loaded", "truncate", "write"}

TypeOK ==
    /\ installed \in Versions
    /\ marker \in Versions \cup {None, 0}
    /\ lived \subseteq Versions
    /\ backups \subseteq SUBSET Versions
    /\ keyFile \in Procs \cup {None} /\ meshLock \in Procs \cup {None}
    /\ peersLock \in Procs \cup {None} /\ sock \in Procs \cup {None}
    /\ peers \subseteq Ids
    /\ named \in BOOLEAN
    /\ pc \in [Procs -> Steps]
    /\ mem \in [Procs -> SUBSET (Versions \cup Ids)]
    /\ key \in [Procs -> Procs \cup {None}]
    /\ serving \in [Procs -> BOOLEAN] /\ raced \in [Procs -> BOOLEAN]

Init ==
    /\ installed = 1 /\ marker = None /\ lived = {} /\ backups = {}
    /\ keyFile = None /\ meshLock = None /\ peersLock = None /\ sock = None
    /\ peers = {} /\ named = FALSE
    /\ pc = [p \in Procs |-> "off"]
    /\ mem = [p \in Procs |-> {}] /\ key = [p \in Procs |-> None]
    /\ serving = [p \in Procs |-> FALSE] /\ raced = [p \in Procs |-> FALSE]

At(p, step) == pc[p] = step
Go(p, step) == pc' = [pc EXCEPT ![p] = step]
Keep(p, read) == mem' = [mem EXCEPT ![p] = read]

-----------------------------------------------------------------------------
(* Opening the directory: check_and_backup.                                *)

\* The database's files are those of the newest version that opened it.
Newest == {v \in lived : \A u \in lived : u <= v}

Start(p) ==
    /\ At(p, "off") /\ Go(p, "read")
    /\ UNCHANGED <<versionVars, meshVars, peerVars, keyFile, named, mem, key>>

\* A variant for the checks: a marker cut short counts as a new directory.
TornIsFresh(p) ==
    /\ At(p, "read")
    /\ Go(p, IF marker \in {None, 0} THEN "stamp"
             ELSE IF marker = installed THEN "open" ELSE "copy")
    /\ Keep(p, IF marker \in {None, 0, installed} THEN {} ELSE Newest)
    /\ UNCHANGED <<versionVars, meshVars, peerVars, keyFile, named, key>>

\* A missing marker is stamped without a backup, an equal one left alone.
ReadMarker(p) ==
    /\ At(p, "read")
    /\ Go(p, IF marker = None THEN "stamp"
             ELSE IF marker = installed THEN "open" ELSE "copy")
    /\ Keep(p, IF marker \in {None, installed} THEN {} ELSE Newest)
    /\ UNCHANGED <<versionVars, meshVars, peerVars, keyFile, named, key>>

\* The copy ends later than it began; an open in between is in it too.  That
\* of a directory without a database is of no use.
CopyDir(p) ==
    /\ At(p, "copy") /\ Go(p, "stamp") /\ Keep(p, {})
    /\ backups' = (backups \cup {mem[p] \cup Newest}) \ {{}}
    /\ UNCHANGED <<installed, marker, lived, meshVars, peerVars, keyFile, named,
                   key>>

\* fs::write truncates the marker before it fills it.
TruncateMarker(p) ==
    /\ At(p, "stamp") /\ Go(p, "stamping") /\ marker' = 0
    /\ UNCHANGED <<installed, lived, backups, meshVars, peerVars, keyFile, named,
                   mem, key>>

\* A variant for the checks: the stamp is one version ahead.
StampsNext(p) ==
    /\ At(p, "stamping") /\ Go(p, "open") /\ marker' = installed + 1
    /\ UNCHANGED <<installed, lived, backups, meshVars, peerVars, keyFile, named,
                   mem, key>>

WriteMarker(p) ==
    /\ At(p, "stamping") /\ Go(p, "open") /\ marker' = installed
    /\ UNCHANGED <<installed, lived, backups, meshVars, peerVars, keyFile, named,
                   mem, key>>

\* The database is opened, and brought to this version's form.
Open(p) ==
    /\ At(p, "open") /\ Go(p, "ready") /\ lived' = lived \cup {installed}
    /\ UNCHANGED <<installed, marker, backups, meshVars, peerVars, keyFile, named,
                   mem, key>>

\* A release is installed while nothing is in the middle of opening.
Upgrade ==
    /\ installed < MaxVersion /\ \A p \in Procs : pc[p] \notin Opening
    /\ installed' = installed + 1
    /\ UNCHANGED <<marker, lived, backups, meshVars, peerVars, keyFile, named, pc,
                   mem, key>>

-----------------------------------------------------------------------------
(* The identity: load_or_create, on its own to sign a note ("ready") or    *)
(* as part of starting a mesh ("meshkey").                                 *)

ReadKey(p) ==
    /\ At(p, "meshkey") \/ (At(p, "ready") /\ key[p] = None)
    /\ IF keyFile = None
       THEN Go(p, "newkey") /\ UNCHANGED key
       ELSE Go(p, "ready") /\ key' = [key EXCEPT ![p] = keyFile]
    /\ UNCHANGED <<versionVars, meshVars, peerVars, keyFile, named, mem>>

\* A variant for the checks: the new key is renamed into place.
RenamesKey(p) ==
    /\ At(p, "newkey") /\ Go(p, "ready")
    /\ keyFile' = p /\ key' = [key EXCEPT ![p] = p]
    /\ UNCHANGED <<versionVars, meshVars, peerVars, named, mem>>

\* hard_link fails when the file is there already.
PersistNewKey(p) ==
    /\ At(p, "newkey")
    /\ IF keyFile = None
       THEN keyFile' = p /\ key' = [key EXCEPT ![p] = p] /\ Go(p, "ready")
       ELSE Go(p, "winner") /\ UNCHANGED <<keyFile, key>>
    /\ UNCHANGED <<versionVars, meshVars, peerVars, named, mem>>

ReadWinner(p) ==
    /\ At(p, "winner") /\ Go(p, "ready")
    /\ key' = [key EXCEPT ![p] = keyFile]
    /\ UNCHANGED <<versionVars, meshVars, peerVars, keyFile, named, mem>>

-----------------------------------------------------------------------------
(* Starting a mesh: the app takes the lock at once, the daemon binds its   *)
(* control socket first.                                                   *)

Reachable == sock # None /\ serving[sock]
Gone(p) ==
    /\ Go(p, "off") /\ Keep(p, {})
    /\ key' = [key EXCEPT ![p] = None]
    /\ serving' = [serving EXCEPT ![p] = FALSE]
    /\ raced' = [raced EXCEPT ![p] = FALSE]

\* The lock is tried once, and kept for the life of the mesh.
AcquireMeshLock(p) ==
    meshLock = None /\ meshLock' = p /\ Go(p, "meshkey")

AppStartsMesh(p) ==
    /\ At(p, "ready") /\ AcquireMeshLock(p)
    /\ UNCHANGED <<versionVars, sock, serving, raced, peerVars, keyFile, named,
                   mem, key>>

AppStopsMesh(p) ==
    /\ At(p, "ready") /\ meshLock = p /\ ~serving[p]
    /\ meshLock' = None
    /\ UNCHANGED <<versionVars, sock, serving, raced, peerVars, keyFile, named, pc,
                   mem, key>>

\* A variant for the checks: the socket is taken to be stale.
ProbesNobody(p) ==
    /\ At(p, "ready") /\ meshLock # p /\ Go(p, "probed")
    /\ UNCHANGED <<versionVars, meshVars, peerVars, keyFile, named, mem, key>>

\* A daemon that answers the probe turns the newcomer away.
Probe(p) ==
    /\ At(p, "ready") /\ meshLock # p
    /\ IF Reachable
       THEN Gone(p)
       ELSE Go(p, "probed") /\ UNCHANGED <<mem, key, serving, raced>>
    /\ UNCHANGED <<versionVars, meshLock, sock, peerVars, keyFile, named>>

RemoveStale(p) ==
    /\ At(p, "probed") /\ Go(p, "removed") /\ sock' = None
    /\ UNCHANGED <<versionVars, meshLock, serving, raced, peerVars, keyFile, named,
                   mem, key>>

\* A path someone else bound meanwhile: the daemon runs without a socket.
Bind(p) ==
    /\ At(p, "removed") /\ Go(p, "bound")
    /\ IF sock = None
       THEN /\ sock' = p /\ serving' = [serving EXCEPT ![p] = TRUE]
            /\ raced' = [raced EXCEPT ![p] =
                   \E q \in Procs \ {p} : pc[q] \in {"probed", "removed"}]
       ELSE UNCHANGED <<sock, serving, raced>>
    /\ UNCHANGED <<versionVars, meshLock, peerVars, keyFile, named, mem, key>>

\* A lock that is taken ends the daemon.
DaemonStartsMesh(p) ==
    /\ At(p, "bound")
    /\ \/ AcquireMeshLock(p) /\ UNCHANGED <<mem, key, serving, raced>>
       \/ meshLock # None /\ Gone(p) /\ UNCHANGED meshLock
    /\ UNCHANGED <<versionVars, sock, peerVars, keyFile, named>>

-----------------------------------------------------------------------------
(* The trust list: KnownPeers::update under its lock.                      *)

\* A variant for the checks: updates do not exclude each other.
TakesNoLock(p) ==
    /\ At(p, "ready") /\ Go(p, "locked")
    /\ UNCHANGED <<versionVars, meshVars, peerVars, keyFile, named, mem, key>>

AcquireUpdateLock(p) ==
    /\ At(p, "ready") /\ peersLock = None
    /\ peersLock' = p /\ Go(p, "locked")
    /\ UNCHANGED <<versionVars, meshVars, peers, keyFile, named, mem, key>>

LoadPeers(p) ==
    /\ At(p, "locked") /\ Go(p, "loaded") /\ Keep(p, peers)
    /\ UNCHANGED <<versionVars, meshVars, peerVars, keyFile, named, key>>

\* A finished file is renamed into place, or the update fails as a whole.
AtomicWrite(new) == peers' \in {peers, new}

\* An add of a known peer and a removal of an unknown one write nothing.
SavePeers(p) ==
    /\ At(p, "loaded") /\ Go(p, "ready") /\ Keep(p, {}) /\ peersLock' = None
    /\ \/ \E id \in mem[p] : AtomicWrite(mem[p] \ {id})
       \/ \E id \in Ids \ mem[p] : AtomicWrite(mem[p] \cup {id})
    /\ UNCHANGED <<versionVars, meshVars, keyFile, named, key>>

-----------------------------------------------------------------------------
(* Peer names: set_peer_name when a peer says hello, forget_peer_name.     *)

\* A variant for the checks: a file that does not parse fails the update.
NeedsAMap(p) ==
    /\ At(p, "ready") /\ named /\ Go(p, "truncate")
    /\ UNCHANGED <<versionVars, meshVars, peerVars, keyFile, named, mem, key>>

\* A file that is missing or does not parse reads as no names, and the
\* new map is written whole.
SetPeerName(p) ==
    /\ At(p, "ready") /\ Go(p, "truncate")
    /\ UNCHANGED <<versionVars, meshVars, peerVars, keyFile, named, mem, key>>

\* There must be a name to forget.
ForgetPeerName(p) ==
    /\ At(p, "ready") /\ named /\ Go(p, "truncate")
    /\ UNCHANGED <<versionVars, meshVars, peerVars, keyFile, named, mem, key>>

TruncateNames(p) ==
    /\ At(p, "truncate") /\ Go(p, "write") /\ named' = FALSE
    /\ UNCHANGED <<versionVars, meshVars, peerVars, keyFile, mem, key>>

\* Over what another writer put there, a shorter text leaves a tail behind.
WriteNames(p) ==
    /\ At(p, "write") /\ Go(p, "ready")
    /\ named' \in {TRUE, ~named}
    /\ UNCHANGED <<versionVars, meshVars, peerVars, keyFile, mem, key>>

-----------------------------------------------------------------------------
Ends(p) ==
    /\ Gone(p)
    /\ meshLock' = IF meshLock = p THEN None ELSE meshLock
    /\ peersLock' = IF peersLock = p THEN None ELSE peersLock
    /\ UNCHANGED <<versionVars, sock, peers, keyFile, named>>

Exit(p) == At(p, "ready") /\ Ends(p)

Crash(p) == pc[p] \notin {"off", "ready"} /\ Ends(p)

\* The steps of an operation that has begun.
Continue(p) ==
    \/ ReadMarker(p) \/ CopyDir(p) \/ TruncateMarker(p) \/ WriteMarker(p)
    \/ Open(p)
    \/ At(p, "meshkey") /\ ReadKey(p)
    \/ PersistNewKey(p) \/ ReadWinner(p)
    \/ RemoveStale(p) \/ Bind(p) \/ DaemonStartsMesh(p)
    \/ LoadPeers(p) \/ SavePeers(p) \/ TruncateNames(p) \/ WriteNames(p)

Begin(p) ==
    \/ Start(p)
    \/ At(p, "ready") /\ ReadKey(p)
    \/ AppStartsMesh(p) \/ AppStopsMesh(p) \/ Probe(p)
    \/ AcquireUpdateLock(p) \/ SetPeerName(p) \/ ForgetPeerName(p)
    \/ Exit(p)

Next == Upgrade \/ \E p \in Procs : Continue(p) \/ Begin(p) \/ Crash(p)

Spec == Init /\ [][Next]_vars

\* A process goes on with what it began, and peers keep saying hello.
Fairness ==
    /\ \A p \in Procs : WF_vars(Start(p) \/ Continue(p))
    /\ SF_vars(\E p \in Procs : SetPeerName(p))

FairSpec == Spec /\ Fairness

-----------------------------------------------------------------------------
(* One identity: every process that signs or advertises uses the key on    *)
(* disk, however two first runs raced to create it.  A lost race, a kill    *)
(* and a restart included, the key never changes under a running process.   *)
OneIdentity == \A p \in Procs : key[p] # None => key[p] = keyFile

(* The safety net: once a newer version has opened the database, some       *)
(* finished backup holds only what the version before it left, whoever      *)
(* else opened, stamped or died half way meanwhile.                         *)
SafetyNet ==
    \A u \in lived :
        (\E v \in lived : v > u) => {u} \in backups

(* `kiem pair` finds the daemon: the socket's path leads to a daemon that   *)
(* serves, unless a second one was already past its probe when it bound.    *)
DaemonReachable ==
    \A p \in Procs : (serving[p] /\ ~raced[p]) => sock = p

(* No update of the trust list is lost: each change of the file adds one    *)
(* peer to, or removes one from, what the file held just before.            *)
PeersLinear ==
    [][peers' # peers =>
          \E id \in Ids : peers' \in {peers \cup {id}, peers \ {id}}]_vars

(* A names file torn by overlapping writers or by a kill is read as empty   *)
(* and written whole again: once the kills stop it never stays unreadable.  *)
NamesHeal ==
    <>[][\A p \in Procs : ~Crash(p)]_vars => []<>named
=============================================================================
