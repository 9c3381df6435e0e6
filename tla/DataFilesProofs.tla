--------------------------- MODULE DataFilesProofs ---------------------------
(***************************************************************************)
(* The identity, the trust list, the backups and the control socket of a     *)
(* data directory, for any number of processes, peers and versions.         *)
(***************************************************************************)
EXTENDS DataFiles, TLAPS

(* Whoever uses a key uses the one on disk: no key on disk, no key in use.   *)
KeyInv ==
    /\ key \in [Procs -> Procs \cup {None}]
    /\ keyFile \in Procs \cup {None}
    /\ OneIdentity

(* A process between the lock and its release holds the lock, and what it     *)
(* has loaded is still what the file holds.                                   *)
PeersInv ==
    /\ pc \in [Procs -> Steps]
    /\ DOMAIN mem = Procs
    /\ peers \subseteq Ids
    /\ \A p \in Procs :
          /\ pc[p] \in {"locked", "loaded"} => peersLock = p
          /\ pc[p] = "loaded" => mem[p] = peers

USE DEF versionVars, meshVars, peerVars, At, Go, Keep, Gone

LEMMA KeyInvStep == KeyInv /\ [Next]_vars => KeyInv'
<1> SUFFICES ASSUME KeyInv, [Next]_vars PROVE KeyInv'
    OBVIOUS
<1>0. None \notin Procs
    BY DataFilesAssumption
<1> USE DEF KeyInv, OneIdentity
<1>1. CASE UNCHANGED <<key, keyFile>>
    BY <1>1
<1>2. ASSUME NEW p \in Procs, ReadKey(p) PROVE KeyInv'
    BY <1>0, <1>2 DEF ReadKey
<1>3. ASSUME NEW p \in Procs, PersistNewKey(p) PROVE KeyInv'
    <2>1. CASE keyFile = None
        <3>1. \A q \in Procs : key[q] = None
            BY <2>1
        <3> QED
            BY <1>3, <2>1, <3>1 DEF PersistNewKey
    <2>2. CASE keyFile # None
        BY <1>3, <2>2 DEF PersistNewKey
    <2> QED
        BY <2>1, <2>2
<1>4. ASSUME NEW p \in Procs, ReadWinner(p) PROVE KeyInv'
    BY <1>4 DEF ReadWinner
<1>5. ASSUME NEW p \in Procs, Gone(p), UNCHANGED keyFile PROVE KeyInv'
    BY <1>5
<1>6. CASE UNCHANGED vars
    BY <1>6, <1>1 DEF vars
<1>7. CASE Upgrade
    BY <1>7, <1>1 DEF Upgrade
<1>8. ASSUME NEW p \in Procs, Continue(p) PROVE KeyInv'
    <2>1. CASE \/ ReadMarker(p) \/ CopyDir(p) \/ TruncateMarker(p) \/ WriteMarker(p)
               \/ Open(p) \/ RemoveStale(p) \/ Bind(p) \/ LoadPeers(p) \/ SavePeers(p)
               \/ TruncateNames(p) \/ WriteNames(p)
        BY <1>1, <2>1 DEF ReadMarker, CopyDir, TruncateMarker, WriteMarker, Open,
            RemoveStale, Bind, LoadPeers, SavePeers, TruncateNames, WriteNames
    <2>2. CASE DaemonStartsMesh(p)
        <3>1. UNCHANGED keyFile /\ (UNCHANGED key \/ Gone(p))
            BY <2>2 DEF DaemonStartsMesh
        <3> QED
            BY <1>1, <1>5, <3>1
    <2> QED
        BY <1>2, <1>3, <1>4, <1>8, <2>1, <2>2 DEF Continue
<1>9. ASSUME NEW p \in Procs, Begin(p) PROVE KeyInv'
    <2>1. CASE Start(p) \/ AppStartsMesh(p) \/ AppStopsMesh(p) \/ AcquireUpdateLock(p)
                 \/ SetPeerName(p) \/ ForgetPeerName(p)
        BY <1>1, <2>1 DEF Start, AppStartsMesh, AppStopsMesh, AcquireUpdateLock,
            SetPeerName, ForgetPeerName
    <2>2. CASE Probe(p)
        <3>1. UNCHANGED keyFile /\ (UNCHANGED key \/ Gone(p))
            BY <2>2 DEF Probe
        <3> QED
            BY <1>1, <1>5, <3>1
    <2>3. CASE Exit(p)
        BY <1>5, <2>3 DEF Exit, Ends
    <2> QED
        BY <1>2, <1>9, <2>1, <2>2, <2>3 DEF Begin
<1>10. ASSUME NEW p \in Procs, Crash(p) PROVE KeyInv'
    BY <1>5, <1>10 DEF Crash, Ends
<1> QED
    BY <1>6, <1>7, <1>8, <1>9, <1>10 DEF Next

(* One identity: every process that signs or advertises uses the key on disk, *)
(* however many processes raced to create it (identity.rs, persist_new_key).  *)
THEOREM IdentityIsOne == Spec => []OneIdentity
<1>1. Init => KeyInv
    BY DEF Init, KeyInv, OneIdentity
<1>2. KeyInv /\ [Next]_vars => KeyInv'
    BY KeyInvStep
<1>3. KeyInv => OneIdentity
    BY DEF KeyInv
<1> QED
    BY <1>1, <1>2, <1>3, PTL DEF Spec

-----------------------------------------------------------------------------
(* A step of a process that is not about the trust list.                     *)
Elsewhere(p) ==
    /\ UNCHANGED peerVars
    /\ \E s \in Steps \ {"locked", "loaded"} : pc' = [pc EXCEPT ![p] = s]
    /\ mem' = mem \/ \E r : mem' = [mem EXCEPT ![p] = r]

LEMMA ElsewhereKeeps ==
    ASSUME PeersInv, NEW p \in Procs, Elsewhere(p) PROVE PeersInv'
<1>1. PICK s \in Steps \ {"locked", "loaded"} : pc' = [pc EXCEPT ![p] = s]
    BY DEF Elsewhere
<1>2. UNCHANGED <<peersLock, peers>> /\ DOMAIN mem' = Procs
      /\ \A q \in Procs \ {p} : mem'[q] = mem[q]
    BY DEF Elsewhere, PeersInv
<1>3. pc' \in [Procs -> Steps] /\ pc'[p] \notin {"locked", "loaded"}
      /\ \A q \in Procs \ {p} : pc'[q] = pc[q]
    BY <1>1 DEF PeersInv
<1> QED
    BY <1>2, <1>3 DEF PeersInv

(* What a process that holds the update lock writes is what the file holds,   *)
(* with one peer more or one less.                                            *)
LEMMA ChangesByOne ==
    ASSUME PeersInv, NEW p \in Procs, SavePeers(p)
    PROVE  peers' = peers \/ \E id \in Ids : peers' \in {peers \cup {id}, peers \ {id}}
<1>1. mem[p] = peers /\ peers \subseteq Ids
    BY DEF PeersInv, SavePeers
<1> QED
    BY <1>1 DEF SavePeers, AtomicWrite

LEMMA PeersInvStep == PeersInv /\ [Next]_vars => PeersInv'
<1> SUFFICES ASSUME PeersInv, [Next]_vars PROVE PeersInv'
    OBVIOUS
<1>0. None \notin Procs
    BY DataFilesAssumption
<1>1. CASE UNCHANGED <<peersLock, peers, pc, mem>>
    BY <1>1 DEF PeersInv
<1>2. ASSUME NEW p \in Procs, AcquireUpdateLock(p) PROVE PeersInv'
    <2>1. \A q \in Procs : pc[q] \notin {"locked", "loaded"}
        BY <1>0, <1>2 DEF AcquireUpdateLock, PeersInv
    <2>2. pc' = [pc EXCEPT ![p] = "locked"] /\ peersLock' = p /\ UNCHANGED <<mem, peers>>
        BY <1>2 DEF AcquireUpdateLock
    <2> QED
        BY <2>1, <2>2 DEF PeersInv, Steps
<1>3. ASSUME NEW p \in Procs, LoadPeers(p) PROVE PeersInv'
    BY <1>3 DEF LoadPeers, PeersInv, Steps
<1>4. ASSUME NEW p \in Procs, SavePeers(p) PROVE PeersInv'
    <2>1. \A q \in Procs \ {p} : pc[q] \notin {"locked", "loaded"}
        BY <1>4 DEF SavePeers, PeersInv
    <2>2. pc' = [pc EXCEPT ![p] = "ready"] /\ mem' = [mem EXCEPT ![p] = {}]
        BY <1>4 DEF SavePeers
    <2>3. peers' \subseteq Ids
        BY <1>4, ChangesByOne DEF PeersInv
    <2> QED
        BY <2>1, <2>2, <2>3 DEF PeersInv, Steps
<1>5. ASSUME NEW p \in Procs, Ends(p) PROVE PeersInv'
    <2>1. pc' = [pc EXCEPT ![p] = "off"] /\ mem' = [mem EXCEPT ![p] = {}]
          /\ UNCHANGED peers /\ (peersLock # p => UNCHANGED peersLock)
        BY <1>5 DEF Ends
    <2>2. \A q \in Procs \ {p} : pc[q] \in {"locked", "loaded"} => peersLock # p
        BY DEF PeersInv
    <2> QED
        BY <2>1, <2>2 DEF PeersInv, Steps
<1>6. CASE UNCHANGED vars
    BY <1>6, <1>1 DEF vars
<1>7. CASE Upgrade
    BY <1>7, <1>1 DEF Upgrade
<1>8. ASSUME NEW p \in Procs, Continue(p) PROVE PeersInv'
    <2>1. CASE \/ ReadMarker(p) \/ CopyDir(p) \/ TruncateMarker(p) \/ WriteMarker(p)
               \/ Open(p)
        <3>1. Elsewhere(p)
            BY <2>1 DEF ReadMarker, CopyDir, TruncateMarker, WriteMarker, Open,
                Elsewhere, Steps, Opening
        <3> QED
            BY <3>1, ElsewhereKeeps
    <2>2. CASE ReadKey(p) \/ PersistNewKey(p) \/ ReadWinner(p)
        <3>1. Elsewhere(p)
            BY <2>2 DEF ReadKey, PersistNewKey, ReadWinner, Elsewhere, Steps
        <3> QED
            BY <3>1, ElsewhereKeeps
    <2>3. CASE RemoveStale(p) \/ Bind(p) \/ DaemonStartsMesh(p)
        <3>1. Elsewhere(p)
            BY <2>3 DEF RemoveStale, Bind, DaemonStartsMesh, AcquireMeshLock, Elsewhere,
                Steps
        <3> QED
            BY <3>1, ElsewhereKeeps
    <2>4. CASE TruncateNames(p) \/ WriteNames(p)
        <3>1. Elsewhere(p)
            BY <2>4 DEF TruncateNames, WriteNames, Elsewhere, Steps
        <3> QED
            BY <3>1, ElsewhereKeeps
    <2> QED
        BY <1>3, <1>4, <1>8, <2>1, <2>2, <2>3, <2>4 DEF Continue
<1>9. ASSUME NEW p \in Procs, Begin(p) PROVE PeersInv'
    <2>1. CASE Start(p) \/ ReadKey(p) \/ AppStartsMesh(p) \/ SetPeerName(p)
                 \/ ForgetPeerName(p)
        <3>1. Elsewhere(p)
            BY <2>1 DEF Start, ReadKey, AppStartsMesh, AcquireMeshLock, SetPeerName,
                ForgetPeerName, Elsewhere, Steps, Opening
        <3> QED
            BY <3>1, ElsewhereKeeps
    <2>2. CASE Probe(p)
        <3>1. Elsewhere(p)
            BY <2>2 DEF Probe, Elsewhere, Steps
        <3> QED
            BY <3>1, ElsewhereKeeps
    <2>3. CASE AppStopsMesh(p)
        BY <1>1, <2>3 DEF AppStopsMesh
    <2> QED
        BY <1>2, <1>5, <1>9, <2>1, <2>2, <2>3 DEF Begin, Exit
<1>10. ASSUME NEW p \in Procs, Crash(p) PROVE PeersInv'
    BY <1>5, <1>10 DEF Crash
<1> QED
    BY <1>6, <1>7, <1>8, <1>9, <1>10 DEF Next

(* No update of the trust list is lost, whatever happens between the lock and *)
(* the rename and whoever is killed (peers.rs, KnownPeers::update).           *)
THEOREM TrustListIsLinear == Spec => PeersLinear
<1>1. Init => PeersInv
    BY DEF Init, PeersInv, Steps
<1>2. PeersInv /\ [Next]_vars => PeersInv'
    BY PeersInvStep
<1>3. PeersInv /\ [Next]_vars
        => (peers' # peers => \E id \in Ids : peers' \in {peers \cup {id}, peers \ {id}})
    <2> SUFFICES ASSUME PeersInv, [Next]_vars, peers' # peers
                 PROVE  \E id \in Ids : peers' \in {peers \cup {id}, peers \ {id}}
        OBVIOUS
    <2>1. \E p \in Procs : SavePeers(p)
        BY DEF Next, vars, Continue, Begin, Crash, Upgrade, ReadMarker, CopyDir,
            TruncateMarker, WriteMarker, Open, ReadKey, PersistNewKey, ReadWinner,
            RemoveStale, Bind, DaemonStartsMesh, AcquireMeshLock, LoadPeers,
            TruncateNames, WriteNames, Start, AppStartsMesh, AppStopsMesh, Probe,
            AcquireUpdateLock, SetPeerName, ForgetPeerName, Exit, Ends
    <2> QED
        BY <2>1, ChangesByOne
<1> QED
    BY <1>1, <1>2, <1>3, PTL DEF Spec, PeersLinear
-----------------------------------------------------------------------------
(* The backups.                                                              *)

(* The version that runs may open the database: it has before, or what the    *)
(* last version left is in a backup of its own.                               *)
Safe ==
    \/ installed \in lived
    \/ \A u \in lived : (\A w \in lived : w <= u) => {u} \in backups

(* Nobody gets past the backup but by a marker of this version, and nobody    *)
(* writes that without one.                                                   *)
Cleared == {"stamp", "stamping", "open"}
VersionInv ==
    /\ installed \in Versions /\ marker \in Versions \cup {None, 0}
    /\ lived \subseteq Versions /\ backups \subseteq SUBSET Versions
    /\ pc \in [Procs -> Steps] /\ mem \in [Procs -> SUBSET (Versions \cup Ids)]
    /\ \A v \in lived : v <= installed
    /\ marker # None => marker <= installed
    /\ marker = None => lived = {}
    /\ marker = installed => Safe
    /\ \A p \in Procs :
          /\ pc[p] \in Cleared => Safe
          /\ pc[p] \in {"stamping", "open"} => marker # None
          /\ pc[p] = "copy" => mem[p] \subseteq Versions /\ (installed \in lived \/ mem[p] = Newest)
    /\ SafetyNet

(* A daemon that serves and met no other on the way has the socket, and       *)
(* nobody is about to take it away.                                           *)
SockInv ==
    /\ pc \in [Procs -> Steps]
    /\ serving \in [Procs -> BOOLEAN] /\ raced \in [Procs -> BOOLEAN]
    /\ sock \in Procs \cup {None}
    /\ meshLock \in Procs \cup {None} /\ peersLock \in Procs \cup {None}
    /\ \A p \in Procs : serving[p] /\ ~raced[p] =>
          sock = p /\ \A q \in Procs : pc[q] \notin {"probed", "removed"}

FilesInv == KeyInv /\ PeersInv /\ VersionInv /\ SockInv
\* A step of a process that is not in the middle of opening, or ends.
Outside(p) ==
    /\ UNCHANGED versionVars
    /\ \E s \in Steps \ (Cleared \cup {"copy"}) : pc' = [pc EXCEPT ![p] = s]
    /\ mem' = mem \/ \E r \in SUBSET (Versions \cup Ids) : mem' = [mem EXCEPT ![p] = r]

LEMMA OutsideKeeps ==
    ASSUME VersionInv, NEW p \in Procs, Outside(p) PROVE VersionInv'
<1>1. PICK s \in Steps \ (Cleared \cup {"copy"}) : pc' = [pc EXCEPT ![p] = s]
    BY DEF Outside
<1>2. /\ pc' \in [Procs -> Steps] /\ pc'[p] \notin Cleared \cup {"copy"}
      /\ \A q \in Procs \ {p} : pc'[q] = pc[q]
    BY <1>1 DEF VersionInv
<1>3. mem' \in [Procs -> SUBSET (Versions \cup Ids)] /\ \A q \in Procs \ {p} : mem'[q] = mem[q]
    BY DEF Outside, VersionInv
<1>4. UNCHANGED versionVars
    BY DEF Outside
<1> QED
    BY <1>2, <1>3, <1>4 DEF VersionInv, Safe, SafetyNet, Newest, Cleared

LEMMA NewestIs ==
    ASSUME lived \subseteq Versions, NEW u \in lived, \A w \in lived : w <= u
    PROVE  Newest = {u}
<1>1. Versions \subseteq Nat
    BY DataFilesAssumption DEF Versions
<1>2. \A v \in lived : (\A w \in lived : w <= v) => v = u
    BY <1>1
<1> QED
    BY <1>2 DEF Newest

\* The marker is read: on without a backup if there is nothing to lose.
LEMMA ReadMarkerKeeps ==
    ASSUME VersionInv, NEW p \in Procs, ReadMarker(p) PROVE VersionInv'
<1>1. /\ UNCHANGED versionVars
      /\ pc' = [pc EXCEPT ![p] = IF marker = None THEN "stamp"
                                 ELSE IF marker = installed THEN "open" ELSE "copy"]
      /\ mem' = [mem EXCEPT ![p] = IF marker \in {None, installed} THEN {} ELSE Newest]
    BY DEF ReadMarker
<1>2. pc' \in [Procs -> Steps] /\ \A q \in Procs \ {p} : pc'[q] = pc[q] /\ mem'[q] = mem[q]
    BY <1>1 DEF VersionInv, Steps, Opening
<1>3. mem' \in [Procs -> SUBSET (Versions \cup Ids)]
    BY <1>1 DEF VersionInv, Newest
<1>4. /\ pc'[p] \in Cleared => Safe
      /\ pc'[p] \in {"stamping", "open"} => marker # None
      /\ pc'[p] = "copy" => mem'[p] \subseteq Versions /\ mem'[p] = Newest
    <2>1. CASE marker = None
        BY <1>1, <2>1 DEF VersionInv, Safe
    <2>2. CASE marker # None /\ marker = installed
        BY <1>1, <2>2 DEF VersionInv
    <2>3. CASE marker # None /\ marker # installed
        BY <1>1, <2>3 DEF VersionInv, Newest, Cleared
    <2> QED
        BY <2>1, <2>2, <2>3
<1> QED
    BY <1>1, <1>2, <1>3, <1>4 DEF VersionInv, Safe, SafetyNet, Newest

\* The backup is of one version, or this version is in the database anyway.
LEMMA CopyDirKeeps ==
    ASSUME VersionInv, NEW p \in Procs, CopyDir(p) PROVE VersionInv'
<1>1. /\ UNCHANGED <<installed, marker, lived>> /\ pc[p] = "copy"
      /\ pc' = [pc EXCEPT ![p] = "stamp"] /\ mem' = [mem EXCEPT ![p] = {}]
      /\ backups' = (backups \cup {mem[p] \cup Newest}) \ {{}}
    BY DEF CopyDir
<1>2. pc' \in [Procs -> Steps] /\ pc'[p] = "stamp" /\ mem' \in [Procs -> SUBSET (Versions \cup Ids)]
      /\ \A q \in Procs \ {p} : pc'[q] = pc[q] /\ mem'[q] = mem[q]
    BY <1>1 DEF VersionInv, Steps, Opening
<1>3. mem[p] \subseteq Versions /\ (installed \in lived \/ mem[p] = Newest) /\ lived \subseteq Versions
    BY <1>1 DEF VersionInv
<1>4. backups' \subseteq SUBSET Versions
    BY <1>1, <1>3 DEF VersionInv, Newest
<1>5. \A u : {u} \in backups => {u} \in backups'
    BY <1>1
<1>6. Safe'
    <2>1. ASSUME installed \notin lived, NEW u \in lived, \A w \in lived : w <= u
          PROVE  {u} \in backups'
        <3>1. Newest = {u}
            BY <1>3, <2>1, NewestIs
        <3>2. mem[p] \cup Newest = {u}
            BY <1>3, <2>1, <3>1
        <3> QED
            BY <1>1, <3>2
    <2> QED
        BY <1>1, <2>1 DEF Safe
<1>7. SafetyNet'
    BY <1>1, <1>5 DEF VersionInv, SafetyNet
<1> QED
    BY <1>1, <1>2, <1>4, <1>6, <1>7 DEF VersionInv, Cleared, Newest

\* The marker is only changed by one who is cleared.
LEMMA StampKeeps ==
    ASSUME VersionInv, NEW p \in Procs, TruncateMarker(p) \/ WriteMarker(p) PROVE VersionInv'
<1>1. /\ UNCHANGED <<installed, lived, backups, mem>>
      /\ pc[p] \in Cleared /\ marker' \in {0, installed}
      /\ \E s \in {"stamping", "open"} : pc' = [pc EXCEPT ![p] = s]
    BY DEF TruncateMarker, WriteMarker, Cleared
<1>2. pc' \in [Procs -> Steps] /\ pc'[p] \in {"stamping", "open"}
      /\ \A q \in Procs \ {p} : pc'[q] = pc[q]
    BY <1>1 DEF VersionInv, Steps, Opening
<1>3. Safe /\ installed \in Versions
    BY <1>1 DEF VersionInv
<1>4. Safe' /\ SafetyNet'
    BY <1>1, <1>3 DEF VersionInv, Safe, SafetyNet
<1>5. marker' \in Versions \cup {0} /\ marker' <= installed' /\ marker' # None
    BY <1>1, <1>3, DataFilesAssumption DEF Versions
<1> QED
    BY <1>1, <1>2, <1>4, <1>5 DEF VersionInv, Cleared, Newest

\* This version opens the database.
LEMMA OpenKeeps ==
    ASSUME VersionInv, NEW p \in Procs, Open(p) PROVE VersionInv'
<1>1. /\ UNCHANGED <<installed, marker, backups, mem>> /\ pc[p] = "open"
      /\ lived' = lived \cup {installed} /\ pc' = [pc EXCEPT ![p] = "ready"]
    BY DEF Open
<1>2. pc' \in [Procs -> Steps] /\ pc'[p] = "ready" /\ \A q \in Procs \ {p} : pc'[q] = pc[q]
    BY <1>1 DEF VersionInv, Steps
<1>3. /\ Versions \subseteq Nat /\ lived \subseteq Versions /\ installed \in Versions
      /\ \A v \in lived : v <= installed
    BY DataFilesAssumption DEF VersionInv, Versions
<1>4. Safe /\ marker # None /\ Safe' /\ SafetyNet
    BY <1>1 DEF VersionInv, Cleared, Safe
<1>5. ASSUME NEW u \in lived', NEW v \in lived', v > u PROVE {u} \in backups'
    <2>1. u \in lived /\ u # installed
        BY <1>1, <1>3, <1>5
    <2>2. CASE \E w \in lived : w > u
        BY <1>1, <1>4, <2>1, <2>2 DEF SafetyNet
    <2>3. CASE ~\E w \in lived : w > u
        <3>1. \A w \in lived : w <= u
            BY <1>3, <2>1, <2>3
        <3>2. installed \notin lived
            BY <1>3, <2>1, <3>1
        <3> QED
            BY <1>1, <1>4, <2>1, <3>1, <3>2 DEF Safe
    <2> QED
        BY <2>2, <2>3
<1>6. SafetyNet'
    BY <1>5 DEF SafetyNet
<1>7. \A v \in lived' : v \in Versions /\ v <= installed
    BY <1>1, <1>3
<1>8. UNCHANGED marker /\ installed \in lived'
    BY <1>1
<1>9. ASSUME NEW q \in Procs, pc'[q] = "copy" PROVE mem'[q] \subseteq Versions
    BY <1>1, <1>2, <1>9 DEF VersionInv
<1>10. ASSUME NEW q \in Procs, pc'[q] \in {"stamping", "open"} PROVE marker' # None
    BY <1>4, <1>8
<1> QED
    BY <1>1, <1>2, <1>4, <1>6, <1>7, <1>8, <1>9, <1>10 DEF VersionInv

\* A release makes the marker an old one.
LEMMA UpgradeKeeps ==
    ASSUME VersionInv, Upgrade PROVE VersionInv'
<1>1. /\ UNCHANGED <<marker, lived, backups, pc, mem>> /\ installed' = installed + 1
      /\ installed < MaxVersion /\ \A p \in Procs : pc[p] \notin Opening
    BY DEF Upgrade
<1>2. /\ installed \in Nat /\ installed' \in Versions /\ installed' > installed
      /\ Versions \subseteq Nat
    BY <1>1, DataFilesAssumption DEF VersionInv, Versions
<1>3. \A v \in lived : v <= installed'
    BY <1>1, <1>2 DEF VersionInv
<1>4. marker # None => marker <= installed' /\ marker # installed'
    BY <1>1, <1>2 DEF VersionInv
<1>5. \A p \in Procs : pc[p] \notin Cleared /\ pc[p] # "copy"
    BY <1>1 DEF Opening, Cleared
<1>6. None # installed'
    BY <1>2, DataFilesAssumption
<1> QED
    BY <1>1, <1>2, <1>3, <1>4, <1>5, <1>6 DEF VersionInv, SafetyNet, Cleared
LEMMA VersionInvStep ==
    ASSUME VersionInv, PeersInv, [Next]_vars PROVE VersionInv'
<1>1. CASE UNCHANGED <<versionVars, pc, mem>>
    BY <1>1 DEF VersionInv, Safe, SafetyNet, Newest
<1>2. CASE UNCHANGED vars
    BY <1>1, <1>2 DEF vars
<1>3. CASE Upgrade
    BY <1>3, UpgradeKeeps
<1>4. ASSUME NEW p \in Procs, Ends(p) PROVE VersionInv'
    <2>1. Outside(p)
        BY <1>4 DEF Ends, Outside, Steps, Cleared
    <2> QED
        BY <2>1, OutsideKeeps
<1>5. ASSUME NEW p \in Procs, Continue(p) PROVE VersionInv'
    <2>1. CASE \/ ReadKey(p) \/ PersistNewKey(p) \/ ReadWinner(p)
               \/ RemoveStale(p) \/ Bind(p) \/ DaemonStartsMesh(p)
        <3>1. Outside(p)
            BY <2>1 DEF ReadKey, PersistNewKey, ReadWinner, RemoveStale, Bind,
                DaemonStartsMesh, AcquireMeshLock, Outside, Steps, Cleared
        <3> QED
            BY <3>1, OutsideKeeps
    <2>2. CASE LoadPeers(p) \/ SavePeers(p) \/ TruncateNames(p) \/ WriteNames(p)
        <3>1. peers \subseteq Ids
            BY DEF PeersInv
        <3>2. Outside(p)
            BY <2>2, <3>1 DEF LoadPeers, SavePeers, TruncateNames, WriteNames, Outside,
                Steps, Cleared
        <3> QED
            BY <3>2, OutsideKeeps
    <2> QED
        BY <1>5, <2>1, <2>2, ReadMarkerKeeps, CopyDirKeeps, StampKeeps, OpenKeeps DEF Continue
<1>6. ASSUME NEW p \in Procs, Begin(p) PROVE VersionInv'
    <2>1. CASE Start(p) \/ ReadKey(p) \/ AppStartsMesh(p) \/ SetPeerName(p)
                 \/ ForgetPeerName(p) \/ AcquireUpdateLock(p) \/ Probe(p)
        <3>1. Outside(p)
            BY <2>1 DEF Start, ReadKey, AppStartsMesh, AcquireMeshLock, SetPeerName,
                ForgetPeerName, AcquireUpdateLock, Probe, Outside, Steps, Opening, Cleared
        <3> QED
            BY <3>1, OutsideKeeps
    <2>2. CASE AppStopsMesh(p)
        BY <1>1, <2>2 DEF AppStopsMesh
    <2> QED
        BY <1>4, <1>6, <2>1, <2>2 DEF Begin, Exit
<1>7. ASSUME NEW p \in Procs, Crash(p) PROVE VersionInv'
    BY <1>4, <1>7 DEF Crash
<1> QED
    BY <1>2, <1>3, <1>5, <1>6, <1>7 DEF Next

\* A step of a process that has nothing to do with the socket.
Aside(p) ==
    /\ UNCHANGED <<sock, serving, raced>>
    /\ \E s \in Steps \ {"probed", "removed"} : pc' = [pc EXCEPT ![p] = s]
    /\ meshLock' \in {meshLock, p} /\ peersLock' \in {peersLock, p, None}

LEMMA AsideKeeps ==
    ASSUME SockInv, NEW p \in Procs, Aside(p) PROVE SockInv'
<1>1. PICK s \in Steps \ {"probed", "removed"} : pc' = [pc EXCEPT ![p] = s]
    BY DEF Aside
<1>2. pc' \in [Procs -> Steps] /\ pc'[p] \notin {"probed", "removed"}
      /\ \A q \in Procs \ {p} : pc'[q] = pc[q]
    BY <1>1 DEF SockInv
<1> QED
    BY <1>2 DEF Aside, SockInv

LEMMA GoneKeeps ==
    ASSUME SockInv, NEW p \in Procs, Gone(p), UNCHANGED sock,
           meshLock' \in {meshLock, None}, peersLock' \in {peersLock, None}
    PROVE  SockInv'
<1>1. /\ pc' \in [Procs -> Steps] /\ pc'[p] = "off" /\ \A q \in Procs \ {p} : pc'[q] = pc[q]
      /\ serving' \in [Procs -> BOOLEAN] /\ ~serving'[p]
      /\ \A q \in Procs \ {p} : serving'[q] = serving[q]
      /\ raced' \in [Procs -> BOOLEAN] /\ \A q \in Procs \ {p} : raced'[q] = raced[q]
    BY DEF SockInv, Steps
<1> QED
    BY <1>1 DEF SockInv

\* A probe that goes on found nobody; what is removed is nobody's that counts.
LEMMA SocketStepKeeps ==
    ASSUME SockInv, NEW p \in Procs, Probe(p) \/ RemoveStale(p) \/ Bind(p) PROVE SockInv'
<1>1. UNCHANGED <<meshLock, peersLock>> /\ None \notin Procs
    BY DataFilesAssumption DEF Probe, RemoveStale, Bind
<1>2. CASE Probe(p)
    <2>1. CASE Reachable
        BY <1>1, <1>2, <2>1, GoneKeeps DEF Probe
    <2>2. CASE ~Reachable
        <3>1. UNCHANGED <<sock, serving, raced>> /\ pc' = [pc EXCEPT ![p] = "probed"]
            BY <1>2, <2>2 DEF Probe
        <3>2. \A q \in Procs : ~(serving[q] /\ ~raced[q])
            BY <1>1, <2>2 DEF Reachable, SockInv
        <3> QED
            BY <1>1, <3>1, <3>2 DEF SockInv, Steps
    <2> QED
        BY <2>1, <2>2
<1>3. CASE RemoveStale(p)
    <2>1. pc[p] = "probed" /\ pc' = [pc EXCEPT ![p] = "removed"] /\ sock' = None
          /\ UNCHANGED <<serving, raced>>
        BY <1>3 DEF RemoveStale
    <2>2. \A q \in Procs : ~(serving[q] /\ ~raced[q])
        BY <2>1 DEF SockInv
    <2> QED
        BY <1>1, <2>1, <2>2 DEF SockInv, Steps
<1>4. CASE Bind(p)
    <2>1. pc[p] = "removed" /\ pc' = [pc EXCEPT ![p] = "bound"]
        BY <1>4 DEF Bind
    <2>2. \A q \in Procs : ~(serving[q] /\ ~raced[q])
        BY <2>1 DEF SockInv
    <2>3. pc' \in [Procs -> Steps] /\ pc'[p] = "bound" /\ \A q \in Procs \ {p} : pc'[q] = pc[q]
        BY <2>1 DEF SockInv, Steps
    <2>4. CASE UNCHANGED <<sock, serving, raced>>
        BY <1>1, <2>2, <2>3, <2>4 DEF SockInv
    <2>5. CASE sock = None
        <3> DEFINE r == \E q \in Procs \ {p} : pc[q] \in {"probed", "removed"}
        <3>1. sock' = p /\ serving' = [serving EXCEPT ![p] = TRUE]
              /\ raced' = [raced EXCEPT ![p] = r] /\ r \in BOOLEAN
            BY <1>4, <2>5 DEF Bind
        <3>2. ~r => \A q \in Procs : pc'[q] \notin {"probed", "removed"}
            BY <2>3
        <3> HIDE DEF r
        <3>3. serving' \in [Procs -> BOOLEAN] /\ raced' \in [Procs -> BOOLEAN]
            BY <3>1 DEF SockInv
        <3>4. raced'[p] = r /\ \A q \in Procs \ {p} : serving'[q] = serving[q] /\ raced'[q] = raced[q]
            BY <3>1 DEF SockInv
        <3> QED
            BY <1>1, <2>2, <2>3, <3>1, <3>2, <3>3, <3>4 DEF SockInv
    <2> QED
        BY <1>4, <2>4, <2>5 DEF Bind
<1> QED
    BY <1>2, <1>3, <1>4

LEMMA SockInvStep == SockInv /\ [Next]_vars => SockInv'
<1> SUFFICES ASSUME SockInv, [Next]_vars PROVE SockInv'
    OBVIOUS
<1>1. CASE UNCHANGED <<pc, serving, raced, sock, meshLock, peersLock>>
    BY <1>1 DEF SockInv
<1>2. CASE UNCHANGED vars \/ Upgrade
    BY <1>1, <1>2 DEF vars, Upgrade
<1>3. ASSUME NEW p \in Procs, Ends(p) PROVE SockInv'
    BY <1>3, GoneKeeps DEF Ends
<1>4. ASSUME NEW p \in Procs, Continue(p) PROVE SockInv'
    <2>1. CASE \/ ReadMarker(p) \/ CopyDir(p) \/ TruncateMarker(p) \/ WriteMarker(p)
               \/ Open(p) \/ ReadKey(p) \/ PersistNewKey(p) \/ ReadWinner(p)
        <3>1. Aside(p)
            BY <2>1 DEF ReadMarker, CopyDir, TruncateMarker, WriteMarker, Open, ReadKey,
                PersistNewKey, ReadWinner, Aside, Steps, Opening
        <3> QED
            BY <3>1, AsideKeeps
    <2>2. CASE LoadPeers(p) \/ SavePeers(p) \/ TruncateNames(p) \/ WriteNames(p)
        <3>1. Aside(p)
            BY <2>2 DEF LoadPeers, SavePeers, TruncateNames, WriteNames, Aside, Steps
        <3> QED
            BY <3>1, AsideKeeps
    <2>3. CASE DaemonStartsMesh(p)
        <3>1. CASE AcquireMeshLock(p) /\ UNCHANGED <<serving, raced>>
            <4>1. Aside(p)
                BY <2>3, <3>1 DEF DaemonStartsMesh, AcquireMeshLock, Aside, Steps
            <4> QED
                BY <4>1, AsideKeeps
        <3>2. CASE Gone(p) /\ UNCHANGED meshLock
            BY <2>3, <3>2, GoneKeeps DEF DaemonStartsMesh
        <3> QED
            BY <2>3, <3>1, <3>2 DEF DaemonStartsMesh
    <2> QED
        BY <1>4, <2>1, <2>2, <2>3, SocketStepKeeps DEF Continue
<1>5. ASSUME NEW p \in Procs, Begin(p) PROVE SockInv'
    <2>1. CASE Start(p) \/ ReadKey(p) \/ AppStartsMesh(p) \/ SetPeerName(p)
                 \/ ForgetPeerName(p) \/ AcquireUpdateLock(p)
        <3>1. Aside(p)
            BY <2>1 DEF Start, ReadKey, AppStartsMesh, AcquireMeshLock, SetPeerName,
                ForgetPeerName, AcquireUpdateLock, Aside, Steps, Opening
        <3> QED
            BY <3>1, AsideKeeps
    <2>2. CASE AppStopsMesh(p)
        BY <2>2 DEF AppStopsMesh, SockInv
    <2> QED
        BY <1>3, <1>5, <2>1, <2>2, SocketStepKeeps DEF Begin, Exit
<1>6. ASSUME NEW p \in Procs, Crash(p) PROVE SockInv'
    BY <1>3, <1>6 DEF Crash
<1> QED
    BY <1>2, <1>4, <1>5, <1>6 DEF Next

LEMMA FilesInvInit == Init => FilesInv
<1> SUFFICES ASSUME Init PROVE FilesInv
    OBVIOUS
<1>1. KeyInv /\ PeersInv /\ SockInv
    BY DEF Init, KeyInv, OneIdentity, PeersInv, SockInv, Steps
<1>2. None # 1 /\ 1 \in Versions
    BY DataFilesAssumption DEF Versions
<1>3. VersionInv
    BY <1>2 DEF Init, VersionInv, SafetyNet, Steps, Cleared
<1> QED
    BY <1>1, <1>3 DEF FilesInv

LEMMA FilesInvStep == FilesInv /\ [Next]_vars => FilesInv'
BY KeyInvStep, PeersInvStep, VersionInvStep, SockInvStep DEF FilesInv

NamesInv == named \in BOOLEAN

LEMMA NamesInvStep == NamesInv /\ [Next]_vars => NamesInv'
<1> SUFFICES ASSUME NamesInv, [Next]_vars PROVE NamesInv'
    OBVIOUS
<1>1. UNCHANGED named \/ \E p \in Procs : TruncateNames(p) \/ WriteNames(p)
    BY DEF Next, vars, Continue, Begin, Crash, Upgrade, ReadMarker, CopyDir,
        TruncateMarker, WriteMarker, Open, ReadKey, PersistNewKey, ReadWinner,
        RemoveStale, Bind, DaemonStartsMesh, LoadPeers, SavePeers,
        Start, AppStartsMesh, AppStopsMesh, Probe,
        AcquireUpdateLock, SetPeerName, ForgetPeerName, Exit, Ends
<1>2. named = TRUE \/ named = FALSE
    BY DEF NamesInv
<1>3. ASSUME NEW p \in Procs, WriteNames(p) PROVE NamesInv'
    BY <1>2, <1>3, Zenon DEF WriteNames, NamesInv
<1>4. ASSUME NEW p \in Procs, TruncateNames(p) PROVE NamesInv'
    BY <1>4 DEF TruncateNames, NamesInv
<1> QED
    BY <1>1, <1>3, <1>4 DEF NamesInv

(* Every file of the directory, and what each process has read of it, is      *)
(* what its type says at every step, kills included.                          *)
THEOREM FileTypes == Spec => []TypeOK
<1>1. FilesInv /\ NamesInv => TypeOK
    BY DEF FilesInv, KeyInv, PeersInv, VersionInv, SockInv, TypeOK, NamesInv
<1>2. Init => NamesInv
    BY DEF Init, NamesInv
<1>3. NamesInv /\ [Next]_vars => NamesInv'
    BY NamesInvStep
<1> QED
    BY <1>1, <1>2, <1>3, FilesInvInit, FilesInvStep, PTL DEF Spec

(* The safety net of an upgrade: what an older version left is in a finished  *)
(* backup of its own before a newer one opens the database, however many      *)
(* processes open, stamp and die at once (data_version.rs,                    *)
(* check_and_backup).                                                         *)
THEOREM UpgradeIsBackedUp == Spec => []SafetyNet
<1>1. FilesInv => SafetyNet
    BY DEF FilesInv, VersionInv
<1> QED
    BY <1>1, FilesInvInit, FilesInvStep, PTL DEF Spec

(* A daemon that serves is at the end of the socket's path, unless a second   *)
(* one was past its probe when it bound: a probe that goes on found nobody,   *)
(* and only who has probed removes (control.rs).                              *)
THEOREM DaemonIsReachable == Spec => []DaemonReachable
<1>1. FilesInv => DaemonReachable
    BY DEF FilesInv, SockInv, DaemonReachable
<1> QED
    BY <1>1, FilesInvInit, FilesInvStep, PTL DEF Spec
==============================================================================
