----------------------------- MODULE NoteStore -----------------------------
(***************************************************************************)
(* One kiem data directory: the SQLite database and the search index that  *)
(* several processes share.  Each process has a connection of its own and  *)
(* no lock is held across its statements, so every statement is a step.    *)
(*                                                                         *)
(* A document is the set of Automerge changes in its history: 0 stands for *)
(* the change that creates the note, the others are numbers into `hist'.   *)
(* Two histories merge to their union, equal bytes and equal heads mean    *)
(* equal sets.  The last change of the trash flag in the numbering wins.   *)
(***************************************************************************)
EXTENDS Naturals, Sequences

CONSTANTS Ids,        \* note ids (UUIDs: nobody mints one twice)
          Locals,     \* connections of CLI commands and of the app's UI
          Engines,    \* the connection of the sync engine, if one runs
          Crashing,   \* the processes that may stop between two steps
          Search,     \* TRUE for open_dir, FALSE for open (no search index)
          MaxChange,  \* bound: changes made after a note's creation
          NoId        \* not a note id

ASSUME StoreAssumption ==
  /\ NoId \notin Ids
  /\ Locals \cap Engines = {}
  /\ \A e, f \in Engines : e = f    \* one engine a directory: mesh.lock
  /\ Search \in BOOLEAN
  /\ MaxChange \in Nat

Procs == Locals \cup Engines
Changes == 0 .. MaxChange
Docs == SUBSET Changes
Rows == {d \in Docs : d # {} => 0 \in d}

VARIABLES hist,      \* what each change after a creation did
          row,       \* notes.doc by id, {} where there is no row
          purged,    \* table `purged'
          tomb,      \* the ids the tombstone document lists
          indexed,   \* the ids in the committed index, what a reader opened now returns
          deferred,  \* index writes the engine's open writer has not committed
          op,        \* the operation each process is in
          minted,    \* ids in use anywhere in the mesh
          remote     \* changes to each note that peers hold and may send

dbVars == <<hist, row, purged, tomb>>
indexVars == <<indexed, deferred>>
meshVars == <<minted, remote>>
vars == <<dbVars, indexVars, meshVars, op>>

Kinds == {"edit", "todo", "meta", "trash", "restore"}
Phases == {"idle", "composed", "commit", "index", "unindex", "reindex",
           "rebuild", "selected", "purge", "received", "check", "put", "adopt"}

Change == [op: Kinds, erases: Docs]

(* One shape for every operation; a field no step of it reads keeps its   *)
(* idle value.  `doc' is the document in hand, `base' the row it was read *)
(* from, `ids' and `tomb' the ids a purge or a rebuild works on.          *)
Op == [pc: Phases, kind: Kinds, id: Ids \cup {NoId}, doc: Docs, base: Docs,
       ids: SUBSET Ids, tomb: SUBSET Ids]

Idle == [pc |-> "idle", kind |-> "meta", id |-> NoId, doc |-> {}, base |-> {},
         ids |-> {}, tomb |-> {}]

TypeOK ==
  /\ hist \in Seq(Change) /\ Len(hist) <= MaxChange
  /\ row \in [Ids -> Rows]
  /\ purged \in SUBSET Ids /\ tomb \in SUBSET Ids
  /\ indexed \in SUBSET Ids
  /\ deferred \in [Ids -> {"none", "add", "remove"}]
  /\ op \in [Procs -> Op]
  /\ minted \in SUBSET Ids
  /\ remote \in [Ids -> Docs]

Init ==
  /\ hist = <<>>
  /\ row = [n \in Ids |-> {}]
  /\ purged = {} /\ tomb = {}
  /\ indexed = {}
  /\ deferred = [n \in Ids |-> "none"]
  /\ op = [p \in Procs |-> Idle]
  /\ minted = {}
  /\ remote = [n \in Ids |-> {}]

-----------------------------------------------------------------------------
(* Reading a document. *)

Stored == {n \in Ids : row[n] # {}}

Trashed(d) == \E c \in d \ {0} :
  /\ hist[c].op = "trash"
  /\ \A r \in d \ {0} : hist[r].op = "restore" => r < c

Live == {n \in Stored : ~Trashed(row[n])}

(* The passages of the body: what a body write added and no later one took out. *)
Body(d) == {c \in d : /\ c = 0 \/ hist[c].op \in {"edit", "todo"}
                      /\ \A w \in d \ {0} : c \notin hist[w].erases}

(* hydrate: a document without its creating change is not a note yet. *)
HydratesAny(d) == d # {}          \* mutant: any document passes for a note
Hydrates(d) == 0 \in d

-----------------------------------------------------------------------------
(* The search index.  One tantivy writer at a time holds the index lock;   *)
(* the engine keeps its own open while it has deferred writes.             *)

WriterOpen == \E n \in Ids : deferred[n] # "none"

FlushedAdds == indexed \cup {n \in Ids : deferred[n] = "add"}   \* mutant: removals lost
Flushed == {n \in Ids : deferred[n] = "add" \/ (n \in indexed /\ deferred[n] # "remove")}

(* The next phase after a commit: the index, unless the store has none. *)
Then(phase) == IF Search THEN phase ELSE "idle"

Become(p, o) == op' = [op EXCEPT ![p] = IF o.pc = "idle" THEN Idle ELSE o]

(* persist and insert_note, after the row: index_note or remove_note.  The *)
(* write is given up, and only logged, when another writer keeps the lock. *)
IndexNow(p) ==
  /\ op[p].pc = "index"
  /\ \/ /\ ~WriterOpen
        /\ indexed' = IF Trashed(op[p].doc) THEN indexed \ {op[p].id}
                                            ELSE indexed \cup {op[p].id}
     \/ /\ WriterOpen
        /\ UNCHANGED indexed
  /\ Become(p, Idle)
  /\ UNCHANGED <<dbVars, meshVars, deferred>>

(* rebuild_search_index: list the live notes, then replace the whole index. *)
RebuildRead(p) ==
  /\ op[p].pc = "rebuild"
  /\ Become(p, [op[p] EXCEPT !.pc = "reindex", !.ids = Live])
  /\ UNCHANGED <<dbVars, indexVars, meshVars>>

RebuildWrite(p) ==
  /\ op[p].pc = "reindex"
  /\ \/ /\ ~WriterOpen
        /\ indexed' = op[p].ids
     \/ /\ WriterOpen \/ ~(op[p].ids \subseteq Stored)
        /\ UNCHANGED indexed
  /\ Become(p, Idle)
  /\ UNCHANGED <<dbVars, meshVars, deferred>>

(* purge_rows, after its transaction: deferred removals and a flush.  The  *)
(* engine's go through its own writer.                                     *)
Unindex(p) ==
  /\ op[p].pc = "unindex"
  /\ \/ /\ p \in Engines
        /\ indexed' = Flushed \ op[p].ids
        /\ deferred' = [n \in Ids |-> "none"]
     \/ /\ p \in Locals
        /\ ~WriterOpen
        /\ indexed' = indexed \ op[p].ids
        /\ UNCHANGED deferred
     \/ /\ p \in Locals
        /\ WriterOpen
        /\ UNCHANGED indexVars
  /\ Become(p, Idle)
  /\ UNCHANGED <<dbVars, meshVars>>

(* flush_search_index, once per sync round. *)
Flush(e) ==
  /\ op[e].pc = "idle" /\ WriterOpen
  /\ indexed' = Flushed
  /\ deferred' = [n \in Ids |-> "none"]
  /\ UNCHANGED <<dbVars, meshVars, op>>

-----------------------------------------------------------------------------
(* Local writes.  A write reads the row and later replaces it, provided it *)
(* still holds the bytes that were read.                                   *)

Room == Len(hist) < MaxChange

(* create_note: an INSERT under a fresh id. *)
Create(p, n) ==
  /\ op[p].pc = "idle" /\ n \notin minted
  /\ row' = [row EXCEPT ![n] = {0}]
  /\ minted' = minted \cup {n}
  /\ Become(p, [Idle EXCEPT !.pc = Then("index"), !.id = n, !.doc = {0}])
  /\ UNCHANGED <<hist, purged, tomb, indexVars, remote>>

(* bulk, as an import uses it: one transaction, then one rebuild. *)
Import(p, new) ==
  /\ op[p].pc = "idle" /\ new # {} /\ new \cap minted = {}
  /\ row' = [n \in Ids |-> IF n \in new THEN {0} ELSE row[n]]
  /\ minted' = minted \cup new
  /\ Become(p, [Idle EXCEPT !.pc = Then("rebuild")])
  /\ UNCHANGED <<hist, purged, tomb, indexVars, remote>>

(* get_note_with_version by an editor, or the get_note of a todo, tag or   *)
(* unversioned line edit: the author composes a new body from what it saw. *)
ReadNote(p, n, kind) ==
  /\ op[p].pc = "idle" /\ n \in Stored /\ Room
  /\ Become(p, [Idle EXCEPT !.pc = "composed", !.kind = kind, !.id = n, !.doc = row[n]])
  /\ UNCHANGED <<dbVars, indexVars, meshVars>>

(* write_body_inner's own read: an editor passes the version it read and   *)
(* is refused when the row has another; the todo path passes none.         *)
VersionIgnored(p) == TRUE         \* mutant: the version is not compared
VersionMatches(p) == op[p].kind = "edit" => row[op[p].id] = op[p].doc

LoadForBody(p) ==
  /\ op[p].pc = "composed"
  /\ \/ /\ op[p].id \in Stored /\ VersionMatches(p)
        /\ Become(p, [op[p] EXCEPT !.pc = "commit", !.base = row[op[p].id]])
     \/ Become(p, Idle)     \* NotFound, VersionMismatch or TagsWouldBeLost
  /\ UNCHANGED <<dbVars, indexVars, meshVars>>

(* mutate: set_pinned and set_note_type ("meta"), delete_note, restore_note. *)
LoadForFlag(p, n, kind) ==
  /\ op[p].pc = "idle" /\ n \in Stored /\ Room
  /\ Become(p, [Idle EXCEPT !.pc = "commit", !.kind = kind, !.id = n,
                            !.doc = row[n], !.base = row[n]])
  /\ UNCHANGED <<dbVars, indexVars, meshVars>>

(* reconcile writes only what differs: trashing a trashed note leaves the  *)
(* flag alone.                                                             *)
Effect(kind, base) ==
  IF kind = (IF Trashed(base) THEN "trash" ELSE "restore") THEN "meta" ELSE kind

(* The new body is what the author kept of the body it saw, so the splice  *)
(* takes every other passage out of the row's.                             *)
TakenOut(o, keep) == IF o.kind \in {"edit", "todo"} THEN Body(o.base) \ keep ELSE {}

RowPresent(p) == (row[op[p].id] = {}) = (op[p].base = {})   \* mutant: WHERE id = ? only
RowUnchanged(p) == row[op[p].id] = op[p].base

(* persist: UPDATE ... WHERE id = ? AND doc = ?. *)
Persist(p) ==
  /\ op[p].pc = "commit"
  /\ \/ /\ RowUnchanged(p) /\ Room
        /\ \E keep \in SUBSET Body(op[p].doc) :
             hist' = Append(hist, [op |-> Effect(op[p].kind, op[p].base),
                                   erases |-> TakenOut(op[p], keep)])
        /\ LET new == op[p].base \cup {Len(hist) + 1}
           IN  /\ row' = [row EXCEPT ![op[p].id] = new]
               /\ Become(p, [Idle EXCEPT !.pc = Then("index"), !.id = op[p].id, !.doc = new])
     \/ /\ ~RowUnchanged(p)  \* VersionMismatch or NotFound
        /\ Become(p, Idle)
        /\ UNCHANGED <<hist, row>>
  /\ UNCHANGED <<purged, tomb, indexVars, meshVars>>

-----------------------------------------------------------------------------
(* Purges.  The ids, then the tombstone document, then one transaction. *)

(* purge_deleted takes the trash, purge_tag the notes carrying a tag. *)
Select(p, chosen, kind) ==
  /\ op[p].pc = "idle" /\ chosen # {} /\ chosen \subseteq Stored
  /\ Become(p, [Idle EXCEPT !.pc = "selected", !.kind = kind, !.ids = chosen])
  /\ UNCHANGED <<dbVars, indexVars, meshVars>>

(* purge_ids reads the tombstone document and adds the ids to its copy. *)
ReadTombstones(p) ==
  /\ op[p].pc = "selected"
  /\ Become(p, [op[p] EXCEPT !.pc = "purge", !.tomb = tomb \cup op[p].ids])
  /\ UNCHANGED <<dbVars, indexVars, meshVars>>

(* purge_rows: one transaction over the ids, and the copy over the document. *)
PurgeRows(p, gone) ==
  /\ purged' = purged \cup gone
  /\ row' = [n \in Ids |-> IF n \in gone THEN {} ELSE row[n]]
  /\ tomb' = op[p].tomb
  /\ Become(p, [Idle EXCEPT !.pc = Then("unindex"), !.ids = gone])
  /\ UNCHANGED <<hist, indexVars, meshVars>>

Purge(p) == op[p].pc = "purge" /\ PurgeRows(p, op[p].ids)

-----------------------------------------------------------------------------
(* The sync engine's writes: receive_message on a note and on the          *)
(* tombstone document.  `remote' is what peers can send.                   *)

PeerHolds(n) == Hydrates(remote[n])

(* A peer creates a note, or changes one it has had from here. *)
RemoteChange(n, kind) ==
  /\ \/ /\ n \notin minted
        /\ kind = "edit"
        /\ remote' = [remote EXCEPT ![n] = {0}]
        /\ UNCHANGED hist
     \/ /\ n \in Stored \/ PeerHolds(n)
        /\ Room
        /\ hist' = Append(hist, [op |-> kind, erases |-> {}])
        /\ remote' = [remote EXCEPT ![n] = @ \cup {0, Len(hist) + 1}]
  /\ minted' = minted \cup {n}
  /\ UNCHANGED <<row, purged, tomb, indexVars, op>>

(* The snapshot of the row with the changes of a peer's message applied.   *)
(* What is no note yet stays with the engine, outside the store.           *)
ReceiveNote(e, n, sent) ==
  /\ op[e].pc = "idle" /\ Hydrates(row[n] \cup sent)
  /\ Become(e, [Idle EXCEPT !.pc = "received", !.id = n, !.doc = row[n] \cup sent])
  /\ UNCHANGED <<dbVars, indexVars, meshVars>>

MergedNothing(e) == op[e].doc     \* mutant: the row read again is not merged in
Merged(e) == op[e].doc \cup row[op[e].id]

(* mutant: the retry keeps the row of the first pass for its comparison *)
PutMergeOnce(e) ==
  /\ op[e].pc = "received"
  /\ Become(e, [op[e] EXCEPT !.pc = "check", !.doc = Merged(e)])
  /\ UNCHANGED <<dbVars, indexVars, meshVars>>

(* put_doc: read the row again and merge, *)
PutMerge(e) ==
  /\ op[e].pc = "received"
  /\ Become(e, [op[e] EXCEPT !.pc = "check", !.base = row[op[e].id], !.doc = Merged(e)])
  /\ UNCHANGED <<dbVars, indexVars, meshVars>>

MayStoreAny(e) == TRUE            \* mutant: `purged' is not consulted
MayStore(e) == op[e].id \notin purged

(* accept and drop the document of a purged id, *)
PutCheck(e) ==
  /\ op[e].pc = "check"
  /\ Become(e, IF MayStore(e) THEN [op[e] EXCEPT !.pc = "put"] ELSE Idle)
  /\ UNCHANGED <<dbVars, indexVars, meshVars>>

(* and write, unless the row is no longer the one that was merged: retry. *)
PutWrite(e) ==
  /\ op[e].pc = "put"
  /\ \/ /\ RowUnchanged(e)
        /\ row' = [row EXCEPT ![op[e].id] = op[e].doc]
        /\ deferred' = IF ~Search THEN deferred
                       ELSE [deferred EXCEPT ![op[e].id] =
                               IF Trashed(op[e].doc) THEN "remove" ELSE "add"]
        /\ Become(e, Idle)
     \/ /\ ~RowUnchanged(e)
        /\ Become(e, [op[e] EXCEPT !.pc = "received"])
        /\ UNCHANGED <<row, deferred>>
  /\ UNCHANGED <<hist, purged, tomb, indexed, meshVars>>

(* A peer's tombstones merged into a copy of ours, *)
ReceiveTombstones(e, theirs) ==
  /\ op[e].pc = "idle"
  /\ \A n \in theirs : PeerHolds(n)
  /\ Become(e, [Idle EXCEPT !.pc = "adopt", !.tomb = tomb \cup theirs])
  /\ UNCHANGED <<dbVars, indexVars, meshVars>>

(* mutant: the document is persisted, its purges are not applied *)
AdoptDocument(e) ==
  /\ op[e].pc = "adopt"
  /\ tomb' = op[e].tomb
  /\ Become(e, Idle)
  /\ UNCHANGED <<hist, row, purged, indexVars, meshVars>>

(* which is applied and persisted: adopt_tombstone_doc. *)
Adopt(e) == op[e].pc = "adopt" /\ PurgeRows(e, op[e].tomb)

-----------------------------------------------------------------------------
(* An error return or a crash: nothing of the rest of the operation. *)
Stop(p) ==
  /\ p \in Crashing /\ (op[p] # Idle \/ (p \in Engines /\ WriterOpen))
  /\ Become(p, Idle)
  /\ deferred' = IF p \in Engines THEN [n \in Ids |-> "none"] ELSE deferred
  /\ UNCHANGED <<dbVars, indexed, meshVars>>

LocalStep(p) ==
  \/ \E n \in Ids : Create(p, n)
  \/ \E new \in SUBSET Ids : Import(p, new)
  \/ \E n \in Ids, kind \in {"edit", "todo"} : ReadNote(p, n, kind)
  \/ LoadForBody(p)
  \/ \E n \in Ids, kind \in {"meta", "trash", "restore"} : LoadForFlag(p, n, kind)
  \/ Persist(p)
  \/ Select(p, Stored \ Live, "trash")
  \/ \E tagged \in SUBSET Stored : Select(p, tagged, "meta")
  \/ ReadTombstones(p)
  \/ Purge(p)
  \/ IndexNow(p)
  \/ RebuildRead(p)
  \/ RebuildWrite(p)

(* The steps an engine must take once a message is in. *)
EngineStep(e) ==
  \/ PutMerge(e)
  \/ PutCheck(e)
  \/ PutWrite(e)
  \/ Adopt(e)

Next ==
  \/ \E p \in Locals : LocalStep(p)
  \/ \E e \in Engines : EngineStep(e)
  \/ \E e \in Engines : Flush(e)
  \/ \E e \in Engines, n \in Ids : \E sent \in SUBSET remote[n] : ReceiveNote(e, n, sent)
  \/ \E e \in Engines, theirs \in SUBSET Ids : ReceiveTombstones(e, theirs)
  \/ \E p \in Procs : Unindex(p)
  \/ \E p \in Procs : Stop(p)
  \/ \E n \in Ids, kind \in {"edit", "trash", "restore"} : RemoteChange(n, kind)

Spec == Init /\ [][Next]_vars

FairSpec == Spec /\ \A e \in Engines : WF_vars(EngineStep(e))
-----------------------------------------------------------------------------
(* Properties. *)

Reg == INSTANCE DocRegistry WITH held <- row, erased <- purged

(* Whatever the interleaving of editors, purges and the sync engine, a     *)
(* stored history only grows until its id is purged, and a purge is final: *)
(* the compare-and-swap of persist and of put_doc, and its merge loop.     *)
Registry == Reg!RegSpec

(* No purged id has a row.  put_doc checks `purged' and inserts in two     *)
(* statements, so this rests on who can still purge the id in between.     *)
PurgedNeverStored == \A n \in purged : row[n] = {}

(* Every id the tombstone document lists has been erased here, although    *)
(* document and table are written from copies read earlier.                *)
TombstonesApplied == tomb \subseteq purged

(* The passages the last write of p took out of the body it replaced. *)
RemovedBy(p) ==
  LET n == op[p].id
  IN  Body(row[n]) \ {c \in Body(row[n]) : c \notin hist'[Len(hist')].erases}

WritesBody(p, kind) ==
  /\ op[p].pc = "commit" /\ op[p].kind = kind
  /\ Len(hist') > Len(hist) /\ op'[p] # op[p]

KeepsUnseen(kind) ==
  \A p \in Locals : WritesBody(p, kind) => RemovedBy(p) \subseteq op[p].doc

(* An editor that passes the version it read never takes out a passage it  *)
(* has not seen (update_note_if_version and the row's compare-and-swap).   *)
EditKeepsUnseen == [][KeepsUnseen("edit")]_vars

(* The same of the callers that replace a whole body without a version:    *)
(* the todo operations, add_tag, remove_tag and an unversioned edit_lines. *)
TodoKeepsUnseen == [][KeepsUnseen("todo")]_vars

(* Emptying the trash erases no note that was restored since it was listed. *)
OnlyTrashErased ==
  [][\A p \in Locals, n \in Ids :
       op[p].pc = "purge" /\ op[p].kind = "trash" /\ op'[p] # op[p] /\ row'[n] # row[n]
         => Trashed(row[n])]_vars

(* The table is a mirror of the document: what is purged here is listed    *)
(* there, which is how peers learn of it.                                  *)
PurgedIsListed == purged \subseteq tomb

Quiet == ~WriterOpen /\ \A p \in Procs : op[p].pc \in {"idle", "composed"}

(* One process at work at a time, the engine's open writer included. *)
AtWork == {p \in Procs : op[p].pc # "idle" \/ (p \in Engines /\ WriterOpen)}
OneAtATime == \A p, q \in AtWork : p = q

(* With nothing under way a search returns exactly the live notes, as long *)
(* as operations did not overlap.                                          *)
SearchExact == Quiet => indexed = Live

(* put_doc's retry loop ends: the engine holds the store mutex meanwhile. *)
ReceiveEnds == \A e \in Engines : op[e].pc = "received" ~> op[e].pc = "idle"
-----------------------------------------------------------------------------
(* The inductive invariant behind the first three.                         *)

EnginePhases == {"received", "check", "put", "adopt"}

(* Nothing is stored, purged or held by a peer under an id not yet minted. *)
MintedFirst == \A n \in Ids : n \in Stored \cup purged \/ remote[n] # {} => n \in minted

(* What an operation under way may rely on at its next step. *)
OpSound(o) ==
  /\ o.pc \in {"composed", "commit", "index", "received", "check", "put"} => o.id \in Ids
  /\ o.pc = "commit" => 0 \in o.base
  /\ o.pc = "commit" /\ o.kind = "edit" => o.base = o.doc
  /\ o.pc \in {"selected", "purge"} => o.ids \subseteq Stored \cup purged
  /\ o.pc = "purge" => o.tomb \subseteq purged \cup o.ids
  /\ o.pc = "adopt" => o.tomb \subseteq minted
  /\ o.pc \in {"received", "check", "put"} => 0 \in o.doc /\ o.id \in minted
  /\ o.pc \in {"check", "put"} => o.base \subseteq o.doc
  /\ o.pc \in {"check", "put"} /\ o.base = {} => row[o.id] = {}
  /\ o.pc = "put" /\ o.base = {} => o.id \notin purged

(* Why put_doc's insert cannot revive a purged note: an id being purged is *)
(* stored or purged already, so while the engine inserts under an id that  *)
(* has no row nobody can be purging it.                                    *)
StoreSound ==
  /\ MintedFirst
  /\ PurgedNeverStored
  /\ TombstonesApplied
  /\ \A p \in Procs : OpSound(op[p]) /\ (p \in Locals => op[p].pc \notin EnginePhases)
=============================================================================
