-------------------------- MODULE NoteStoreProofs --------------------------
(***************************************************************************)
(* Theorems about NoteStore, for every set of notes and of processes.      *)
(*                                                                         *)
(* TypeOK and StoreSound are inductive together: a row's bytes always hold *)
(* the creating change because a write starts from a stored row, and that  *)
(* is part of StoreSound.  Inv is their conjunction.  A step either leaves *)
(* database and mesh alone (SilentStep) or is one of seven writes.         *)
(***************************************************************************)
EXTENDS NoteStore, TLAPS

Inv == TypeOK /\ StoreSound

-----------------------------------------------------------------------------
(* The operation a process turns to. *)

(* Being idle is an operation, and has nothing to rely on. *)
LEMMA IdleIsOp == Idle \in Op /\ OpSound(Idle) /\ Idle.pc = "idle"
  BY StoreAssumption DEF Idle, Op, Phases, Kinds, Docs, Changes, OpSound

(* A new note's history: its creating change. *)
LEMMA NewNoteIsRow == {0} \in Rows /\ Rows \subseteq Docs /\ {} \in Rows
<1>1. 0 \in Changes
  BY StoreAssumption DEF Changes
<1> QED BY <1>1 DEF Rows, Docs

(* Become gives p its operation and leaves those of the others. *)
LEMMA BecomeType ==
  ASSUME op \in [Procs -> Op], NEW p \in Procs, NEW o \in Op, Become(p, o)
  PROVE  /\ op' \in [Procs -> Op]
         /\ op'[p] = o \/ op'[p] = Idle
         /\ \A q \in Procs : q # p => op'[q] = op[q]
  BY IdleIsOp DEF Become

(* What an operation relies on survives a step that unmints and unpurges   *)
(* nothing, removes a row only by purging its id, and neither inserts nor  *)
(* purges an id the engine is about to insert.                             *)
LEMMA OpSoundKept ==
  ASSUME NEW o \in Op, OpSound(o),
         minted \subseteq minted', purged \subseteq purged',
         Stored \cup purged \subseteq Stored' \cup purged',
         o.pc \in {"check", "put"} /\ o.base = {} => row'[o.id] = {},
         o.pc = "put" /\ o.base = {} => o.id \notin purged'
  PROVE  OpSound(o)'
  BY DEF OpSound, Op

(* A step that changes no row, no tombstone and nothing in the mesh. *)
LEMMA SilentStep ==
  ASSUME Inv, NEW p \in Procs, NEW o \in Op, Become(p, o),
         UNCHANGED <<dbVars, meshVars>>,
         indexed' \in SUBSET Ids,
         deferred' \in [Ids -> {"none", "add", "remove"}],
         OpSound(o), p \in Locals => o.pc \notin EnginePhases
  PROVE  Inv'
<1>1. TypeOK'
  BY BecomeType DEF Inv, TypeOK, dbVars, meshVars
<1>2. ASSUME NEW q \in Procs
      PROVE  OpSound(op'[q]) /\ (q \in Locals => op'[q].pc \notin EnginePhases)
  BY BecomeType, IdleIsOp DEF Inv, TypeOK, StoreSound, EnginePhases
<1>3. ASSUME NEW q \in Procs
      PROVE  OpSound(op[q])'
  BY <1>2 DEF OpSound, Stored, dbVars, meshVars
<1>4. StoreSound'
  BY <1>2, <1>3 DEF Inv, StoreSound, MintedFirst, PurgedNeverStored,
                    TombstonesApplied, Stored, dbVars, meshVars, EnginePhases
<1> QED BY <1>1, <1>4 DEF Inv
-----------------------------------------------------------------------------
(* The writes. *)

(* A step of p that changes rows, tombstones or ids keeps Inv when it      *)
(* leaves what the other operations rely on.                               *)
LEMMA WriteStep ==
  ASSUME Inv, NEW p \in Procs, NEW o \in Op, Become(p, o),
         TypeOK', MintedFirst', PurgedNeverStored', TombstonesApplied',
         minted \subseteq minted', purged \subseteq purged',
         Stored \cup purged \subseteq Stored' \cup purged',
         \A q \in Engines \ {p} :
           /\ op[q].pc \in {"check", "put"} /\ op[q].base = {} => row'[op[q].id] = {}
           /\ op[q].pc = "put" /\ op[q].base = {} => op[q].id \notin purged',
         o.pc \in {"idle", "index", "rebuild", "unindex"},
         o.pc = "index" => o.id \in Ids
  PROVE  Inv'
<1>1. ASSUME NEW q \in Procs, q # p
      PROVE  OpSound(op[q])' /\ (q \in Locals => op'[q].pc \notin EnginePhases)
  <2>1. op'[q] = op[q] /\ op[q] \in Op /\ OpSound(op[q])
    BY <1>1, BecomeType DEF Inv, TypeOK, StoreSound
  <2>2. op[q].pc \in {"check", "put"} => q \in Engines
    BY DEF Inv, StoreSound, EnginePhases, Procs
  <2>3. \A r \in Op : r = op[q] => OpSound(r)'
    BY <1>1, <2>1, <2>2, OpSoundKept
  <2> QED BY <1>1, <2>1, <2>3, StoreAssumption DEF Inv, StoreSound, OpSound, Stored
<1>2. OpSound(op[p])' /\ (p \in Locals => op'[p].pc \notin EnginePhases)
  <2>1. op'[p] = o \/ op'[p] = Idle
    BY BecomeType DEF Inv, TypeOK
  <2> QED BY <2>1, IdleIsOp DEF OpSound, EnginePhases
<1> QED BY <1>1, <1>2 DEF Inv, StoreSound

(* create_note: the id was in use nowhere, so no operation holds it. *)
LEMMA CreateStep ==
  ASSUME Inv, NEW p \in Locals, NEW n \in Ids, Create(p, n)
  PROVE  Inv'
<1> DEFINE o == [Idle EXCEPT !.pc = Then("index"), !.id = n, !.doc = {0}]
<1>1. p \in Procs /\ o \in Op /\ o.pc \in {"idle", "index"} /\ o.id = n /\ Become(p, o)
  <2>1. o.pc \in {"idle", "index"}
    BY DEF Idle, Then
  <2>2. o \in Op
    BY <2>1, IdleIsOp, NewNoteIsRow DEF Op, Phases
  <2>3. o.id = n
    BY DEF Idle
  <2> QED BY <2>1, <2>2, <2>3 DEF Create, Procs
<1>2. op' \in [Procs -> Op]
  BY <1>1, BecomeType DEF Inv, TypeOK
<1>3. TypeOK'
  BY <1>2, NewNoteIsRow DEF Create, Inv, TypeOK, indexVars
<1>4. MintedFirst' /\ PurgedNeverStored' /\ TombstonesApplied'
  BY DEF Create, Inv, TypeOK, StoreSound, MintedFirst, PurgedNeverStored, TombstonesApplied, Stored
<1>5. \A q \in Engines : op[q].pc \in {"check", "put"} => op[q].id # n
  BY DEF Create, Inv, StoreSound, OpSound, Procs
<1>6. Stored \cup purged \subseteq Stored' \cup purged'
  BY DEF Create, Inv, TypeOK, Stored
<1>7. \A q \in Engines \ {p} :
        /\ op[q].pc \in {"check", "put"} /\ op[q].base = {} => row'[op[q].id] = {}
        /\ op[q].pc = "put" /\ op[q].base = {} => op[q].id \notin purged'
  BY <1>5 DEF Create, Inv, TypeOK, StoreSound, OpSound, Procs
<1> QED BY <1>1, <1>3, <1>4, <1>6, <1>7, WriteStep DEF Create

(* bulk: the same of every note it inserts. *)
LEMMA ImportStep ==
  ASSUME Inv, NEW p \in Locals, NEW new \in SUBSET Ids, Import(p, new)
  PROVE  Inv'
<1> DEFINE o == [Idle EXCEPT !.pc = Then("rebuild")]
<1>1. p \in Procs /\ o \in Op /\ o.pc \in {"idle", "rebuild"} /\ Become(p, o)
  <2>1. o.pc \in {"idle", "rebuild"}
    BY DEF Idle, Then
  <2>2. o \in Op
    BY <2>1, IdleIsOp DEF Op, Phases
  <2> QED BY <2>1, <2>2 DEF Import, Procs
<1>2. op' \in [Procs -> Op]
  BY <1>1, BecomeType DEF Inv, TypeOK
<1>3. TypeOK'
  BY <1>2, NewNoteIsRow DEF Import, Inv, TypeOK, indexVars
<1>4. MintedFirst' /\ PurgedNeverStored' /\ TombstonesApplied'
  BY DEF Import, Inv, TypeOK, StoreSound, MintedFirst, PurgedNeverStored, TombstonesApplied, Stored
<1>5. \A q \in Engines : op[q].pc \in {"check", "put"} => op[q].id \notin new
  BY DEF Import, Inv, StoreSound, OpSound, Procs
<1>6. Stored \cup purged \subseteq Stored' \cup purged'
  BY DEF Import, Inv, TypeOK, Stored
<1>7. \A q \in Engines \ {p} :
        /\ op[q].pc \in {"check", "put"} /\ op[q].base = {} => row'[op[q].id] = {}
        /\ op[q].pc = "put" /\ op[q].base = {} => op[q].id \notin purged'
  BY <1>5 DEF Import, Inv, TypeOK, StoreSound, OpSound, Procs
<1> QED BY <1>1, <1>3, <1>4, <1>6, <1>7, WriteStep DEF Import

(* persist: the row it replaces is there, so nobody may be inserting it. *)
LEMMA PersistStep ==
  ASSUME Inv, NEW p \in Locals, Persist(p)
  PROVE  Inv'
<1> DEFINE n == op[p].id
           new == op[p].base \cup {Len(hist) + 1}
           o == [Idle EXCEPT !.pc = Then("index"), !.id = n, !.doc = new]
<1>1. CASE ~RowUnchanged(p)
  BY <1>1, IdleIsOp, SilentStep DEF Persist, Inv, TypeOK, Procs, indexVars, dbVars, EnginePhases
<1>2. CASE RowUnchanged(p)
  <2>1. /\ p \in Procs /\ op[p] \in Op /\ n \in Ids
        /\ row[n] = op[p].base /\ 0 \in row[n]
    BY <1>2 DEF Persist, Inv, TypeOK, StoreSound, OpSound, Procs, RowUnchanged
  <2>2. Len(hist) \in Nat /\ Len(hist) + 1 \in Changes
    BY <1>2, StoreAssumption DEF Persist, Room, Changes, Inv, TypeOK, RowUnchanged
  <2>3. new \in Rows
    BY <2>1, <2>2 DEF Op, Rows, Docs
  <2>4. /\ row' = [row EXCEPT ![n] = new]
        /\ Become(p, o)
        /\ UNCHANGED <<purged, tomb, indexVars, meshVars>>
    BY <1>2 DEF Persist
  <2>5. o \in Op /\ o.pc \in {"idle", "index"} /\ o.id = n
    <3>1. o.pc \in {"idle", "index"} /\ o.id = n
      BY DEF Idle, Then
    <3> QED BY <3>1, <2>1, <2>3, NewNoteIsRow, IdleIsOp DEF Op, Phases
  <2>6. hist' \in Seq(Change) /\ Len(hist') <= MaxChange
    <3>1. PICK keep \in SUBSET Body(op[p].doc) :
            hist' = Append(hist, [op |-> Effect(op[p].kind, op[p].base),
                                  erases |-> TakenOut(op[p], keep)])
      BY <1>2 DEF Persist
    <3>2. Effect(op[p].kind, op[p].base) \in Kinds
      BY <2>1 DEF Effect, Kinds, Op
    <3>3. TakenOut(op[p], keep) \in Docs
      BY <2>1 DEF TakenOut, Body, Op, Docs
    <3>4. Room
      BY <1>2 DEF Persist
    <3> QED BY <3>1, <3>2, <3>3, <3>4, StoreAssumption DEF Change, Room, Inv, TypeOK
  <2>7. TypeOK'
    <3>1. op' \in [Procs -> Op]
      BY <2>1, <2>4, <2>5, BecomeType DEF Inv, TypeOK
    <3> QED BY <2>1, <2>3, <2>4, <2>6, <3>1 DEF Inv, TypeOK, indexVars, meshVars
  <2>8. MintedFirst' /\ PurgedNeverStored' /\ TombstonesApplied'
    BY <2>1, <2>4 DEF Inv, TypeOK, StoreSound, MintedFirst, PurgedNeverStored,
                      TombstonesApplied, Stored, meshVars
  <2>9. Stored \cup purged \subseteq Stored' \cup purged'
    BY <2>1, <2>4 DEF Inv, TypeOK, Stored
  <2>10. ASSUME NEW q \in Engines \ {p}
         PROVE  /\ op[q].pc \in {"check", "put"} /\ op[q].base = {} => row'[op[q].id] = {}
                /\ op[q].pc = "put" /\ op[q].base = {} => op[q].id \notin purged'
    BY <2>1, <2>4 DEF Inv, TypeOK, StoreSound, OpSound, Procs
  <2> QED BY <2>1, <2>4, <2>5, <2>7, <2>8, <2>9, <2>10, WriteStep DEF meshVars
<1> QED BY <1>1, <1>2

(* The purges, ours and a peer's.  Every id that goes was stored or purged *)
(* before, so none is one the engine is inserting.                         *)
LEMMA PurgeRowsStep ==
  ASSUME Inv, NEW p \in Procs, NEW gone \in SUBSET Ids, PurgeRows(p, gone),
         gone \subseteq minted, op[p].tomb \subseteq purged \cup gone,
         p \in Engines \/ gone \subseteq Stored \cup purged
  PROVE  Inv'
<1> DEFINE o == [Idle EXCEPT !.pc = Then("unindex"), !.ids = gone]
<1>1. o \in Op /\ o.pc \in {"idle", "unindex"} /\ Become(p, o)
  <2>1. o.pc \in {"idle", "unindex"}
    BY DEF Idle, Then
  <2> QED BY <2>1, IdleIsOp DEF Op, Phases, PurgeRows
<1>2. op' \in [Procs -> Op]
  BY <1>1, BecomeType DEF Inv, TypeOK
<1>3. TypeOK'
  BY <1>2, NewNoteIsRow DEF PurgeRows, Inv, TypeOK, Op, indexVars, meshVars
<1>4. MintedFirst' /\ PurgedNeverStored' /\ TombstonesApplied'
  BY DEF PurgeRows, Inv, TypeOK, StoreSound, MintedFirst, PurgedNeverStored,
         TombstonesApplied, Stored, meshVars
<1>5. Stored \cup purged \subseteq Stored' \cup purged'
  BY DEF PurgeRows, Inv, TypeOK, Stored
<1>6. ASSUME NEW q \in Engines \ {p}
      PROVE  /\ op[q].pc \in {"check", "put"} /\ op[q].base = {} => row'[op[q].id] = {}
             /\ op[q].pc = "put" /\ op[q].base = {} => op[q].id \notin purged'
  <2>1. gone \subseteq Stored \cup purged
    BY StoreAssumption
  <2> QED BY <2>1 DEF PurgeRows, Inv, TypeOK, StoreSound, OpSound, Procs, Stored
<1> QED BY <1>1, <1>3, <1>4, <1>5, <1>6, WriteStep DEF PurgeRows, meshVars

LEMMA PurgeStep ==
  ASSUME Inv, NEW p \in Locals, Purge(p)
  PROVE  Inv'
<1>1. op[p] \in Op /\ OpSound(op[p]) /\ op[p].pc = "purge" /\ p \in Procs
  BY DEF Purge, Inv, TypeOK, StoreSound, Procs
<1>2. /\ op[p].ids \in SUBSET Ids
      /\ op[p].ids \subseteq Stored \cup purged
      /\ op[p].tomb \subseteq purged \cup op[p].ids
  BY <1>1 DEF OpSound, Op
<1>3. op[p].ids \subseteq minted
  BY <1>2 DEF Inv, StoreSound, MintedFirst
<1> QED BY <1>1, <1>2, <1>3, PurgeRowsStep DEF Purge

LEMMA AdoptStep ==
  ASSUME Inv, NEW e \in Engines, Adopt(e)
  PROVE  Inv'
<1>1. op[e] \in Op /\ OpSound(op[e]) /\ op[e].pc = "adopt" /\ e \in Procs
  BY DEF Adopt, Inv, TypeOK, StoreSound, Procs
<1>2. op[e].tomb \in SUBSET Ids /\ op[e].tomb \subseteq minted
  BY <1>1 DEF OpSound, Op
<1> QED BY <1>1, <1>2, PurgeRowsStep DEF Adopt

(* put_doc: an update replaces a row that is no larger than the merge, an  *)
(* insert finds the id still without a row and not purged.                 *)
LEMMA PutWriteStep ==
  ASSUME Inv, NEW e \in Engines, PutWrite(e)
  PROVE  Inv'
<1> DEFINE n == op[e].id
<1>1. /\ e \in Procs /\ op[e] \in Op /\ OpSound(op[e]) /\ op[e].pc = "put"
  BY DEF PutWrite, Inv, TypeOK, StoreSound, Procs
<1>2. CASE ~RowUnchanged(e)
  <2> DEFINE o == [op[e] EXCEPT !.pc = "received"]
  <2>1. o \in Op /\ OpSound(o) /\ Become(e, o) /\ UNCHANGED <<dbVars, meshVars, indexVars>>
    BY <1>1, <1>2 DEF PutWrite, Op, Phases, OpSound, dbVars, indexVars
  <2> QED BY <1>1, <2>1, SilentStep, StoreAssumption DEF Inv, TypeOK, indexVars
<1>3. CASE RowUnchanged(e)
  <2>1. /\ n \in Ids /\ n \in minted /\ n \notin purged
        /\ op[e].doc \in Rows /\ 0 \in op[e].doc
    BY <1>1, <1>3 DEF OpSound, Op, Rows, RowUnchanged, Inv, TypeOK, StoreSound, PurgedNeverStored
  <2>2. /\ row' = [row EXCEPT ![n] = op[e].doc]
        /\ Become(e, Idle)
        /\ UNCHANGED <<hist, purged, tomb, indexed, meshVars>>
        /\ deferred' \in [Ids -> {"none", "add", "remove"}]
    BY <1>3, <2>1 DEF PutWrite, Inv, TypeOK
  <2>3. TypeOK'
    <3>1. op' \in [Procs -> Op]
      BY <1>1, <2>2, BecomeType, IdleIsOp DEF Inv, TypeOK
    <3> QED BY <2>1, <2>2, <3>1 DEF Inv, TypeOK, meshVars
  <2>4. MintedFirst' /\ PurgedNeverStored' /\ TombstonesApplied'
    BY <2>1, <2>2 DEF Inv, TypeOK, StoreSound, MintedFirst, PurgedNeverStored,
                      TombstonesApplied, Stored, meshVars
  <2>5. Stored \cup purged \subseteq Stored' \cup purged'
    BY <2>1, <2>2 DEF Inv, TypeOK, Stored
  <2>6. Engines \ {e} = {}
    BY StoreAssumption
  <2> QED BY <1>1, <2>2, <2>3, <2>4, <2>5, <2>6, IdleIsOp, WriteStep DEF meshVars
<1> QED BY <1>2, <1>3

LEMMA RemoteChangeStep ==
  ASSUME Inv, NEW n \in Ids, NEW kind \in {"edit", "trash", "restore"}, RemoteChange(n, kind)
  PROVE  Inv'
<1>1. hist' \in Seq(Change) /\ Len(hist') <= MaxChange /\ remote' \in [Ids -> Docs]
  <2>1. CASE n \notin minted /\ remote' = [remote EXCEPT ![n] = {0}] /\ hist' = hist
    BY <2>1, NewNoteIsRow DEF Inv, TypeOK
  <2>2. CASE /\ Room
             /\ hist' = Append(hist, [op |-> kind, erases |-> {}])
             /\ remote' = [remote EXCEPT ![n] = @ \cup {0, Len(hist) + 1}]
    <3>1. [op |-> kind, erases |-> {}] \in Change
      BY DEF Change, Kinds, Docs
    <3>2. {0, Len(hist) + 1} \in Docs
      BY <2>2, StoreAssumption DEF Docs, Changes, Room, Inv, TypeOK
    <3> QED BY <2>2, <3>1, <3>2, StoreAssumption DEF Room, Docs, Inv, TypeOK
  <2> QED BY <2>1, <2>2 DEF RemoteChange
<1>2. TypeOK'
  BY <1>1 DEF RemoteChange, Inv, TypeOK, indexVars
<1>3. MintedFirst' /\ PurgedNeverStored' /\ TombstonesApplied'
  BY DEF RemoteChange, Inv, TypeOK, StoreSound, MintedFirst, PurgedNeverStored,
         TombstonesApplied, Stored
<1>4. ASSUME NEW p \in Procs
      PROVE  OpSound(op[p])'
  BY DEF RemoteChange, Inv, StoreSound, OpSound, Stored
<1> QED BY <1>2, <1>3, <1>4 DEF RemoteChange, Inv, StoreSound

-----------------------------------------------------------------------------
(* The steps between the writes. *)

(* An operation turned idle relies on nothing, whatever the index did. *)
LEMMA ToIdle ==
  ASSUME Inv, NEW p \in Procs, Become(p, Idle), UNCHANGED <<dbVars, meshVars>>,
         indexed' \in SUBSET Ids,
         deferred' \in [Ids -> {"none", "add", "remove"}]
  PROVE  Inv'
  BY IdleIsOp, SilentStep DEF EnginePhases

LEMMA ReadStep ==
  ASSUME Inv, NEW p \in Locals,
         \/ \E n \in Ids, kind \in {"edit", "todo"} : ReadNote(p, n, kind)
         \/ LoadForBody(p)
         \/ \E n \in Ids, kind \in {"meta", "trash", "restore"} : LoadForFlag(p, n, kind)
         \/ RebuildRead(p)
  PROVE  Inv'
<1>1. ASSUME NEW n \in Ids, NEW kind \in {"edit", "todo"}, ReadNote(p, n, kind)
      PROVE  Inv'
  <2> DEFINE o == [Idle EXCEPT !.pc = "composed", !.kind = kind, !.id = n, !.doc = row[n]]
  <2>1. row[n] \in Docs
    BY NewNoteIsRow DEF Inv, TypeOK
  <2>2. o \in Op /\ OpSound(o) /\ o.pc = "composed"
    BY <1>1, <2>1, IdleIsOp DEF Op, Phases, Kinds, OpSound
  <2> QED BY <1>1, <2>2, SilentStep DEF ReadNote, Procs, EnginePhases, Inv, TypeOK, indexVars
<1>2. ASSUME LoadForBody(p)
      PROVE  Inv'
  <2>1. CASE Become(p, Idle)
    BY <1>2, <2>1, ToIdle DEF LoadForBody, Procs, Inv, TypeOK, indexVars
  <2>2. CASE /\ op[p].id \in Stored /\ VersionMatches(p)
             /\ Become(p, [op[p] EXCEPT !.pc = "commit", !.base = row[op[p].id]])
    <3> DEFINE o == [op[p] EXCEPT !.pc = "commit", !.base = row[op[p].id]]
    <3>1. op[p] \in Op /\ op[p].id \in Ids /\ 0 \in row[op[p].id] /\ row[op[p].id] \in Docs
      BY <2>2, NewNoteIsRow DEF Inv, TypeOK, Procs, Stored, Rows
    <3>2. o \in Op /\ OpSound(o) /\ o.pc = "commit"
      BY <2>2, <3>1 DEF Op, Phases, OpSound, VersionMatches
    <3> QED BY <1>2, <2>2, <3>2, SilentStep DEF LoadForBody, Procs, EnginePhases, Inv, TypeOK, indexVars
  <2> QED BY <1>2, <2>1, <2>2 DEF LoadForBody
<1>3. ASSUME NEW n \in Ids, NEW kind \in {"meta", "trash", "restore"}, LoadForFlag(p, n, kind)
      PROVE  Inv'
  <2> DEFINE o == [Idle EXCEPT !.pc = "commit", !.kind = kind, !.id = n,
                               !.doc = row[n], !.base = row[n]]
  <2>1. row[n] \in Docs /\ 0 \in row[n]
    BY <1>3, NewNoteIsRow DEF Inv, TypeOK, LoadForFlag, Stored, Rows
  <2>2. o \in Op /\ OpSound(o) /\ o.pc = "commit"
    BY <2>1, IdleIsOp DEF Op, Phases, Kinds, OpSound
  <2> QED BY <1>3, <2>2, SilentStep DEF LoadForFlag, Procs, EnginePhases, Inv, TypeOK, indexVars
<1>4. ASSUME RebuildRead(p)
      PROVE  Inv'
  <2> DEFINE o == [op[p] EXCEPT !.pc = "reindex", !.ids = Live]
  <2>1. o \in Op /\ OpSound(o) /\ o.pc = "reindex"
    BY DEF Op, Phases, OpSound, Inv, TypeOK, Procs, Live, Stored
  <2> QED BY <1>4, <2>1, SilentStep DEF RebuildRead, Procs, EnginePhases, Inv, TypeOK, indexVars
<1> QED BY <1>1, <1>2, <1>3, <1>4

(* The ids a purge starts from are stored, and stay stored or purged. *)
LEMMA SelectStep ==
  ASSUME Inv, NEW p \in Locals,
         \/ Select(p, Stored \ Live, "trash")
         \/ \E tagged \in SUBSET Stored : Select(p, tagged, "meta")
         \/ ReadTombstones(p)
  PROVE  Inv'
<1>1. ASSUME NEW chosen, NEW kind \in {"trash", "meta"}, Select(p, chosen, kind)
      PROVE  Inv'
  <2> DEFINE o == [Idle EXCEPT !.pc = "selected", !.kind = kind, !.ids = chosen]
  <2>1. chosen \subseteq Stored /\ chosen \in SUBSET Ids
    BY <1>1 DEF Select, Stored
  <2>2. o \in Op /\ OpSound(o) /\ o.pc = "selected"
    BY <2>1, IdleIsOp DEF Op, Phases, Kinds, OpSound
  <2> QED BY <1>1, <2>2, SilentStep DEF Select, Procs, EnginePhases, Inv, TypeOK, indexVars
<1>2. ASSUME ReadTombstones(p)
      PROVE  Inv'
  <2> DEFINE o == [op[p] EXCEPT !.pc = "purge", !.tomb = tomb \cup op[p].ids]
  <2>1. op[p] \in Op /\ OpSound(op[p]) /\ op[p].pc = "selected" /\ tomb \in SUBSET Ids
        /\ tomb \subseteq purged
    BY <1>2 DEF ReadTombstones, Inv, TypeOK, StoreSound, TombstonesApplied, Procs
  <2>2. o \in Op /\ OpSound(o) /\ o.pc = "purge"
    BY <2>1 DEF Op, Phases, OpSound
  <2> QED BY <1>2, <2>2, SilentStep DEF ReadTombstones, Procs, EnginePhases, Inv, TypeOK, indexVars
<1> QED BY <1>1, <1>2

LEMMA IndexStep ==
  ASSUME Inv, NEW p \in Procs, IndexNow(p) \/ RebuildWrite(p) \/ Unindex(p) \/ Stop(p)
  PROVE  Inv'
<1>1. /\ Become(p, Idle)
      /\ UNCHANGED <<dbVars, meshVars>>
  BY DEF IndexNow, RebuildWrite, Unindex, Stop
<1>2. deferred' \in [Ids -> {"none", "add", "remove"}]
  BY DEF IndexNow, RebuildWrite, Unindex, Stop, indexVars, Inv, TypeOK
<1>3. op[p] \in Op /\ indexed \in SUBSET Ids
  BY DEF Inv, TypeOK
<1>4. indexed' \in SUBSET Ids
  <2>1. CASE IndexNow(p)
    BY <1>3, <2>1 DEF IndexNow, Inv, StoreSound, OpSound
  <2>2. CASE RebuildWrite(p) \/ Unindex(p) \/ Stop(p)
    BY <1>3, <2>2 DEF RebuildWrite, Unindex, Stop, Flushed, indexVars, Op
  <2> QED BY <2>1, <2>2
<1> QED BY <1>1, <1>2, <1>4, ToIdle

LEMMA FlushStep ==
  ASSUME Inv, NEW e \in Engines, Flush(e)
  PROVE  Inv'
<1>1. TypeOK'
  BY DEF Flush, Flushed, Inv, TypeOK, dbVars, meshVars
<1>2. StoreSound'
  BY DEF Flush, Inv, StoreSound, MintedFirst, PurgedNeverStored, TombstonesApplied,
         OpSound, Stored, dbVars, meshVars
<1> QED BY <1>1, <1>2 DEF Inv

(* The engine's steps up to its insert: what it merged stays above the row *)
(* it compares with, and put_doc's check is what an insert relies on.      *)
LEMMA ReceiveStep ==
  ASSUME Inv, NEW e \in Engines,
         \/ \E n \in Ids : \E sent \in SUBSET remote[n] : ReceiveNote(e, n, sent)
         \/ \E theirs \in SUBSET Ids : ReceiveTombstones(e, theirs)
         \/ PutMerge(e)
         \/ PutCheck(e)
  PROVE  Inv'
<1>1. e \in Procs /\ e \notin Locals /\ op[e] \in Op /\ OpSound(op[e])
  BY StoreAssumption DEF Procs, Inv, TypeOK, StoreSound
<1>2. ASSUME NEW n \in Ids, NEW sent \in SUBSET remote[n], ReceiveNote(e, n, sent)
      PROVE  Inv'
  <2> DEFINE o == [Idle EXCEPT !.pc = "received", !.id = n, !.doc = row[n] \cup sent]
  <2>1. row[n] \cup sent \in Docs
    BY NewNoteIsRow DEF Inv, TypeOK, Docs
  <2>2. n \in minted /\ 0 \in row[n] \cup sent
    BY <1>2 DEF ReceiveNote, Hydrates, Inv, TypeOK, StoreSound, MintedFirst, Stored
  <2>3. o \in Op /\ OpSound(o)
    BY <2>1, <2>2, IdleIsOp DEF Op, Phases, OpSound
  <2> QED BY <1>1, <1>2, <2>3, SilentStep DEF ReceiveNote, Inv, TypeOK, indexVars
<1>3. ASSUME NEW theirs \in SUBSET Ids, ReceiveTombstones(e, theirs)
      PROVE  Inv'
  <2> DEFINE o == [Idle EXCEPT !.pc = "adopt", !.tomb = tomb \cup theirs]
  <2>1. tomb \cup theirs \in SUBSET Ids /\ tomb \cup theirs \subseteq minted
    BY <1>3 DEF ReceiveTombstones, PeerHolds, Hydrates, Inv, TypeOK, StoreSound,
                MintedFirst, TombstonesApplied
  <2>2. o \in Op /\ OpSound(o)
    BY <2>1, IdleIsOp DEF Op, Phases, OpSound
  <2> QED BY <1>1, <1>3, <2>2, SilentStep DEF ReceiveTombstones, Inv, TypeOK, indexVars
<1>4. ASSUME PutMerge(e)
      PROVE  Inv'
  <2> DEFINE o == [op[e] EXCEPT !.pc = "check", !.base = row[op[e].id], !.doc = Merged(e)]
  <2>1. /\ op[e].id \in Ids /\ op[e].id \in minted
        /\ row[op[e].id] \in Docs /\ Merged(e) \in Docs
        /\ 0 \in Merged(e) /\ row[op[e].id] \subseteq Merged(e)
    BY <1>1, <1>4, NewNoteIsRow DEF PutMerge, Merged, OpSound, Op, Docs, Inv, TypeOK
  <2>2. o \in Op /\ OpSound(o)
    BY <1>1, <2>1 DEF Op, Phases, OpSound
  <2> QED BY <1>1, <1>4, <2>2, SilentStep DEF PutMerge, Inv, TypeOK, indexVars
<1>5. ASSUME PutCheck(e)
      PROVE  Inv'
  <2> DEFINE o == [op[e] EXCEPT !.pc = "put"]
  <2>1. CASE MayStore(e)
    <3>1. op[e].pc = "check" /\ op[e].id \notin purged
      BY <1>5, <2>1 DEF PutCheck, MayStore
    <3>2. o \in Op /\ OpSound(o)
      BY <1>1, <3>1 DEF Op, Phases, OpSound
    <3> QED BY <1>1, <1>5, <2>1, <3>2, SilentStep DEF PutCheck, Inv, TypeOK, indexVars
  <2>2. CASE ~MayStore(e)
    BY <1>1, <1>5, <2>2, ToIdle DEF PutCheck, Inv, TypeOK, indexVars
  <2> QED BY <2>1, <2>2
<1> QED BY <1>2, <1>3, <1>4, <1>5

-----------------------------------------------------------------------------
(* The theorems. *)

LEMMA InitInv == Init => Inv
<1> SUFFICES ASSUME Init PROVE Inv
  OBVIOUS
<1>1. TypeOK
  BY IdleIsOp, NewNoteIsRow, StoreAssumption DEF Init, TypeOK, Docs
<1>2. StoreSound
  BY IdleIsOp DEF Init, StoreSound, MintedFirst, PurgedNeverStored, TombstonesApplied,
                  Stored, EnginePhases
<1> QED BY <1>1, <1>2 DEF Inv

LEMMA NextInv == Inv /\ [Next]_vars => Inv'
<1> SUFFICES ASSUME Inv, [Next]_vars PROVE Inv'
  OBVIOUS
<1>1. ASSUME NEW p \in Locals, LocalStep(p) PROVE Inv'
  <2>1. p \in Procs
    BY DEF Procs
  <2> QED BY <1>1, <2>1, CreateStep, ImportStep, ReadStep, PersistStep, SelectStep,
             PurgeStep, IndexStep DEF LocalStep
<1>2. ASSUME NEW e \in Engines, EngineStep(e) PROVE Inv'
  BY <1>2, ReceiveStep, PutWriteStep, AdoptStep DEF EngineStep
<1>3. CASE UNCHANGED vars
  BY <1>3 DEF Inv, TypeOK, StoreSound, MintedFirst, PurgedNeverStored, TombstonesApplied,
              OpSound, Stored, vars, dbVars, indexVars, meshVars
<1> QED BY <1>1, <1>2, <1>3, FlushStep, ReceiveStep, IndexStep, RemoteChangeStep DEF Next

(* Every variable keeps its type, rows included: a row that is there holds *)
(* the change that created its note (hydrate can read it).                 *)
THEOREM TypeCorrect == Spec => []TypeOK
<1>1. Inv => TypeOK
  BY DEF Inv
<1> QED BY <1>1, InitInv, NextInv, PTL DEF Spec

(* However the steps of editors, purges and the engine interleave, every   *)
(* operation under way finds what its next step relies on.                 *)
THEOREM Soundness == Spec => []StoreSound
<1>1. Inv => StoreSound
  BY DEF Inv
<1> QED BY <1>1, InitInv, NextInv, PTL DEF Spec

(* put_doc, persist and the purges never leave a purged id with a row. *)
THEOREM PurgeIsFinal == Spec => []PurgedNeverStored
<1>1. StoreSound => PurgedNeverStored
  BY DEF StoreSound
<1> QED BY <1>1, Soundness, PTL

(* The tombstone document never lists an id that was not erased here. *)
THEOREM TombstonesAreApplied == Spec => []TombstonesApplied
<1>1. StoreSound => TombstonesApplied
  BY DEF StoreSound
<1> QED BY <1>1, Soundness, PTL

-----------------------------------------------------------------------------
(* NoteStore implements DocRegistry. *)

(* What a write of a history has to show to be a Gain. *)
LEMMA WriteIsGain ==
  ASSUME Inv, TypeOK', UNCHANGED purged,
         \A n \in Ids : row[n] \subseteq row'[n],
         \A n \in purged : row'[n] = row[n]
  PROVE  Reg!Gain
  BY NewNoteIsRow DEF Reg!Gain, Inv, TypeOK, Docs

LEMMA LocalRefines ==
  ASSUME Inv, Inv', NEW p \in Locals, LocalStep(p)
  PROVE  Reg!Gain \/ (\E gone \in SUBSET Ids : Reg!Erase(gone)) \/ UNCHANGED <<row, purged>>
<1>1. /\ p \in Procs /\ TypeOK' /\ \A n \in purged : n \in minted /\ row[n] = {}
  BY DEF Inv, TypeOK, StoreSound, MintedFirst, PurgedNeverStored, Procs
<1>2. ASSUME NEW n \in Ids, Create(p, n) PROVE Reg!Gain
  BY <1>1, <1>2, WriteIsGain DEF Create, Inv, TypeOK, StoreSound, MintedFirst, Stored
<1>3. ASSUME NEW new \in SUBSET Ids, Import(p, new) PROVE Reg!Gain
  BY <1>1, <1>3, WriteIsGain DEF Import, Inv, TypeOK, StoreSound, MintedFirst, Stored
<1>4. ASSUME Persist(p), row' # row PROVE Reg!Gain
  <2> DEFINE n == op[p].id
  <2>1. /\ n \in Ids /\ 0 \in op[p].base /\ RowUnchanged(p)
    BY <1>1, <1>4 DEF Persist, Inv, TypeOK, StoreSound, OpSound
  <2>2. n \notin purged
    BY <1>1, <2>1 DEF RowUnchanged
  <2>3. row' = [row EXCEPT ![n] = row[n] \cup {Len(hist) + 1}] /\ UNCHANGED purged
    BY <1>4, <2>1 DEF Persist, RowUnchanged
  <2> QED BY <1>1, <2>2, <2>3, WriteIsGain DEF Inv, TypeOK
<1>5. ASSUME Purge(p) PROVE \E gone \in SUBSET Ids : Reg!Erase(gone)
  <2>1. op[p].ids \in SUBSET Ids
    BY <1>1 DEF Inv, TypeOK, Op
  <2>2. Reg!Erase(op[p].ids)
    BY <1>5 DEF Purge, PurgeRows, Reg!Erase
  <2> QED BY <2>1, <2>2
<1>6. CASE UNCHANGED <<row, purged>>
  BY <1>6
<1> QED BY <1>2, <1>3, <1>4, <1>5, <1>6
        DEF LocalStep, ReadNote, LoadForBody, LoadForFlag, Persist, Select,
            ReadTombstones, IndexNow, RebuildRead, RebuildWrite, dbVars

LEMMA EngineRefines ==
  ASSUME Inv, Inv', NEW e \in Engines, EngineStep(e)
  PROVE  Reg!Gain \/ (\E gone \in SUBSET Ids : Reg!Erase(gone)) \/ UNCHANGED <<row, purged>>
<1>1. /\ e \in Procs /\ TypeOK' /\ op[e] \in Op /\ OpSound(op[e])
      /\ \A n \in purged : row[n] = {}
  BY DEF Inv, TypeOK, StoreSound, PurgedNeverStored, Procs
<1>2. ASSUME PutWrite(e), row' # row PROVE Reg!Gain
  <2> DEFINE n == op[e].id
  <2>1. n \in Ids /\ row[n] \subseteq op[e].doc /\ n \notin purged
    BY <1>1, <1>2 DEF PutWrite, OpSound, RowUnchanged
  <2>2. row' = [row EXCEPT ![n] = op[e].doc] /\ UNCHANGED purged
    BY <1>2 DEF PutWrite
  <2> QED BY <1>1, <2>1, <2>2, WriteIsGain DEF Inv, TypeOK
<1>3. ASSUME Adopt(e) PROVE \E gone \in SUBSET Ids : Reg!Erase(gone)
  <2>1. op[e].tomb \in SUBSET Ids
    BY <1>1 DEF Op
  <2>2. Reg!Erase(op[e].tomb)
    BY <1>3 DEF Adopt, PurgeRows, Reg!Erase
  <2> QED BY <2>1, <2>2
<1> QED BY <1>2, <1>3 DEF EngineStep, PutMerge, PutCheck, PutWrite, dbVars

LEMMA NextRefines == Inv /\ Inv' /\ [Next]_vars => [Reg!RegNext]_(Reg!regVars)
<1> SUFFICES ASSUME Inv, Inv', [Next]_vars
             PROVE  Reg!Gain \/ (\E gone \in SUBSET Ids : Reg!Erase(gone))
                      \/ UNCHANGED <<row, purged>>
  BY DEF Reg!RegNext, Reg!regVars
<1>1. CASE (\E p \in Locals : LocalStep(p)) \/ (\E e \in Engines : EngineStep(e))
  BY <1>1, LocalRefines, EngineRefines
<1>2. CASE UNCHANGED vars
  BY <1>2 DEF vars, dbVars
<1> QED BY <1>1, <1>2 DEF Next, Flush, ReceiveNote, ReceiveTombstones, Unindex, Stop,
                          RemoteChange, dbVars

(* Seen from its rows and its purges a data directory is a DocRegistry: no *)
(* interleaving of CLI, app and sync engine loses a change that was stored *)
(* (persist's and put_doc's compare-and-swap), and no purge is undone.     *)
THEOREM ImplementsRegistry == Spec => Registry
<1>1. Init => Reg!RegInit
  BY DEF Init, Reg!RegInit
<1> QED BY <1>1, InitInv, NextInv, NextRefines, PTL DEF Spec, Registry, Reg!RegSpec

-----------------------------------------------------------------------------
(* Optimistic concurrency. *)

(* Only Persist and RemoteChange make a change, and a remote one leaves    *)
(* every local operation where it was.                                     *)
LEMMA OnlyPersistWrites ==
  ASSUME Inv, Next, NEW p \in Locals, Len(hist') > Len(hist), op'[p] # op[p]
  PROVE  Persist(p)
<1>1. Len(hist) \in Nat /\ p \in Procs
  BY DEF Inv, TypeOK, Procs
<1>2. hist' # hist
  BY <1>1
<1>3. PICK q \in Locals : Persist(q)
  BY <1>2 DEF Next, LocalStep, Create, Import, ReadNote, LoadForBody, LoadForFlag, Select,
              ReadTombstones, Purge, PurgeRows, IndexNow, RebuildRead, RebuildWrite,
              EngineStep, PutMerge, PutCheck, PutWrite, Adopt, Flush, ReceiveNote,
              ReceiveTombstones, Unindex, Stop, RemoteChange, dbVars
<1>4. q # p => op'[p] = op[p]
  BY <1>1, <1>3 DEF Persist, Become, Inv, TypeOK, Procs
<1> QED BY <1>3, <1>4

(* A body write that passes the version its author read takes out of the   *)
(* stored body only passages the author has seen: the row it replaces is   *)
(* the one the version named, up to the very statement that replaces it.   *)
THEOREM VersionedEditsKeepUnseen == Spec => EditKeepsUnseen
<1>1. ASSUME Inv, [Next]_vars PROVE [KeepsUnseen("edit")]_vars
  <2> SUFFICES ASSUME Next, NEW p \in Locals, WritesBody(p, "edit")
               PROVE  RemovedBy(p) \subseteq op[p].doc
    BY <1>1 DEF KeepsUnseen
  <2>1. Persist(p)
    BY <1>1, OnlyPersistWrites DEF WritesBody
  <2>2. Len(hist') > Len(hist) => RowUnchanged(p)
    BY <2>1, <1>1 DEF Persist, Inv, TypeOK
  <2>3. row[op[p].id] = op[p].doc
    BY <1>1, <2>2 DEF WritesBody, RowUnchanged, Inv, StoreSound, OpSound, Procs
  <2> QED BY <2>3 DEF RemovedBy, Body
<1> QED BY <1>1, InitInv, NextInv, PTL DEF Spec, EditKeepsUnseen

-----------------------------------------------------------------------------
(* The search index of a data directory whose operations do not overlap.    *)

(* IndexSound says what the committed index and the engine's deferred        *)
(* writes lack of the live notes at each step of whoever is at work.         *)

\* Nobody holds a change that was not made: an append leaves Trashed alone.
Numbered ==
  /\ \A n \in Ids : row[n] \subseteq 0 .. Len(hist) /\ remote[n] \subseteq 0 .. Len(hist)
  /\ \A p \in Procs : op[p].doc \subseteq 0 .. Len(hist) /\ op[p].base \subseteq 0 .. Len(hist)

IndexPhases == {"index", "rebuild", "reindex", "unindex"}

\* What operation o still has to do to the index.
Owes(o) ==
  /\ o.pc = "index" => o.id \in Stored /\ o.doc = row[o.id] /\ indexed \ {o.id} = Live \ {o.id}
  /\ o.pc = "reindex" => o.ids = Live
  /\ o.pc = "unindex" => Flushed \ o.ids = Live

IndexSound ==
  /\ WriterOpen => Engines # {}
  /\ \A e \in Engines : op[e].pc \in IndexPhases => op[e].pc = "unindex"
  /\ \A p \in Procs : Owes(op[p])
  /\ (\A p \in Procs : op[p].pc \notin IndexPhases) => Flushed = Live

SearchInv == Numbered /\ IndexSound

-----------------------------------------------------------------------------
(* The history. *)

\* A step leaves the history alone or appends a change to it.
Grows == hist' = hist \/ \E c \in Change : hist' = Append(hist, c)

LEMMA HistoryGrows ==
  ASSUME Inv, Grows
  PROVE  /\ Len(hist) \in Nat /\ Len(hist') \in Nat
         /\ 0 .. Len(hist) \subseteq 0 .. Len(hist')
         /\ \A x \in 1 .. Len(hist) : hist'[x] = hist[x]
<1>1. hist \in Seq(Change)
  BY DEF Inv, TypeOK
<1>2. CASE hist' = hist
  BY <1>1, <1>2
<1>3. ASSUME NEW c \in Change, hist' = Append(hist, c)
      PROVE  /\ Len(hist) \in Nat /\ Len(hist') = Len(hist) + 1
             /\ \A x \in 1 .. Len(hist) : hist'[x] = hist[x]
  BY <1>1, <1>3
<1>4. ASSUME NEW c \in Change, hist' = Append(hist, c)
      PROVE  Len(hist) \in Nat /\ Len(hist') \in Nat /\ 0 .. Len(hist) \subseteq 0 .. Len(hist')
  BY <1>3, <1>4
<1> QED BY <1>2, <1>3, <1>4 DEF Grows

\* What is in the trash stays there, whatever is appended.
LEMMA TrashedKept ==
  ASSUME Inv, Grows, NEW d, d \subseteq 0 .. Len(hist)
  PROVE  Trashed(d)' <=> Trashed(d)
<1>1. \A x \in d \ {0} : x \in 1 .. Len(hist) /\ hist'[x] = hist[x]
  BY HistoryGrows
<1> QED BY <1>1 DEF Trashed

LEMMA LiveSame ==
  ASSUME Inv, Numbered, Grows, row' = row
  PROVE  Live' = Live
<1>1. \A n \in Stored : Trashed(row[n])' <=> Trashed(row[n])
  <2>1. ASSUME NEW n \in Stored, NEW d, d = row[n] PROVE Trashed(d)' <=> Trashed(d)
    BY <2>1, TrashedKept DEF Numbered, Stored
  <2> QED BY <2>1 DEF Trashed
<1> QED BY <1>1 DEF Live, Stored

\* The other notes are live or not as they were.
LEMMA LiveOthers ==
  ASSUME Inv, Numbered, Grows, NEW S \in SUBSET Ids, \A n \in Ids \ S : row'[n] = row[n]
  PROVE  Live' \ S = Live \ S
<1>1. ASSUME NEW n \in Ids \ S PROVE n \in Live' <=> n \in Live
  <2>1. \A d : d = row[n] => (Trashed(d)' <=> Trashed(d))
    BY TrashedKept DEF Numbered
  <2>2. Trashed(row[n])' <=> Trashed(row[n])
    BY <2>1 DEF Trashed
  <2> QED BY <2>2 DEF Live, Stored
<1>2. Live \subseteq Ids /\ Live' \subseteq Ids
  BY DEF Live, Stored
<1> QED BY <1>1, <1>2

\* Numbered, of a step of p.
LEMMA NumberedStep ==
  ASSUME Inv, Numbered, Grows, NEW p \in Procs, NEW o \in Op, Become(p, o),
         o.doc \subseteq 0 .. Len(hist'), o.base \subseteq 0 .. Len(hist'),
         \A n \in Ids : row'[n] \subseteq row[n] \/ row'[n] \subseteq 0 .. Len(hist'),
         \A n \in Ids : remote'[n] = remote[n]
  PROVE  Numbered'
<1>1. 0 .. Len(hist) \subseteq 0 .. Len(hist')
  BY HistoryGrows
<1>2. ASSUME NEW q \in Procs
      PROVE  op'[q].doc \subseteq 0 .. Len(hist') /\ op'[q].base \subseteq 0 .. Len(hist')
  <2>1. CASE q # p
    BY <1>1, <2>1, BecomeType DEF Inv, TypeOK, Numbered
  <2>2. CASE q = p
    <3>1. op'[p] = o \/ op'[p] = Idle
      BY BecomeType DEF Inv, TypeOK
    <3> QED BY <2>2, <3>1 DEF Idle
  <2> QED BY <2>1, <2>2
<1>3. ASSUME NEW n \in Ids
      PROVE  row'[n] \subseteq 0 .. Len(hist') /\ remote'[n] \subseteq 0 .. Len(hist')
  BY <1>1 DEF Numbered
<1> QED BY <1>2, <1>3 DEF Numbered

-----------------------------------------------------------------------------
(* One at a time. *)

\* While a local process works nobody else does, and the engine's writer is
\* closed; while an engine works no local process does.
LEMMA Alone ==
  ASSUME Inv, IndexSound, OneAtATime, OneAtATime', NEW p \in Procs, NEW o \in Op, Become(p, o),
         op[p].pc # "idle" \/ op'[p].pc # "idle",
         p \in Locals => deferred' = deferred
  PROVE  /\ \A q \in Procs \ {p} : op[q].pc = "idle" /\ op'[q] = op[q]
         /\ p \in Locals => ~WriterOpen
<1>1. \A q \in Procs : q # p => op'[q] = op[q]
  BY BecomeType DEF Inv, TypeOK
<1>2. ASSUME NEW q \in Procs, q # p, op[q].pc # "idle" PROVE FALSE
  <2>1. q \in AtWork /\ q \in AtWork' /\ (p \in AtWork \/ p \in AtWork')
    BY <1>1, <1>2 DEF AtWork
  <2> QED BY <1>2, <2>1 DEF OneAtATime
<1>3. ASSUME p \in Locals, WriterOpen PROVE FALSE
  <2>1. PICK e \in Engines : e # p
    BY <1>3, StoreAssumption DEF IndexSound
  <2>2. WriterOpen'
    BY <1>3 DEF WriterOpen
  <2>3. e \in Procs /\ e \in AtWork /\ e \in AtWork' /\ (p \in AtWork \/ p \in AtWork')
    BY <1>3, <2>1, <2>2 DEF AtWork, Procs
  <2> QED BY <2>1, <2>3 DEF OneAtATime
<1> QED BY <1>1, <1>2, <1>3

\* With no writer open there is nothing deferred.
LEMMA Closed ==
  ASSUME Inv, ~WriterOpen PROVE Flushed = indexed
BY DEF Inv, TypeOK, WriterOpen, Flushed

\* A step of p between the writes: neither rows nor index change, nor what
\* anybody owes.
LEMMA QuietStep ==
  ASSUME Inv, SearchInv, NEW p \in Procs, NEW o \in Op, Become(p, o),
         UNCHANGED <<dbVars, indexVars, meshVars>>,
         o.doc \subseteq 0 .. Len(hist), o.base \subseteq 0 .. Len(hist),
         op[p].pc \notin IndexPhases, o.pc \notin IndexPhases
  PROVE  SearchInv'
<1>1. /\ hist' = hist /\ row' = row /\ remote' = remote
      /\ indexed' = indexed /\ deferred' = deferred
  BY DEF dbVars, indexVars, meshVars
<1>2. Numbered'
  BY <1>1, NumberedStep DEF SearchInv, Grows
<1>3. Live' = Live /\ Flushed' = Flushed /\ (WriterOpen' <=> WriterOpen) /\ Stored' = Stored
  BY <1>1, LiveSame DEF SearchInv, Grows, Flushed, WriterOpen, Stored
<1>4. \A q \in Procs : op'[q] = op[q] \/ op'[q].pc \notin IndexPhases
  BY BecomeType, IdleIsOp DEF Inv, TypeOK, IndexPhases
<1>5. \A q \in Procs : op'[q].pc \in IndexPhases => op'[q] = op[q]
  BY <1>4
<1>6. \A q \in Procs : op[q].pc \in IndexPhases => op'[q] = op[q]
  BY BecomeType DEF Inv, TypeOK
<1>7. ASSUME NEW q \in Procs PROVE Owes(op[q])'
  <2>1. Owes(op[q])
    BY DEF SearchInv, IndexSound
  <2>2. CASE op'[q].pc \notin IndexPhases
    BY <2>2 DEF Owes, IndexPhases
  <2>3. CASE op'[q] = op[q]
    BY <1>1, <1>3, <2>1, <2>3 DEF Owes
  <2> QED BY <1>4, <2>2, <2>3
<1>8. \A e \in Engines : op'[e].pc \in IndexPhases => op'[e].pc = "unindex"
  BY <1>5 DEF SearchInv, IndexSound, Procs
<1>9. (\A q \in Procs : op'[q].pc \notin IndexPhases) => Flushed' = Live'
  BY <1>3, <1>6 DEF SearchInv, IndexSound
<1> QED BY <1>2, <1>3, <1>7, <1>8, <1>9 DEF SearchInv, IndexSound

LEMMA IdleOwes == ASSUME NEW o, o.pc \notin IndexPhases PROVE Owes(o) /\ Owes(o)'
BY DEF Owes, IndexPhases

\* After a step of p that was alone, the index lacks what p owes it.
LEMMA OwnerStep ==
  ASSUME Numbered', NEW p \in Procs,
         \A q \in Procs \ {p} : op[q].pc = "idle" /\ op'[q] = op[q],
         p \in Engines /\ op'[p].pc \in IndexPhases => op'[p].pc = "unindex",
         WriterOpen' => Engines # {},
         Owes(op[p])',
         op'[p].pc \notin IndexPhases => Flushed' = Live'
  PROVE  SearchInv'
<1>1. \A q \in Procs \ {p} : op'[q].pc \notin IndexPhases
  BY DEF IndexPhases
<1>2. ASSUME NEW q \in Procs \ {p} PROVE Owes(op[q])'
  BY <1>1 DEF Owes, IndexPhases
<1>3. Engines \subseteq Procs
  BY DEF Procs
<1> QED BY <1>1, <1>2, <1>3 DEF SearchInv, IndexSound

-----------------------------------------------------------------------------
(* The local operations. *)

LEMMA LocalReads ==
  ASSUME Inv, SearchInv, NEW p \in Locals,
         \/ \E n \in Ids, kind \in {"edit", "todo"} : ReadNote(p, n, kind)
         \/ LoadForBody(p)
         \/ \E n \in Ids, kind \in {"meta", "trash", "restore"} : LoadForFlag(p, n, kind)
         \/ Select(p, Stored \ Live, "trash")
         \/ \E tagged \in SUBSET Stored : Select(p, tagged, "meta")
         \/ ReadTombstones(p)
         \/ Persist(p) /\ ~RowUnchanged(p)
  PROVE  SearchInv'
<1>1. /\ p \in Procs /\ op[p] \in Op /\ OpSound(op[p])
      /\ op[p].doc \subseteq 0 .. Len(hist) /\ op[p].base \subseteq 0 .. Len(hist)
      /\ \A n \in Ids : row[n] \subseteq 0 .. Len(hist) /\ row[n] \in Docs
  BY NewNoteIsRow DEF Procs, Inv, TypeOK, StoreSound, SearchInv, Numbered
<1>2. Idle \in Op /\ Idle.doc = {} /\ Idle.base = {} /\ Idle.pc \notin IndexPhases
  BY IdleIsOp DEF Idle, IndexPhases
<1>3. ASSUME NEW n \in Ids, NEW kind \in {"edit", "todo"}, ReadNote(p, n, kind) PROVE SearchInv'
  <2> DEFINE o == [Idle EXCEPT !.pc = "composed", !.kind = kind, !.id = n, !.doc = row[n]]
  <2>1. o \in Op /\ o.doc = row[n] /\ o.base = {} /\ o.pc = "composed"
    BY <1>1, <1>2, <1>3 DEF Op, Phases, Kinds
  <2>2. Become(p, o) /\ UNCHANGED <<dbVars, indexVars, meshVars>> /\ op[p].pc = "idle"
    BY <1>3 DEF ReadNote
  <2> HIDE DEF o
  <2> QED BY <1>1, <2>1, <2>2, QuietStep DEF IndexPhases
<1>4. ASSUME LoadForBody(p) PROVE SearchInv'
  <2>1. CASE Become(p, Idle)
    BY <1>1, <1>2, <1>4, <2>1, QuietStep DEF LoadForBody, IndexPhases
  <2>2. CASE /\ op[p].id \in Stored
             /\ Become(p, [op[p] EXCEPT !.pc = "commit", !.base = row[op[p].id]])
    <3> DEFINE o == [op[p] EXCEPT !.pc = "commit", !.base = row[op[p].id]]
    <3>1. op[p].id \in Ids
      BY <2>2 DEF Stored
    <3>2. o \in Op /\ o.doc = op[p].doc /\ o.base = row[op[p].id] /\ o.pc = "commit"
      BY <1>1, <3>1 DEF Op, Phases
    <3>3. Become(p, o) /\ UNCHANGED <<dbVars, indexVars, meshVars>> /\ op[p].pc = "composed"
      BY <1>4, <2>2 DEF LoadForBody
    <3> HIDE DEF o
    <3> QED BY <1>1, <3>1, <3>2, <3>3, QuietStep DEF IndexPhases
  <2> QED BY <1>4, <2>1, <2>2 DEF LoadForBody
<1>5. ASSUME NEW n \in Ids, NEW kind \in {"meta", "trash", "restore"}, LoadForFlag(p, n, kind)
      PROVE  SearchInv'
  <2> DEFINE o == [Idle EXCEPT !.pc = "commit", !.kind = kind, !.id = n,
                               !.doc = row[n], !.base = row[n]]
  <2>1. o \in Op /\ o.doc = row[n] /\ o.base = row[n] /\ o.pc = "commit"
    BY <1>1, <1>2, <1>5 DEF Op, Phases, Kinds
  <2>2. Become(p, o) /\ UNCHANGED <<dbVars, indexVars, meshVars>> /\ op[p].pc = "idle"
    BY <1>5 DEF LoadForFlag
  <2> HIDE DEF o
  <2> QED BY <1>1, <2>1, <2>2, QuietStep DEF IndexPhases
<1>6. ASSUME NEW chosen, NEW kind \in {"trash", "meta"}, Select(p, chosen, kind) PROVE SearchInv'
  <2> DEFINE o == [Idle EXCEPT !.pc = "selected", !.kind = kind, !.ids = chosen]
  <2>1. chosen \in SUBSET Ids
    BY <1>6 DEF Select, Stored
  <2>2. o \in Op /\ o.doc = {} /\ o.base = {} /\ o.pc = "selected"
    BY <1>2, <2>1 DEF Op, Phases, Kinds
  <2>3. Become(p, o) /\ UNCHANGED <<dbVars, indexVars, meshVars>> /\ op[p].pc = "idle"
    BY <1>6 DEF Select
  <2> HIDE DEF o
  <2> QED BY <1>1, <2>2, <2>3, QuietStep DEF IndexPhases
<1>7. ASSUME ReadTombstones(p) PROVE SearchInv'
  <2> DEFINE o == [op[p] EXCEPT !.pc = "purge", !.tomb = tomb \cup op[p].ids]
  <2>1. o \in Op /\ o.doc = op[p].doc /\ o.base = op[p].base /\ o.pc = "purge"
    BY <1>1 DEF Op, Phases, Inv, TypeOK
  <2>2. Become(p, o) /\ UNCHANGED <<dbVars, indexVars, meshVars>> /\ op[p].pc = "selected"
    BY <1>7 DEF ReadTombstones
  <2> HIDE DEF o
  <2> QED BY <1>1, <2>1, <2>2, QuietStep DEF IndexPhases
<1>8. ASSUME Persist(p), ~RowUnchanged(p) PROVE SearchInv'
  <2>1. Become(p, Idle) /\ UNCHANGED <<dbVars, indexVars, meshVars>> /\ op[p].pc = "commit"
    BY <1>8 DEF Persist, dbVars
  <2> QED BY <1>1, <1>2, <2>1, QuietStep DEF IndexPhases
<1> QED BY <1>3, <1>4, <1>5, <1>6, <1>7, <1>8

\* A note that is written is the only one the index may be wrong about.
LEMMA WriteOwes ==
  ASSUME Inv, Inv', SearchInv, OneAtATime, OneAtATime', Search = TRUE, Grows, Numbered',
         NEW p \in Locals, NEW n \in Ids, NEW d, d # {},
         Become(p, [Idle EXCEPT !.pc = Then("index"), !.id = n, !.doc = d]),
         [Idle EXCEPT !.pc = Then("index"), !.id = n, !.doc = d] \in Op,
         op[p].pc \in {"idle", "commit"},
         row' = [row EXCEPT ![n] = d], UNCHANGED indexVars
  PROVE  SearchInv'
<1> DEFINE o == [Idle EXCEPT !.pc = Then("index"), !.id = n, !.doc = d]
<1>1. o.pc = "index" /\ o.id = n /\ o.doc = d /\ o \in Op /\ Become(p, o)
  BY DEF Then, Idle
<1> HIDE DEF o
<1>2. p \in Procs /\ p \notin Engines /\ op'[p] = o
  BY <1>1, StoreAssumption DEF Procs, Become, Inv, TypeOK
<1>3. (\A q \in Procs \ {p} : op[q].pc = "idle" /\ op'[q] = op[q]) /\ ~WriterOpen
  BY <1>1, <1>2, Alone DEF indexVars, SearchInv
<1>4. indexed = Live
  <2>1. \A q \in Procs : op[q].pc \notin IndexPhases
    BY <1>3 DEF IndexPhases
  <2> QED BY <1>3, <2>1, Closed DEF SearchInv, IndexSound
<1>5. Live' \ {n} = Live \ {n}
  BY LiveOthers DEF SearchInv, Inv, TypeOK
<1>6. row'[n] = d /\ n \in Stored'
  BY DEF Inv, TypeOK, Stored
<1>7. Owes(op[p])'
  BY <1>1, <1>2, <1>4, <1>5, <1>6 DEF Owes, indexVars
<1>8. ~WriterOpen'
  BY <1>3 DEF WriterOpen, indexVars
<1> QED BY <1>1, <1>2, <1>3, <1>7, <1>8, OwnerStep DEF IndexPhases

LEMMA CreateOwes ==
  ASSUME Inv, Inv', SearchInv, OneAtATime, OneAtATime', Search = TRUE,
         NEW p \in Locals, NEW n \in Ids, Create(p, n)
  PROVE  SearchInv'
<1> DEFINE o == [Idle EXCEPT !.pc = Then("index"), !.id = n, !.doc = {0}]
<1>1. /\ op[p].pc = "idle" /\ row' = [row EXCEPT ![n] = {0}] /\ Become(p, o)
      /\ hist' = hist /\ remote' = remote /\ UNCHANGED indexVars
  BY DEF Create
<1>2. o.doc = {0} /\ o.base = {} /\ o.pc = "index" /\ o.id = n
  BY DEF Then, Idle
<1>3. o \in Op
  BY <1>2, IdleIsOp, NewNoteIsRow DEF Op, Phases
<1>4. Grows /\ 0 \in 0 .. Len(hist) /\ p \in Procs
  BY <1>1, HistoryGrows DEF Grows, Procs
<1>5. Numbered'
  <2>1. \A k \in Ids : row'[k] \subseteq row[k] \/ row'[k] \subseteq 0 .. Len(hist')
    BY <1>1, <1>4 DEF Inv, TypeOK
  <2> HIDE DEF o
  <2> QED BY <1>1, <1>2, <1>3, <1>4, <2>1, NumberedStep DEF SearchInv
<1> QED BY <1>1, <1>3, <1>4, <1>5, WriteOwes

LEMMA PersistOwes ==
  ASSUME Inv, Inv', SearchInv, OneAtATime, OneAtATime', Search = TRUE,
         NEW p \in Locals, Persist(p), RowUnchanged(p)
  PROVE  SearchInv'
<1> DEFINE n == op[p].id
           d == op[p].base \cup {Len(hist) + 1}
           o == [Idle EXCEPT !.pc = Then("index"), !.id = n, !.doc = d]
<1>1. /\ op[p].pc = "commit" /\ row' = [row EXCEPT ![n] = d] /\ Become(p, o) /\ Room
      /\ UNCHANGED <<purged, tomb, indexVars, meshVars>>
      /\ \E keep \in SUBSET Body(op[p].doc) :
             hist' = Append(hist, [op |-> Effect(op[p].kind, op[p].base),
                                   erases |-> TakenOut(op[p], keep)])
  BY DEF Persist
<1>2. p \in Procs /\ op[p] \in Op /\ n \in Ids
  BY <1>1 DEF Procs, Inv, TypeOK, StoreSound, OpSound
<1>3. Len(hist) \in Nat /\ Len(hist') = Len(hist) + 1 /\ Grows
  <2>1. PICK c : hist' = Append(hist, c)
    BY <1>1
  <2>2. Len(hist) \in Nat /\ hist \in Seq(Change) /\ hist' \in Seq(Change)
    BY DEF Inv, TypeOK
  <2>3. PICK keep \in SUBSET Body(op[p].doc) :
          hist' = Append(hist, [op |-> Effect(op[p].kind, op[p].base),
                                erases |-> TakenOut(op[p], keep)])
    BY <1>1
  <2>4. Effect(op[p].kind, op[p].base) \in Kinds /\ TakenOut(op[p], keep) \in Docs
    BY <1>2 DEF Effect, Kinds, Op, TakenOut, Body, Docs
  <2> QED BY <2>2, <2>3, <2>4 DEF Grows, Change
<1>4. d \subseteq 0 .. Len(hist') /\ d # {}
  BY <1>2, <1>3 DEF SearchInv, Numbered
<1>5. o.doc = d /\ o.base = {} /\ o.pc = "index" /\ o.id = n
  BY DEF Then, Idle
<1>6. o \in Op
  <2>1. d \in Docs
    BY <1>1, <1>2, <1>3, StoreAssumption DEF Op, Docs, Changes, Room
  <2> QED BY <1>2, <2>1, IdleIsOp DEF Op, Phases, Then
<1>7. Numbered'
  <2>1. \A k \in Ids : row'[k] \subseteq row[k] \/ row'[k] \subseteq 0 .. Len(hist')
    BY <1>1, <1>2, <1>4 DEF Inv, TypeOK
  <2> HIDE DEF o, d
  <2> QED BY <1>1, <1>2, <1>3, <1>4, <1>5, <1>6, <2>1, NumberedStep DEF SearchInv, meshVars
<1> HIDE DEF d
<1> QED BY <1>1, <1>2, <1>3, <1>4, <1>6, <1>7, WriteOwes

LEMMA ImportOwes ==
  ASSUME Inv, Inv', SearchInv, OneAtATime, OneAtATime', Search = TRUE,
         NEW p \in Locals, NEW new \in SUBSET Ids, Import(p, new)
  PROVE  SearchInv'
<1> DEFINE o == [Idle EXCEPT !.pc = Then("rebuild")]
<1>1. /\ op[p].pc = "idle" /\ row' = [n \in Ids |-> IF n \in new THEN {0} ELSE row[n]]
      /\ Become(p, o) /\ hist' = hist /\ remote' = remote /\ UNCHANGED indexVars
  BY DEF Import
<1>2. o.doc = {} /\ o.base = {} /\ o.pc = "rebuild"
  BY DEF Then, Idle
<1>3. o \in Op
  BY <1>2, IdleIsOp DEF Op, Phases
<1> HIDE DEF o
<1>4. Grows /\ 0 \in 0 .. Len(hist) /\ p \in Procs /\ p \notin Engines /\ op'[p] = o
  BY <1>1, <1>2, HistoryGrows, StoreAssumption DEF Grows, Procs, Become, Inv, TypeOK
<1>5. Numbered'
  <2>1. \A k \in Ids : row'[k] \subseteq row[k] \/ row'[k] \subseteq 0 .. Len(hist')
    BY <1>1, <1>4
  <2> QED BY <1>1, <1>2, <1>3, <1>4, <2>1, NumberedStep DEF SearchInv
<1>6. (\A q \in Procs \ {p} : op[q].pc = "idle" /\ op'[q] = op[q]) /\ ~WriterOpen
  BY <1>1, <1>2, <1>3, <1>4, Alone DEF indexVars, SearchInv
<1>7. ~WriterOpen' /\ Owes(op[p])'
  BY <1>1, <1>2, <1>4, <1>6 DEF WriterOpen, indexVars, Owes
<1> QED BY <1>2, <1>4, <1>5, <1>6, <1>7, OwnerStep DEF IndexPhases

\* index_note or remove_note, and the rebuild: the writer is closed, since
\* nobody else is at work.
LEMMA IndexPays ==
  ASSUME Inv, Inv', SearchInv, OneAtATime, OneAtATime', NEW p \in Locals,
         IndexNow(p) \/ RebuildRead(p) \/ RebuildWrite(p)
  PROVE  SearchInv'
<1> DEFINE o == IF op[p].pc = "rebuild" THEN [op[p] EXCEPT !.pc = "reindex", !.ids = Live] ELSE Idle
<1>1. /\ p \in Procs /\ p \notin Engines /\ op[p] \in Op /\ op[p].pc \in {"index", "rebuild", "reindex"}
      /\ Owes(op[p]) /\ UNCHANGED <<dbVars, meshVars, deferred>>
  BY StoreAssumption DEF Procs, Inv, TypeOK, IndexNow, RebuildRead, RebuildWrite, indexVars,
                         SearchInv, IndexSound
<1>2. /\ o \in Op /\ Become(p, o) /\ o.pc \notin IndexPhases \ {"reindex"}
      /\ o.pc = "reindex" => o.ids = Live
      /\ o.doc \subseteq op[p].doc /\ o.base \subseteq op[p].base
  <2>1. CASE op[p].pc = "rebuild"
    <3>1. Live \in SUBSET Ids
      BY DEF Live, Stored
    <3>2. o = [op[p] EXCEPT !.pc = "reindex", !.ids = Live]
      BY <2>1
    <3>3. o \in Op /\ o.pc = "reindex" /\ o.ids = Live /\ o.doc = op[p].doc /\ o.base = op[p].base
      BY <1>1, <3>1, <3>2 DEF Op, Phases
    <3>4. Become(p, o)
      BY <2>1, <3>2 DEF IndexNow, RebuildRead, RebuildWrite
    <3> QED BY <3>3, <3>4 DEF IndexPhases
  <2>2. CASE op[p].pc # "rebuild"
    <3>1. o = Idle
      BY <2>2
    <3>2. Become(p, Idle)
      BY <2>2 DEF IndexNow, RebuildRead, RebuildWrite
    <3>3. Idle.doc = {} /\ Idle.base = {} /\ Idle.pc = "idle" /\ Idle \in Op
      BY IdleIsOp DEF Idle
    <3> HIDE DEF o
    <3> QED BY <3>1, <3>2, <3>3 DEF IndexPhases
  <2> QED BY <2>1, <2>2
<1> HIDE DEF o
<1>3. Numbered' /\ Live' = Live
  <2>1. Grows /\ hist' = hist /\ row' = row /\ remote' = remote
    BY <1>1 DEF Grows, dbVars, meshVars
  <2>2. op[p].doc \subseteq 0 .. Len(hist) /\ op[p].base \subseteq 0 .. Len(hist)
    BY <1>1 DEF SearchInv, Numbered
  <2> QED BY <1>1, <1>2, <2>1, <2>2, NumberedStep, LiveSame DEF SearchInv
<1>4. (\A q \in Procs \ {p} : op[q].pc = "idle" /\ op'[q] = op[q]) /\ ~WriterOpen
  BY <1>1, <1>2, Alone DEF SearchInv
<1>5. ~WriterOpen' /\ Flushed' = indexed'
  <2>1. ~WriterOpen'
    BY <1>1, <1>4 DEF WriterOpen
  <2>2. \A n \in Ids : deferred'[n] = "none"
    BY <2>1 DEF WriterOpen
  <2> QED BY <2>1, <2>2 DEF Flushed, Inv, TypeOK
<1>6. op'[p] = IF o.pc = "idle" THEN Idle ELSE o
  BY <1>1, <1>2 DEF Become, Inv, TypeOK
<1>7. CASE IndexNow(p)
  <2>1. indexed' = IF Trashed(op[p].doc) THEN indexed \ {op[p].id} ELSE indexed \cup {op[p].id}
    BY <1>4, <1>7 DEF IndexNow
  <2>2. op[p].id \in Stored /\ op[p].doc = row[op[p].id] /\ indexed \ {op[p].id} = Live \ {op[p].id}
    BY <1>1, <1>7 DEF IndexNow, Owes
  <2>3. op[p].id \in Live <=> ~Trashed(op[p].doc)
    BY <2>2 DEF Live
  <2>4. indexed' = Live
    BY <2>1, <2>2, <2>3
  <2>5. op'[p].pc \notin IndexPhases
    BY <1>6, <1>7, <1>2, IdleIsOp DEF IndexNow, IndexPhases, o
  <2>6. Owes(op[p])'
    BY <2>5 DEF Owes, IndexPhases
  <2> QED BY <1>1, <1>3, <1>4, <1>5, <2>4, <2>5, <2>6, OwnerStep
<1>8. CASE RebuildRead(p)
  <2>1. op'[p].pc = "reindex" /\ op'[p].ids = Live
    <3>1. o.pc = "reindex"
      BY <1>1, <1>8 DEF RebuildRead, o, Op
    <3> QED BY <1>2, <1>6, <3>1
  <2>2. Owes(op[p])'
    BY <1>3, <2>1 DEF Owes
  <2> QED BY <1>1, <1>3, <1>4, <1>5, <2>1, <2>2, OwnerStep DEF IndexPhases
<1>9. CASE RebuildWrite(p)
  <2>1. op[p].ids = Live /\ Live \subseteq Stored
    BY <1>1, <1>9 DEF RebuildWrite, Owes, Live
  <2>2. indexed' = Live
    BY <1>4, <1>9, <2>1 DEF RebuildWrite
  <2>3. op'[p].pc \notin IndexPhases
    BY <1>6, <1>9, <1>2, IdleIsOp DEF RebuildWrite, IndexPhases, o
  <2>4. Owes(op[p])'
    BY <2>3 DEF Owes, IndexPhases
  <2> QED BY <1>1, <1>3, <1>4, <1>5, <2>2, <2>3, <2>4, OwnerStep
<1> QED BY <1>7, <1>8, <1>9

-----------------------------------------------------------------------------
(* The purges, the engine and the peers.                                   *)

\* purge_rows: what goes from the rows is what the index still has too much.
LEMMA PurgeOwes ==
  ASSUME Inv, Inv', SearchInv, OneAtATime, OneAtATime', Search = TRUE,
         NEW p \in Procs, NEW gone \in SUBSET Ids, PurgeRows(p, gone),
         op[p].pc \in {"purge", "adopt"}
  PROVE  SearchInv'
<1> DEFINE o == [Idle EXCEPT !.pc = Then("unindex"), !.ids = gone]
<1>1. /\ row' = [n \in Ids |-> IF n \in gone THEN {} ELSE row[n]] /\ Become(p, o)
      /\ hist' = hist /\ remote' = remote /\ indexed' = indexed /\ deferred' = deferred
  BY DEF PurgeRows, indexVars, meshVars
<1>2. o.doc = {} /\ o.base = {} /\ o.pc = "unindex" /\ o.ids = gone
  BY DEF Then, Idle
<1>3. o \in Op
  BY <1>2, IdleIsOp DEF Op, Phases
<1> HIDE DEF o
<1>4. Grows /\ op'[p] = o
  BY <1>1, <1>2 DEF Grows, Become, Inv, TypeOK
<1>5. Numbered'
  BY <1>1, <1>2, <1>3, <1>4, NumberedStep DEF SearchInv
<1>6. \A q \in Procs \ {p} : op[q].pc = "idle" /\ op'[q] = op[q]
  BY <1>1, <1>3, Alone DEF SearchInv
<1>7. Flushed = Live
  <2>1. \A q \in Procs : op[q].pc \notin IndexPhases
    BY <1>6 DEF IndexPhases
  <2> QED BY <2>1 DEF SearchInv, IndexSound
<1>8. Live' = Live \ gone
  <2>1. Live' \ gone = Live \ gone
    BY <1>1, <1>4, LiveOthers DEF SearchInv
  <2>2. Live' \cap gone = {}
    BY <1>1 DEF Live, Stored
  <2> QED BY <2>1, <2>2
<1>9. Flushed' = Flushed /\ (WriterOpen' <=> WriterOpen)
  BY <1>1 DEF Flushed, WriterOpen
<1>10. Owes(op[p])'
  BY <1>2, <1>4, <1>7, <1>8, <1>9 DEF Owes
<1>11. WriterOpen' => Engines # {}
  BY <1>9 DEF SearchInv, IndexSound
<1> QED BY <1>2, <1>4, <1>5, <1>6, <1>10, <1>11, OwnerStep DEF IndexPhases

\* The removals after a purge.
LEMMA UnindexPays ==
  ASSUME Inv, Inv', SearchInv, OneAtATime, OneAtATime', NEW p \in Procs, Unindex(p)
  PROVE  SearchInv'
<1>1. /\ op[p].pc = "unindex" /\ Become(p, Idle) /\ hist' = hist /\ row' = row /\ remote' = remote
      /\ Idle \in Op /\ Idle.doc = {} /\ Idle.base = {} /\ Idle.pc = "idle"
      /\ p \in Locals => deferred' = deferred
  BY IdleIsOp, StoreAssumption DEF Unindex, dbVars, meshVars, Idle, indexVars
<1>2. Grows /\ op'[p] = Idle
  BY <1>1 DEF Grows, Become, Inv, TypeOK
<1>3. Numbered' /\ Live' = Live
  BY <1>1, <1>2, NumberedStep, LiveSame DEF SearchInv
<1>4. (\A q \in Procs \ {p} : op[q].pc = "idle" /\ op'[q] = op[q]) /\ (p \in Locals => ~WriterOpen)
  BY <1>1, Alone DEF SearchInv
<1>5. Flushed \ op[p].ids = Live
  BY <1>1 DEF SearchInv, IndexSound, Owes
<1>6. Flushed' = Live /\ ~WriterOpen'
  <2>1. CASE p \in Engines /\ indexed' = Flushed \ op[p].ids /\ deferred' = [n \in Ids |-> "none"]
    <3>1. ~WriterOpen'
      BY <2>1 DEF WriterOpen
    <3>2. \A n \in Ids : deferred'[n] = "none"
      BY <2>1
    <3>3. indexed' = Live /\ Live \subseteq Ids
      BY <1>5, <2>1 DEF Live, Stored
    <3> QED BY <3>1, <3>2, <3>3 DEF Flushed
  <2>2. CASE p \in Locals /\ indexed' = indexed \ op[p].ids /\ deferred' = deferred
    <3>1. ~WriterOpen' /\ ~WriterOpen
      BY <1>4, <2>2 DEF WriterOpen
    <3>2. \A n \in Ids : deferred'[n] = "none"
      BY <3>1 DEF WriterOpen
    <3>3. indexed' = Live /\ Live \subseteq Ids
      BY <1>5, <2>2, <3>1, Closed DEF Live, Stored
    <3> QED BY <3>1, <3>2, <3>3 DEF Flushed
  <2> QED BY <1>4, <2>1, <2>2 DEF Unindex
<1>7. Owes(op[p])'
  BY <1>1, <1>2 DEF Owes
<1> QED BY <1>1, <1>2, <1>3, <1>4, <1>6, <1>7, OwnerStep DEF IndexPhases

LEMMA EngineReads ==
  ASSUME Inv, SearchInv, NEW e \in Engines,
         \/ \E n \in Ids : \E sent \in SUBSET remote[n] : ReceiveNote(e, n, sent)
         \/ \E theirs \in SUBSET Ids : ReceiveTombstones(e, theirs)
         \/ PutMerge(e)
         \/ PutCheck(e)
         \/ PutWrite(e) /\ ~RowUnchanged(e)
  PROVE  SearchInv'
<1>1. /\ e \in Procs /\ op[e] \in Op /\ OpSound(op[e])
      /\ op[e].doc \subseteq 0 .. Len(hist) /\ op[e].base \subseteq 0 .. Len(hist)
      /\ \A n \in Ids : row[n] \subseteq 0 .. Len(hist) /\ row[n] \in Docs
      /\ \A n \in Ids : remote[n] \subseteq 0 .. Len(hist) /\ remote[n] \in Docs
  BY NewNoteIsRow DEF Procs, Inv, TypeOK, StoreSound, SearchInv, Numbered
<1>2. Idle \in Op /\ Idle.doc = {} /\ Idle.base = {} /\ Idle.pc \notin IndexPhases
  BY IdleIsOp DEF Idle, IndexPhases
<1>3. ASSUME NEW n \in Ids, NEW sent \in SUBSET remote[n], ReceiveNote(e, n, sent) PROVE SearchInv'
  <2> DEFINE d == row[n] \cup sent
             o == [Idle EXCEPT !.pc = "received", !.id = n, !.doc = d]
  <2>1. d \in Docs /\ d \subseteq 0 .. Len(hist)
    BY <1>1 DEF Docs
  <2>2. Become(e, o) /\ UNCHANGED <<dbVars, indexVars, meshVars>> /\ op[e].pc = "idle"
    BY <1>3 DEF ReceiveNote
  <2> HIDE DEF d
  <2>3. o \in Op /\ o.doc = d /\ o.base = {} /\ o.pc = "received"
    BY <1>2, <2>1 DEF Op, Phases
  <2> HIDE DEF o
  <2> QED BY <1>1, <2>1, <2>2, <2>3, QuietStep DEF IndexPhases
<1>4. ASSUME NEW theirs \in SUBSET Ids, ReceiveTombstones(e, theirs) PROVE SearchInv'
  <2> DEFINE o == [Idle EXCEPT !.pc = "adopt", !.tomb = tomb \cup theirs]
  <2>1. o \in Op /\ o.doc = {} /\ o.base = {} /\ o.pc = "adopt"
    BY <1>2 DEF Op, Phases, Inv, TypeOK
  <2>2. Become(e, o) /\ UNCHANGED <<dbVars, indexVars, meshVars>> /\ op[e].pc = "idle"
    BY <1>4 DEF ReceiveTombstones
  <2> HIDE DEF o
  <2> QED BY <1>1, <2>1, <2>2, QuietStep DEF IndexPhases
<1>5. ASSUME PutMerge(e) PROVE SearchInv'
  <2> DEFINE o == [op[e] EXCEPT !.pc = "check", !.base = row[op[e].id], !.doc = Merged(e)]
  <2>1. op[e].id \in Ids
    BY <1>1, <1>5 DEF PutMerge, OpSound
  <2>2. Merged(e) \in Docs /\ Merged(e) \subseteq 0 .. Len(hist)
    BY <1>1, <2>1 DEF Merged, Docs, Op
  <2>3. o \in Op /\ o.doc = Merged(e) /\ o.base = row[op[e].id] /\ o.pc = "check"
    BY <1>1, <2>1, <2>2 DEF Op, Phases
  <2>4. Become(e, o) /\ UNCHANGED <<dbVars, indexVars, meshVars>> /\ op[e].pc = "received"
    BY <1>5 DEF PutMerge
  <2> HIDE DEF o
  <2> QED BY <1>1, <2>1, <2>2, <2>3, <2>4, QuietStep DEF IndexPhases
<1>6. ASSUME PutCheck(e) PROVE SearchInv'
  <2> DEFINE o == [op[e] EXCEPT !.pc = "put"]
  <2>1. o \in Op /\ o.doc = op[e].doc /\ o.base = op[e].base /\ o.pc = "put"
    BY <1>1 DEF Op, Phases
  <2>2. Become(e, o) \/ Become(e, Idle)
    BY <1>6 DEF PutCheck
  <2>3. UNCHANGED <<dbVars, indexVars, meshVars>> /\ op[e].pc = "check"
    BY <1>6 DEF PutCheck
  <2> HIDE DEF o
  <2> QED BY <1>1, <1>2, <2>1, <2>2, <2>3, QuietStep DEF IndexPhases
<1>7. ASSUME PutWrite(e), ~RowUnchanged(e) PROVE SearchInv'
  <2> DEFINE o == [op[e] EXCEPT !.pc = "received"]
  <2>1. o \in Op /\ o.doc = op[e].doc /\ o.base = op[e].base /\ o.pc = "received"
    BY <1>1 DEF Op, Phases
  <2>2. Become(e, o) /\ UNCHANGED <<dbVars, indexVars, meshVars>> /\ op[e].pc = "put"
    BY <1>7 DEF PutWrite, dbVars, indexVars
  <2> HIDE DEF o
  <2> QED BY <1>1, <2>1, <2>2, QuietStep DEF IndexPhases
<1> QED BY <1>3, <1>4, <1>5, <1>6, <1>7

\* put_doc defers to the index what it writes to the row.
LEMMA PutOwes ==
  ASSUME Inv, Inv', SearchInv, OneAtATime, OneAtATime', Search = TRUE,
         NEW e \in Engines, PutWrite(e), RowUnchanged(e)
  PROVE  SearchInv'
<1>0. PICK n, d : n = op[e].id /\ d = op[e].doc
  OBVIOUS
<1>1. /\ e \in Procs /\ e \notin Locals /\ op[e] \in Op /\ op[e].pc = "put"
      /\ n \in Ids /\ 0 \in d /\ d \subseteq 0 .. Len(hist)
  BY <1>0, StoreAssumption DEF PutWrite, Procs, Inv, TypeOK, StoreSound, OpSound, SearchInv, Numbered
<1>2. /\ row' = [row EXCEPT ![n] = d] /\ Become(e, Idle)
      /\ deferred' = [deferred EXCEPT ![n] = IF Trashed(d) THEN "remove" ELSE "add"]
      /\ hist' = hist /\ indexed' = indexed /\ remote' = remote
  BY <1>0 DEF PutWrite, meshVars
<1>3. Idle \in Op /\ Idle.doc = {} /\ Idle.base = {} /\ Idle.pc = "idle"
  BY IdleIsOp DEF Idle
<1>4. Grows /\ op'[e] = Idle
  BY <1>1, <1>2, <1>3 DEF Grows, Become, Inv, TypeOK
<1>5. Numbered'
  <2>1. \A k \in Ids : row'[k] \subseteq row[k] \/ row'[k] \subseteq 0 .. Len(hist')
    BY <1>1, <1>2 DEF Inv, TypeOK
  <2> QED BY <1>1, <1>2, <1>3, <1>4, <2>1, NumberedStep DEF SearchInv
<1>6. \A q \in Procs \ {e} : op[q].pc = "idle" /\ op'[q] = op[q]
  BY <1>1, <1>2, <1>3, Alone DEF SearchInv
<1>7. Flushed = Live
  <2>1. \A q \in Procs : op[q].pc \notin IndexPhases
    BY <1>1, <1>6 DEF IndexPhases
  <2> QED BY <2>1 DEF SearchInv, IndexSound
<1>8. Live' \ {n} = Live \ {n} /\ (n \in Live' <=> ~Trashed(d))
  <2>1. Live' \ {n} = Live \ {n}
    BY <1>1, <1>2, <1>4, LiveOthers DEF SearchInv, Inv, TypeOK
  <2>2. row'[n] = d
    BY <1>1, <1>2 DEF Inv, TypeOK
  <2>3. Trashed(row[n])' <=> Trashed(d)
    BY <1>2, <2>2 DEF Trashed
  <2> QED BY <1>1, <2>1, <2>2, <2>3 DEF Live, Stored
<1>9. Flushed' \ {n} = Flushed \ {n} /\ (n \in Flushed' <=> ~Trashed(d))
  <2>1. deferred'[n] = (IF Trashed(d) THEN "remove" ELSE "add")
        /\ \A k \in Ids \ {n} : deferred'[k] = deferred[k]
    BY <1>1, <1>2 DEF Inv, TypeOK
  <2> QED BY <1>1, <1>2, <2>1 DEF Flushed
<1>10. Flushed' = Live'
  <2>1. Flushed' \subseteq Ids /\ Live' \subseteq Ids
    BY DEF Flushed, Live, Stored
  <2> QED BY <1>7, <1>8, <1>9, <2>1
<1>11. Owes(op[e])'
  BY <1>3, <1>4 DEF Owes
<1> QED BY <1>1, <1>3, <1>4, <1>5, <1>6, <1>10, <1>11, OwnerStep DEF IndexPhases

\* The flush of a sync round.
LEMMA FlushPays ==
  ASSUME Inv, Inv', SearchInv, OneAtATime, NEW e \in Engines, Flush(e)
  PROVE  SearchInv'
<1>1. /\ op[e].pc = "idle" /\ WriterOpen /\ indexed' = Flushed
      /\ deferred' = [n \in Ids |-> "none"]
      /\ hist' = hist /\ row' = row /\ remote' = remote /\ op' = op /\ e \in Procs
  BY DEF Flush, dbVars, meshVars, Procs
<1>2. Numbered' /\ Live' = Live
  BY <1>1, LiveSame DEF SearchInv, Numbered, Grows
<1>3. \A q \in Procs \ {e} : op[q].pc = "idle" /\ op'[q] = op[q]
  BY <1>1 DEF OneAtATime, AtWork
<1>4. Flushed' = Flushed /\ ~WriterOpen'
  BY <1>1 DEF Flushed, WriterOpen
<1>5. Flushed = Live
  <2>1. \A q \in Procs : op[q].pc \notin IndexPhases
    BY <1>1, <1>3 DEF IndexPhases
  <2> QED BY <2>1 DEF SearchInv, IndexSound
<1>6. Owes(op[e])' /\ op'[e].pc \notin IndexPhases
  BY <1>1 DEF Owes, IndexPhases
<1> QED BY <1>1, <1>2, <1>3, <1>4, <1>5, <1>6, OwnerStep

LEMMA RemoteKeeps ==
  ASSUME Inv, SearchInv, NEW n \in Ids, NEW kind \in {"edit", "trash", "restore"},
         RemoteChange(n, kind)
  PROVE  SearchInv'
<1>1. /\ row' = row /\ op' = op /\ indexed' = indexed /\ deferred' = deferred
      /\ \/ hist' = hist /\ remote' = [remote EXCEPT ![n] = {0}]
         \/ /\ hist' = Append(hist, [op |-> kind, erases |-> {}])
            /\ remote' = [remote EXCEPT ![n] = @ \cup {0, Len(hist) + 1}]
  BY DEF RemoteChange, indexVars
<1>2. [op |-> kind, erases |-> {}] \in Change
  BY DEF Change, Kinds, Docs
<1>3. Grows
  BY <1>1, <1>2 DEF Grows
<1>4. Live' = Live
  BY <1>1, <1>3, LiveSame DEF SearchInv
<1>5. Numbered'
  <2>1. /\ Len(hist) \in Nat /\ Len(hist') \in Nat /\ 0 .. Len(hist) \subseteq 0 .. Len(hist')
    BY <1>3, HistoryGrows
  <2>2. \A k \in Ids : remote'[k] \subseteq 0 .. Len(hist')
    <3>1. CASE hist' = hist /\ remote' = [remote EXCEPT ![n] = {0}]
      BY <2>1, <3>1 DEF SearchInv, Numbered, Inv, TypeOK
    <3>2. CASE /\ hist' = Append(hist, [op |-> kind, erases |-> {}])
               /\ remote' = [remote EXCEPT ![n] = @ \cup {0, Len(hist) + 1}]
      <4>1. Len(hist') = Len(hist) + 1
        BY <3>2, <1>2 DEF Inv, TypeOK
      <4>2. {0, Len(hist) + 1} \subseteq 0 .. Len(hist')
        BY <2>1, <4>1
      <4> QED BY <2>1, <3>2, <4>2 DEF SearchInv, Numbered, Inv, TypeOK
    <3> QED BY <1>1, <3>1, <3>2
  <2> QED BY <1>1, <2>1, <2>2 DEF SearchInv, Numbered
<1>6. Flushed' = Flushed /\ (WriterOpen' <=> WriterOpen) /\ Stored' = Stored
  BY <1>1 DEF Flushed, WriterOpen, Stored
<1>7. IndexSound'
  BY <1>1, <1>4, <1>6 DEF SearchInv, IndexSound, Owes
<1> QED BY <1>5, <1>7 DEF SearchInv

-----------------------------------------------------------------------------
(* The theorem. *)

LEMMA SearchInit == Init => SearchInv
<1> SUFFICES ASSUME Init PROVE SearchInv
  OBVIOUS
<1>1. /\ row = [n \in Ids |-> {}] /\ remote = [n \in Ids |-> {}] /\ indexed = {}
      /\ deferred = [n \in Ids |-> "none"] /\ op = [p \in Procs |-> Idle]
  BY DEF Init
<1>2. Numbered
  BY <1>1 DEF Numbered, Idle
<1>3. ~WriterOpen /\ Flushed = {} /\ Live = {}
  BY <1>1 DEF WriterOpen, Flushed, Live, Stored
<1>4. \A p \in Procs : op[p].pc = "idle"
  BY <1>1 DEF Idle
<1>5. Engines \subseteq Procs
  BY DEF Procs
<1> QED BY <1>2, <1>3, <1>4, <1>5 DEF SearchInv, IndexSound, Owes, IndexPhases

LEMMA SearchStep ==
  ASSUME Inv, Inv', SearchInv, OneAtATime, OneAtATime', [Next]_vars,
         Search = TRUE, Crashing = {}
  PROVE  SearchInv'
<1>1. ASSUME NEW p \in Locals, LocalStep(p) PROVE SearchInv'
  <2>1. ASSUME Purge(p) PROVE SearchInv'
    <3>1. op[p].ids \in SUBSET Ids /\ p \in Procs
      BY DEF Inv, TypeOK, Op, Procs
    <3> QED BY <2>1, <3>1, PurgeOwes DEF Purge
  <2> QED BY <1>1, <2>1, LocalReads, CreateOwes, ImportOwes, PersistOwes, IndexPays DEF LocalStep
<1>2. ASSUME NEW e \in Engines, EngineStep(e) PROVE SearchInv'
  <2>1. ASSUME Adopt(e) PROVE SearchInv'
    <3>1. op[e].tomb \in SUBSET Ids /\ e \in Procs
      BY DEF Inv, TypeOK, Op, Procs
    <3> QED BY <2>1, <3>1, PurgeOwes DEF Adopt
  <2> QED BY <1>2, <2>1, EngineReads, PutOwes DEF EngineStep
<1>3. CASE UNCHANGED vars
  <2>1. /\ row' = row /\ remote' = remote /\ hist' = hist /\ op' = op
        /\ indexed' = indexed /\ deferred' = deferred
    BY <1>3 DEF vars, dbVars, indexVars, meshVars
  <2>2. /\ Numbered' /\ Live' = Live /\ Flushed' = Flushed /\ (WriterOpen' <=> WriterOpen)
        /\ Stored' = Stored
    BY <2>1, LiveSame DEF Grows, SearchInv, Numbered, Flushed, WriterOpen, Stored
  <2> QED BY <2>1, <2>2 DEF SearchInv, IndexSound, Owes
<1>4. \A p \in Procs : ~Stop(p)
  BY DEF Stop
<1> QED BY <1>1, <1>2, <1>3, <1>4, FlushPays, EngineReads, UnindexPays, RemoteKeeps DEF Next

(* As long as operations do not overlap and none is cut short, a search    *)
(* returns exactly the live notes whenever nothing is under way: every     *)
(* write (persist, insert_note, bulk, purge_rows, put_doc) does to the     *)
(* index what it did to the rows, whatever trash flags a merge brought in. *)
THEOREM SearchIsExact ==
  ASSUME Search = TRUE, Crashing = {}
  PROVE  Spec /\ []OneAtATime => []SearchExact
<1>1. Inv /\ SearchInv => SearchExact
  <2> SUFFICES ASSUME Inv, SearchInv, Quiet PROVE indexed = Live
    BY DEF SearchExact
  <2>1. \A p \in Procs : op[p].pc \notin IndexPhases
    BY DEF Quiet, IndexPhases
  <2> QED BY <2>1, Closed DEF SearchInv, IndexSound, Quiet
<1>2. Inv /\ Inv' /\ SearchInv /\ OneAtATime /\ OneAtATime' /\ [Next]_vars => SearchInv'
  BY SearchStep
<1> QED BY InitInv, NextInv, SearchInit, <1>1, <1>2, PTL DEF Spec
=============================================================================
