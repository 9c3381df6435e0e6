# TLA+ models of kiem

kiem is a notes application: a Rust core (`crates/kiem-core`) that keeps notes as
Automerge documents in SQLite, a peer-to-peer sync layer over iroh
(`crates/kiem-sync`), a command line (`crates/kiem-cli`), a UniFFI bridge
(`crates/kiem-ffi`) and two Swift apps (`apple/`). Several processes share one data
directory: one-shot CLI commands, the app, and whichever of app or daemon runs the
mesh. This directory holds TLA+ modules for the parts of it whose correctness depends
on the order of things, TLC configurations that check them on small instances, and
proofs of the main theorems for every instance.

    tlc -workers 2 -config store_race.cfg MCNoteStore.tla     # one run
    tlapm NoteStoreProofs.tla                                 # the proofs of one module

`PROJECT.json` lists the runs, the source lines behind each definition, the mutants that
show each property can fail, the hazards and the findings.

## The system

| component | state | operations | what makes it correct |
|---|---|---|---|
| note store (`store/`) | tables `notes`, `purged`, `tombstone_doc` | create, versioned and unversioned body writes, flags, bulk import, purge, `put_doc`, `adopt_tombstone_doc` | no stored change is lost; a purge is final; document and table agree; an author overwrites only what it saw |
| search index (`search.rs`) | tantivy index, one exclusive writer, a writer kept open for deferred writes | index, remove, deferred variants, flush, rebuild | derived from the rows; trash never surfaces |
| sync engine (`sync.rs`) | Automerge sync state per peer and document, pending documents, parse cache | generate, receive, reset_peer, forget_peer | two stores converge, purges propagate, the cache is never stale |
| session (`session.rs`) | one bidirectional stream, a ticker, a reader, a send lock | round, reply, hello | rounds keep going; no two sides wait on each other |
| mesh (`mesh.rs`, `mesh/`) | live connections, dial slots, pairing window, `mesh.lock` | start, dial, accept, forget | only trusted peers sync; one loop and one session per peer; a forgotten peer stays forgotten |
| files (`peers.rs`, `names.rs`, `identity.rs`, `data_version.rs`) | peer list, peer names, device key, version stamp | add, remove, load or create, back up | no lost update; one identity; a backup before a new stamp |
| daemon and control socket (`daemon.rs`, `control.rs`, `pair.rs`) | one socket, one client session at a time | show, add, forget, approve | one daemon per directory; the window closes with its session |
| FFI and apps | editor buffer, loaded version, sync lifecycle, pairing window, background session | type, save, reload, start, stop, approve, expire | typed text is saved or reported; a stopped mesh stays stopped; every prompt ends |
| content (`content/`, `project.rs`, `transfer.rs`) | none, and a directory of exported files | derive title, tags and todos, splice, replace lines, make a project tag, export, import | agree with their definitions on every body; a library comes back from its export |

Components meet in four places: SQLite rows that several connections read and replace;
the index writer's lock; the mutex around store and engine of the process that runs the
mesh (`SharedState`); and the files of the data directory. Messages between devices
travel over one QUIC stream per session.

What is hard: every multi-statement operation of the store interleaves with those of
other processes, and none holds a lock across its statements. Index commits follow the
rows in an order of their own. Processes stop between two statements. Purges must reach
devices that still hold the note. Sessions, dial loops and user prompts overlap with
unpairing. The hazards in `PROJECT.json` name these at their lines.

## Modules

| module | what it is |
|---|---|
| `DocRegistry` | the abstract promise of a data directory: a history only gains changes until it is erased, and erased is for good |
| `NoteStore`, `MCNoteStore` | the store and its index under several processes, each SQL statement a step; the symmetry of its runs |
| `SyncPair` | the engines of two paired devices and what they say to each other |
| `Session` | one connection: ticker and reader of both sides over bounded streams |
| `PairingGate` | who may connect: the trust list, the pairing window, the prompt at the control socket |
| `Mesh` | extends `PairingGate` with dial loops, live connections and unpairing |
| `DataFiles` | version stamp, key, socket, mesh lock, trust list and names of one directory |
| `NoteText` | what is derived from a body, and the edits that compose a new one, as operators |
| `BodySplice` | how a changed body reaches the document |
| `Content` | a note whose body is edited (`NoteText`, `BodySplice`), and the tag made from a name |
| `Transfer` | export to and import from a directory (`NoteText`) |
| `Editor` | the editor of an app with its queues |
| `MCContent` | extends `Content`, `Editor` and `Transfer` for TLC, one of the three per behaviour |
| `NoteStoreProofs`, `SyncPairProofs`, `SessionProofs`, `MeshProofs`, `DataFilesProofs`, `ContentProofs`, `EditorProofs` | theorems of the modules they are named after; `ContentProofs` is also about `NoteText`, `BodySplice` and `Transfer` |
| `DerivedProofs` | what is derived from a note in `Content` after an edit, on top of `ContentProofs` |

The definitions marked "a variant for the checks" or "mutant" are plausible bugs. Nothing
uses them; `PROJECT.json` says in which definition's place each makes a property fail.

### NoteStore

A document is the set of Automerge changes in its history; 0 is the change that creates
the note, the others index `hist`, which records what each did (body write, other
metadata, trash, restore) and which passages of the body it took out. Merging two
documents is set union, and equal bytes are equal sets, so SQLite's
`UPDATE ... WHERE id = ? AND doc = ?` is a comparison of sets. Two concurrent changes of
the trash flag are settled by their numbering; the code settles them by Automerge's
operation ids, which is also a total order all devices agree on.

`op[p]` is the operation process p is in: its program counter `pc`, the document in
hand, and the row it was read from.

| code | actions |
|---|---|
| `insert_note` | `Create`, `IndexNow` |
| `bulk` (import) | `Import`, `RebuildRead`, `RebuildWrite` |
| `update_note_if_version`, versioned `edit_lines` | `ReadNote` ("edit"), `LoadForBody`, `Persist`, `IndexNow` |
| todo operations, `add_tag`, `remove_tag`, unversioned `edit_lines` | the same with kind "todo", which compares no version |
| `set_pinned`, `set_note_type`, `delete_note`, `restore_note` | `LoadForFlag`, `Persist`, `IndexNow` |
| `purge_deleted`, `purge_tag` | `Select`, `ReadTombstones`, `Purge`, `Unindex` |
| `receive_message` on a note | `ReceiveNote`, `PutMerge`, `PutCheck`, `PutWrite`, `Flush` |
| `receive_message` on the tombstone document | `ReceiveTombstones`, `Adopt`, `Unindex` |
| an error return or a crash | `Stop` |
| another device | `RemoteChange` (external) |

A body write is abstracted to passages: the author keeps some of the passages it saw,
and `body_splice` makes the stored body equal to the composed one, so it takes every
other passage out of the row. A body write may be refused for reasons the model leaves
open (`TagsWouldBeLost`), which is the second disjunct of `LoadForBody`. A purge erases
its rows, fills `purged` and replaces the tombstone document in one transaction
(`PurgeRows`); its ids and its copy of the document are from earlier statements.

Ids are UUIDs: `minted` makes sure nobody creates one twice. `remote` is what peers may
send; a message carries any subset of it. Documents that do not hydrate yet stay in the
engine's memory (`pending`) and never reach the store, so they are not part of this
module.

The index lock is modelled where the code can hold it for long: the engine keeps its
writer open between a deferred write and the next flush, and an immediate write of
another process is then given up and only logged. A local writer holds the lock for one
commit, shorter than the two seconds the others retry, so it never blocks them here.
`indexed` is the committed index; the reader that a long-running process reloads only
after its own commits is not modelled.

### SyncPair

A note is the set of its Automerge changes, and the tombstone document the set of ids it
lists. `states` is the engine's per-document sync state, with the fields of Automerge's
`sync::State` its behaviour depends on; `Generate` and `Receive` stand for the library
and are external. Bloom filters are exact here: a false positive delays a change by a
round, it loses none.

| code | actions |
|---|---|
| `create_note`, any body or flag write, by another process of the device | `Create`, `Edit` |
| a purge by such a process: `purge_ids` reads the tombstone document, `purge_rows` replaces it | `BeginPurge`, `PurgeNote` |
| `sync_round`: `doc_ids`, then `generate_message` for each, under the state lock | `Round` |
| the write another process makes between the stamp and the blob | `Round(d, raced)` |
| `receive_message` and the reply, under the state lock, and the purges other processes complete meanwhile | `ReceiveMessage(d, done)` |
| `session::run` and its end: `reset_peer`, then `ticker.abort` | `Connect`, `ResetPeer`, `Abort` |
| `forget_peer` | `ForgetPeer` |
| a lost connection, a process that ends | `Cut`, `Restart` |

A document that does not hydrate yet is `parked`: known, and empty to whoever asks.
`CacheHit` is the code's test of the stamps.
`LateRounds` lets a round run between `reset_peer` and the abort, which the code allows.

The state lock keeps out no other process. Where one of them comes between two statements
of the engine, and it matters, it does so here:

- between the stamp and the blob that `generate_message` reads (`raced`);
- between a purge's read of the tombstone document (purge.rs:57) and its replacement
  (purge.rs:101): `purging` is what the purges under way are going to store, and any step
  of anybody may come in between;
- between the engine's read of that document (sync.rs:222) and its replacement
  (sync.rs:254): the purges `done` complete there, and what they stored is lost.

`listed` is what a device's tombstone document lists, `purged` its table; `dropped` is a
history of the ids that a replaced document has lost. Three things are simpler than the
code. The tombstone documents of two devices merge by union, which Automerge does for
entries of one map; that both devices have the same map is assumed (two that purge for the
first time before they ever spoke each create one). And `put_doc`, which merges a note
again with what was written since the engine read it, is taken to do so just before or
just after that write; `NoteStore` has its statements. A round's messages are on the way
from the step that generates them, while session.rs:265 writes them after the state lock
is released, so that a reply may overtake them; `Session` has that lock, not the
engine's states.

### Session

A frame is two parts, each written and read as a unit. `main` is where `run` and its
reader are, `tick` where the ticker is, `lock` the send lock, `stream` what has been
written and not read.

| code | actions |
|---|---|
| open or accept the stream, ticket and hello | `Open`, `WritePart` |
| `sync_round` up to the send lock | `Round` |
| `send.lock().await` | `TakeLock` |
| `write_frame`, `write_all` on a full stream | `WritePart`, `Written` |
| `read_frame`, and what `reader_loop` does with it | `ReadPart`, `Handle` |
| a failed write in the ticker: it returns, the session goes on | `TickerFails` |
| `run` returns | `End` |
| iroh closes the connection | `Close` |

### PairingGate and Mesh

A connection goes through stages: `gate`, `ask`, `asked`, `approved`, `admitted`,
`hello`, `trust`, `live` or `unlisted`, `over`. Each is a place where
`handle_connection` awaits or has let go of a lock, so every other task may run there.

| code | actions |
|---|---|
| `admit_incoming` | `AdmitKnown`, `CheckWindow`, `AskClient`, `ConsumeWindow` |
| the window's deadline | `Lapse` |
| `serve`, `handle_client`, `wait_for_pairing` | `Show`, `Add`, `HearApprove`, `HearConnected`, `SessionReturns`, `Disarm` |
| `kiem pair` and its user | `Show`, `Allow`, `Deny`, `HangUp` |
| `dial`, `dial_loop` | `Dial`, `CheckLoop`, `LoopDial`, `LeaveLoop` |
| `pair_dial_once`, `accept_loop` | `PairDial`, `Accept` |
| `handle_connection` after the gate | `Link`, `ReadTicket`, `OnPeer`, `SessionOver`, `Unlink` |
| `forget_peer` | `Forget`, `CloseForgotten` |

A peer is `unlisted` when it is let in and the trust list could not be written
(mesh.rs:252 drops the error). `chosen`, `used` and `forgot` are histories. The window
is open or not; time is the action `Lapse`. Events a client will not act on are left out
of its inbox (`Heeded`).

### DataFiles

Each process is at one step of one protocol and may be killed there.

| code | actions |
|---|---|
| `check_and_backup` | `Start`, `ReadMarker`, `CopyDir`, `TruncateMarker`, `WriteMarker`, then `Open` |
| `identity::load_or_create` | `ReadKey`, `PersistNewKey`, `ReadWinner` |
| `start_sync`, `stop_sync` of the app | `AppStartsMesh`, `AppStopsMesh` |
| `control::bind` and `Mesh::start` of the daemon | `Probe`, `RemoveStale`, `Bind`, `DaemonStartsMesh` |
| `KnownPeers::update` | `AcquireUpdateLock`, `LoadPeers`, `SavePeers` |
| `set_peer_name`, `forget_peer_name` | `SetPeerName`, `ForgetPeerName`, `TruncateNames`, `WriteNames` |
| a release is installed; a process ends or is killed | `Upgrade`; `Exit`, `Crash` |

Assumed: nothing is opening the directory while a release is installed; two backups do
not fall into the same second (the code names the directory after it); of `peer-names`
only whether it parses is kept. Two writers that overlap may leave a file that does not
(`WriteNames`).

### NoteText, BodySplice, Content, Transfer

A body is a sequence of tokens, each a run of text the rules treat alike: line break,
white space, other text, ATX marker, a tag, a todo box, a backtick, three tildes,
dashes, `status:`, `type:`. `NoteText` is functional: `Derived` is what `NoteDoc`
derives, `Todos` what `extract_todo_items` lists, and `SetTodoChecked`, `SetTodoText`,
`AppendTodo`, `RemoveTag`, `EnsureTag`, `ReplaceLines` are the edits of
`content/edits.rs`. In `Content` every one of them is an action that stores its result
through `Spliced(body, BodySplice(body, new))`.

`Transfer` exports a library (`ExportAll`, `ExportProject`) and imports a directory
(`Import`), twice. File names only say which file is which; the folders are the slugs.
Files of another origin lie beside the export. Export and import are one step each, on
a library nobody else writes: the import's transaction is in `NoteStore`.

### Editor

A text is the set of passages in it. `calls` is `storeQueue`, `results` the main queue;
the user and other processes act between any two of their elements.

| code | actions |
|---|---|
| `editorTextDidChange` | `Type` |
| the debounce, `flushPendingEdit` | `FlushPendingEdit` |
| `loadSelectedNote` | `LoadSelectedNote` |
| "Copy Rejected Draft" of the alert | `CopyDraft` |
| `reloadEditorIfExternalWriteChangedIt`, before and after its read | `ReloadIfChanged`, `Reloaded` |
| `perform`: the store call, its result | `RunCall`, `Apply` |
| the success and failure closures of `flushPendingEdit`, `loadSelectedNote` | `Written`, `Rejected`, `Loaded` |
| `reloadEditorAfterRejectedWrite` | `Rejected`, `Reloaded` |
| CLI, daemon, engine | `ExternalWrite` (external) |

The bridge's `update_note_if_version` writes, then reads the note it returns: another
process may come between (`Stores`), and the read may fail after the text was stored,
which the app takes for a rejection (`Fails`). `draft` is `rejectedEditorDraft`: one for
all notes, replaced by the next rejection and cleared by the next write of the open
note. The macOS and the iOS editor differ only in the blocking flush at quit or
suspension, which is not modelled. `gone`, `rejected` and `misread` are histories,
explained with the properties.

## Runs

| run | question | bounds |
|---|---|---|
| `store_race` | Do the store's invariants and `DocRegistry` survive every interleaving of two local processes and the engine, with stops anywhere? | 2 notes, 2 locals, 1 engine, 1 change after creation; no index (it never writes a row) |
| `store_edit` | Does a versioned edit only ever take out what its author saw, and does `put_doc`'s loop end? | 1 note, 1 local, 1 engine, 2 changes, with the index |
| `store_serial` | Is search exact when operations do not overlap? | 2 notes, 1 local, 1 engine, 2 changes, constraint `OneAtATime` |
| `sync_pair` | Does each device keep what it stored and purged; do two that have nothing left to say agree; do they end up equal, and quiet, whatever is cut, restarted, purged or unpaired; is the parse cache ever stale? | 1 note, 2 changes after creation, 1 cut or restart, 2 messages on the way |
| `session` | Are frames ever mixed, does the session open, does a round get through, does the session end? | window of 4 parts, rounds of up to 2 frames, frames may be too large |
| `mesh` | Who gets in, how many sessions, is every knock answered, is an unpaired peer left alone? | 1 peer, 2 connections at once, either id order |
| `files` | One identity, a backup of each version, no lost update, a reachable daemon, readable names | 2 processes, 2 peers, 2 versions, kills anywhere |
| `content` | Do edits, project tags, export and import, and the editor keep the text they should? | below |
| `store_unlisted`, `store_todo`, `store_restored`, `sync_late` | Four statements of the repository's own comments that the code does not keep | the smallest instance that shows it |

Store: two notes are enough for a purge that takes one and spares the other; two locals
and the engine for every pair of operations on the same row plus one more writer; one
change after creation for a row that moves between a read and its compare-and-swap, and
two for an edit that has something unseen to overwrite.

`sync_pair`: documents are independent of each other but for the tombstone document,
which takes one note to purge. One note is also enough for the engine to undo a purge
that completes while it handles the tombstones; that a purge undoes an adoption takes a
second note, as in `store_unlisted`, and `SyncPairProofs` covers any number. Two changes
are one on each device, or one that overtakes another. One cut covers a connection lost
at any point and the one after it. `MaxQueue` keeps rounds from running ahead of the
reader; messages of a reply are not held back by it.

`session`: a stream that fills up needs a round longer than the window's rest. A window
of four parts holds the prelude (the code writes it before it reads, and relies on the
same) and two rounds of two frames overfill it. The standstill is reachable within it.

`mesh`: two connections at once are a dial and an accept of the same peer, or an old
session and the new one. A second peer would only add strangers at the gate, who meet in
`window`, `inbox` and `client`; `MeshProofs` covers any number of peers for all three
safety properties.

`files`: two processes for every race; two versions for one upgrade, with a second
version's process dying anywhere.

`content`: `Content` starts from every body of up to two lines of twenty shapes and of
three lines of twelve, makes one edit with one of five texts, and one tag of every name
of up to five characters of six kinds. An edit looks at its line, at the fences around it
and at the frontmatter above: three lines hold any of these. `Transfer` starts from
every note of seven fences and ten bodies, with a type or without, and from pairs of
notes; three sets of foreign files. `Editor` has two notes, three passages and two calls
at once.
At most 5.5 million states; `Editor` is the most of it. Its two notes are symmetric
(`SYMMETRY` in `content.cfg`).

No module leaves a bound unnamed: `MaxChange`, `MaxCuts`, `MaxQueue`, `MaxConn`,
`MaxRound`, `Window`, `MaxVersion`, `MaxEdits`, `MaxText`, `MaxCalls`. Deadlock is
checked except where the system may stop: a session that ended, and instances whose
bounded changes are used up.

### Fairness

- `NoteStore`: only the engine's steps between taking a message in and finishing it
  (`EngineStep`). They run on one thread under its mutex without waiting for anyone.
  Local processes get none: a CLI command may be killed, an author may never save.
  `ReceiveEnds` holds because a retry needs another process to have changed the row, and
  changes are bounded; a process that rewrites the row for ever could keep it going.
- `SyncPair`: rounds without a race, receiving, the end of a session, and connecting
  again. The state mutex is fair to whoever waits long, and the dial loop retries for as
  long as the peer is known. Edits, purges, cuts and restarts get none.
- `Session`: a task that can go on does. The send lock is tokio's, first come first
  served, hence strong fairness for `TakeLock`. A write fails for sure only on a closed
  connection.
- `Mesh`: tasks run, a closed connection ends its session, a prelude ends either way,
  tasks of the daemon act on what reaches them. Nobody has to answer a prompt: it is read
  from a terminal or shown by the app, without a deadline (pair.rs:121, 206, 359;
  control.rs:250). Peers need not answer and sessions need not end.
- `DataFiles`: a process goes on with what it began and starts again; peers keep saying
  hello. `NamesHeal` asks nothing of executions in which kills never stop.

## What the properties leave out

A property with an exception names it; each exception is what the code really does.

- `SearchExact` speaks of operations that do not overlap. Two processes each commit the
  row, then the index, and the second pair can come the other way round; the code calls
  the index derived and rebuildable.
- `QuietAgrees` and `Converges` leave out executions in which a tombstone document has
  lost an id (`dropped`). The device that purged the note refuses it, its peer keeps it,
  and neither has anything left to say: the same loss as in `store_unlisted`, and the
  reason why the devices may then differ for good. Without the exception TLC finds such a
  quiet pair in seven states: a purge completes while the engine handles the peer's
  tombstones.
- `FallsSilent` leaves out purged notes. One that a device has parked is offered for ever
  to a peer that purged it.
- `RoundSent` leaves out `Standstill`: both streams full, both readers waiting for a
  lock or a write. Nothing but the end of the connection helps then.
- `OneSession` leaves out a peer that was unpaired while a session of it was listed, and
  `UnpairedIsLeft` a session the map lost sight of. `forget_peer` takes the entry out;
  when the same peer pairs again before the old session has ended, that end removes the
  entry of the new one (mesh.rs:397). A second session can then be let in, and a second
  unpairing does not close the first. A peer forgotten between the loop's check and its
  dial is dialed once more, and its hello puts it back into the trust list; and a dial
  that comes while a loop is about to leave is dropped (mesh.rs:329).
- `KnockAnswered` leaves out a prompt that stays up for ever. Nothing takes one down but
  an answer or the end of its client, and while it is up nobody behind it is heard.
- `UnpairedIsLeft` also leaves out a peer that got in again without the trust list being
  written.
- `OnePerArming` counts per arming: an approval given in an earlier client session can
  still use up the next window.
- `DaemonReachable` leaves out a daemon that bound while another was past its probe: the
  second removes the first one's socket.
- `NamesHeal` says the names file parses again, not that no name was lost.
- `DerivedFollows` has three parts. Of a checked todo it leaves out the box in the title,
  which is the item's when the first line with text is a todo; of a renamed one the title,
  which may be the item. An added or a renamed todo whose text has a tag, code or
  frontmatter of its own brings what it says, and a renamed one takes away what its text
  had. A removed tag may be part of the title or stand in the frontmatter, so nothing is
  said of title and status there; its other tags stay unless the tag was glued to
  something, stood before a fence that moves to the start of its line, or behind a fence,
  which may close another once nothing follows it. An added tag trims the end of the body;
  where that begins behind other text of its line, as in `--- `, what is left may be a
  fence, and status and title follow it.
- `TodosAddressed` leaves out an appended text with a line break:
  `append_todo` puts each line in as it is, and one may be a todo of its own.
- `RoundTrip` leaves out a first line of dashes and white space, which
  `with_frontmatter_type` takes for a fence and the derived status and title do not: the
  type line put into it comes back as text. A fence whose end is white space and is
  trimmed, a tag that stands in the frontmatter alone and code that begins in it are left
  out for the same reason: what the export puts before the text is read with it.
- `ReimportAddsNothing` leaves out a directory in which some file has a tag in its
  frontmatter alone. That file is not tagged, not found among the project's notes, and
  imported again each time, where transfer.rs:151 says that importing "the same directory
  is a no-op". The other files of such a directory are left out with it: the property
  compares whole libraries.
- `OthersKept` and `TypedIsKept` leave out a note from the point where its buffer does
  not go with the version (`misread`): see below.
- `TypedIsKept` says where typed text is as long as no write to its note was rejected: in
  the store, in the buffer, on its way, or in the draft on show. Once one was, it may also
  be `gone`: taken out of the buffer by the reload that follows a rejection
  (`KiemModel+Editor.swift:103`), or with a draft that was replaced by a later one
  (`:46`), cleared by the next write (`:54`) or copied by the user.

## What the code does not keep

Shown by runs:

- `store_unlisted`: the tombstone document can lose ids. `purge_ids` merges into a copy
  and `purge_rows` replaces the document without a comparison, unlike rows. The ids stay
  in `purged` here but no peer learns of them.
- `store_todo`: a todo or tag edit that overlaps another process's write takes out what
  that write added. Only the second of its two reads is guarded.
- `store_restored`: "Empty Trash" erases a note restored after the trash was listed.
- `sync_late`: a round that was waiting for the state lock when the session ended runs
  after `reset_peer` and before the ticker is aborted. What it marks as in flight
  outlives the connection, and the next one never offers that note. Aborting the ticker
  first, and waiting for it, would do.

Met while modelling `Editor`, and visible there when the exception is taken out of the
property:

- The write of a flush and the read of the note it returns are two store calls
  (`kiem-ffi/src/lib.rs:137`). A write of another process in between gives the app the
  version of a text it does not show; the next flush passes the version check and takes
  that write out. `KiemModel.swift:171` says the version is there so that "a CLI or sync
  write cannot be replaced by stale text".
- A load that fails leaves a blank editor with the version of an earlier load
  (`KiemModel+Editor.swift:85`), and makes it editable whichever note is being loaded by
  then; typing replaces the note. A result of an earlier load of the same note is taken
  for that of the latest (`:89`).
- A watcher's read that was queued before a flush and applied after it puts the older
  text into the buffer (`KiemModel+Refresh.swift:53` does not look at `writingNoteID`
  again); the success of the write then gives it the newer version.
- A write whose text was stored and whose note was not read back is reported as rejected;
  its text is then both in the note and in the draft.
- There is one draft. A second rejection replaces it, and so does, with nothing, the next
  write of the note that is open, be the draft of another note.
- The reload after a rejection replaces the buffer while an edit waits (`:103`); what was
  typed in between is in no draft once the next keystroke replaces the edit.
- Keystrokes during a write in flight carry the version from before it and are rejected,
  though nobody else wrote (`:43`).

## Proofs

For any values of the constants, under the assumption each module names. The eight proof
modules follow the modules they are about, with one lemma per action or group of
actions. TLC has checked each inductive invariant on a small instance first.

| module | theorem | statement |
|---|---|---|
| `NoteStoreProofs` | `TypeCorrect`, `Soundness` | `[]TypeOK`, `[]StoreSound` |
| | `PurgeIsFinal`, `TombstonesAreApplied` | `[]PurgedNeverStored`, `[]TombstonesApplied` |
| | `ImplementsRegistry` | `Spec => Registry`: the refinement of `DocRegistry` |
| | `VersionedEditsKeepUnseen` | `Spec => EditKeepsUnseen` |
| | `SearchIsExact` | `Spec /\ []OneAtATime => []SearchExact`, where nothing crashes |
| `SyncPairProofs` | `PairTypes`, `CachedParseIsTheRow` | `[]TypeOK`, `[]CacheCurrent` |
| | `EachDeviceIsARegistry` | `Spec => EachIsARegistry`: each device refines `DocRegistry` |
| | `QuietPairAgrees` | `Spec => []QuietAgrees`, where `LateRounds = FALSE`; `QuietAgrees` is about pairs that have `dropped` nothing |
| `SessionProofs` | `SessionTypes`, `FramesStayIntact` | `[]TypeOK`, `[]FramesIntact` |
| `MeshProofs` | `MeshTypes`, `OneStrangerPerWindow` | `[]TypeOK`, `[]OnePerArming` |
| | `OnlyChosenPeers`, `OneSessionPerPeer` | `[]ChosenByUser`, `[]OneSession` |
| `DataFilesProofs` | `FileTypes`, `IdentityIsOne` | `[]TypeOK`, `[]OneIdentity` |
| | `UpgradeIsBackedUp`, `DaemonIsReachable` | `[]SafetyNet`, `[]DaemonReachable` |
| | `TrustListIsLinear` | `Spec => PeersLinear` |
| `EditorProofs` | `OthersAreKept`, `TypedStaysKept` | `[]OthersKept`, `[]TypedIsKept` |
| `ContentProofs` | `SpliceGivesNew` | for any two sequences, `Spliced(old, BodySplice(old, new)) = new` |
| | `SpliceLeavesSharedEnds` | what it takes out and what it puts in differ at both ends |
| | `EditsAreExact`, `TodosStayAddressed` | `[]SpliceExact`, `[]TodosAddressed` |
| | `LinesStayInPlace`, `TagsAreSettled` | `[]LinesReplaced`, `[]SlugSettles` |
| | `ReimportIsIdle` | `TransferSpec => []ReimportAddsNothing` |
| `DerivedProofs` | `WorkOnTodosKeeps` | `[]TodoEditsKeep` |
| | `RemovedTagGoesAlone`, `AddedTagStays` | `[]TagRemoved`, `[]TagAdded` |
| | `DerivedIsFollowed` | `[]DerivedFollows`: the three together |

Every safety property a run of the store, the engines, the session, the mesh, the files
or the editor checks, all but the four the code does not keep, is proved; so are six of
the seven about content.

**Assumptions.** Most say of which set a constant is. Beyond that: `NoId`, `None` and
`Tomb` are none of the values they are told apart from; processes, engines, peers and
connection numbers are different things; there is at most one engine on a directory
(`mesh.lock`); there are two devices and finitely many notes; `None` is no change, no
content and no message; a stream has room for the prelude; bodies and texts are
sequences of tokens, names of characters (`ContentAssumption`), of any length; a tag is
no other token (`TagsAreNoOther`). `TransferAssumption`: slugs are of the characters a
slug keeps and those of projects start with the prefix; stores and files hold sequences
of tokens, a set of foreign files is finite, a given tag is a tag, and each folder an
import may meet is no project or its tag is one of the tags of the model (in the code
every string is).

**NoteStore.** `StoreAssumption`: `NoId` is not a note, locals and engines are different
processes, there is at most one engine (the mesh lock of the data directory sees to
that), and the types of the constants. The inductive invariant is
`TypeOK /\ StoreSound`. `PurgedNeverStored` is not inductive: `put_doc` looks at
`purged`, then inserts, and somebody could purge the id between the two. `StoreSound`
says why nobody does. A purge works on ids that were stored when it listed them, and a
stored id stays stored until it is purged, so the ids of a purge under way are always
stored or purged (`OpSound`). While the engine inserts under an id, the id has no row and
was not purged when it looked; hence it is in no purge, and it cannot become stored
because only the engine stores an id it did not mint. An adoption purges ids that need
not be stored, but the engine is the only one that adopts, and it is busy. With two
engines on one directory the invariant fails, which is what `mesh.lock` is for. Each
action has a lemma. Actions that change no row and no tombstone go through `SilentStep`;
the writes go through `WriteStep`, whose hypotheses are what the other operations need
(`OpSoundKept`). For the refinement, a write of a history is a `Gain` and a purge, ours or
adopted, an `Erase`; everything else stutters.

**Search.** `SearchExact` speaks of a directory at rest and says nothing of the way
there. `SearchInv` does: `Owes` is what each operation that has written its rows still
has to do to the index (one note to put right, all of them, or some to take out), and
where nobody owes anything, the committed index with the engine's deferred writes is
exactly the live notes. `Numbered` is needed because a note is in the trash by the record
of a change in `hist`: an append changes nobody's trash flag only if no row, no copy in
hand and no message holds a change that was not made yet. Two of the three hypotheses are
the exceptions of the property: operations do not overlap (`OneAtATime`, also the
constraint of `store_serial`) and none is cut short (`Crashing = {}`); without either the
code does not keep it. The third says that the index is in use (`Search = TRUE`).

**SyncPair.** `PairInv` is the types with what ties them together. `Parses` is about the
cache: a stamp is no newer than the newest change; `CacheHit`, the code's comparison of
the two `modified_at`, implies that the cached parse is the row; and a row that has gone
since its stamp was taken was purged. The first makes a write of another process
harmless: its change is newer than every stamp, so the entry no longer hits, also when the
write falls between the engine's reads of the stamp and of the blob. A merge may change a
row and leave its stamp; there it is the engine that takes its own parse out or replaces
it. The third keeps a stamp from fitting a row that went and came back, for what is purged
has no row again (`Rows`). `States` and `Messages` say that no sync state and no message
speaks of a change nobody has made, which is what the bound of the stamps and `Rows` need
when a message is merged. That a set of changes has a latest one is from the well-founded
order of the library. `Tombs` says that what is purged and not listed was dropped.

`QuietAgrees` needs to know what two engines know of each other. `TalkInv`: what a device
says it has, it has until it purges it (`SaidIsHad`); who has nothing new since it last
spoke was told the same, or told the other last (`SaidIsTold`); what is in flight is on
its way, is being answered, or needed no answer (`Answers`); who was told of a document
knows of it (`Heeds`); and a session begins with what `reset_peer` left (`Reset`, false
with `LateRounds`). All this holds of executions in which no tombstone document has lost
an id, where each lists exactly what its device purged (`Intact`), and `dropped` only
grows. In a quiet pair nothing is on the way, so both were told what the other has
(`SameWhenQuiet`): the tombstones first, then every note that neither has purged.

**Session.** `FramesIntact` looks at what a side has read and what lies on its stream;
`FrameInv` adds what the writers still hold. With the connection up, what is on the way
followed by what the lock's holder has yet to write is a sequence of whole frames
(`Aligned`); only the holder of the send lock writes, past the prelude (`Locked`); and
the first frame that a side which has read none will find is the ticket (`Greeting`,
`Sound`). When a write fails, a frame may be cut on the stream for good, so `Aligned`
and `Greeting` speak of an open connection only; the code's failed write either begins a
frame or finds the connection closed, and that is where the proof uses it. Frames of two
parts make parity of lengths the invariant's arithmetic (`Parity`).

**Mesh.** `WindowInv`: `used` is 0 or 1, and 0 while the window is open; the second
look at the window in `ConsumeWindow` is what keeps it. `ChosenInv`: whoever is known,
waiting to be dialed, dialed by a loop, approved or further is in `chosen`. A loop is
tied to the connection it runs, so that a loop's peer is known to have been chosen even
after it was unpaired. `OneSession` needs `MeshInv`: what `connected` names is a linked
connection of that peer, and a linked connection of a peer never unpaired in mid-session
is the one `connected` names (`Mapped`); `Link` only enters a free place, and `Unlink`
takes the place of its own peer, so the only way out of step is the entry that `Forget`
removes. `Prompts` is there for the types: each prompt, shown or in the inbox, is of a
connection of its own that still waits for the answer, so an answer cannot move a
connection that has gone on.

**DataFiles.** `KeyInv` is `OneIdentity` with the types of `key` and `keyFile`. A
process that uses a key finds it on disk, so while the file is missing nobody uses one;
and the file is only ever put where there was none. `PeersInv` says that a process
between taking the update lock and its rename holds the lock, so there is one, and that
what it has read is still what the file holds. `VersionInv` follows the upgrade: a
process that is past the backup, or a marker that already carries the installed version,
vouches that the newest version that has lived there is backed up or is this one
(`Safe`), and a copy under way holds only files of that version unless this one has
opened the database. It holds although the marker is written by truncation: an empty
marker (0) reads as an older version, which costs one more backup. `SockInv`: while a
daemon that met no other serves, its socket is in place and nobody is between the probe
and the removal; a process that probes then finds it alive.

**Editor.** `EditorInv` says of every note whose buffer goes with its version: whatever
would be stored under the version of now (a queued write, the edit that waits, the buffer)
was made by someone who saw all that is in the note (`Current`), and what was typed is
somewhere else than in the buffer alone (`Safe`). `OthersKept` alone says nothing of the
queues and is not inductive. A write that was queued under an older version is harmless
because it will be rejected; so versions must not go back: results come in the order of
their versions and nobody holds a version the store did not have (`Order`). A result is
applied after the buffer has changed, hence the clauses of `Current` about results that
are still queued. Both queues are sequences of any length. `Aside` is
what may be nowhere any more: nothing of a note that had no write rejected. `Reported`
keeps it so: only after a rejection is a note read again while an edit may wait.

**Content.** The shared ends of a splice are the longest there are; the lemmas show that
each exists (a bounded set of naturals has a greatest element) and how the texts compare
along it. The ends do not overlap, and the result is compared with the new text piece by
piece. What an edit does to the list or the lines is stated of the body read back, so the
proof needs what reading back computes, for bodies of any length. The library's induction
is out of the prover's reach, so `LeastNat` and `AllNumbers` state it about sets: a
nonempty set of naturals has a least element (the well-founded order of the library), and
a set that has 0 and with n also n + 1 has all of them. From that, `Recursion` gives the
function a recursive definition describes, and `SplitIs`, `JoinedIs` and `SlugifyIs` show
that `Split`, `Joined` and `Slugify` are it; this is why they are recursive functions and
not folds. The argument:

- Splitting what was joined gives the lines back (`LinesOfJoin`), as long as no line has a
  break in it and there is a line. Where there is none left, `LinesReplaced` has its
  second case.
- The n-th item is the one with n items up to it (`NthProperties`, `NthIs`). Changing one
  line into another item changes one place of the list (`ItemReplaced`); an item after all
  others adds one (`ItemAppended`).
- `CheckedIsRead`, `RenamedIsRead`, `AppendedIsRead` and `ReplacedIsRead` put these
  together, one per edit. A renamed item stays one line because `Flat` takes out the
  breaks, and its text reads back as it was given because it was trimmed (`SpaceIsTrimmed`).
- A slug that grows stays `Settled` (no separator first or twice) and `sep` says whether it
  ends in one, so a settled slug is read through unchanged (`SlugifyAgain`).

For the import the question is whether a file's text, once stored, is known as one of its
project's when the same file comes again, that is, whether the tag the import adds is
derived from the text it is added to:

- Inline code ends with a backtick and a fenced block with a fence (`CodeEnds`,
  `FencesEnd`). So a tag alone on the last line, after an empty one, is in neither
  (`LastTagCounts`).
- No frontmatter takes that line in, for frontmatter ends with a line of dashes and the
  two lines added are none (`LinesCounted`). With both, the tag is derived
  (`AddedTagCounts`), and so is one the text had, unless it `Hides` (`TaggedCounts`).
- `ImportFileDoes` says what one file adds; from there to the whole directory is
  `AllNumbers` again: everything is imported in the first go (`ImportsAll`), and nothing
  in a second that knows every text (`ImportsNothing`). An import of a directory the
  program itself exported is no special case.

What is derived from a note looks at all of its text: a fence or a backtick anywhere
changes which tags after it count. `DerivedProofs` follows the two scans token by token.

- Inline code and fenced blocks are found by one pass along the tokens or the lines
  (`Skims`). When one text has only some of the places of another (`Rises`), and every
  backtick and every fence is among them, the same of those places are code in both
  (`Embeds`).
- A checked todo changes one box (`CheckedTodoKeeps`), which neither pass nor the
  frontmatter looks at; an added one is a line at the end (`AppendedTodoKeeps`), a renamed
  one a line in place of another (`RenamedTodoKeeps`), all without code, tags or
  frontmatter.
- A removed tag goes with the white space before it, each time it counts. What is left
  is embedded in the text as it was (`RemovalEmbeds`): each line left is one that was,
  shorter perhaps, with the same fence or none (`TracedToTheEnd`, token by token). No
  tag comes (`KeptBringsNoTag`), and none goes but the one (`RemovalKeepsTags`).
- An added tag trims the end and puts the tag on a line of its own. What is in front
  keeps what it was (`EndedKeeps`), and the new line counts, as in the import
  (`AddedTagKeeps`).

The inductive invariant of the edits is `EditInv`: the body is a sequence of tokens, and
the three properties as statements about it and the last edit. For the tag it is
`SlugInv`: a tag that was made is that of the name. For the import it is `TransferInv`:
after one, every text of the directory that is not blank is in the store, as it was
imported.

What TLC alone says:

- All liveness (`ReceiveEnds`, `Converges`, `FallsSilent`, `RoundSent`, `SessionOpens`,
  `SessionEnds`, `KnockAnswered`, `UnpairedIsLeft`, `NamesHeal`): the prover does not
  reason about fairness.
- `RoundTrip`: it compares what is derived of a text before and after a line of
  frontmatter was put into it, and file names made different from each other. Whether
  that line moves the end of the frontmatter depends on every line above the first text.

## Not modelled, and the plan

- The sync lifecycle of the apps (`KiemModel+Sync.swift`, `BackgroundSession.swift`):
  generations of start and stop, the approval gate that waits on a thread of the mesh,
  expiration callbacks of an earlier background session. The next module to write,
  `SyncLifecycle`, over `PairingGate`'s window.
- The mesh that `kiem pair` runs itself when there is no daemon, and a `pair forget` by
  a process other than the one that runs the mesh.
- More than two devices: a third would only forward what `SyncPair` has two exchange.
- The readers of the search index in long-running processes; a failed COMMIT inside
  `bulk`; an error inside the Automerge protocol step (the bytes come from a paired
  device).
- CRLF, bullets other than the dash, Unicode classes, tag normalisation; the blocking
  flush at quit, which ignores a rejection (`KiemModel+Editor.swift:66`).
- Rendering and views, argument parsing, record conversion in the bridge, iroh itself,
  tantivy's ranking, SQLite's durability.

