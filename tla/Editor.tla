------------------------------- MODULE Editor -------------------------------
(***************************************************************************)
(* The editor of the apps: the buffer of the open note, its debounced       *)
(* write under the version it was loaded with, and the reloads that follow  *)
(* a rejected write or another process's.  Every store call goes through    *)
(* one queue and its result through another, both first in, first out;      *)
(* between the two the user goes on.                                        *)
(* A text is the set of passages in it.  The user only adds; what somebody  *)
(* deletes on purpose is not the question here.                             *)
(***************************************************************************)
EXTENDS Naturals, Sequences, SequencesExt

CONSTANTS
    Notes,
    MaxText,   \* bound: passages written by anyone
    MaxCalls,  \* bound: calls and results in the queues
    None       \* no note, no version, no pending edit

\* None is neither a note, a version nor an edit.
ASSUME EditorAssumption ==
    /\ None \notin Notes \cup (Notes \X Nat)
                     \cup [note: Notes, text: SUBSET Nat, version: Notes \X Nat]
    /\ MaxText \in Nat /\ MaxCalls \in Nat

VARIABLES
    store,     \* the note's body, and the number of writes as its heads
    theirs,    \* history: passages other processes wrote
    typed,     \* history: passages the user typed, where they count as edits
    next,      \* passages so far
    selected,  \* selectedNoteID
    text,      \* editorText
    loaded,    \* loadedVersion, of whichever note it is
    pending,   \* pendingEdit; its timer runs exactly while there is one
    loading,   \* loadingNoteID
    writing,   \* writingNoteID
    calls,     \* calls on storeQueue
    results,   \* results on the main queue
    draft,     \* the text of rejectedEditorDraft, {} for none
    gone,      \* history: passages of a draft that is shown no more, and those
               \* the reload after a rejection took out of the buffer
    rejected,  \* history: notes a write to which was reported as rejected
    misread    \* history: notes whose buffer did not go with the version: after a
               \* load that failed, a read that a write overtook, or a write
               \* that another process's followed before it was read back

editorVars == <<store, theirs, typed, next, selected, text, loaded, pending,
                loading, writing, calls, results, draft, gone, rejected, misread>>
storeVars == <<store, theirs, next>>
queues == <<calls, results>>
refusals == <<draft, gone, rejected, misread>>

EditorInit ==
    /\ store = [n \in Notes |-> [body |-> {}, at |-> 0]]
    /\ theirs = [n \in Notes |-> {}] /\ typed = [n \in Notes |-> {}] /\ next = 0
    /\ selected = None /\ text = {} /\ loaded = None
    /\ pending = None /\ loading = None /\ writing = None
    /\ calls = <<>> /\ results = <<>>
    /\ draft = {} /\ gone = {} /\ rejected = {} /\ misread = {}

Version(n) == <<n, store[n].at>>
Call(do, n) == [do |-> do, note |-> n, text |-> {}, version |-> None]
Room == Len(calls') + Len(results) <= MaxCalls

-----------------------------------------------------------------------------
(* The user.                                                               *)

\* editorTextDidChange.  What is typed before the note is there is no edit,
\* and the note will replace it.
Type ==
    /\ selected # None /\ loading = None /\ loaded # None
    /\ next < MaxText /\ next' = next + 1
    /\ text' = text \cup {next'}
    /\ pending' = [note |-> selected, text |-> text', version |-> loaded]
    /\ typed' = [typed EXCEPT ![selected] = @ \cup {next'}]
    /\ UNCHANGED <<store, theirs, selected, loaded, loading, writing, queues, refusals>>

\* A variant for the checks: the version is that of the time of the flush.
FlushesLatest ==
    IF pending = None THEN calls
    ELSE Append(calls, [pending EXCEPT !.version = loaded] @@ [do |-> "write"])

\* takePendingEdit and the write it queues.
Flushed ==
    IF pending = None THEN calls
    ELSE Append(calls, [do |-> "write", note |-> pending.note, text |-> pending.text,
                        version |-> pending.version])
Writing == IF pending = None THEN writing ELSE pending.note

\* The debounce interval is over.
FlushPendingEdit ==
    /\ pending # None
    /\ calls' = Flushed /\ Room /\ writing' = Writing /\ pending' = None
    /\ UNCHANGED <<storeVars, typed, selected, text, loaded, loading, results, refusals>>

\* A variant for the checks: the edit of the note that is left is dropped.
LeavesUnsaved(n) ==
    /\ n # selected
    /\ selected' = n /\ text' = {} /\ loading' = n
    /\ calls' = IF n = None THEN calls ELSE Append(calls, Call("load", n))
    /\ Room
    /\ pending' = None
    /\ UNCHANGED <<storeVars, typed, loaded, writing, results, refusals>>

\* loadSelectedNote: the edit is flushed first, the editor blank till the
\* note is there.
LoadSelectedNote(n) ==
    /\ n # selected
    /\ selected' = n /\ text' = {} /\ loading' = n
    /\ calls' = IF n = None THEN Flushed ELSE Append(Flushed, Call("load", n))
    /\ Room
    /\ writing' = Writing /\ pending' = None
    /\ UNCHANGED <<storeVars, typed, loaded, results, refusals>>

\* "Copy Rejected Draft" of the alert takes the draft away from the app.
CopyDraft ==
    /\ draft # {}
    /\ draft' = {} /\ gone' = gone \cup draft
    /\ UNCHANGED <<storeVars, typed, selected, text, loaded, pending, loading, writing,
                   queues, rejected, misread>>

-----------------------------------------------------------------------------
(* The store: another process, and the app's own queue.                    *)

Put(s, n, body) == [s EXCEPT ![n] = [body |-> body, at |-> @.at + 1]]

OthersPut(s, n) ==
    /\ next < MaxText /\ next' = next + 1
    /\ store' = Put(s, n, s[n].body \cup {next'})
    /\ theirs' = [theirs EXCEPT ![n] = @ \cup {next'}]

ExternalWrite(n) ==
    /\ OthersPut(store, n)
    /\ UNCHANGED <<typed, selected, text, loaded, pending, loading, writing, queues,
                   refusals>>

\* The watcher saw a write of anybody's: the note is read when nothing of
\* the editor's is under way.
ReloadIfChanged ==
    /\ selected # None /\ pending = None /\ writing = None /\ loading = None
    /\ calls' = Append(calls, Call("watch", selected)) /\ Room
    /\ UNCHANGED <<storeVars, typed, selected, text, loaded, pending, loading, writing,
                   results, refusals>>

Result(c, ok) == [call |-> c, ok |-> ok, body |-> store'[c.note].body,
                  version |-> <<c.note, store'[c.note].at>>]

\* The text is stored under the version the note has.  What the write returns
\* is read back after it, and another process may have come between.
Stores(c) ==
    /\ c.do = "write" /\ c.version = Version(c.note)
    /\ \/ store' = Put(store, c.note, c.text) /\ UNCHANGED <<theirs, next>>
       \/ OthersPut(Put(store, c.note, c.text), c.note)

\* update_note_if_version, or get_note.
Succeeds(c) ==
    /\ (c.do # "write" /\ UNCHANGED storeVars) \/ Stores(c)
    /\ results' = Append(results, Result(c, TRUE))

\* Any call may fail, a write also when the text is stored already and only
\* the note is not read back; nothing comes of a reload that fails.
Fails(c) ==
    /\ UNCHANGED storeVars \/ Stores(c)
    /\ results' = IF c.do \in {"load", "write"}
                  THEN Append(results, Result(c, FALSE)) ELSE results

RunCall ==
    /\ calls # <<>> /\ calls' = Tail(calls)
    /\ Succeeds(Head(calls)) \/ Fails(Head(calls))
    /\ UNCHANGED <<typed, selected, text, loaded, pending, loading, writing, refusals>>

-----------------------------------------------------------------------------
(* Results, one after the other on the main queue.                         *)

Show(r) ==
    /\ loaded' = r.version /\ text' = r.body
    /\ misread' = IF \E c \in Range(calls) \cup {s.call : s \in Range(Tail(results))} :
                        c.do = "write" /\ c.note = selected
                  THEN misread \cup {selected} ELSE misread
    /\ UNCHANGED <<draft, rejected>>

\* The version is that of the note read back, the text stays as it is, and a
\* draft, of whichever note it was, is shown no more.
Written(r) ==
    /\ r.call.do = "write" /\ r.ok
    /\ writing' = None
    /\ IF selected = r.call.note
       THEN /\ loaded' = r.version
            /\ draft' = {} /\ gone' = gone \cup draft
            /\ misread' = IF r.body # r.call.text THEN misread \cup {selected} ELSE misread
       ELSE UNCHANGED <<loaded, draft, gone, misread>>
    /\ UNCHANGED <<text, pending, loading, calls, rejected>>

\* The edit becomes the draft, in the place of an earlier one, and the note is
\* read again if it is still open.
Rejected(r) ==
    /\ r.call.do = "write" /\ ~r.ok
    /\ writing' = None
    /\ draft' = r.call.text /\ gone' = gone \cup draft
    /\ rejected' = rejected \cup {r.call.note}
    /\ calls' = IF selected = r.call.note /\ loading = None
                THEN Append(calls, Call("reload", selected)) ELSE calls
    /\ UNCHANGED <<text, loaded, pending, loading, misread>>

\* A load that failed leaves the editor blank, whichever note is open by now.
Loaded(r) ==
    /\ r.call.do = "load"
    /\ \/ r.ok /\ loading = r.call.note /\ Show(r) /\ loading' = None
       \/ r.ok /\ loading # r.call.note
          /\ UNCHANGED <<text, loaded, loading, draft, rejected, misread>>
       \/ /\ ~r.ok /\ loading' = None /\ misread' = misread \cup {selected}
          /\ UNCHANGED <<text, loaded, draft, rejected>>
    /\ UNCHANGED <<pending, writing, calls, gone>>

Reloads(r) ==
    /\ selected = r.call.note
    /\ \/ r.call.do = "reload" /\ writing = None
       \/ r.call.do = "watch" /\ pending = None /\ loading = None /\ r.body # text

Reloaded(r) ==
    /\ r.call.do \in {"reload", "watch"}
    /\ IF Reloads(r)
       THEN /\ Show(r)
            /\ gone' = IF r.call.do = "reload" THEN gone \cup (text \ r.body) ELSE gone
       ELSE UNCHANGED <<text, loaded, refusals>>
    /\ UNCHANGED <<pending, loading, writing, calls>>

Apply ==
    /\ results # <<>> /\ results' = Tail(results)
    /\ LET r == Head(results) IN Written(r) \/ Rejected(r) \/ Loaded(r) \/ Reloaded(r)
    /\ UNCHANGED <<storeVars, typed, selected>>

EditorNext ==
    \/ Type
    \/ FlushPendingEdit
    \/ \E n \in Notes \cup {None} : LoadSelectedNote(n)
    \/ \E n \in Notes : ExternalWrite(n)
    \/ CopyDraft
    \/ ReloadIfChanged
    \/ RunCall
    \/ Apply

EditorSpec == EditorInit /\ [][EditorNext]_editorVars

-----------------------------------------------------------------------------
(* An edit is stored under a version only by someone who saw all of it: no  *)
(* flush takes out what another process wrote, whatever was loaded,         *)
(* rejected and reloaded while it waited.  Left out is a note that was      *)
(* misread: after a failed load the editor is blank and still has a version.*)
OthersKept == \A n \in Notes \ misread : theirs[n] \subseteq store[n].body

(* What was typed into a note is in it, in the buffer, on its way or in the *)
(* draft that is shown: no order of typing, selecting, flushing and          *)
(* reloading loses it, as long as no write to the note was rejected.  Once   *)
(* one was, it may also be gone: out of the buffer by the reload that        *)
(* follows, or with a draft that a later rejection, the next write or the    *)
(* user's copy took away.  Left out is a note that was misread.              *)
TypedIsKept ==
    \A n \in Notes \ misread :
        LET written == {c \in Range(calls) : c.do = "write" /\ c.note = n}
            refused == {r.call : r \in {s \in Range(results) : ~s.ok}}
            kept == store[n].body \cup draft
                      \cup (IF selected = n THEN text ELSE {})
                      \cup (IF pending # None /\ pending.note = n THEN pending.text ELSE {})
                      \cup UNION {c.text : c \in written \cup refused}
        IN  typed[n] \subseteq IF n \in rejected THEN kept \cup gone ELSE kept
=============================================================================
