--------------------------- MODULE EditorSession ---------------------------
(***************************************************************************)
(* The work of an author in the editor: the document in memory with its    *)
(* history, the asset files, and the recovery snapshot that is written     *)
(* beside them. Saving and recovering commit several files (a module of    *)
(* its own); the editor may die at any step of it, or at any other time.   *)
(*                                                                         *)
(* A content is the number of the edit that made it. The files are the     *)
(* window, reticle templates, which the editor finds by looking into their *)
(* folder, and resources, which it only ever creates.                      *)
(***************************************************************************)
EXTENDS EditorFileCommit

CONSTANTS
    Window,         \* the window file
    Resources,      \* files of the widgets
    MaxEdits,       \* bound: edits, over all launches
    MaxCrashes      \* bound: crashes of the editor

ASSUME EditorAssumption ==
    /\ IsFiniteSet(Files)
    /\ Window \in Files \ Resources /\ Resources \subseteq Files
    /\ None \notin Nat \cup {Theirs} /\ Partial \notin Nat \cup {None, Theirs}
    /\ {MaxEdits, MaxCrashes, MaxFaults} \subseteq Nat

VARIABLES
    editor,     \* the application, and what it holds in memory
    snapshot,   \* the recovery file: the content of a document, or NoWork
    acked,      \* history: the work that the editor has last said is safe
    orphans     \* history: backups that no transaction will remove, as <<file, content>>

vars == <<disk, job, faults, editor, snapshot, acked, orphans>>

Authored == Files \ Resources
Nothing == [f \in Files |-> None]
NoWork == Nothing

\* A document: what its files shall hold, and the template files it no longer has. edits and crashes
\* count towards their bounds.
Started(recoveryPromptPending, edits, crashes) ==
    [up |-> TRUE, open |-> FALSE, doc |-> Nothing, removed |-> {}, undo |-> <<>>, redo |-> <<>>,
     dirty |-> FALSE, prompt |-> recoveryPromptPending, edits |-> edits, crashes |-> crashes]

Down(e) == [Started(FALSE, e.edits, e.crashes) EXCEPT !.up = FALSE]

Init ==
    /\ disk = [f \in Files |-> IF f \in Resources THEN None ELSE 0]
    /\ job = NoJob /\ faults = 0
    /\ editor = Started(FALSE, 0, 0)
    /\ snapshot = NoWork
    /\ acked = disk
    /\ orphans = {}

\* The editor has one thread: while it commits files it does nothing else.
Idle == editor.up /\ job.phase = "idle"

-----------------------------------------------------------------------------
(* The document in memory. *)

Memory == [doc |-> editor.doc, removed |-> editor.removed]

\* PushUndoSnapshot before an edit.
Edited(doc, removed) ==
    [editor EXCEPT !.doc = doc, !.removed = removed, !.undo = Append(@, Memory), !.redo = <<>>,
                   !.dirty = TRUE, !.edits = @ + 1]

CanEdit == Idle /\ editor.open /\ ~editor.prompt /\ editor.edits < MaxEdits

\* A file of the document changes, or the document gets a new one. A resource gets a free name.
Edit(f) ==
    /\ CanEdit
    /\ f \in Resources => editor.doc[f] = None /\ disk[f] = None
    /\ editor' = Edited([editor.doc EXCEPT ![f] = editor.edits + 1], editor.removed)
    /\ UNCHANGED <<commitVars, snapshot, acked, orphans>>

\* A reticle template is deleted from the library.
Delete(f) ==
    /\ CanEdit
    /\ f \in Authored \ {Window} /\ editor.doc[f] # None
    /\ editor' = Edited([editor.doc EXCEPT ![f] = None], editor.removed \cup {f})
    /\ UNCHANGED <<commitVars, snapshot, acked, orphans>>

\* RestoreSnapshot: the document is dirty, also when it equals what is saved.
Restored(memory, undo, redo) ==
    [editor EXCEPT !.doc = memory.doc, !.removed = memory.removed, !.undo = undo, !.redo = redo,
                   !.dirty = TRUE]

Undo ==
    /\ Idle /\ editor.undo # <<>>
    /\ editor' = Restored(Last(editor.undo), Front(editor.undo), Append(editor.redo, Memory))
    /\ UNCHANGED <<commitVars, snapshot, acked, orphans>>

Redo ==
    /\ Idle /\ editor.redo # <<>>
    /\ editor' = Restored(Last(editor.redo), Append(editor.undo, Memory), Front(editor.redo))
    /\ UNCHANGED <<commitVars, snapshot, acked, orphans>>

\* LoadWindowConfiguration. What was imported and not saved stays staged. The load may be refused, or
\* fail to list the templates once the document has been replaced.
Loaded(e) ==
    [e EXCEPT !.open = TRUE, !.doc = [f \in Files |-> IF f \in Authored THEN disk[f] ELSE e.doc[f]],
              !.removed = {}]

LoadFails(e) == {e, Loaded(e)}
LoadSucceeds(e) == [Loaded(e) EXCEPT !.undo = <<>>, !.redo = <<>>, !.dirty = FALSE]

\* A window is opened or reloaded, be there unsaved changes or not.
Open ==
    /\ Idle
    /\ \/ editor' = LoadSucceeds(editor) /\ UNCHANGED faults
       \/ editor' \in LoadFails(editor) /\ Fault
    /\ UNCHANGED <<disk, job, snapshot, acked, orphans>>

-----------------------------------------------------------------------------
(* Saving and recovering. *)

\* SaveFilesTransactionally: a resource that is there already is not written, and has to be the same.
Conflict(content) == \E f \in Resources : content[f] # None /\ disk[f] \notin {None, content[f]}

EntriesFor(files, op) == SetToSeq({[file |-> f, op |-> op] : f \in files})

Entries(content, removed) ==
    EntriesFor({f \in Authored : content[f] # None}, "replace")
    \o EntriesFor({f \in Resources : content[f] # None /\ disk[f] = None}, "create")
    \o EntriesFor({f \in removed : content[f] = None}, "delete")

Commit(content, removed, purpose) ==
    /\ ~Conflict(content)
    /\ job' = Begin(Entries(content, removed), content, purpose)

SaveAll ==
    /\ Idle /\ editor.open
    /\ Commit(editor.doc, editor.removed, "save")
    /\ UNCHANGED <<disk, faults, editor, snapshot, acked, orphans>>

\* RecoverPreviousSession, when the author asks for it. The snapshot may be gone.
Recover ==
    /\ Idle /\ editor.prompt
    /\ editor' = [editor EXCEPT !.prompt = FALSE]
    /\ IF snapshot = NoWork \/ Conflict(snapshot) THEN UNCHANGED job
       ELSE Commit(snapshot, {}, "recover")
    /\ UNCHANGED <<disk, faults, snapshot, acked, orphans>>

\* ClearRecoverySnapshot. An error is not looked at.
Clear ==
    \/ /\ snapshot' = NoWork /\ UNCHANGED faults
    \/ /\ snapshot # NoWork /\ Fault /\ UNCHANGED snapshot

Work ==
    /\ editor.up /\ CommitStep
    /\ acked' = IF job.phase = "apply" /\ job'.phase = "cleanup" THEN job.content ELSE acked
    /\ UNCHANGED <<editor, snapshot, orphans>>

\* The backups that stay when the transaction is given up.
Kept == {<<f, job.backup[f]>> : f \in {g \in DOMAIN job.backup : job.backup[g] \notin {None, Partial}}}

Succeeded == job.phase = "committed" /\ job.reported = {}

\* Mutant: the snapshot goes whatever came of the transaction.
ClearsSnapshot_Always == TRUE

ClearsSnapshot == Succeeded

\* SaveAll and RecoverPreviousSession, once CommitAssetFiles has returned or thrown.
Finish ==
    /\ editor.up /\ job.phase \in {"committed", "rolledBack"}
    /\ job' = NoJob
    /\ orphans' = orphans \cup Kept
    /\ \/ /\ job.purpose = "save"
          /\ editor' = [editor EXCEPT !.dirty = @ /\ ~Succeeded]
          /\ IF ClearsSnapshot THEN Clear ELSE UNCHANGED <<snapshot, faults>>
       \/ /\ job.purpose = "recover" /\ Succeeded
          /\ editor' = LoadSucceeds(editor)
          /\ Clear
       \/ /\ job.purpose = "recover" /\ Succeeded /\ Fault
          /\ editor' \in LoadFails(editor)
          /\ UNCHANGED snapshot
       \/ /\ job.purpose = "recover" /\ ~Succeeded
          /\ UNCHANGED <<editor, snapshot, faults>>
    /\ UNCHANGED <<disk, acked>>

-----------------------------------------------------------------------------
(* The recovery snapshot. *)

\* Mutant: the snapshot is written in place.
OnFailedWrite_Torn == NoWork

OnFailedWrite == snapshot

\* WriteRecoverySnapshot, when the scheduler says so.
Autosave ==
    /\ Idle /\ editor.open /\ editor.dirty /\ ~editor.prompt
    /\ \/ snapshot' = editor.doc /\ acked' = editor.doc /\ UNCHANGED faults
       \/ snapshot' = OnFailedWrite /\ UNCHANGED acked /\ Fault
    /\ UNCHANGED <<disk, job, editor, orphans>>

\* What only the snapshot holds is given up with it.
GivenUp == IF \A f \in Files : acked[f] # None => disk[f] = acked[f] THEN acked ELSE NoWork

\* The author discards the snapshot.
Discard ==
    /\ Idle /\ editor.prompt
    /\ editor' = [editor EXCEPT !.prompt = FALSE]
    /\ Clear /\ acked' = GivenUp
    /\ UNCHANGED <<disk, job, orphans>>

\* A clean exit, with or without unsaved changes, and also before the prompt is answered.
Exit ==
    /\ Idle
    /\ editor' = Down(editor)
    /\ Clear /\ acked' = GivenUp
    /\ UNCHANGED <<disk, job, orphans>>

Crash ==
    /\ editor.up /\ editor.crashes < MaxCrashes
    /\ editor' = [Down(editor) EXCEPT !.crashes = @ + 1]
    /\ job' = NoJob
    /\ orphans' = orphans \cup Kept
    /\ UNCHANGED <<disk, faults, snapshot, acked>>

\* A snapshot that is left behind tells of a crash.
Launch ==
    /\ ~editor.up
    /\ editor' = Started(snapshot # NoWork, editor.edits, editor.crashes)
    /\ UNCHANGED <<commitVars, snapshot, acked, orphans>>

-----------------------------------------------------------------------------
Next ==
    \/ Undo \/ Redo \/ Open \/ SaveAll \/ Recover \/ Work \/ Finish
    \/ Autosave \/ Discard \/ Exit \/ Crash \/ Launch
    \/ \E f \in Files : Edit(f) \/ Delete(f)
    \/ \E f \in Resources : Intrude(f) /\ UNCHANGED <<editor, snapshot, acked, orphans>>

Spec == Init /\ [][Next]_vars

-----------------------------------------------------------------------------
(* Properties. *)

\* What the editor has last said is safe, by a save, a recovery or a snapshot, is not lost, whatever
\* fails and whenever the editor dies: the snapshot has it, or each of its files is in its place or
\* in a backup.
WorkIsKept ==
    \/ snapshot = acked
    \/ \A f \in Files :
          acked[f] # None =>
              \/ disk[f] = acked[f] \/ <<f, acked[f]>> \in orphans
              \/ job.phase # "idle" /\ job.backup[f] = acked[f]

=============================================================================
