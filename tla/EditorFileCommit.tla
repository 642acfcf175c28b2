-------------------------- MODULE EditorFileCommit --------------------------
(***************************************************************************)
(* CommitAssetFiles of the editor: several asset files are replaced,       *)
(* created and deleted together. All writes are staged beside their        *)
(* targets, the originals are backed up, then the writes are promoted and  *)
(* obsolete files deleted, one after the other; a failure on the way rolls *)
(* back. Any step on a file may fail, and the editor may die between two.  *)
(*                                                                         *)
(* A file is its content, or None. Temporary files have names of their own *)
(* and are seen through the entry that owns them.                          *)
(***************************************************************************)
EXTENDS Integers, Sequences, SequencesExt, FiniteSets

CONSTANTS
    Files,          \* targets
    None,           \* no file, no content
    Partial,        \* a temporary file that is not complete
    Theirs,         \* what another program writes
    MaxFaults       \* bound: steps that fail, and files of another program

VARIABLES
    disk,       \* the target files
    job,        \* the transaction
    faults      \* counts towards MaxFaults

commitVars == <<disk, job, faults>>

\* before is history: the targets when the transaction began.
NoJob ==
    [phase |-> "idle", purpose |-> "none", at |-> 1, entries |-> <<>>, content |-> <<>>,
     staged |-> <<>>, backup |-> <<>>, changed |-> {}, unrestored |-> {}, reported |-> {}, before |-> <<>>]

\* CommitAssetFiles after its checks. entries: [file, op], deletions after the writes.
Begin(entries, content, purpose) ==
    [NoJob EXCEPT !.phase = "stage", !.purpose = purpose, !.entries = entries, !.content = content,
                  !.before = disk, !.staged = [f \in Files |-> None], !.backup = [f \in Files |-> None]]

Entry == job.entries[IF job.phase = "rollback" THEN Len(job.entries) + 1 - job.at ELSE job.at]

FinalEntry(j) ==
    IF j.phase = "stage" THEN Cardinality({i \in DOMAIN j.entries : j.entries[i].op # "delete"})
    ELSE Len(j.entries)

Following ==
    [stage |-> "backup", backup |-> "apply", apply |-> "cleanup", cleanup |-> "committed",
     rollback |-> "rolledBack"]

Stepped(j) ==
    IF j.at < FinalEntry(j) THEN [j EXCEPT !.at = @ + 1]
    ELSE [j EXCEPT !.at = 1, !.phase = Following[@]]

Failed(j) == [j EXCEPT !.phase = "rollback", !.at = 1]

Fault ==
    /\ faults < MaxFaults
    /\ faults' = faults + 1

-----------------------------------------------------------------------------
\* ReserveSibling and WriteStaged.
Stage ==
    /\ job.phase = "stage"
    /\ \/ /\ job' = Stepped([job EXCEPT !.staged[Entry.file] = job.content[Entry.file]])
          /\ UNCHANGED faults
       \/ /\ Fault
          /\ \E left \in {None, Partial} : job' = Failed([job EXCEPT !.staged[Entry.file] = left])
    /\ UNCHANGED disk

Backup ==
    /\ job.phase = "backup"
    /\ \/ /\ job' = Stepped([job EXCEPT !.backup[Entry.file] = disk[Entry.file]])
          /\ UNCHANGED faults
       \/ /\ disk[Entry.file] # None /\ Fault
          /\ \E left \in {None, Partial} : job' = Failed([job EXCEPT !.backup[Entry.file] = left])
    /\ UNCHANGED disk

\* Mutant: a file that is only to be created replaces what has appeared in its place.
Promotes_Anyway(entry) == TRUE

Promotes(entry) == entry.op = "replace" \/ disk[entry.file] = None

\* Mutant: the staged file is renamed, and the entry is not marked.
Marked_Not(entry) == job.changed

Marked(entry) == job.changed \cup {entry.file}

\* Promote and the deletions. A file is linked in place before its temporary name goes.
Promotion(entry) ==
    /\ entry.op # "delete" /\ Promotes(entry)
    /\ disk' = [disk EXCEPT ![entry.file] = job.staged[entry.file]]
    /\ \/ /\ job' = Stepped([job EXCEPT !.staged[entry.file] = None, !.changed = Marked(entry)])
          /\ UNCHANGED faults
       \/ /\ entry.op = "create" /\ Fault
          /\ job' = Stepped([job EXCEPT !.changed = Marked(entry)])

Deletion(entry) ==
    /\ entry.op = "delete"
    /\ disk' = [disk EXCEPT ![entry.file] = None]
    /\ job' = Stepped(IF disk[entry.file] = None THEN job ELSE [job EXCEPT !.changed = Marked(entry)])
    /\ UNCHANGED faults

Apply ==
    /\ job.phase = "apply"
    /\ \/ Promotion(Entry) \/ Deletion(Entry)
       \/ /\ job' = Failed(job) /\ UNCHANGED disk
          /\ IF Promotes(Entry) THEN Fault ELSE UNCHANGED faults

\* CleanupTransactionFile for the backup and the staged file of an entry. Of what is there, left
\* could not be removed.
CleanedUp(j, entry, left) ==
    [j EXCEPT !.backup[entry.file] = IF "backup" \in left THEN @ ELSE None,
              !.staged[entry.file] = IF "staged" \in left THEN @ ELSE None,
              !.reported = IF left = {} THEN @ ELSE @ \cup {entry.file}]

Leftovers(entry) ==
    {left \in SUBSET {"backup", "staged"} :
        /\ "backup" \in left => job.backup[entry.file] # None
        /\ "staged" \in left => job.staged[entry.file] # None}

Cleanup ==
    /\ job.phase = "cleanup"
    /\ \E left \in Leftovers(Entry) :
          /\ IF left = {} THEN UNCHANGED faults ELSE Fault
          /\ job' = Stepped(CleanedUp(job, Entry, left))
    /\ UNCHANGED disk

\* Rollback of one entry. What had no backup was not there. When a target cannot be restored, its
\* backup stays.
RolledBack(entry) ==
    IF entry.file \in job.changed THEN [disk EXCEPT ![entry.file] = job.backup[entry.file]] ELSE disk

\* Mutant: the backup of an entry that cannot be restored is cleaned up as well.
AfterFailedRestore_Cleaned(entry) ==
    CleanedUp([job EXCEPT !.unrestored = @ \cup {entry.file}, !.reported = @ \cup {entry.file}], entry, {})

AfterFailedRestore(entry) ==
    CleanedUp([job EXCEPT !.unrestored = @ \cup {entry.file}, !.reported = @ \cup {entry.file}],
              entry, {"backup"})

Rollback ==
    /\ job.phase = "rollback"
    /\ \/ \E left \in Leftovers(Entry) :
            /\ Entry.file \in job.changed => "backup" \notin left
            /\ disk' = RolledBack(Entry)
            /\ IF left = {} THEN UNCHANGED faults ELSE Fault
            /\ job' = Stepped(CleanedUp(job, Entry, left))
       \/ /\ Entry.file \in job.changed /\ Fault
          /\ job' = Stepped(AfterFailedRestore(Entry))
          /\ UNCHANGED disk

\* Another program creates a file where there is none.
Intrude(f) ==
    /\ disk[f] = None /\ Fault
    /\ disk' = [disk EXCEPT ![f] = Theirs]
    /\ job' = IF job.phase = "idle" THEN job ELSE [job EXCEPT !.before[f] = Theirs]

CommitStep == Stage \/ Backup \/ Apply \/ Cleanup \/ Rollback

-----------------------------------------------------------------------------
\* When CommitAssetFiles returns or throws, every file is as it should be: all new, and nothing was
\* overwritten that was only to be created; or all as before, except the targets it says it could not
\* restore, whose original it says where to find. No temporary file is left that it does not report.
CommitOutcome ==
    \A i \in DOMAIN job.entries :
        LET e == job.entries[i] IN
        /\ job.phase = "committed" =>
              /\ disk[e.file] = IF e.op = "delete" THEN None ELSE job.content[e.file]
              /\ e.op = "create" => job.before[e.file] = None
        /\ job.phase = "rolledBack" =>
              \/ disk[e.file] = job.before[e.file]
              \/ e.file \in job.unrestored /\ job.backup[e.file] = job.before[e.file]
        /\ job.phase \in {"committed", "rolledBack"} /\ e.file \notin job.reported =>
              job.staged[e.file] = None /\ job.backup[e.file] = None
=============================================================================
