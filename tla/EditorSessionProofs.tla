------------------------ MODULE EditorSessionProofs ------------------------
(***************************************************************************)
(* What the editor says is safe is not lost, and a commit leaves all of    *)
(* its files new or all as they were, for any set of files, number of      *)
(* failures, edits and crashes.                                            *)
(***************************************************************************)
EXTENDS EditorSession, SequenceTheorems, FiniteSetTheorems, TLAPS

-----------------------------------------------------------------------------
(* The types of the session. A file holds the number of an edit or what       *)
(* another program wrote; the window file is always there.                    *)

Contents == Nat \cup {None, Theirs}
Documents == {doc \in [Files -> Contents] : doc[Window] # None}
Removals == SUBSET (Authored \ {Window})
Memories == [doc : Documents, removed : Removals]

EntryType == [file : Files, op : {"replace", "create", "delete"}]

Phases == {"stage", "backup", "apply", "cleanup", "committed", "rollback", "rolledBack"}

Jobs ==
    [phase : Phases, purpose : {"save", "recover"}, at : Nat \ {0}, entries : Seq(EntryType),
     content : Documents, staged : [Files -> Contents \cup {Partial}],
     backup : [Files -> Contents \cup {Partial}], changed : SUBSET Files,
     unrestored : SUBSET Files, reported : SUBSET Files, before : Documents]

Editors ==
    [up : BOOLEAN, open : BOOLEAN, doc : [Files -> Contents], removed : Removals,
     undo : Seq(Memories), redo : Seq(Memories), dirty : BOOLEAN, prompt : BOOLEAN,
     edits : Nat, crashes : Nat]

\* A document that is open has a window; what cannot be undone to is not in the history.
EditorTypes(e) ==
    /\ e \in Editors
    /\ IF e.open THEN e.doc \in Documents ELSE e.undo = <<>> /\ e.redo = <<>>

SessionTypes ==
    /\ disk \in Documents /\ EditorTypes(editor)
    /\ snapshot \in Documents \cup {NoWork}
    /\ acked \in [Files -> Contents]

-----------------------------------------------------------------------------
(* A transaction. Its entries are of distinct files, writes before deletions; *)
(* the other files keep what they hold, which is the content wanted of them.  *)

Planned(j, files) ==
    /\ \A i, k \in DOMAIN j.entries : j.entries[i].file = j.entries[k].file => i = k
    /\ \E writes \in 1..Len(j.entries) :
          \A i \in DOMAIN j.entries : j.entries[i].op # "delete" <=> i <= writes
    /\ \A i \in DOMAIN j.entries :
          LET e == j.entries[i] IN
          /\ e.op = "delete" <=> j.content[e.file] = None
          /\ e.op = "create" <=> e.file \in Resources
    /\ \A f \in Files :
          \/ j.content[f] \in {None, files[f]} /\ files[f] = j.before[f]
          \/ \E i \in DOMAIN j.entries : j.entries[i].file = f

\* What is known of an entry in a phase that has come past it (done), or has not.
Untouched(f, j, files) == f \notin j.changed /\ files[f] = j.before[f]
BackedUp(e, j) == j.backup[e.file] = j.before[e.file] \/ (j.backup[e.file] = None /\ e.op = "create")
New(e, j, files) == files[e.file] = j.content[e.file] /\ (e.op = "create" => j.before[e.file] = None)
Clean(f, j) == f \notin j.reported => j.staged[f] = None /\ j.backup[f] = None

\* The target of an entry changed, and its backup can bring the original back.
Restorable(e, j, files) ==
    /\ j.backup[e.file] = j.before[e.file]
    /\ e.op = "create" => files[e.file] # None

EntryAt(phase, done, e, j, files) ==
    LET f == e.file IN
    CASE phase = "stage" -> /\ Untouched(f, j, files) /\ j.backup[f] = None
                            /\ j.staged[f] = IF done THEN j.content[f] ELSE None
      [] phase = "backup" -> /\ Untouched(f, j, files) /\ j.staged[f] = j.content[f]
                             /\ IF done THEN BackedUp(e, j) ELSE j.backup[f] = None
      [] phase = "apply" -> IF done
                            THEN /\ New(e, j, files) /\ j.backup[f] = j.before[f]
                                 /\ f \in j.changed \/ files[f] = j.before[f]
                            ELSE /\ Untouched(f, j, files) /\ BackedUp(e, j)
                                 /\ j.staged[f] = j.content[f]
      [] phase = "cleanup" -> New(e, j, files) /\ (done => Clean(f, j))
      [] phase = "committed" -> New(e, j, files) /\ Clean(f, j)
      [] phase = "rollback" -> IF done
                               THEN /\ \/ files[f] = j.before[f]
                                       \/ f \in j.unrestored /\ Restorable(e, j, files)
                                    /\ Clean(f, j)
                               ELSE IF f \in j.changed THEN Restorable(e, j, files)
                                    ELSE files[f] = j.before[f]
      [] phase = "rolledBack" -> /\ \/ files[f] = j.before[f]
                                    \/ f \in j.unrestored /\ Restorable(e, j, files)
                                 /\ Clean(f, j)

Passed(j, phase, at, i) == IF phase = "rollback" THEN i > Len(j.entries) + 1 - at ELSE i < at

EntriesAt(phase, at, j, files) ==
    \A i \in DOMAIN j.entries : EntryAt(phase, Passed(j, phase, at, i), j.entries[i], j, files)

Running(j, files) ==
    /\ j \in Jobs
    /\ j.at <= FinalEntry(j) \/ j.phase \in {"committed", "rolledBack"}
    /\ Planned(j, files)
    /\ EntriesAt(j.phase, j.at, j, files)

\* What a step of a transaction leaves as it is, and where it goes.
SamePlan(j, k) == j.entries = k.entries /\ j.content = k.content /\ j.before = k.before

Continues(j, s, files) ==
    /\ Running(s, files) /\ SamePlan(j, s)
    /\ \/ s.phase \in {j.phase, Following[j.phase]}
       \/ j.phase \in {"stage", "backup", "apply"} /\ s.phase = "rollback"

JobInv == job = NoJob \/ Running(job, disk)

\* Unless the snapshot has it, the acknowledged work was in its place, or in a backup that
\* stays, when the transaction began; once all is written it is the transaction's own.
HeldBy(files) ==
    \/ snapshot = acked
    \/ \A f \in Files : acked[f] # None => files[f] = acked[f] \/ <<f, acked[f]>> \in orphans

WorkInv ==
    CASE job.phase = "idle" -> HeldBy(disk)
      [] job.phase \in {"cleanup", "committed"} -> acked = job.content
      [] OTHER -> HeldBy(job.before)

IInv == SessionTypes /\ JobInv /\ WorkInv

-----------------------------------------------------------------------------
(* Stepping through the entries.                                            *)

Steps == {"stage", "backup", "apply", "cleanup", "rollback"}
Current(j) == IF j.phase = "rollback" THEN Len(j.entries) + 1 - j.at ELSE j.at

LEMMA FinalEntryType ==
  ASSUME NEW j \in Jobs, NEW files, Planned(j, files)
  PROVE  /\ FinalEntry(j) \in 1..Len(j.entries)
         /\ j.phase # "stage" => FinalEntry(j) = Len(j.entries)
         /\ j.phase = "stage" =>
               \A i \in DOMAIN j.entries : j.entries[i].op # "delete" <=> i <= FinalEntry(j)
  <1>1. j.entries \in Seq(EntryType)
    BY DEF Jobs
  <1>2. Len(j.entries) \in Nat /\ DOMAIN j.entries = 1..Len(j.entries)
    BY <1>1, LenProperties
  <1>3. PICK writes \in 1..Len(j.entries) :
           \A i \in DOMAIN j.entries : j.entries[i].op # "delete" <=> i <= writes
    BY DEF Planned
  <1>4. {i \in DOMAIN j.entries : j.entries[i].op # "delete"} = 1..writes
    BY <1>2, <1>3
  <1>5. Cardinality(1..writes) = writes
    BY <1>2, <1>3, FS_Interval
  <1>6. j.phase = "stage" => FinalEntry(j) = writes
    BY <1>4, <1>5 DEF FinalEntry
  <1>7. j.phase # "stage" => FinalEntry(j) = Len(j.entries)
    BY DEF FinalEntry
  <1> QED
    BY <1>2, <1>3, <1>6, <1>7

SameFields(s, j) ==
    /\ s.purpose = j.purpose /\ s.entries = j.entries /\ s.content = j.content
    /\ s.staged = j.staged /\ s.backup = j.backup /\ s.changed = j.changed
    /\ s.unrestored = j.unrestored /\ s.reported = j.reported /\ s.before = j.before

Moved(j, phase, at) == [[j EXCEPT !.at = at] EXCEPT !.phase = phase]

LEMMA MovedFields ==
  ASSUME NEW j \in Jobs, NEW p \in Phases, NEW a \in Nat \ {0}
  PROVE  LET s == Moved(j, p, a) IN
         s \in Jobs /\ SameFields(s, j) /\ s.at = a /\ s.phase = p
  <1> DEFINE t == [j EXCEPT !.at = a]
             s == [t EXCEPT !.phase = p]
  <1>1. t \in Jobs /\ SameFields(t, j) /\ t.at = a
    BY DEF Jobs, SameFields
  <1> HIDE DEF t
  <1>2. s \in Jobs /\ SameFields(s, t) /\ s.at = t.at /\ s.phase = p
    BY <1>1 DEF Jobs, SameFields
  <1> HIDE DEF s
  <1>3. s \in Jobs /\ SameFields(s, j) /\ s.at = a /\ s.phase = p
    BY <1>1, <1>2 DEF SameFields
  <1> QED
    BY <1>3 DEF s, t, Moved

LEMMA SteppedFields ==
  ASSUME NEW j \in Jobs, j.phase \in Steps
  PROVE  LET s == Stepped(j) IN
         /\ s \in Jobs /\ SameFields(s, j)
         /\ j.at < FinalEntry(j) => s.at = j.at + 1 /\ s.phase = j.phase
         /\ ~(j.at < FinalEntry(j)) => s.at = 1 /\ s.phase = Following[j.phase]
  <1>1. CASE j.at < FinalEntry(j)
    <2>1. Stepped(j) = [j EXCEPT !.at = j.at + 1]
      BY <1>1 DEF Stepped
    <2>2. j.at + 1 \in Nat \ {0}
      BY DEF Jobs
    <2> QED
      BY <1>1, <2>1, <2>2 DEF Jobs, SameFields
  <1>2. CASE ~(j.at < FinalEntry(j))
    <2>1. Stepped(j) = Moved(j, Following[j.phase], 1)
      BY <1>2 DEF Stepped, Moved
    <2>2. Following[j.phase] \in Phases
      BY DEF Following, Steps, Phases
    <2> QED
      BY <1>2, <2>1, <2>2, MovedFields
  <1> QED
    BY <1>1, <1>2

LEMMA FailedFields ==
  ASSUME NEW j \in Jobs
  PROVE  LET s == Failed(j) IN s \in Jobs /\ SameFields(s, j) /\ s.at = 1 /\ s.phase = "rollback"
  <1>1. Failed(j) = Moved(j, "rollback", 1)
    BY DEF Failed, Moved, Jobs
  <1>2. "rollback" \in Phases
    BY DEF Phases
  <1> QED
    BY <1>1, <1>2, MovedFields

\* Two states of a transaction that agree on a file.
Agree(f, j, files, k, others) ==
    /\ files[f] = others[f] /\ j.staged[f] = k.staged[f] /\ j.backup[f] = k.backup[f]
    /\ f \in j.changed <=> f \in k.changed
    /\ f \in j.unrestored <=> f \in k.unrestored
    /\ f \in j.reported <=> f \in k.reported

LEMMA AgreeingEntry ==
  ASSUME NEW j, NEW files, NEW k, NEW others, NEW e \in EntryType, NEW phase, NEW done,
         j.content[e.file] = k.content[e.file], j.before[e.file] = k.before[e.file],
         Agree(e.file, j, files, k, others), EntryAt(phase, done, e, j, files)
  PROVE  EntryAt(phase, done, e, k, others)
  BY DEF Agree, EntryAt, Untouched, BackedUp, New, Clean, Restorable

\* An entry that a phase has come past is one that the next phase has before it.
LEMMA NextPhase ==
  ASSUME NEW j, NEW files, NEW e, NEW phase \in Steps, NEW done, NEW passed,
         EntryAt(phase, done, e, j, files),
         phase # "stage" => done,
         phase = "stage" => (done <=> e.op # "delete"),
         e.op = "delete" => j.content[e.file] = None,
         ~passed \/ Following[phase] \in {"committed", "rolledBack"}
  PROVE  EntryAt(Following[phase], passed, e, j, files)
  <1>1. CASE phase = "stage"
    <2>1. Following[phase] = "backup" /\ ~passed
      BY <1>1 DEF Following
    <2> QED
      BY <1>1, <2>1 DEF EntryAt
  <1>2. CASE phase = "backup"
    <2>1. Following[phase] = "apply" /\ ~passed
      BY <1>2 DEF Following
    <2> QED
      BY <1>2, <2>1 DEF EntryAt
  <1>3. CASE phase = "apply"
    <2>1. Following[phase] = "cleanup" /\ ~passed
      BY <1>3 DEF Following
    <2> QED
      BY <1>3, <2>1 DEF EntryAt
  <1>4. CASE phase = "cleanup"
    <2>1. Following[phase] = "committed"
      BY <1>4 DEF Following
    <2> QED
      BY <1>4, <2>1 DEF EntryAt
  <1>5. CASE phase = "rollback"
    <2>1. Following[phase] = "rolledBack"
      BY <1>5 DEF Following
    <2> QED
      BY <1>5, <2>1 DEF EntryAt
  <1> QED
    BY <1>1, <1>2, <1>3, <1>4, <1>5 DEF Steps

\* When the current entry has been dealt with, the transaction may step.
LEMMA StepKeepsEntries ==
  ASSUME NEW j \in Jobs, NEW files, NEW k \in Jobs, NEW others,
         j.phase \in Steps, j.at <= FinalEntry(j), Planned(j, files),
         k.phase = j.phase, k.at = j.at, SamePlan(j, k),
         \A f \in Files \ {j.entries[Current(j)].file} : Agree(f, j, files, k, others),
         EntriesAt(j.phase, j.at, j, files),
         EntryAt(j.phase, TRUE, j.entries[Current(j)], k, others)
  PROVE  Continues(j, Stepped(k), others)
  <1> DEFINE c == Current(j)
             n == Len(j.entries)
             s == Stepped(k)
  <1>1. j.entries \in Seq(EntryType) /\ n \in Nat /\ DOMAIN j.entries = 1..n /\ j.at \in Nat \ {0}
        /\ \A i \in 1..n : j.entries[i] \in EntryType
    <2>1. j.entries \in Seq(EntryType) /\ j.at \in Nat \ {0}
      BY DEF Jobs
    <2> QED
      BY <2>1, LenProperties, ElementOfSeq
  <1>2. FinalEntry(j) \in 1..n /\ c \in 1..n /\ FinalEntry(k) = FinalEntry(j)
    <2>1. FinalEntry(j) \in 1..n
      BY FinalEntryType
    <2>2. FinalEntry(k) = FinalEntry(j)
      BY DEF FinalEntry, SamePlan
    <2> QED
      BY <1>1, <2>1, <2>2 DEF Current
  <1>3. Planned(k, others)
    <2>1. \A f \in Files \ {j.entries[c].file} : files[f] = others[f]
      BY DEF Agree
    <2>2. \A f \in Files :
             \/ k.content[f] \in {None, others[f]} /\ others[f] = k.before[f]
             \/ \E i \in DOMAIN k.entries : k.entries[i].file = f
      <3>1. TAKE f \in Files
      <3>2. CASE f = j.entries[c].file
        BY <1>1, <1>2, <3>2 DEF SamePlan
      <3>3. CASE f # j.entries[c].file
        BY <2>1, <3>3 DEF Planned, SamePlan
      <3> QED
        BY <3>2, <3>3
    <2> QED
      BY <2>2 DEF Planned, SamePlan
  <1>4. EntriesAt(j.phase, j.at + 1, k, others)
    <2> SUFFICES ASSUME NEW i \in DOMAIN k.entries
                 PROVE  EntryAt(j.phase, Passed(k, j.phase, j.at + 1, i), k.entries[i], k, others)
      BY DEF EntriesAt
    <2>1. i \in 1..n /\ k.entries[i] = j.entries[i] /\ k.entries[i] \in EntryType /\ Len(k.entries) = n
      BY <1>1 DEF SamePlan
    <2>2. CASE i = c
      <3>1. Passed(k, j.phase, j.at + 1, i)
        BY <1>1, <2>1, <2>2 DEF Passed, Current
      <3> QED
        BY <2>1, <2>2, <3>1
    <2>3. CASE i # c
      <3>1. Passed(k, j.phase, j.at + 1, i) <=> Passed(j, j.phase, j.at, i)
        BY <1>1, <2>1, <2>3 DEF Passed, Current
      <3>2. EntryAt(j.phase, Passed(j, j.phase, j.at, i), j.entries[i], j, files)
        BY <1>1, <2>1 DEF EntriesAt
      <3>3. j.entries[i].file \in Files /\ j.entries[i].file # j.entries[c].file
        BY <1>1, <1>2, <2>1, <2>3 DEF Planned, EntryType
      <3>4. EntryAt(j.phase, Passed(j, j.phase, j.at, i), k.entries[i], k, others)
        BY <2>1, <3>2, <3>3, AgreeingEntry DEF SamePlan
      <3> QED
        BY <3>1, <3>4 DEF EntryAt
    <2> QED
      BY <2>2, <2>3
  <1>5. /\ s \in Jobs
        /\ s.entries = k.entries /\ s.content = k.content /\ s.before = k.before
        /\ s.staged = k.staged /\ s.backup = k.backup /\ s.changed = k.changed
        /\ s.unrestored = k.unrestored /\ s.reported = k.reported
        /\ j.at < FinalEntry(j) => s.at = j.at + 1 /\ s.phase = j.phase
        /\ ~(j.at < FinalEntry(j)) => s.at = 1 /\ s.phase = Following[j.phase]
    BY <1>2, SteppedFields DEF SameFields
  <1>6. SamePlan(k, s) /\ (\A f \in Files : Agree(f, k, others, s, others)) /\ Planned(s, others)
    BY <1>3, <1>5 DEF SamePlan, Agree, Planned
  <1>7. ASSUME NEW phase, NEW at, EntriesAt(phase, at, k, others)
        PROVE  EntriesAt(phase, at, s, others)
    <2> SUFFICES ASSUME NEW i \in DOMAIN s.entries
                 PROVE  EntryAt(phase, Passed(s, phase, at, i), s.entries[i], s, others)
      BY DEF EntriesAt
    <2>1. i \in DOMAIN k.entries /\ s.entries[i] = k.entries[i] /\ k.entries[i] \in EntryType
      BY <1>1, <1>5 DEF SamePlan
    <2>2. Passed(s, phase, at, i) = Passed(k, phase, at, i)
      BY <1>5 DEF Passed
    <2>3. EntryAt(phase, Passed(k, phase, at, i), k.entries[i], k, others)
      BY <1>7, <2>1 DEF EntriesAt
    <2> QED
      BY <1>6, <2>1, <2>2, <2>3, AgreeingEntry DEF EntryType, SamePlan
  <1> SUFFICES Running(s, others)
    BY <1>5 DEF Continues, SamePlan
  <1>8. CASE j.at < FinalEntry(j)
    <2>1. FinalEntry(s) = FinalEntry(j)
      BY <1>5, <1>8 DEF FinalEntry, SamePlan
    <2> QED
      <3>1. s.phase = j.phase /\ s.at = j.at + 1
        BY <1>5, <1>8
      <3>2. EntriesAt(s.phase, s.at, s, others)
        BY <1>4, <1>7, <3>1
      <3>3. s.at <= FinalEntry(s)
        BY <1>1, <1>2, <1>8, <2>1, <3>1
      <3> QED
        BY <1>5, <1>6, <3>2, <3>3 DEF Running
  <1>9. CASE ~(j.at < FinalEntry(j))
    <2>1. j.at = FinalEntry(j)
      BY <1>1, <1>2, <1>9
    <2>2. s.at = 1 /\ s.phase = Following[j.phase]
      BY <1>5, <1>9
    <2>3. FinalEntry(s) \in 1..n
      BY <1>5, <1>6, FinalEntryType DEF SamePlan
    <2>4. EntriesAt(Following[j.phase], 1, k, others)
      <3> SUFFICES ASSUME NEW i \in DOMAIN k.entries
                   PROVE  EntryAt(Following[j.phase], Passed(k, Following[j.phase], 1, i), k.entries[i], k, others)
        BY DEF EntriesAt
      <3> DEFINE e == k.entries[i]
      <3>1. i \in 1..n /\ e \in EntryType /\ Len(k.entries) = n
        BY <1>1 DEF SamePlan
      <3>2. EntryAt(j.phase, Passed(k, j.phase, j.at + 1, i), e, k, others)
        BY <1>4 DEF EntriesAt
      <3>3. j.phase # "stage" => Passed(k, j.phase, j.at + 1, i)
        <4>1. j.phase # "stage" => j.at = n
          BY <2>1, FinalEntryType
        <4> QED
          BY <1>1, <3>1, <4>1 DEF Passed
      <3>4. ~Passed(k, Following[j.phase], 1, i) \/ Following[j.phase] \in {"committed", "rolledBack"}
        BY <3>1 DEF Passed, Following, Steps
      <3>5. j.phase = "stage" => (Passed(k, j.phase, j.at + 1, i) <=> e.op # "delete")
        <4>1. j.phase = "stage" => (e.op # "delete" <=> i <= j.at)
          BY <1>1, <2>1, <3>1, FinalEntryType DEF SamePlan
        <4> QED
          BY <1>1, <3>1, <4>1 DEF Passed
      <3>6. e.op = "delete" => k.content[e.file] = None
        BY <1>3 DEF Planned
      <3> HIDE DEF e
      <3> QED
        BY <3>2, <3>3, <3>4, <3>5, <3>6, NextPhase DEF e
    <2>5. EntriesAt(s.phase, s.at, s, others)
      BY <1>7, <2>2, <2>4
    <2> QED
      BY <1>1, <1>5, <1>6, <2>2, <2>3, <2>5 DEF Running
  <1> QED
    BY <1>8, <1>9 DEF Running

\* Where a running transaction is.
LEMMA AtEntry ==
  ASSUME NEW j, NEW files, Running(j, files), j.phase \in Steps
  PROVE  LET e == j.entries[Current(j)] IN
         /\ j \in Jobs /\ Planned(j, files) /\ j.at <= FinalEntry(j)
         /\ e \in EntryType /\ Current(j) \in DOMAIN j.entries
         /\ EntryAt(j.phase, FALSE, e, j, files)
         /\ e.op = "delete" <=> j.content[e.file] = None
         /\ e.op = "create" <=> e.file \in Resources
         /\ j.phase = "stage" => e.op # "delete"
  <1> DEFINE c == Current(j)
             n == Len(j.entries)
  <1>1. j \in Jobs /\ Planned(j, files) /\ j.at <= FinalEntry(j)
    BY DEF Running, Steps
  <1>2. j.entries \in Seq(EntryType) /\ j.at \in Nat \ {0}
    BY <1>1 DEF Jobs
  <1>3. n \in Nat /\ DOMAIN j.entries = 1..n /\ \A i \in 1..n : j.entries[i] \in EntryType
    BY <1>2, LenProperties, ElementOfSeq
  <1>4. FinalEntry(j) \in 1..n
    BY <1>1, FinalEntryType
  <1>5. c \in 1..n /\ ~Passed(j, j.phase, j.at, c)
    BY <1>1, <1>2, <1>3, <1>4 DEF Current, Passed
  <1>6. EntryAt(j.phase, Passed(j, j.phase, j.at, c), j.entries[c], j, files)
    BY <1>3, <1>5 DEF Running, EntriesAt
  <1>7. EntryAt(j.phase, FALSE, j.entries[c], j, files)
    BY <1>5, <1>6 DEF EntryAt
  <1>8. j.phase = "stage" => j.entries[c].op # "delete"
    BY <1>1, <1>3, <1>5, FinalEntryType DEF Current
  <1> QED
    BY <1>1, <1>3, <1>5, <1>7, <1>8 DEF Planned

\* A failure before the cleanup: whatever changed can be rolled back.
LEMMA FailureCanRollBack ==
  ASSUME NEW j, NEW files, Running(j, files), j.phase \in {"stage", "backup", "apply"},
         NEW k \in Jobs, SamePlan(j, k), k.changed = j.changed,
         \A f \in j.changed : k.backup[f] = j.backup[f]
  PROVE  Continues(j, Failed(k), files)
  <1> DEFINE s == Failed(k)
             n == Len(j.entries)
  <1>1. j \in Jobs /\ Planned(j, files)
    BY DEF Running
  <1>2. /\ s \in Jobs /\ s.entries = j.entries /\ s.content = j.content /\ s.before = j.before
        /\ s.changed = j.changed /\ s.backup = k.backup /\ s.at = 1 /\ s.phase = "rollback"
    BY FailedFields DEF SameFields, SamePlan
  <1>3. Planned(s, files)
    BY <1>1, <1>2 DEF Planned
  <1>4. s.at <= FinalEntry(s)
    BY <1>2, <1>3, FinalEntryType
  <1>5. EntriesAt("rollback", 1, s, files)
    <2> SUFFICES ASSUME NEW i \in DOMAIN s.entries
                 PROVE  EntryAt("rollback", Passed(s, "rollback", 1, i), s.entries[i], s, files)
      BY DEF EntriesAt
    <2> DEFINE e == j.entries[i]
               done == Passed(j, j.phase, j.at, i)
    <2>1. j.entries \in Seq(EntryType)
      BY <1>1 DEF Jobs
    <2>2. n \in Nat /\ i \in 1..n /\ e \in EntryType
      BY <1>2, <2>1, LenProperties, ElementOfSeq
    <2>3. EntryAt(j.phase, done, e, j, files)
      BY <1>2, <2>2 DEF Running, EntriesAt
    <2>4. ~Passed(s, "rollback", 1, i)
      BY <1>2, <2>2 DEF Passed
    <2>5. e.op = "create" => j.content[e.file] # None
      BY <1>1, <1>2 DEF Planned
    <2> HIDE DEF e, done
    <2>6. IF e.file \in j.changed THEN Restorable(e, j, files) ELSE files[e.file] = j.before[e.file]
      <3>1. CASE j.phase = "stage"
        BY <2>3, <3>1 DEF EntryAt, Untouched
      <3>2. CASE j.phase = "backup"
        BY <2>3, <3>2 DEF EntryAt, Untouched
      <3>3. CASE j.phase = "apply"
        BY <2>3, <2>5, <3>3 DEF EntryAt, Untouched, New, Restorable
      <3> QED
        BY <3>1, <3>2, <3>3
    <2>7. IF e.file \in s.changed THEN Restorable(e, s, files) ELSE files[e.file] = s.before[e.file]
      BY <1>2, <2>6 DEF Restorable
    <2>8. EntryAt("rollback", FALSE, e, s, files)
      BY <2>7 DEF EntryAt
    <2> QED
      BY <1>2, <2>4, <2>8 DEF EntryAt, e
  <1> QED
    BY <1>2, <1>3, <1>4, <1>5 DEF Running, Continues, SamePlan

-----------------------------------------------------------------------------
(* The steps of a commit.                                                   *)


LEMMA StagedFields ==
  ASSUME NEW j \in Jobs, NEW f \in Files, NEW v \in Contents \cup {Partial}
  PROVE  LET k == [j EXCEPT !.staged[f] = v] IN
         /\ k \in Jobs /\ k.phase = j.phase /\ k.at = j.at /\ SamePlan(j, k)
         /\ k.staged = [j.staged EXCEPT ![f] = v] /\ k.backup = j.backup
         /\ k.changed = j.changed /\ k.unrestored = j.unrestored /\ k.reported = j.reported
  BY DEF Jobs, SamePlan

LEMMA BackupFields ==
  ASSUME NEW j \in Jobs, NEW f \in Files, NEW v \in Contents \cup {Partial}
  PROVE  LET k == [j EXCEPT !.backup[f] = v] IN
         /\ k \in Jobs /\ k.phase = j.phase /\ k.at = j.at /\ SamePlan(j, k)
         /\ k.backup = [j.backup EXCEPT ![f] = v] /\ k.staged = j.staged
         /\ k.changed = j.changed /\ k.unrestored = j.unrestored /\ k.reported = j.reported
  BY DEF Jobs, SamePlan

LEMMA ChangedFields ==
  ASSUME NEW j \in Jobs, NEW changed \in SUBSET Files
  PROVE  LET k == [j EXCEPT !.changed = changed] IN
         /\ k \in Jobs /\ k.phase = j.phase /\ k.at = j.at /\ SamePlan(j, k)
         /\ k.backup = j.backup /\ k.staged = j.staged
         /\ k.changed = changed /\ k.unrestored = j.unrestored /\ k.reported = j.reported
  BY DEF Jobs, SamePlan

\* What is cleaned up of an entry, and what is not of the others.
CleanedFrom(j, k, f, left) ==
    /\ k \in Jobs /\ k.phase = j.phase /\ k.at = j.at /\ SamePlan(j, k)
    /\ k.changed = j.changed /\ k.unrestored = j.unrestored
    /\ \A g \in Files \ {f} :
          /\ k.backup[g] = j.backup[g] /\ k.staged[g] = j.staged[g]
          /\ g \in k.reported <=> g \in j.reported
    /\ "backup" \in left => k.backup[f] = j.backup[f]
    /\ f \notin k.reported => k.backup[f] = None /\ k.staged[f] = None

LEMMA CleanedFields ==
  ASSUME NEW j \in Jobs, NEW e \in EntryType, NEW left
  PROVE  CleanedFrom(j, CleanedUp(j, e, left), e.file, left)
  <1> DEFINE b == [j.backup EXCEPT ![e.file] = IF "backup" \in left THEN @ ELSE None]
             t == [j.staged EXCEPT ![e.file] = IF "staged" \in left THEN @ ELSE None]
             r == IF left = {} THEN j.reported ELSE j.reported \cup {e.file}
             k == CleanedUp(j, e, left)
  <1>1. e.file \in Files
    BY DEF EntryType
  <1>2. None \in Contents
    BY DEF Contents
  <1>3. /\ b \in [Files -> Contents \cup {Partial}]
        /\ t \in [Files -> Contents \cup {Partial}]
        /\ r \in SUBSET Files
    BY <1>1, <1>2 DEF Jobs
  <1>4. k = [j EXCEPT !.backup = b, !.staged = t, !.reported = r]
    BY DEF CleanedUp
  <1>5. /\ \A g \in Files \ {e.file} : b[g] = j.backup[g] /\ t[g] = j.staged[g]
        /\ \A g \in Files \ {e.file} : g \in r <=> g \in j.reported
        /\ "backup" \in left => b[e.file] = j.backup[e.file]
    BY <1>1 DEF Jobs
  <1>6. e.file \notin r => b[e.file] = None /\ t[e.file] = None
    <2>1. e.file \notin r => left = {}
      OBVIOUS
    <2> QED
      BY <1>1, <2>1 DEF Jobs
  <1> HIDE DEF b, t, r, k
  <1>7. k \in Jobs /\ k.phase = j.phase /\ k.at = j.at /\ SamePlan(j, k)
    BY <1>3, <1>4 DEF Jobs, SamePlan
  <1>8. /\ k.changed = j.changed /\ k.unrestored = j.unrestored
        /\ k.backup = b /\ k.staged = t /\ k.reported = r
    BY <1>4 DEF Jobs
  <1>9. CleanedFrom(j, k, e.file, left)
    BY <1>5, <1>6, <1>7, <1>8 DEF CleanedFrom
  <1> QED
    BY <1>9 DEF k

\* The current entry of the running transaction.
LEMMA EntryIsCurrent == Entry = job.entries[Current(job)]
  BY DEF Entry, Current

LEMMA StageRuns ==
  ASSUME Running(job, disk), Stage
  PROVE  Continues(job, job', disk') /\ UNCHANGED disk
  <1> DEFINE e == Entry
             f == e.file
             j == job
  <1>1. j.phase = "stage" /\ j.phase \in Steps /\ UNCHANGED disk
    BY DEF Stage, Steps
  <1>2. /\ j \in Jobs /\ Planned(j, disk) /\ j.at <= FinalEntry(j)
        /\ e \in EntryType /\ EntryAt("stage", FALSE, e, j, disk) /\ EntriesAt(j.phase, j.at, j, disk)
    BY <1>1, AtEntry, EntryIsCurrent DEF Running
  <1>3. f \in Files /\ j.content[f] \in Contents \cup {Partial}
    BY <1>2 DEF EntryType, Jobs, Documents
  <1>4. CASE job' = Stepped([job EXCEPT !.staged[f] = job.content[f]])
    <2> DEFINE k == [j EXCEPT !.staged[f] = j.content[f]]
    <2>1. /\ k \in Jobs /\ k.phase = j.phase /\ k.at = j.at /\ SamePlan(j, k)
          /\ k.staged = [j.staged EXCEPT ![f] = j.content[f]] /\ k.backup = j.backup
          /\ k.changed = j.changed /\ k.unrestored = j.unrestored /\ k.reported = j.reported
      BY <1>2, <1>3, StagedFields
    <2> HIDE DEF k
    <2>2. \A g \in Files \ {f} : Agree(g, j, disk, k, disk)
      BY <1>2, <2>1 DEF Agree, Jobs
    <2>3. EntryAt("stage", TRUE, e, k, disk)
      BY <1>2, <1>3, <2>1 DEF EntryAt, Untouched, SamePlan, Jobs
    <2>4. Continues(j, Stepped(k), disk)
      BY <1>1, <1>2, <2>1, <2>2, <2>3, StepKeepsEntries, EntryIsCurrent
    <2> QED
      BY <1>1, <1>4, <2>4 DEF k
  <1>5. ASSUME NEW left \in {None, Partial}, job' = Failed([job EXCEPT !.staged[f] = left])
        PROVE  Continues(job, job', disk')
    <2> DEFINE k == [j EXCEPT !.staged[f] = left]
    <2>1. k \in Jobs /\ SamePlan(j, k) /\ k.changed = j.changed /\ k.backup = j.backup
      BY <1>2, <1>3, <1>5, StagedFields DEF Contents
    <2> HIDE DEF k
    <2>2. Continues(j, Failed(k), disk)
      BY <1>1, <2>1, FailureCanRollBack
    <2> QED
      BY <1>1, <1>5, <2>2 DEF k
  <1> QED
    BY <1>1, <1>4, <1>5 DEF Stage

LEMMA BackupRuns ==
  ASSUME disk \in Documents, Running(job, disk), Backup
  PROVE  Continues(job, job', disk') /\ UNCHANGED disk
  <1> DEFINE e == Entry
             f == e.file
             j == job
  <1>1. j.phase = "backup" /\ j.phase \in Steps /\ UNCHANGED disk
    BY DEF Backup, Steps
  <1>2. /\ j \in Jobs /\ Planned(j, disk) /\ j.at <= FinalEntry(j)
        /\ e \in EntryType /\ EntryAt("backup", FALSE, e, j, disk) /\ EntriesAt(j.phase, j.at, j, disk)
    BY <1>1, AtEntry, EntryIsCurrent DEF Running
  <1>3. f \in Files /\ disk[f] \in Contents \cup {Partial} /\ f \notin j.changed
    BY <1>2 DEF EntryType, Documents, EntryAt, Untouched
  <1>4. CASE job' = Stepped([job EXCEPT !.backup[f] = disk[f]])
    <2> DEFINE k == [j EXCEPT !.backup[f] = disk[f]]
    <2>1. /\ k \in Jobs /\ k.phase = j.phase /\ k.at = j.at /\ SamePlan(j, k)
          /\ k.backup = [j.backup EXCEPT ![f] = disk[f]] /\ k.staged = j.staged
          /\ k.changed = j.changed /\ k.unrestored = j.unrestored /\ k.reported = j.reported
      BY <1>2, <1>3, BackupFields
    <2> HIDE DEF k
    <2>2. \A g \in Files \ {f} : Agree(g, j, disk, k, disk)
      BY <1>2, <2>1 DEF Agree, Jobs
    <2>3. k.backup[f] = disk[f]
      BY <1>2, <1>3, <2>1 DEF Jobs
    <2>4. EntryAt("backup", TRUE, e, k, disk)
      BY <1>2, <2>1, <2>3 DEF EntryAt, Untouched, SamePlan, BackedUp
    <2>5. Continues(j, Stepped(k), disk)
      BY <1>1, <1>2, <2>1, <2>2, <2>4, StepKeepsEntries, EntryIsCurrent
    <2> QED
      BY <1>1, <1>4, <2>5 DEF k
  <1>5. ASSUME NEW left \in {None, Partial}, job' = Failed([job EXCEPT !.backup[f] = left])
        PROVE  Continues(job, job', disk')
    <2> DEFINE k == [j EXCEPT !.backup[f] = left]
    <2>1. /\ k \in Jobs /\ SamePlan(j, k) /\ k.changed = j.changed
          /\ k.backup = [j.backup EXCEPT ![f] = left]
      BY <1>2, <1>3, <1>5, BackupFields DEF Contents
    <2> HIDE DEF k
    <2>2. \A g \in j.changed : k.backup[g] = j.backup[g]
      BY <1>2, <1>3, <2>1 DEF Jobs
    <2>3. Continues(j, Failed(k), disk)
      BY <1>1, <2>1, <2>2, FailureCanRollBack
    <2> QED
      BY <1>1, <1>5, <2>3 DEF k
  <1> QED
    BY <1>1, <1>4, <1>5 DEF Backup

\* A target gets a content that a document may have there.
Put(files, f, v) == [files EXCEPT ![f] = v]

LEMMA DiskChange ==
  ASSUME NEW files \in Documents, NEW f \in Files, NEW v \in Contents, f = Window => v # None
  PROVE  /\ Put(files, f, v) \in Documents /\ Put(files, f, v)[f] = v
         /\ \A g \in Files \ {f} : Put(files, f, v)[g] = files[g]
  BY EditorAssumption DEF Documents, Put

\* What Apply makes of an entry that has not been changed: the new content, and a backup of the old.
LEMMA AppliedEntry ==
  ASSUME NEW j \in Jobs, NEW files, NEW k, NEW others, NEW e \in EntryType,
         EntryAt("apply", FALSE, e, j, files), SamePlan(j, k),
         k.backup = j.backup, others[e.file] = j.content[e.file],
         e.op = "create" => files[e.file] = None,
         e.file \in k.changed \/ others[e.file] = files[e.file]
  PROVE  EntryAt("apply", TRUE, e, k, others)
  BY DEF EntryAt, Untouched, BackedUp, New, SamePlan

LEMMA ApplyRuns ==
  ASSUME disk \in Documents, Running(job, disk), Apply
  PROVE  Continues(job, job', disk') /\ disk' \in Documents
  <1> DEFINE e == Entry
             f == e.file
             j == job
  <1>1. j.phase = "apply" /\ j.phase \in Steps
    BY DEF Apply, Steps
  <1>2. /\ j \in Jobs /\ Planned(j, disk) /\ j.at <= FinalEntry(j)
        /\ e \in EntryType /\ EntryAt("apply", FALSE, e, j, disk) /\ EntriesAt(j.phase, j.at, j, disk)
        /\ e.op = "delete" <=> j.content[e.file] = None
    BY <1>1, AtEntry, EntryIsCurrent DEF Running
  <1>3. /\ f \in Files /\ j.content[f] \in Contents /\ (f = Window => j.content[f] # None)
        /\ None \in Contents \cup {Partial} /\ j.staged[f] = j.content[f]
        /\ j.changed \cup {f} \in SUBSET Files
    BY <1>2 DEF EntryType, Jobs, Documents, Contents, EntryAt
  <1>4. ASSUME NEW k \in Jobs, k.phase = j.phase, k.at = j.at, SamePlan(j, k), k.backup = j.backup,
               k.unrestored = j.unrestored, k.reported = j.reported,
               \A g \in Files \ {f} : k.staged[g] = j.staged[g] /\ (g \in k.changed <=> g \in j.changed),
               disk' = [disk EXCEPT ![f] = j.content[f]],
               e.op = "create" => disk[f] = None,
               f \in k.changed \/ disk'[f] = disk[f]
        PROVE  Continues(j, Stepped(k), disk') /\ disk' \in Documents
    <2>1. disk' \in Documents /\ disk'[f] = j.content[f] /\ \A g \in Files \ {f} : disk'[g] = disk[g]
      <3>1. disk' = Put(disk, f, j.content[f])
        BY <1>4 DEF Put
      <3> QED
        BY <1>3, <3>1, DiskChange
    <2>2. EntryAt("apply", TRUE, e, k, disk')
      BY <1>2, <1>4, <2>1, AppliedEntry
    <2>3. \A g \in Files \ {f} : Agree(g, j, disk, k, disk')
      BY <1>4, <2>1 DEF Agree
    <2>4. Continues(j, Stepped(k), disk')
      BY <1>1, <1>2, <1>4, <2>2, <2>3, StepKeepsEntries, EntryIsCurrent
    <2> QED
      BY <2>1, <2>4
  <1>5. CASE Promotion(Entry)
    <2> DEFINE s == [j EXCEPT !.staged[f] = None]
               k == [s EXCEPT !.changed = j.changed \cup {f}]
               m == [j EXCEPT !.changed = j.changed \cup {f}]
    <2>1. /\ disk' = [disk EXCEPT ![f] = j.content[f]]
          /\ e.op = "create" => disk[f] = None
          /\ job' = Stepped([job EXCEPT !.staged[f] = None, !.changed = job.changed \cup {f}])
             \/ job' = Stepped([job EXCEPT !.changed = job.changed \cup {f}])
      BY <1>3, <1>5 DEF Promotion, Promotes, Marked
    <2>2. CASE job' = Stepped([job EXCEPT !.changed = job.changed \cup {f}])
      <3>1. /\ m \in Jobs /\ m.phase = j.phase /\ m.at = j.at /\ SamePlan(j, m)
            /\ m.backup = j.backup /\ m.staged = j.staged
            /\ m.changed = j.changed \cup {f} /\ m.unrestored = j.unrestored /\ m.reported = j.reported
        BY <1>2, <1>3, ChangedFields
      <3>2. job' = Stepped(m)
        BY <2>2
      <3> HIDE DEF m
      <3> QED
        BY <1>4, <2>1, <3>1, <3>2
    <2>3. CASE job' = Stepped([job EXCEPT !.staged[f] = None, !.changed = job.changed \cup {f}])
      <3>1. /\ s \in Jobs /\ s.phase = j.phase /\ s.at = j.at /\ SamePlan(j, s)
            /\ s.staged = [j.staged EXCEPT ![f] = None] /\ s.backup = j.backup
            /\ s.changed = j.changed /\ s.unrestored = j.unrestored /\ s.reported = j.reported
        BY <1>2, <1>3, StagedFields
      <3>2. job' = Stepped(k)
        BY <2>3
      <3>3. \A g \in Files \ {f} : s.staged[g] = j.staged[g]
        BY <1>2, <3>1 DEF Jobs
      <3> HIDE DEF s
      <3>4. /\ k \in Jobs /\ k.phase = s.phase /\ k.at = s.at /\ SamePlan(s, k)
            /\ k.backup = s.backup /\ k.staged = s.staged
            /\ k.changed = j.changed \cup {f} /\ k.unrestored = s.unrestored /\ k.reported = s.reported
        BY <1>3, <3>1, ChangedFields
      <3> HIDE DEF k
      <3>5. SamePlan(j, k)
        BY <3>1, <3>4 DEF SamePlan
      <3> QED
        BY <1>4, <2>1, <3>1, <3>2, <3>3, <3>4, <3>5
    <2> QED
      BY <2>1, <2>2, <2>3
  <1>6. CASE Deletion(Entry)
    <2> DEFINE m == [j EXCEPT !.changed = j.changed \cup {f}]
    <2>1. e.op = "delete" /\ j.content[f] = None /\ disk' = [disk EXCEPT ![f] = j.content[f]]
      BY <1>2, <1>6 DEF Deletion
    <2>2. CASE disk[f] = None
      <3>1. job' = Stepped(j)
        BY <1>6, <2>2 DEF Deletion
      <3>2. disk'[f] = disk[f]
        BY <1>3, <2>1, <2>2 DEF Documents
      <3> QED
        BY <1>2, <1>4, <2>1, <3>1, <3>2 DEF SamePlan
    <2>3. CASE disk[f] # None
      <3>1. job' = Stepped(m)
        BY <1>6, <2>3 DEF Deletion, Marked
      <3>2. /\ m \in Jobs /\ m.phase = j.phase /\ m.at = j.at /\ SamePlan(j, m)
            /\ m.backup = j.backup /\ m.staged = j.staged
            /\ m.changed = j.changed \cup {f} /\ m.unrestored = j.unrestored /\ m.reported = j.reported
        BY <1>2, <1>3, ChangedFields
      <3> HIDE DEF m
      <3> QED
        BY <1>4, <2>1, <3>1, <3>2
    <2> QED
      BY <2>2, <2>3
  <1>7. CASE job' = Failed(job) /\ UNCHANGED disk
    <2>1. SamePlan(j, j)
      BY DEF SamePlan
    <2>2. Continues(j, Failed(j), disk)
      BY <1>1, <1>2, <2>1, FailureCanRollBack
    <2> QED
      BY <1>7, <2>2
  <1> QED
    BY <1>5, <1>6, <1>7 DEF Apply

LEMMA CleanupRuns ==
  ASSUME Running(job, disk), Cleanup
  PROVE  Continues(job, job', disk') /\ UNCHANGED disk
  <1> DEFINE e == Entry
             f == e.file
             j == job
  <1>1. j.phase = "cleanup" /\ j.phase \in Steps /\ UNCHANGED disk
    BY DEF Cleanup, Steps
  <1>2. /\ j \in Jobs /\ Planned(j, disk) /\ j.at <= FinalEntry(j)
        /\ e \in EntryType /\ EntryAt("cleanup", FALSE, e, j, disk) /\ EntriesAt(j.phase, j.at, j, disk)
    BY <1>1, AtEntry, EntryIsCurrent DEF Running
  <1>3. f \in Files
    BY <1>2 DEF EntryType
  <1>4. PICK left : job' = Stepped(CleanedUp(j, e, left))
    BY DEF Cleanup
  <1> DEFINE k == CleanedUp(j, e, left)
  <1>5. CleanedFrom(j, k, f, left)
    BY <1>2, CleanedFields
  <1> HIDE DEF k
  <1>6. \A g \in Files \ {f} : Agree(g, j, disk, k, disk)
    BY <1>5 DEF Agree, CleanedFrom
  <1>8. Clean(f, k)
    BY <1>5 DEF Clean, CleanedFrom
  <1>9. EntryAt("cleanup", TRUE, e, k, disk)
    BY <1>2, <1>5, <1>8 DEF EntryAt, New, SamePlan, CleanedFrom
  <1>10. Continues(j, Stepped(k), disk)
    BY <1>1, <1>2, <1>5, <1>6, <1>9, StepKeepsEntries, EntryIsCurrent DEF CleanedFrom
  <1> QED
    BY <1>1, <1>4, <1>10 DEF k

LEMMA RollbackRuns ==
  ASSUME disk \in Documents, Running(job, disk), Rollback
  PROVE  Continues(job, job', disk') /\ disk' \in Documents
  <1> DEFINE e == Entry
             f == e.file
             j == job
  <1>1. j.phase = "rollback" /\ j.phase \in Steps
    BY DEF Rollback, Steps
  <1>2. /\ j \in Jobs /\ Planned(j, disk) /\ j.at <= FinalEntry(j)
        /\ e \in EntryType /\ EntryAt("rollback", FALSE, e, j, disk) /\ EntriesAt(j.phase, j.at, j, disk)
    BY <1>1, AtEntry, EntryIsCurrent DEF Running
  <1>3. f \in Files /\ j.before \in Documents /\ j.unrestored \cup {f} \in SUBSET Files
        /\ j.reported \cup {f} \in SUBSET Files
    BY <1>2 DEF EntryType, Jobs
  <1>4. ASSUME NEW left, f \in j.changed => "backup" \notin left, disk' = RolledBack(e),
               job' = Stepped(CleanedUp(j, e, left))
        PROVE  Continues(job, job', disk') /\ disk' \in Documents
    <2> DEFINE k == CleanedUp(j, e, left)
    <2>1. CleanedFrom(j, k, f, left)
      BY <1>2, CleanedFields
    <2>2. job' = Stepped(k)
      BY <1>4
    <2> HIDE DEF k
    <2>3. disk' \in Documents /\ disk'[f] = j.before[f] /\ \A g \in Files \ {f} : disk'[g] = disk[g]
      <3>1. CASE f \in j.changed
        <4>1. j.backup[f] = j.before[f]
          BY <1>2, <3>1 DEF EntryAt, Restorable
        <4>2. disk' = Put(disk, f, j.before[f])
          BY <1>4, <3>1, <4>1 DEF RolledBack, Put
        <4>3. j.before[f] \in Contents /\ (f = Window => j.before[f] # None)
          BY <1>3 DEF Documents
        <4> QED
          BY <1>3, <4>2, <4>3, DiskChange
      <3>2. CASE f \notin j.changed
        BY <1>2, <1>4, <3>2 DEF EntryAt, RolledBack
      <3> QED
        BY <3>1, <3>2
    <2>4. \A g \in Files \ {f} : Agree(g, j, disk, k, disk')
      BY <2>1, <2>3 DEF Agree, CleanedFrom
    <2>6. Clean(f, k)
      BY <2>1 DEF Clean, CleanedFrom
    <2>7. EntryAt("rollback", TRUE, e, k, disk')
      BY <2>1, <2>3, <2>6 DEF EntryAt, SamePlan, CleanedFrom
    <2>8. Continues(j, Stepped(k), disk')
      BY <1>1, <1>2, <2>1, <2>4, <2>7, StepKeepsEntries, EntryIsCurrent DEF CleanedFrom
    <2> QED
      BY <2>2, <2>3, <2>8
  <1>5. ASSUME f \in j.changed, job' = Stepped(AfterFailedRestore(e)), UNCHANGED disk
        PROVE  Continues(job, job', disk') /\ disk' \in Documents
    <2> DEFINE s == [j EXCEPT !.unrestored = @ \cup {e.file}, !.reported = @ \cup {e.file}]
               k == CleanedUp(s, e, {"backup"})
    <2>1. job' = Stepped(k)
      BY <1>5 DEF AfterFailedRestore
    <2>2. /\ s \in Jobs /\ s.phase = j.phase /\ s.at = j.at /\ SamePlan(j, s)
          /\ s.backup = j.backup /\ s.staged = j.staged /\ s.changed = j.changed
          /\ s.unrestored = j.unrestored \cup {f} /\ s.reported = j.reported \cup {f}
      <3> DEFINE u == j.unrestored \cup {f}
                 r == j.reported \cup {f}
      <3>1. u \in SUBSET Files /\ r \in SUBSET Files
        BY <1>3
      <3>2. s = [j EXCEPT !.unrestored = u, !.reported = r]
        OBVIOUS
      <3> HIDE DEF u, r, s
      <3> QED
        BY <1>2, <3>1, <3>2 DEF Jobs, SamePlan, u, r
    <2> HIDE DEF s
    <2>3. CleanedFrom(s, k, f, {"backup"})
      BY <1>2, <2>2, CleanedFields
    <2> HIDE DEF k
    <2>4. /\ SamePlan(j, k) /\ k.phase = j.phase /\ k.at = j.at /\ k.backup[f] = j.backup[f]
          /\ f \in k.unrestored /\ Clean(f, k)
      BY <2>2, <2>3 DEF SamePlan, CleanedFrom, Clean
    <2>5. \A g \in Files \ {f} : Agree(g, j, disk, k, disk)
      BY <2>2, <2>3 DEF Agree, CleanedFrom
    <2>6. EntryAt("rollback", TRUE, e, k, disk)
      BY <1>2, <1>5, <2>4 DEF EntryAt, Restorable, SamePlan
    <2>7. Continues(j, Stepped(k), disk)
      BY <1>1, <1>2, <2>3, <2>4, <2>5, <2>6, StepKeepsEntries, EntryIsCurrent DEF CleanedFrom
    <2> QED
      BY <1>5, <2>1, <2>7
  <1> QED
    BY <1>4, <1>5 DEF Rollback

\* A file of another program, where an entry is to create one, is what was there before.
LEMMA IntrudeRuns ==
  ASSUME disk \in Documents, Running(job, disk), NEW f \in Resources, Intrude(f)
  PROVE  /\ Running(job, disk)' /\ disk' \in Documents
         /\ job'.phase = job.phase /\ job'.content = job.content
         /\ \A g \in Files \ {f} : job'.before[g] = job.before[g]
         /\ job.phase \in {"cleanup", "committed"} \/ job.before[f] = None
  <1> DEFINE j == job
             before == Put(j.before, f, Theirs)
             k == [j EXCEPT !.before = before]
  <1>1. j \in Jobs /\ Planned(j, disk) /\ EntriesAt(j.phase, j.at, j, disk) /\ j.before \in Documents
    BY DEF Running, Jobs
  <1>2. f \in Files /\ f # Window /\ Theirs \in Contents /\ Theirs # None /\ disk[f] = None
    BY EditorAssumption DEF Contents, Intrude
  <1>3. /\ before \in Documents /\ before[f] = Theirs
        /\ \A g \in Files \ {f} : before[g] = j.before[g]
    BY <1>1, <1>2, DiskChange
  <1>4. disk' = Put(disk, f, Theirs) /\ job' = k
    <2>1. j.phase # "idle"
      BY <1>1 DEF Jobs, Phases
    <2> QED
      BY <2>1 DEF Intrude, Put
  <1>5. disk' \in Documents /\ disk'[f] = Theirs /\ \A g \in Files \ {f} : disk'[g] = disk[g]
    BY <1>2, <1>4, DiskChange
  <1> HIDE DEF before
  <1>6. /\ k \in Jobs /\ k.phase = j.phase /\ k.at = j.at /\ k.entries = j.entries
        /\ k.content = j.content /\ k.staged = j.staged /\ k.backup = j.backup
        /\ k.changed = j.changed /\ k.unrestored = j.unrestored /\ k.reported = j.reported
        /\ k.before = before
    BY <1>1, <1>3 DEF Jobs
  <1> HIDE DEF k
  <1>7. Planned(k, disk')
    <2>1. \A g \in Files : \/ k.content[g] \in {None, disk'[g]} /\ disk'[g] = k.before[g]
                          \/ \E i \in DOMAIN k.entries : k.entries[i].file = g
      BY <1>1, <1>2, <1>3, <1>5, <1>6 DEF Planned
    <2> QED
      BY <1>1, <1>6, <2>1 DEF Planned
  <1>8. ASSUME NEW i \in DOMAIN j.entries, NEW done, EntryAt(j.phase, done, j.entries[i], j, disk)
        PROVE  EntryAt(j.phase, done, j.entries[i], k, disk')
    <2> DEFINE e == j.entries[i]
    <2>1. e \in EntryType
      <3>1. j.entries \in Seq(EntryType)
        BY <1>1 DEF Jobs
      <3> QED
        BY <3>1, LenProperties, ElementOfSeq
    <2>2. (e.op = "create" <=> e.file \in Resources) /\ (e.op = "delete" <=> j.content[e.file] = None)
      BY <1>1 DEF Planned
    <2>3. e.file \in Files
      BY <2>1 DEF EntryType
    <2> HIDE DEF e
    <2>4. CASE e.file # f
      <3>1. disk'[e.file] = disk[e.file] /\ k.before[e.file] = j.before[e.file]
        BY <1>3, <1>5, <1>6, <2>3, <2>4
      <3>2. Agree(e.file, j, disk, k, disk')
        BY <1>6, <3>1 DEF Agree
      <3>3. EntryAt(j.phase, done, e, j, disk)
        BY <1>8 DEF e
      <3>4. EntryAt(j.phase, done, e, k, disk')
        BY <1>6, <2>1, <3>1, <3>2, <3>3, AgreeingEntry
      <3> QED
        BY <3>4 DEF e
    <2>5. CASE e.file = f
      <3>1. e.op = "create" /\ j.content[f] # None
        BY <2>2, <2>5
      <3>2. disk'[f] = k.before[f] /\ disk[f] = None
        BY <1>2, <1>3, <1>5, <1>6
      <3>3. EntryAt(j.phase, done, e, j, disk)
        BY <1>8 DEF e
      <3>4. EntryAt(j.phase, done, e, k, disk')
        <4>1. CASE j.phase = "stage"
          BY <1>6, <2>5, <3>2, <3>3, <4>1 DEF EntryAt, Untouched
        <4>2. CASE j.phase = "backup"
          BY <1>2, <1>6, <2>5, <3>1, <3>2, <3>3, <4>2 DEF EntryAt, Untouched, BackedUp
        <4>3. CASE j.phase = "apply"
          BY <1>2, <1>6, <2>5, <3>1, <3>2, <3>3, <4>3 DEF EntryAt, Untouched, BackedUp, New
        <4>4. CASE j.phase = "cleanup"
          BY <2>5, <3>1, <3>2, <3>3, <4>4 DEF EntryAt, New
        <4>5. CASE j.phase = "committed"
          BY <2>5, <3>1, <3>2, <3>3, <4>5 DEF EntryAt, New
        <4>6. CASE j.phase = "rollback"
          BY <1>6, <2>5, <3>1, <3>2, <3>3, <4>6 DEF EntryAt, Clean, Restorable
        <4>7. CASE j.phase = "rolledBack"
          BY <1>6, <2>5, <3>1, <3>2, <3>3, <4>7 DEF EntryAt, Clean, Restorable
        <4>8. j.phase \in Phases
          BY <1>1 DEF Jobs
        <4> QED
          BY <4>1, <4>2, <4>3, <4>4, <4>5, <4>6, <4>7, <4>8 DEF Phases
      <3> QED
        BY <3>4 DEF e
    <2> QED
      BY <2>4, <2>5
  <1>9. EntriesAt(k.phase, k.at, k, disk')
    BY <1>1, <1>6, <1>8 DEF EntriesAt, Passed
  <1>10. FinalEntry(k) = FinalEntry(j)
    BY <1>6 DEF FinalEntry
  <1>11. Running(k, disk')
    BY <1>6, <1>7, <1>9, <1>10 DEF Running
  <1>12. job.phase \in {"cleanup", "committed"} \/ j.before[f] = None
    <2>1. CASE \E i \in DOMAIN j.entries : j.entries[i].file = f
      <3>1. PICK i \in DOMAIN j.entries : j.entries[i].file = f
        BY <2>1
      <3> DEFINE e == j.entries[i]
                 done == Passed(j, j.phase, j.at, i)
      <3>2. EntryAt(j.phase, done, e, j, disk) /\ e.op = "create" /\ j.content[f] # None /\ e.file = f
        BY <1>1, <3>1 DEF EntriesAt, Planned
      <3>3. j.phase \in Phases
        BY <1>1 DEF Jobs
      <3> HIDE DEF e, done
      <3> QED
        BY <1>2, <3>2, <3>3 DEF EntryAt, Untouched, New, Restorable, Phases
    <2>2. CASE ~(\E i \in DOMAIN j.entries : j.entries[i].file = f)
      BY <1>1, <1>2, <2>2 DEF Planned
    <2> QED
      BY <2>1, <2>2
  <1> QED
    BY <1>3, <1>4, <1>5, <1>6, <1>11, <1>12

-----------------------------------------------------------------------------
(* What a commit begins with.                                               *)

LEMMA SetToSeqIsEnumeration ==
  ASSUME NEW S, IsFiniteSet(S)
  PROVE  LET s == SetToSeq(S) IN
         /\ s \in Seq(S) /\ Len(s) = Cardinality(S)
         /\ \A i, k \in DOMAIN s : s[i] = s[k] => i = k
         /\ \A x \in S : \E i \in DOMAIN s : s[i] = x
  <1> DEFINE n == Cardinality(S)
             s == SetToSeq(S)
  <1>1. n \in Nat /\ ExistsBijection(1..n, S)
    BY FS_CardinalityType
  <1>2. PICK b \in Bijection(1..n, S) : TRUE
    BY <1>1 DEF ExistsBijection
  <1>3. b \in [1..n -> S] /\ IsInjective(b)
    BY <1>2 DEF Bijection, Injection, IsInjective
  <1>4. s \in [1..n -> S] /\ IsInjective(s)
    BY <1>3 DEF SetToSeq
  <1> HIDE DEF s
  <1>5. s \in Seq(S) /\ Len(s) = n /\ DOMAIN s = 1..n
    BY <1>1, <1>4, IsASeq, LenProperties
  <1>6. s \in Injection(1..n, S)
    BY <1>4 DEF Injection, IsInjective
  <1>7. s \in Surjection(1..n, S)
    BY <1>1, <1>6, FS_Injection, FS_Interval
  <1>8. \A x \in S : \E i \in 1..n : s[i] = x
    BY <1>7 DEF Surjection
  <1> QED
    BY <1>4, <1>5, <1>8 DEF s, IsInjective

\* Entries of one kind: one for each of the files.
Lists(s, files, op) ==
    /\ s \in Seq(EntryType) /\ Len(s) \in Nat /\ DOMAIN s = 1..Len(s)
    /\ \A i \in DOMAIN s : s[i].file \in files /\ s[i].op = op
    /\ \A i, k \in DOMAIN s : s[i].file = s[k].file => i = k
    /\ \A f \in files : \E i \in DOMAIN s : s[i].file = f

LEMMA EntriesForLists ==
  ASSUME NEW files \in SUBSET Files, NEW op \in {"replace", "create", "delete"}
  PROVE  Lists(EntriesFor(files, op), files, op)
  <1> DEFINE S == {[file |-> f, op |-> op] : f \in files}
             s == SetToSeq(S)
             g == [f \in files |-> [file |-> f, op |-> op]]
  <1>1. IsFiniteSet(files)
    BY EditorAssumption, FS_Subset
  <1>2. g \in Surjection(files, S)
    BY DEF Surjection
  <1>3. IsFiniteSet(S)
    BY <1>1, <1>2, FS_Surjection
  <1>4. \A x \in S : x.file \in files /\ x.op = op /\ x = [file |-> x.file, op |-> op]
    OBVIOUS
  <1>5. \A f \in files : [file |-> f, op |-> op] \in S
    OBVIOUS
  <1>6. S \subseteq EntryType
    BY DEF EntryType
  <1> HIDE DEF S, g
  <1>7. /\ s \in Seq(S)
        /\ \A i, k \in DOMAIN s : s[i] = s[k] => i = k
        /\ \A x \in S : \E i \in DOMAIN s : s[i] = x
    BY <1>3, SetToSeqIsEnumeration
  <1> HIDE DEF s
  <1>8. Len(s) \in Nat /\ DOMAIN s = 1..Len(s) /\ \A i \in DOMAIN s : s[i] \in S
    BY <1>7, LenProperties, ElementOfSeq
  <1>9. s \in Seq(EntryType)
    BY <1>6, <1>7, <1>8, SeqDef
  <1>10. \A i \in DOMAIN s : s[i].file \in files /\ s[i].op = op
    BY <1>4, <1>8
  <1>11. \A i, k \in DOMAIN s : s[i].file = s[k].file => i = k
    BY <1>4, <1>7, <1>8
  <1>12. \A f \in files : \E i \in DOMAIN s : s[i].file = f
    <2>1. TAKE f \in files
    <2>2. PICK i \in DOMAIN s : s[i] = [file |-> f, op |-> op]
      BY <1>5, <1>7
    <2>3. s[i].file = f
      BY <2>2
    <2> QED
      BY <2>3
  <1> QED
    BY <1>8, <1>9, <1>10, <1>11, <1>12 DEF Lists, EntriesFor, s, S

\* One list after the other.
LEMMA ListsJoined ==
  ASSUME NEW s \in Seq(EntryType), NEW t \in Seq(EntryType)
  PROVE  LET st == s \o t IN
         /\ st \in Seq(EntryType) /\ Len(st) = Len(s) + Len(t) /\ DOMAIN st = 1..Len(st)
         /\ Len(s) \in Nat /\ Len(t) \in Nat
         /\ \A i \in 1..Len(s) : i \in DOMAIN st /\ st[i] = s[i]
         /\ \A i \in 1..Len(t) : i + Len(s) \in DOMAIN st /\ st[i + Len(s)] = t[i]
         /\ \A i \in DOMAIN st : i > Len(s) => i - Len(s) \in 1..Len(t) /\ st[i] = t[i - Len(s)]
  <1> DEFINE st == s \o t
  <1>1. Len(s) \in Nat /\ Len(t) \in Nat
    BY LenProperties
  <1>2. /\ st \in Seq(EntryType) /\ Len(st) = Len(s) + Len(t)
        /\ \A i \in 1..Len(s) + Len(t) : st[i] = IF i <= Len(s) THEN s[i] ELSE t[i - Len(s)]
    BY ConcatProperties
  <1> HIDE DEF st
  <1>3. DOMAIN st = 1..Len(st)
    BY <1>2, LenProperties
  <1>4. ASSUME NEW i \in 1..Len(t)
        PROVE  i + Len(s) \in DOMAIN st /\ st[i + Len(s)] = t[i]
    <2>1. i + Len(s) \in 1..Len(s) + Len(t) /\ ~(i + Len(s) <= Len(s)) /\ (i + Len(s)) - Len(s) = i
      BY <1>1
    <2> QED
      BY <1>2, <1>3, <2>1
  <1> QED
    BY <1>1, <1>2, <1>3, <1>4 DEF st

LEMMA BeginRuns ==
  ASSUME disk \in Documents, NEW content \in Documents, NEW removed \in Removals,
         NEW purpose \in {"save", "recover"}, ~Conflict(content)
  PROVE  Running(Begin(Entries(content, removed), content, purpose), disk)
  <1> DEFINE A == {f \in Authored : content[f] # None}
             B == {f \in Resources : content[f] # None /\ disk[f] = None}
             C == {f \in removed : content[f] = None}
             a == EntriesFor(A, "replace")
             b == EntriesFor(B, "create")
             c == EntriesFor(C, "delete")
             ab == a \o b
             es == ab \o c
             j == Begin(es, content, purpose)
  <1>1. /\ A \in SUBSET Files /\ B \in SUBSET Files /\ C \in SUBSET Files
        /\ A \cap B = {} /\ A \cap C = {} /\ B \cap C = {} /\ Window \in A
        /\ \A f \in A \cup B : content[f] # None
        /\ \A f \in C : content[f] = None
        /\ A \cap Resources = {} /\ B \subseteq Resources /\ C \cap Resources = {}
    BY EditorAssumption DEF Authored, Removals, Documents
  <1>2. \A f \in Files : content[f] \in {None, disk[f]} \/ f \in A \cup B
    BY DEF Conflict, Authored
  <1> HIDE DEF A, B, C
  <1>3. Lists(a, A, "replace") /\ Lists(b, B, "create") /\ Lists(c, C, "delete")
    BY <1>1, EntriesForLists
  <1> HIDE DEF a, b, c
  <1> DEFINE la == Len(a)
             lb == Len(b)
             lc == Len(c)
  <1>4. /\ ab \in Seq(EntryType) /\ Len(ab) = la + lb /\ DOMAIN ab = 1..Len(ab)
        /\ \A i \in 1..la : i \in DOMAIN ab /\ ab[i] = a[i]
        /\ \A i \in 1..lb : i + la \in DOMAIN ab /\ ab[i + la] = b[i]
        /\ \A i \in DOMAIN ab : i > la => i - la \in 1..lb /\ ab[i] = b[i - la]
    BY <1>3, ListsJoined DEF Lists
  <1> HIDE DEF ab
  <1>5. /\ es \in Seq(EntryType) /\ Len(es) = Len(ab) + lc /\ DOMAIN es = 1..Len(es)
        /\ \A i \in 1..Len(ab) : i \in DOMAIN es /\ es[i] = ab[i]
        /\ \A i \in 1..lc : i + Len(ab) \in DOMAIN es /\ es[i + Len(ab)] = c[i]
        /\ \A i \in DOMAIN es : i > Len(ab) => i - Len(ab) \in 1..lc /\ es[i] = c[i - Len(ab)]
    <2>1. ab \in Seq(EntryType) /\ c \in Seq(EntryType)
      BY <1>3, <1>4 DEF Lists
    <2> QED
      BY <2>1, ListsJoined
  <1> HIDE DEF es
  <1>6. /\ la \in Nat /\ lb \in Nat /\ lc \in Nat /\ la >= 1
        /\ DOMAIN a = 1..la /\ DOMAIN b = 1..lb /\ DOMAIN c = 1..lc
    <2>1. la \in Nat /\ lb \in Nat /\ lc \in Nat
          /\ DOMAIN a = 1..la /\ DOMAIN b = 1..lb /\ DOMAIN c = 1..lc
      BY <1>3 DEF Lists
    <2>2. PICK i \in DOMAIN a : a[i].file = Window
      BY <1>1, <1>3 DEF Lists
    <2> QED
      BY <2>1, <2>2
  <1>7. \A i \in DOMAIN es :
           \/ i \in 1..la /\ es[i] = a[i]
           \/ i - la \in 1..lb /\ i > la /\ i <= la + lb /\ es[i] = b[i - la]
           \/ i - (la + lb) \in 1..lc /\ i > la + lb /\ es[i] = c[i - (la + lb)]
    BY <1>4, <1>5, <1>6
  <1>8. /\ \A i \in 1..la : a[i].op = "replace" /\ a[i].file \in A
        /\ \A i \in 1..lb : b[i].op = "create" /\ b[i].file \in B
        /\ \A i \in 1..lc : c[i].op = "delete" /\ c[i].file \in C
    BY <1>3, <1>6 DEF Lists
  <1>9. \A i \in DOMAIN es :
           LET e == es[i] IN
           /\ e.op = "delete" <=> i > la + lb
           /\ e.op = "delete" <=> content[e.file] = None
           /\ e.op = "create" <=> e.file \in Resources
           /\ i \in 1..la <=> e.file \in A
           /\ i > la + lb <=> e.file \in C
    <2>1. TAKE i \in DOMAIN es
    <2>2. i \in Int
      BY <1>5
    <2>3. CASE i \in 1..la /\ es[i] = a[i]
      BY <1>1, <1>6, <1>8, <2>2, <2>3
    <2>4. CASE i - la \in 1..lb /\ i > la /\ i <= la + lb /\ es[i] = b[i - la]
      BY <1>1, <1>6, <1>8, <2>2, <2>4
    <2>5. CASE i - (la + lb) \in 1..lc /\ i > la + lb /\ es[i] = c[i - (la + lb)]
      BY <1>1, <1>6, <1>8, <2>2, <2>5
    <2> QED
      BY <1>7, <2>3, <2>4, <2>5
  <1>10. \A i, k \in DOMAIN es : es[i].file = es[k].file => i = k
    <2>1. /\ \A i, k \in 1..la : a[i].file = a[k].file => i = k
          /\ \A i, k \in 1..lb : b[i].file = b[k].file => i = k
          /\ \A i, k \in 1..lc : c[i].file = c[k].file => i = k
      BY <1>3, <1>6 DEF Lists
    <2> SUFFICES ASSUME NEW i \in DOMAIN es, NEW k \in DOMAIN es, es[i].file = es[k].file
                 PROVE  i = k
      OBVIOUS
    <2>2. (i \in 1..la <=> k \in 1..la) /\ (i > la + lb <=> k > la + lb)
      BY <1>9
    <2>3. i \in Int /\ k \in Int
      BY <1>5
    <2>4. CASE i \in 1..la
      BY <1>6, <1>7, <2>1, <2>2, <2>3, <2>4
    <2>5. CASE i > la + lb
      BY <1>6, <1>7, <2>1, <2>2, <2>3, <2>5
    <2>6. CASE ~(i \in 1..la) /\ ~(i > la + lb)
      <3>1. es[i] = b[i - la] /\ es[k] = b[k - la] /\ i - la \in 1..lb /\ k - la \in 1..lb
        BY <1>6, <1>7, <2>2, <2>3, <2>6
      <3>2. i - la = k - la
        BY <2>1, <3>1
      <3> QED
        BY <1>6, <2>3, <3>2
    <2> QED
      BY <2>4, <2>5, <2>6
  <1>11. \A f \in A \cup B : \E i \in DOMAIN es : es[i].file = f
    <2>1. TAKE f \in A \cup B
    <2>2. CASE f \in A
      <3>1. PICK i \in 1..la : a[i].file = f
        BY <1>3, <1>6, <2>2 DEF Lists
      <3>2. i \in DOMAIN es /\ es[i] = a[i]
        BY <1>4, <1>5, <1>6
      <3> QED
        BY <3>1, <3>2
    <2>3. CASE f \in B
      <3>1. PICK i \in 1..lb : b[i].file = f
        BY <1>3, <1>6, <2>3 DEF Lists
      <3>2. i + la \in DOMAIN es /\ es[i + la] = b[i]
        BY <1>4, <1>5, <1>6
      <3> QED
        BY <3>1, <3>2
    <2> QED
      BY <2>2, <2>3
  <1>12. la + lb \in 1..Len(es) /\ Len(es) \in Nat
    BY <1>4, <1>5, <1>6
  <1>13. /\ j \in Jobs /\ j.phase = "stage" /\ j.at = 1 /\ j.entries = es /\ j.content = content
         /\ j.before = disk /\ j.changed = {}
         /\ j.staged = [f \in Files |-> None] /\ j.backup = [f \in Files |-> None]
    <2>1. j = [phase |-> "stage", purpose |-> purpose, at |-> 1, entries |-> es, content |-> content,
               staged |-> [f \in Files |-> None], backup |-> [f \in Files |-> None], changed |-> {},
               unrestored |-> {}, reported |-> {}, before |-> disk]
      <3> DEFINE nowhere == [f \in Files |-> None]
      <3>1. j = [NoJob EXCEPT !.phase = "stage", !.purpose = purpose, !.entries = es, !.content = content,
                              !.before = disk, !.staged = nowhere, !.backup = nowhere]
        BY DEF Begin
      <3> HIDE DEF nowhere, j
      <3>2. j = [phase |-> "stage", purpose |-> purpose, at |-> 1, entries |-> es, content |-> content,
                 staged |-> nowhere, backup |-> nowhere, changed |-> {},
                 unrestored |-> {}, reported |-> {}, before |-> disk]
        BY <3>1 DEF NoJob
      <3> QED
        BY <3>2 DEF nowhere
    <2> HIDE DEF j
    <2>2. [f \in Files |-> None] \in [Files -> Contents \cup {Partial}] /\ "stage" \in Phases
      BY DEF Contents, Phases
    <2> QED
      BY <1>5, <2>1, <2>2 DEF Jobs
  <1> HIDE DEF j
  <1>14. Planned(j, disk)
    <2>1. \A i \in DOMAIN j.entries : j.entries[i].op # "delete" <=> i <= la + lb
      BY <1>5, <1>6, <1>9, <1>13
    <2>2. \A f \in Files : \/ j.content[f] \in {None, disk[f]} /\ disk[f] = j.before[f]
                          \/ \E i \in DOMAIN j.entries : j.entries[i].file = f
      BY <1>2, <1>11, <1>13
    <2> QED
      BY <1>9, <1>10, <1>12, <1>13, <2>1, <2>2 DEF Planned
  <1>15. EntriesAt("stage", 1, j, disk)
    <2> SUFFICES ASSUME NEW i \in DOMAIN j.entries
                 PROVE  EntryAt("stage", Passed(j, "stage", 1, i), j.entries[i], j, disk)
      BY DEF EntriesAt
    <2>1. j.entries[i] \in EntryType /\ ~Passed(j, "stage", 1, i)
      BY <1>5, <1>12, <1>13, ElementOfSeq DEF Passed
    <2> QED
      BY <1>13, <2>1 DEF EntryAt, Untouched, EntryType
  <1>16. 1 <= FinalEntry(j)
    BY <1>12, <1>13, <1>14, FinalEntryType
  <1>17. Running(j, disk)
    BY <1>13, <1>14, <1>15, <1>16 DEF Running
  <1>18. Entries(content, removed) = es
    BY DEF Entries, es, ab, a, b, c, A, B, C
  <1> QED
    BY <1>17, <1>18 DEF j

-----------------------------------------------------------------------------
(* What the document and its history hold.                                  *)

LEMMA NothingIsHeld == /\ Nothing \in [Files -> Contents] /\ \A f \in Files : Nothing[f] = None
  BY DEF Nothing, Contents

LEMMA EditedTypes ==
  ASSUME EditorTypes(editor), editor.open, NEW doc \in Documents, NEW removed \in Removals,
         editor' = Edited(doc, removed)
  PROVE  EditorTypes(editor')
  <1>1. Memory \in Memories
    BY DEF Memory, Memories, EditorTypes, Editors
  <1> DEFINE undo == Append(editor.undo, Memory)
             edits == editor.edits + 1
  <1>2. undo \in Seq(Memories) /\ edits \in Nat /\ <<>> \in Seq(Memories) /\ editor.open \in BOOLEAN
    BY <1>1, AppendProperties, EmptySeq DEF EditorTypes, Editors
  <1>3. editor' = [editor EXCEPT !.doc = doc, !.removed = removed, !.undo = undo, !.redo = <<>>,
                                 !.dirty = TRUE, !.edits = edits]
    BY DEF Edited
  <1> HIDE DEF undo, edits
  <1>4. editor' \in Editors /\ editor'.open = editor.open /\ editor'.doc = doc
    BY <1>2, <1>3 DEF EditorTypes, Editors, Documents
  <1> QED
    BY <1>4 DEF EditorTypes

LEMMA RestoredTypes ==
  ASSUME EditorTypes(editor), editor.open, NEW memory \in Memories,
         NEW undo \in Seq(Memories), NEW redo \in Seq(Memories),
         editor' = Restored(memory, undo, redo)
  PROVE  EditorTypes(editor')
  <1>1. memory.doc \in Documents /\ memory.removed \in Removals
    BY DEF Memories
  <1> DEFINE doc == memory.doc
             removed == memory.removed
  <1>2. editor' = [editor EXCEPT !.doc = doc, !.removed = removed, !.undo = undo, !.redo = redo,
                                 !.dirty = TRUE]
    BY DEF Restored
  <1> HIDE DEF doc, removed
  <1>3. editor' \in Editors /\ editor'.open = editor.open /\ editor'.doc = doc
    BY <1>1, <1>2 DEF EditorTypes, Editors, Documents, doc, removed
  <1> QED
    BY <1>1, <1>3 DEF EditorTypes, doc

LEMMA UndoRedoTypes ==
  ASSUME EditorTypes(editor), Undo \/ Redo
  PROVE  EditorTypes(editor')
  <1>1. editor.undo \in Seq(Memories) /\ editor.redo \in Seq(Memories)
    BY DEF EditorTypes, Editors
  <1>2. editor.open /\ Memory \in Memories
    <2>1. editor.open
      BY DEF EditorTypes, Undo, Redo
    <2> QED
      BY <2>1 DEF EditorTypes, Editors, Memory, Memories
  <1>3. \A s \in Seq(Memories) : s # <<>> => Last(s) \in Memories /\ Front(s) \in Seq(Memories)
    <2> SUFFICES ASSUME NEW s \in Seq(Memories), s # <<>>
                 PROVE  Last(s) \in Memories /\ Front(s) \in Seq(Memories)
      OBVIOUS
    <2>1. Len(s) \in Nat /\ Len(s) # 0 /\ \A i \in 1..Len(s) : s[i] \in Memories
      BY LenProperties, ElementOfSeq, EmptySeq
    <2> QED
      BY <2>1 DEF Last, Front
  <1>4. Append(editor.undo, Memory) \in Seq(Memories) /\ Append(editor.redo, Memory) \in Seq(Memories)
    BY <1>1, <1>2, AppendProperties
  <1>5. CASE Undo
    BY <1>1, <1>2, <1>3, <1>4, <1>5, RestoredTypes DEF Undo
  <1>6. CASE Redo
    BY <1>1, <1>2, <1>3, <1>4, <1>6, RestoredTypes DEF Redo
  <1> QED
    BY <1>5, <1>6

LEMMA LoadedTypes ==
  ASSUME EditorTypes(editor), disk \in Documents,
         editor' = LoadSucceeds(editor) \/ editor' \in LoadFails(editor)
  PROVE  EditorTypes(editor')
  <1> DEFINE doc == [f \in Files |-> IF f \in Authored THEN disk[f] ELSE editor.doc[f]]
             e == [editor EXCEPT !.open = TRUE, !.doc = doc, !.removed = {}]
  <1>1. Loaded(editor) = e
    BY DEF Loaded
  <1>2. doc \in Documents /\ doc \in [Files -> Contents] /\ {} \in Removals
    BY EditorAssumption DEF Documents, EditorTypes, Editors, Authored, Removals
  <1> HIDE DEF doc
  <1>3. e \in Editors /\ e.open = TRUE /\ e.doc = doc
    BY <1>2 DEF EditorTypes, Editors
  <1> HIDE DEF e
  <1>4. EditorTypes(e)
    BY <1>2, <1>3 DEF EditorTypes
  <1>5. CASE editor' \in LoadFails(editor)
    BY <1>1, <1>4, <1>5 DEF LoadFails
  <1>6. CASE editor' = LoadSucceeds(editor)
    <2>1. editor' = [e EXCEPT !.undo = <<>>, !.redo = <<>>, !.dirty = FALSE]
      BY <1>1, <1>6 DEF LoadSucceeds
    <2>2. editor' \in Editors /\ editor'.open = TRUE /\ editor'.doc = doc
      BY <1>3, <2>1, EmptySeq DEF Editors
    <2> QED
      BY <1>2, <2>2 DEF EditorTypes
  <1> QED
    BY <1>5, <1>6

LEMMA StartedTypes ==
  ASSUME NEW pending \in BOOLEAN, NEW edits \in Nat, NEW crashes \in Nat
  PROVE  LET e == Started(pending, edits, crashes) IN
         EditorTypes(e) /\ e.edits = edits /\ e.crashes = crashes
  BY NothingIsHeld, EmptySeq DEF EditorTypes, Editors, Started, Removals

LEMMA DownTypes ==
  ASSUME EditorTypes(editor), NEW e, e = Down(editor) \/ e = [Down(editor) EXCEPT !.crashes = @ + 1]
  PROVE  EditorTypes(e)
  <1> DEFINE s == Started(FALSE, editor.edits, editor.crashes)
             d == [s EXCEPT !.up = FALSE]
  <1>1. EditorTypes(s) /\ s.open = FALSE
    BY StartedTypes DEF EditorTypes, Editors, Started
  <1> HIDE DEF s
  <1>2. EditorTypes(d)
    BY <1>1 DEF EditorTypes, Editors
  <1>3. d.open = FALSE /\ d.undo = <<>> /\ d.redo = <<>>
    BY <1>1 DEF EditorTypes, Editors
  <1>4. Down(editor) = d
    BY DEF Down, s
  <1> HIDE DEF d
  <1>5. EditorTypes([d EXCEPT !.crashes = @ + 1])
    BY <1>2, <1>3 DEF EditorTypes, Editors
  <1> QED
    BY <1>2, <1>4, <1>5

-----------------------------------------------------------------------------
(* The invariant.                                                           *)

LEMMA CommitStepRuns ==
  ASSUME disk \in Documents, JobInv, CommitStep
  PROVE  Running(job, disk) /\ job.phase \in Steps /\ Continues(job, job', disk') /\ disk' \in Documents
  <1>1. job.phase \in Steps /\ job # NoJob
    BY DEF CommitStep, Stage, Backup, Apply, Cleanup, Rollback, Steps, NoJob
  <1>2. Running(job, disk)
    BY <1>1 DEF JobInv
  <1> QED
    BY <1>1, <1>2, StageRuns, BackupRuns, ApplyRuns, CleanupRuns, RollbackRuns DEF CommitStep

LEMMA IdleJob ==
  ASSUME JobInv
  PROVE  /\ job.phase = "idle" <=> job = NoJob
         /\ job.phase # "idle" => Running(job, disk) /\ job.phase \in Phases
  <1>1. ASSUME Running(job, disk)
        PROVE  job.phase \in Phases /\ job.phase # "idle"
    BY <1>1 DEF Running, Jobs, Phases
  <1>2. NoJob.phase = "idle"
    BY DEF NoJob
  <1> QED
    BY <1>1, <1>2 DEF JobInv

\* Once all targets have been written, what was to be written is there.
LEMMA WrittenInPlace ==
  ASSUME NEW j, NEW files, Running(j, files), j.phase \in {"cleanup", "committed"},
         NEW f \in Files, j.content[f] # None
  PROVE  files[f] = j.content[f]
  <1>1. CASE \E i \in DOMAIN j.entries : j.entries[i].file = f
    <2>1. PICK i \in DOMAIN j.entries : j.entries[i].file = f
      BY <1>1
    <2>2. EntryAt(j.phase, Passed(j, j.phase, j.at, i), j.entries[i], j, files)
      BY DEF Running, EntriesAt
    <2> QED
      BY <2>1, <2>2 DEF EntryAt, New
  <1>2. CASE ~(\E i \in DOMAIN j.entries : j.entries[i].file = f)
    BY <1>2 DEF Running, Planned
  <1> QED
    BY <1>1, <1>2

\* Before that, and on the way back, what was there is in its place or in its backup.
LEMMA OriginalSurvives ==
  ASSUME NEW j, NEW files, Running(j, files), j.phase \notin {"cleanup", "committed"},
         NEW f \in Files
  PROVE  files[f] = j.before[f] \/ j.backup[f] = j.before[f]
  <1>1. CASE \E i \in DOMAIN j.entries : j.entries[i].file = f
    <2>1. PICK i \in DOMAIN j.entries : j.entries[i].file = f
      BY <1>1
    <2>2. EntryAt(j.phase, Passed(j, j.phase, j.at, i), j.entries[i], j, files)
      BY DEF Running, EntriesAt
    <2>3. j.phase \in Phases
      BY DEF Running, Jobs
    <2> QED
      BY <2>1, <2>2, <2>3 DEF EntryAt, Untouched, Restorable, Phases
  <1>2. CASE ~(\E i \in DOMAIN j.entries : j.entries[i].file = f)
    BY <1>2 DEF Running, Planned
  <1> QED
    BY <1>1, <1>2

LEMMA InitIInv == Init => IInv
  <1> SUFFICES ASSUME Init
               PROVE  IInv
    OBVIOUS
  <1>1. disk \in Documents /\ acked = disk
    BY EditorAssumption DEF Init, Documents, Contents
  <1>2. EditorTypes(editor)
    BY StartedTypes DEF Init
  <1>3. SessionTypes
    BY <1>1, <1>2 DEF Init, SessionTypes, Documents
  <1>4. JobInv /\ job.phase = "idle"
    BY DEF Init, JobInv, NoJob
  <1>5. WorkInv
    BY <1>1, <1>4 DEF WorkInv, HeldBy
  <1> QED
    BY <1>3, <1>4, <1>5 DEF IInv

\* What can become of the snapshot.
LEMMA SnapshotTypes ==
  ASSUME SessionTypes, [Next]_vars
  PROVE  snapshot' \in Documents \cup {NoWork}
  <1>1. snapshot \in Documents \cup {NoWork} /\ (editor.open => editor.doc \in Documents)
    BY DEF SessionTypes, EditorTypes
  <1>2. CASE Autosave
    BY <1>1, <1>2 DEF Autosave, OnFailedWrite
  <1>3. CASE Finish \/ Discard \/ Exit
    BY <1>1, <1>3 DEF Finish, Discard, Exit, Clear
  <1>4. CASE UNCHANGED snapshot
    BY <1>1, <1>4
  <1> QED
    BY <1>2, <1>3, <1>4 DEF Next, vars, Undo, Redo, Open, SaveAll, Recover, Work, Crash, Launch, Edit, Delete

LEMMA AckedTypes ==
  ASSUME SessionTypes, JobInv, [Next]_vars
  PROVE  acked' \in [Files -> Contents]
  <1>1. acked \in [Files -> Contents] /\ editor.doc \in [Files -> Contents]
    BY DEF SessionTypes, EditorTypes, Editors
  <1>2. CASE Autosave
    BY <1>1, <1>2 DEF Autosave
  <1>3. CASE Discard \/ Exit
    BY <1>1, <1>3, NothingIsHeld DEF Discard, Exit, GivenUp, NoWork
  <1>4. CASE Work
    <2>1. job.content \in [Files -> Contents]
      BY <1>4, CommitStepRuns DEF SessionTypes, Work, Running, Jobs, Documents
    <2> QED
      BY <1>1, <1>4, <2>1 DEF Work
  <1>5. CASE UNCHANGED acked
    BY <1>1, <1>5
  <1> QED
    BY <1>2, <1>3, <1>4, <1>5 DEF Next, vars, Undo, Redo, Open, SaveAll, Recover, Finish, Crash, Launch, Edit, Delete

LEMMA EditorTypesKept ==
  ASSUME SessionTypes, [Next]_vars
  PROVE  EditorTypes(editor')
  <1>1. EditorTypes(editor) /\ disk \in Documents
    BY DEF SessionTypes
  <1>2. ASSUME NEW f \in Files, Edit(f)
        PROVE  EditorTypes(editor')
    <2> DEFINE doc == Put(editor.doc, f, editor.edits + 1)
    <2>1. editor.open /\ editor.doc \in Documents /\ editor.removed \in Removals /\ editor.edits \in Nat
      BY <1>1, <1>2 DEF Edit, CanEdit, EditorTypes, Editors
    <2>2. editor.edits + 1 \in Contents /\ editor.edits + 1 # None
      BY <2>1, EditorAssumption DEF Contents
    <2>3. doc \in Documents
      BY <2>1, <2>2, DiskChange
    <2>4. editor' = Edited(doc, editor.removed)
      BY <1>2 DEF Edit, Put
    <2> HIDE DEF doc
    <2> QED
      BY <1>1, <2>1, <2>3, <2>4, EditedTypes
  <1>3. ASSUME NEW f \in Files, Delete(f)
        PROVE  EditorTypes(editor')
    <2> DEFINE doc == Put(editor.doc, f, None)
               removed == editor.removed \cup {f}
    <2>1. editor.open /\ editor.doc \in Documents /\ editor.removed \in Removals /\ f \in Authored \ {Window}
      BY <1>1, <1>3 DEF Delete, CanEdit, EditorTypes, Editors
    <2>2. doc \in Documents /\ removed \in Removals
      <3>1. None \in Contents /\ f # Window
        BY <2>1 DEF Contents
      <3> QED
        BY <2>1, <3>1, DiskChange DEF Removals
    <2>3. editor' = Edited(doc, removed)
      BY <1>3 DEF Delete, Put
    <2> HIDE DEF doc, removed
    <2> QED
      BY <1>1, <2>1, <2>2, <2>3, EditedTypes
  <1>4. CASE Undo \/ Redo
    BY <1>1, <1>4, UndoRedoTypes
  <1>5. CASE Open
    BY <1>1, <1>5, LoadedTypes DEF Open
  <1>6. CASE Recover \/ Discard
    BY <1>1, <1>6 DEF Recover, Discard, EditorTypes, Editors
  <1>7. CASE Finish
    <2>1. CASE editor' = [editor EXCEPT !.dirty = @ /\ ~Succeeded]
      <3> DEFINE dirty == editor.dirty /\ ~Succeeded
      <3>1. dirty \in BOOLEAN
        OBVIOUS
      <3>2. editor' = [editor EXCEPT !.dirty = dirty]
        BY <2>1
      <3> HIDE DEF dirty
      <3> QED
        BY <1>1, <3>1, <3>2 DEF EditorTypes, Editors
    <2>2. CASE editor' = LoadSucceeds(editor) \/ editor' \in LoadFails(editor)
      BY <1>1, <2>2, LoadedTypes
    <2> QED
      BY <1>1, <1>7, <2>1, <2>2 DEF Finish
  <1>8. CASE Exit \/ Crash
    BY <1>1, <1>8, DownTypes DEF Exit, Crash
  <1>9. CASE Launch
    <2>1. (snapshot # NoWork) \in BOOLEAN /\ editor.edits \in Nat /\ editor.crashes \in Nat
      BY <1>1 DEF EditorTypes, Editors
    <2> QED
      BY <1>9, <2>1, StartedTypes DEF Launch
  <1>10. CASE UNCHANGED editor
    BY <1>1, <1>10
  <1> QED
    BY <1>2, <1>3, <1>4, <1>5, <1>6, <1>7, <1>8, <1>9, <1>10 DEF Next, vars, SaveAll, Work, Autosave

LEMMA DiskAndJobKept ==
  ASSUME SessionTypes, JobInv, [Next]_vars
  PROVE  disk' \in Documents /\ JobInv'
  <1>1. disk \in Documents /\ EditorTypes(editor) /\ snapshot \in Documents \cup {NoWork}
    BY DEF SessionTypes
  <1>2. CASE UNCHANGED <<disk, job>>
    BY <1>1, <1>2 DEF JobInv
  <1>3. CASE Work
    BY <1>1, <1>3, CommitStepRuns DEF Work, JobInv, Continues
  <1>4. CASE Finish \/ Crash
    BY <1>1, <1>4 DEF Finish, Crash, JobInv
  <1>5. CASE SaveAll
    <2>1. editor.doc \in Documents /\ editor.removed \in Removals /\ UNCHANGED disk
      BY <1>1, <1>5 DEF SaveAll, EditorTypes, Editors
    <2>2. ~Conflict(editor.doc) /\ job' = Begin(Entries(editor.doc, editor.removed), editor.doc, "save")
      BY <1>5 DEF SaveAll, Commit
    <2> QED
      BY <1>1, <2>1, <2>2, BeginRuns DEF JobInv
  <1>6. CASE Recover
    <2>1. CASE UNCHANGED job
      BY <1>2, <1>6, <2>1 DEF Recover
    <2>2. CASE snapshot # NoWork /\ Commit(snapshot, {}, "recover")
      <3>1. snapshot \in Documents /\ {} \in Removals /\ UNCHANGED disk
        BY <1>1, <1>6, <2>2 DEF Recover, Removals
      <3>2. ~Conflict(snapshot) /\ job' = Begin(Entries(snapshot, {}), snapshot, "recover")
        BY <2>2 DEF Commit
      <3> QED
        BY <1>1, <3>1, <3>2, BeginRuns DEF JobInv
    <2> QED
      BY <1>6, <2>1, <2>2 DEF Recover
  <1>7. ASSUME NEW f \in Resources, Intrude(f)
        PROVE  disk' \in Documents /\ JobInv'
    <2>1. CASE job.phase = "idle"
      <3>1. f \in Files /\ f # Window /\ Theirs \in Contents /\ Theirs # None
        BY EditorAssumption DEF Contents
      <3>2. disk' = Put(disk, f, Theirs) /\ job' = job /\ job = NoJob
        BY <1>7, <2>1, IdleJob DEF Intrude, Put
      <3> QED
        BY <1>1, <3>1, <3>2, DiskChange DEF JobInv
    <2>2. CASE job.phase # "idle"
      BY <1>1, <1>7, <2>2, IdleJob, IntrudeRuns DEF JobInv
    <2> QED
      BY <2>1, <2>2
  <1> QED
    BY <1>2, <1>3, <1>4, <1>5, <1>6, <1>7
    DEF Next, vars, commitVars, Undo, Redo, Open, Autosave, Discard, Exit, Launch, Edit, Delete

\* What is acknowledged is held as the transaction began, or is what it writes; so it is held on
\* disk or in a backup, whenever the transaction is given up.
LEMMA WorkSurvives ==
  ASSUME SessionTypes, JobInv, WorkInv, snapshot # acked, NEW f \in Files, acked[f] # None
  PROVE  \/ disk[f] = acked[f] \/ <<f, acked[f]>> \in orphans
         \/ job.phase # "idle" /\ job.backup[f] = acked[f]
  <1>1. CASE job.phase = "idle"
    BY <1>1 DEF WorkInv, HeldBy
  <1>2. CASE job.phase \in {"cleanup", "committed"}
    <2>1. Running(job, disk) /\ acked = job.content
      BY <1>2, IdleJob DEF WorkInv
    <2> QED
      BY <1>2, <2>1, WrittenInPlace
  <1>3. CASE job.phase \notin {"idle", "cleanup", "committed"}
    <2>1. Running(job, disk) /\ HeldBy(job.before)
      BY <1>3, IdleJob DEF WorkInv
    <2>2. disk[f] = job.before[f] \/ job.backup[f] = job.before[f]
      BY <1>3, <2>1, OriginalSurvives
    <2> QED
      BY <1>3, <2>1, <2>2 DEF HeldBy
  <1> QED
    BY <1>1, <1>2, <1>3

LEMMA GivingUp ==
  ASSUME SessionTypes, JobInv, WorkInv, orphans' = orphans \cup Kept, UNCHANGED <<disk, acked>>,
         snapshot = acked => snapshot' = acked' \/ \A f \in Files : acked[f] # None => disk[f] = acked[f]
  PROVE  HeldBy(disk)'
  <1> SUFFICES ASSUME snapshot' # acked',
                      NEW f \in Files, acked[f] # None, disk[f] # acked[f]
               PROVE  <<f, acked[f]>> \in orphans'
    BY DEF HeldBy
  <1>1. CASE <<f, acked[f]>> \in orphans
    BY <1>1
  <1>2. CASE job.phase # "idle" /\ job.backup[f] = acked[f]
    <2>1. f \in DOMAIN job.backup
      BY <1>2, IdleJob DEF Running, Jobs
    <2>2. acked[f] \in Contents /\ acked[f] \notin {None, Partial}
      BY EditorAssumption DEF SessionTypes, Contents
    <2>3. <<f, job.backup[f]>> \in Kept
      BY <1>2, <2>1, <2>2 DEF Kept
    <2> QED
      BY <1>2, <2>3
  <1> QED
    BY <1>1, <1>2, WorkSurvives

LEMMA WorkKept ==
  ASSUME SessionTypes, JobInv, WorkInv, [Next]_vars
  PROVE  WorkInv'
  <1>1. CASE UNCHANGED <<disk, job, snapshot, acked, orphans>>
    BY <1>1 DEF WorkInv, HeldBy
  <1>2. CASE Work
    <2>1. Running(job, disk) /\ job.phase \in Steps /\ Continues(job, job', disk')
      BY <1>2, CommitStepRuns DEF SessionTypes, Work
    <2>2. UNCHANGED <<snapshot, orphans>> /\ job'.before = job.before /\ job'.content = job.content
      BY <1>2, <2>1 DEF Work, Continues, SamePlan
    <2>3. CASE job.phase = "cleanup"
      <3>1. job'.phase \in {"cleanup", "committed"} /\ acked = job.content
        BY <2>1, <2>3 DEF Continues, Following, WorkInv
      <3>2. acked' = acked
        BY <1>2, <2>3 DEF Work
      <3> QED
        BY <2>2, <3>1, <3>2 DEF WorkInv
    <2>4. CASE job.phase = "apply" /\ job'.phase = "cleanup"
      <3>1. acked' = job.content
        BY <1>2, <2>4 DEF Work
      <3> QED
        BY <2>2, <2>4, <3>1 DEF WorkInv
    <2>5. CASE job.phase # "cleanup" /\ ~(job.phase = "apply" /\ job'.phase = "cleanup")
      <3>1. acked' = acked
        BY <1>2, <2>5 DEF Work
      <3>2. job'.phase \notin {"idle", "cleanup", "committed"} /\ job.phase \notin {"idle", "cleanup", "committed"}
        BY <2>1, <2>5 DEF Continues, Following, Steps
      <3> QED
        BY <2>2, <3>1, <3>2 DEF WorkInv, HeldBy
    <2> QED
      BY <2>3, <2>4, <2>5
  <1>3. CASE SaveAll \/ Recover
    <2>1. job.phase = "idle" /\ UNCHANGED <<disk, snapshot, acked, orphans>>
      BY <1>3 DEF SaveAll, Recover, Idle
    <2>2. HeldBy(disk)
      BY <2>1 DEF WorkInv
    <2>3. ASSUME NEW content, NEW removed, NEW purpose, Commit(content, removed, purpose)
          PROVE  WorkInv'
      <3>1. job'.phase = "stage" /\ job'.before = disk
        BY <2>3 DEF Commit, Begin, NoJob
      <3> QED
        BY <2>1, <2>2, <3>1 DEF WorkInv, HeldBy
    <2>4. CASE UNCHANGED job
      BY <1>1, <2>1, <2>4
    <2> QED
      BY <1>3, <2>3, <2>4 DEF SaveAll, Recover
  <1>4. CASE Finish
    <2>1. job' = NoJob /\ UNCHANGED <<disk, acked>> /\ orphans' = orphans \cup Kept
          /\ job.phase \in {"committed", "rolledBack"}
      BY <1>4 DEF Finish
    <2>2. UNCHANGED snapshot \/ job.phase = "committed"
      BY <1>4 DEF Finish, ClearsSnapshot, Succeeded
    <2>3. ASSUME job.phase = "committed", NEW f \in Files, acked[f] # None
          PROVE  disk[f] = acked[f]
      <3>1. Running(job, disk) /\ acked = job.content
        BY <2>3, IdleJob DEF WorkInv
      <3> QED
        BY <2>3, <3>1, WrittenInPlace
    <2>4. HeldBy(disk)'
      BY <2>1, <2>2, <2>3, GivingUp
    <2> QED
      BY <2>1, <2>4 DEF WorkInv, NoJob
  <1>5. CASE Crash
    <2>1. HeldBy(disk)' /\ job' = NoJob
      BY <1>5, GivingUp DEF Crash
    <2> QED
      BY <2>1 DEF WorkInv, NoJob
  <1>6. CASE Autosave
    <2>1. job.phase = "idle" /\ UNCHANGED <<disk, job, orphans>>
      BY <1>6 DEF Autosave, Idle
    <2>2. snapshot' = acked' \/ UNCHANGED <<snapshot, acked>>
      BY <1>6 DEF Autosave, OnFailedWrite
    <2> QED
      BY <2>1, <2>2 DEF WorkInv, HeldBy
  <1>7. CASE Discard \/ Exit
    <2>1. job.phase = "idle" /\ UNCHANGED <<disk, job>> /\ acked' = GivenUp
      BY <1>7 DEF Discard, Exit, Idle
    <2>2. \A f \in Files : acked'[f] # None => disk[f] = acked'[f]
      BY <2>1, NothingIsHeld DEF GivenUp, NoWork
    <2> QED
      BY <2>1, <2>2 DEF WorkInv, HeldBy
  <1>8. ASSUME NEW f \in Resources, Intrude(f), UNCHANGED <<snapshot, acked, orphans>>
        PROVE  WorkInv'
    <2>1. disk \in Documents /\ f \in Files
      BY EditorAssumption DEF SessionTypes
    <2>2. CASE job.phase = "idle"
      <3>1. job' = job /\ disk[f] = None /\ \A g \in Files \ {f} : disk'[g] = disk[g]
        BY <1>8, <2>1, <2>2 DEF Intrude, Documents
      <3> QED
        BY <1>8, <2>2, <3>1 DEF WorkInv, HeldBy
    <2>3. CASE job.phase # "idle"
      <3>1. /\ job'.phase = job.phase /\ job'.content = job.content
            /\ \A g \in Files \ {f} : job'.before[g] = job.before[g]
            /\ job.phase \in {"cleanup", "committed"} \/ job.before[f] = None
        BY <1>8, <2>1, <2>3, IdleJob, IntrudeRuns
      <3>2. CASE job.phase \in {"cleanup", "committed"}
        BY <1>8, <2>3, <3>1, <3>2 DEF WorkInv
      <3>3. CASE job.phase \notin {"cleanup", "committed"}
        <4>1. HeldBy(job.before)
          BY <2>3, <3>3 DEF WorkInv
        <4>2. HeldBy(job.before)'
          BY <1>8, <3>1, <3>3, <4>1 DEF HeldBy
        <4> QED
          BY <2>3, <3>1, <3>3, <4>2 DEF WorkInv
      <3> QED
        BY <3>2, <3>3
    <2> QED
      BY <2>2, <2>3
  <1> QED
    BY <1>1, <1>2, <1>3, <1>4, <1>5, <1>6, <1>7, <1>8
    DEF Next, vars, commitVars, Undo, Redo, Open, Launch, Edit, Delete

LEMMA NextIInv == IInv /\ [Next]_vars => IInv'
  <1> SUFFICES ASSUME SessionTypes, JobInv, WorkInv, [Next]_vars
               PROVE  IInv'
    BY DEF IInv
  <1>1. SessionTypes'
    BY DiskAndJobKept, EditorTypesKept, SnapshotTypes, AckedTypes DEF SessionTypes, Documents, NoWork, Nothing
  <1> QED
    BY <1>1, DiskAndJobKept, WorkKept DEF IInv

LEMMA Invariance == Spec => []IInv
  BY InitIInv, NextIInv, PTL DEF Spec

-----------------------------------------------------------------------------
\* When a commit of several files ends, all of them are new or all are as they were, but for those
\* whose original it says where to find, and it leaves no temporary file that it does not report:
\* CommitAssetFiles and its Rollback, for any number of files and of failures.
THEOREM CommitOutcomeAlways == Spec => []CommitOutcome
  <1>1. IInv => CommitOutcome
    <2> SUFFICES ASSUME JobInv, NEW i \in DOMAIN job.entries
                 PROVE  LET e == job.entries[i] IN
                        /\ job.phase = "committed" =>
                              /\ disk[e.file] = IF e.op = "delete" THEN None ELSE job.content[e.file]
                              /\ e.op = "create" => job.before[e.file] = None
                        /\ job.phase = "rolledBack" =>
                              \/ disk[e.file] = job.before[e.file]
                              \/ e.file \in job.unrestored /\ job.backup[e.file] = job.before[e.file]
                        /\ job.phase \in {"committed", "rolledBack"} /\ e.file \notin job.reported =>
                              job.staged[e.file] = None /\ job.backup[e.file] = None
      BY DEF IInv, CommitOutcome
    <2> DEFINE e == job.entries[i]
               done == Passed(job, job.phase, job.at, i)
    <2>1. CASE job.phase = "idle"
      BY <2>1
    <2>2. CASE job.phase # "idle"
      <3>1. Running(job, disk)
        BY <2>2, IdleJob
      <3>2. EntryAt(job.phase, done, e, job, disk) /\ (e.op = "delete" => job.content[e.file] = None)
        BY <3>1 DEF Running, EntriesAt, Planned
      <3> HIDE DEF e, done
      <3>3. CASE job.phase = "committed"
        BY <3>2, <3>3 DEF EntryAt, New, Clean, e
      <3>4. CASE job.phase = "rolledBack"
        BY <3>2, <3>4 DEF EntryAt, Restorable, Clean, e
      <3> QED
        BY <3>3, <3>4
    <2> QED
      BY <2>1, <2>2
  <1> QED
    BY <1>1, Invariance, PTL

\* What the editor has said is safe is not lost: SaveAll, RecoverPreviousSession, WriteRecoverySnapshot
\* and ClearRecoverySnapshot, with a crash between any two steps, any number of times.
THEOREM WorkIsKeptAlways == Spec => []WorkIsKept
  <1>1. IInv => WorkIsKept
    BY WorkSurvives DEF IInv, WorkIsKept
  <1> QED
    BY <1>1, Invariance, PTL
=============================================================================
