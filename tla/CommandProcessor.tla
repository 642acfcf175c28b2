-------------------------- MODULE CommandProcessor --------------------------
(***************************************************************************)
(* CommandProcessor of mfd_api, on the render thread: it reassembles the   *)
(* chunks of fragmented batches, drops the stale and duplicate batches of  *)
(* a stream, and applies the commands of a batch to the scene.             *)
(*                                                                         *)
(* Packets come in any order, any number of times. Whether a command fails *)
(* depends on the scene, so the number of commands of a batch that succeed *)
(* is a free choice; SceneTransaction models what the rollback restores.   *)
(* The scene is the history of what was applied since its document was     *)
(* loaded. A chunk is identified by its position and its commands.         *)
(***************************************************************************)
EXTENDS Integers, Sequences, FiniteSets, SequencesExt, FiniteSetsExt

CONSTANTS
    Packets,         \* decoded CommandBatch values that can arrive, see Packet
    Commands,        \* UserCommand values
    Work,            \* work units of a command
    Bytes,           \* encoded bytes of a command
    EnvelopeBytes,   \* encoded bytes of a batch without its commands
    CommandBytes,    \* sizeof(UserCommand)
    EntryBytes,      \* sizeof(PendingFragmentedBatch) and what comes with it
    SlotBytes,       \* sizeof(std::optional<PendingFragmentChunk>)
    Maps,            \* mapping hashes of generated transport maps
    NoMap,           \* an empty mapping hash; a scene without transport map
    MaxPending,      \* kMaxPendingFragmentedBatches (32)
    MaxChunks,       \* kMaxChunksPerFragmentedBatch (4096)
    BatchLimit,      \* kMaxWireBytes-, kMaxCommandsPerReassembledBatch
    Limit,           \* kMaxPendingFragmentWireBytes, ...CommandCount, ...ChunkSlots, ...Memory
    MaxAtomicWork,   \* kMaxAtomicCommandWorkUnits (512)
    MaxFingerprints, \* kMaxFingerprintsPerSequence (256)
    Expiry,          \* kFragmentExpiry, in ticks
    Modes,           \* transactional modes to start from
    MaxApplied       \* bound: batches applied since the last load

\* Entry: one pending batch costs entries and slots; chunks cost the rest.
Quantities == {"wire", "commands", "slots", "memory"}
Amount == [Quantities -> Nat]

\* An identity field of 0 is an unset one. "whole" packets carry no fragment.
Fragment == [client : Nat, session : Nat, batch : Nat, index : Nat, count : Nat]
Whole == [client |-> 0, session |-> 0, batch |-> 0, index |-> 0, count |-> 0]
Packet == [whole : BOOLEAN, fragment : Fragment, sequence : Nat,
           hash : Maps \cup {NoMap}, commands : Seq(Commands)]

ASSUME ProcessorAssumption ==
    /\ Packets \subseteq Packet
    /\ Work \in [Commands -> Nat \ {0}]
    /\ Bytes \in [Commands -> Nat]
    /\ {EnvelopeBytes, CommandBytes, EntryBytes, SlotBytes, MaxApplied} \subseteq Nat
    /\ {MaxPending, MaxChunks, MaxAtomicWork, MaxFingerprints, Expiry} \subseteq Nat \ {0}
    /\ NoMap \notin Maps
    /\ BatchLimit \in [{"wire", "commands"} -> Nat]
    /\ Limit \in Amount
    /\ Modes \subseteq BOOLEAN

VARIABLES
    pending,        \* pendingFragmentedBatches_
    totals,         \* pendingFragmentWireBytes_, ...CommandCount_, ...ChunkSlots_, ...MemoryBytes_
    sequences,      \* sequencedBatchesByMappingHash_, absent streams as Fresh
    transactional,  \* batchTransactionMode_
    map,            \* mapping hash of the scene's transport map
    applied         \* what was applied to the scene, oldest first

transportVars == <<pending, totals, sequences>>
processorVars == <<pending, totals, sequences, transactional, map, applied>>

-----------------------------------------------------------------------------
(* Identities and costs. *)

\* MakeFragmentedBatchKey, MakeFragmentedSequenceKey
BatchKey(f) == <<f.client, f.session, f.batch>>
StreamKey(f, hash) == <<hash, f.client, f.session>>

BatchKeys == {BatchKey(p.fragment) : p \in Packets}
StreamKeys == {StreamKey(p.fragment, p.hash) : p \in Packets}

Plus(a, b) == [q \in Quantities |-> a[q] + b[q]]
Minus(a, b) == [q \in Quantities |-> a[q] - b[q]]
Zero == [q \in Quantities |-> 0]

WorkOf(commands) == SumFunction([i \in DOMAIN commands |-> Work[commands[i]]])
WireOf(commands) == EnvelopeBytes + SumFunction([i \in DOMAIN commands |-> Bytes[commands[i]]])

EntryCost(count) ==
    [wire |-> 0, commands |-> 0, slots |-> count, memory |-> EntryBytes + count * SlotBytes]

ChunkCost(commands) ==
    [wire |-> WireOf(commands), commands |-> Len(commands), slots |-> 0,
     memory |-> 2 * WireOf(commands) + Len(commands) * CommandBytes]

CostOfAll(entries) ==
    [q \in Quantities |-> SumFunction([key \in DOMAIN entries |-> entries[key].cost[q]])]

Within(amount, limit) == \A q \in DOMAIN limit : amount[q] <= limit[q]

-----------------------------------------------------------------------------
(* Streams: the sequence filter. *)

Fresh == [last |-> 0, fingerprints |-> {}]

\* The fingerprint of a batch is what it says, not the identity it came under.
Fingerprint(batch) == batch.commands

Sequenced(batch) == batch.sequence # 0 /\ batch.hash # NoMap

\* Defect: a batch as old as the last one is new.
Stale_Duplicates(stream, batch) == batch.sequence < stream.last

\* Defect: only a repeat of the last sequence is dropped.
Stale_OlderPass(stream, batch) ==
    batch.sequence = stream.last /\ Fingerprint(batch) \in stream.fingerprints

Stale(stream, batch) ==
    \/ batch.sequence < stream.last
    \/ batch.sequence = stream.last /\ Fingerprint(batch) \in stream.fingerprints

Full(stream, batch) ==
    batch.sequence = stream.last /\ Cardinality(stream.fingerprints) >= MaxFingerprints

Recorded(stream, batch) ==
    [last |-> Max({stream.last, batch.sequence}),
     fingerprints |-> (IF batch.sequence > stream.last THEN {} ELSE stream.fingerprints)
                      \cup {Fingerprint(batch)}]

\* Defect: a batch that failed is recorded too.
RecordedAfter_Always(batch, key, count) ==
    IF Sequenced(batch)
    THEN [sequences EXCEPT ![key] = Recorded(@, batch)]
    ELSE sequences

\* Only a batch that succeeded counts.
RecordedAfter(batch, key, count) ==
    IF Sequenced(batch) /\ count = Len(batch.commands)
    THEN [sequences EXCEPT ![key] = Recorded(@, batch)]
    ELSE sequences

-----------------------------------------------------------------------------
(* Complete batches. *)

\* What stays of a batch whose first "count" commands succeeded.
Kept(commands, count) ==
    IF count < Len(commands) /\ transactional /\ Len(commands) > 1
    THEN <<>>
    ELSE SubSeq(commands, 1, count)

MatchesMap(hash) == hash = NoMap \/ hash = map

Acceptable(batch, key) ==
    /\ WorkOf(batch.commands) <= MaxAtomicWork
    /\ MatchesMap(batch.hash)
    /\ Sequenced(batch) =>
        /\ ~Stale(sequences[key], batch)
        /\ ~Full(sequences[key], batch)

Application(batch, key, count) ==
    [key |-> key, sequence |-> batch.sequence, hash |-> batch.hash, batch |-> batch.commands,
     commands |-> Kept(batch.commands, count), whole |-> count = Len(batch.commands)]

\* Of the commands, "count" succeed before the first one that fails.
SubmitCompleteBatch(batch, key) ==
    IF Acceptable(batch, key)
    THEN \E count \in 0 .. Len(batch.commands) :
            LET application == Application(batch, key, count) IN
            /\ applied' = IF application.commands = <<>> /\ ~application.whole
                          THEN applied
                          ELSE Append(applied, application)
            /\ sequences' = RecordedAfter(batch, key, count)
    ELSE UNCHANGED <<applied, sequences>>

\* A batch without identity has no stream: it is refused when it needs one.
SubmitWhole(packet) ==
    /\ packet.whole
    /\ IF Sequenced(packet)
       THEN UNCHANGED <<applied, sequences>>
       ELSE SubmitCompleteBatch(packet, StreamKey(packet.fragment, packet.hash))
    /\ UNCHANGED <<pending, totals>>

-----------------------------------------------------------------------------
(* Reassembly. *)

Expired(entry) == entry.age >= Expiry

Live == {key \in DOMAIN pending : ~Expired(pending[key])}
LiveEntries == [key \in Live |-> pending[key]]

\* Defect: the totals keep what an erased entry was charged for its chunks.
Refund_EntryOnly(entry) == EntryCost(entry.count)

\* What ErasePendingFragmentedBatch subtracts.
Refund(entry) == entry.cost
Erased(amounts, entry) == Minus(amounts, Refund(entry))

\* The totals once the expired entries are erased.
LiveTotals ==
    Minus(totals, [q \in Quantities |->
        SumFunction([key \in DOMAIN pending \ Live |-> Refund(pending[key])[q]])])

Without(entries, key) == [other \in DOMAIN entries \ {key} |-> entries[other]]
WithEntry(entries, key, entry) ==
    [other \in DOMAIN entries \cup {key} |-> IF other = key THEN entry ELSE entries[other]]

ValidMetadata(f) ==
    /\ f.client # 0 /\ f.session # 0 /\ f.batch # 0
    /\ f.count # 0 /\ f.index < f.count /\ f.count <= MaxChunks

NewEntry(packet) ==
    [sequence |-> packet.sequence, hash |-> packet.hash, count |-> packet.fragment.count,
     chunks |-> <<>>, cost |-> EntryCost(packet.fragment.count), work |-> 0, age |-> 0]

RoomForEntry(packet) ==
    /\ Cardinality(Live) < MaxPending
    /\ LET sum == Plus(LiveTotals, EntryCost(packet.fragment.count)) IN
       sum["slots"] <= Limit["slots"] /\ sum["memory"] <= Limit["memory"]

SameBatch(entry, packet) ==
    /\ entry.sequence = packet.sequence
    /\ entry.hash = packet.hash
    /\ entry.count = packet.fragment.count

\* The entry of the packet's batch, created when the batch is new, and the totals with it.
Found(packet) == BatchKey(packet.fragment) \in Live
EntryOf(packet) == IF Found(packet) THEN pending[BatchKey(packet.fragment)] ELSE NewEntry(packet)
TotalsWith(packet) ==
    IF Found(packet) THEN LiveTotals ELSE Plus(LiveTotals, EntryOf(packet).cost)

Has(entry, packet) == packet.fragment.index \in DOMAIN entry.chunks
Repeats(entry, packet) == Has(entry, packet) /\ entry.chunks[packet.fragment.index] = packet.commands

\* Defect: the work of the chunks is not added up.
RoomForChunk_ChunkWork(packet) ==
    LET cost == ChunkCost(packet.commands) IN
    /\ Within(Plus(EntryOf(packet).cost, cost), BatchLimit)
    /\ WorkOf(packet.commands) <= MaxAtomicWork
    /\ Within(Plus(TotalsWith(packet), cost), Limit)

\* The batch's own budgets and the aggregate ones.
RoomForChunk(packet) ==
    LET entry == EntryOf(packet) cost == ChunkCost(packet.commands) IN
    /\ Within(Plus(entry.cost, cost), BatchLimit)
    /\ entry.work + WorkOf(packet.commands) <= MaxAtomicWork
    /\ Within(Plus(TotalsWith(packet), cost), Limit)

Filled(entry, packet) ==
    [entry EXCEPT !.chunks = [i \in DOMAIN @ \cup {packet.fragment.index} |->
                                IF i = packet.fragment.index THEN packet.commands ELSE @[i]],
                  !.cost = Plus(@, ChunkCost(packet.commands)),
                  !.work = @ + WorkOf(packet.commands),
                  !.age = 0]

Completes(entry) == Cardinality(DOMAIN entry.chunks) = entry.count

Assembled(entry) ==
    [sequence |-> entry.sequence, hash |-> entry.hash,
     commands |-> FlattenSeq([i \in 1 .. entry.count |-> entry.chunks[i - 1]])]

Admitted(packet) ==
    /\ ~packet.whole
    /\ MatchesMap(packet.hash)
    /\ ValidMetadata(packet.fragment)

RefuseFragment(packet) ==
    /\ ~packet.whole
    /\ ~Admitted(packet)
    /\ UNCHANGED <<transportVars, applied>>

RefuseNewBatch(packet) ==
    /\ Admitted(packet)
    /\ ~Found(packet)
    /\ ~RoomForEntry(packet)
    /\ pending' = LiveEntries
    /\ totals' = LiveTotals
    /\ UNCHANGED <<sequences, applied>>

\* Defect: a repeated chunk keeps its batch alive.
AfterRepeat_Refreshed(packet) ==
    [LiveEntries EXCEPT ![BatchKey(packet.fragment)].age = 0]

AfterRepeat(packet) == LiveEntries

RepeatChunk(packet) ==
    /\ Admitted(packet)
    /\ Found(packet)
    /\ SameBatch(EntryOf(packet), packet)
    /\ Repeats(EntryOf(packet), packet)
    /\ pending' = AfterRepeat(packet)
    /\ totals' = LiveTotals
    /\ UNCHANGED <<sequences, applied>>

Takes(packet) ==
    /\ SameBatch(EntryOf(packet), packet)
    /\ ~Has(EntryOf(packet), packet)
    /\ RoomForChunk(packet)

\* A conflicting or too large chunk takes its whole batch with it.
DropPendingBatch(packet) ==
    /\ Admitted(packet)
    /\ Found(packet) \/ RoomForEntry(packet)
    /\ ~Takes(packet)
    /\ ~(SameBatch(EntryOf(packet), packet) /\ Repeats(EntryOf(packet), packet))
    /\ LET key == BatchKey(packet.fragment) IN
       /\ pending' = Without(LiveEntries, key)
       /\ totals' = Erased(TotalsWith(packet), EntryOf(packet))
    /\ UNCHANGED <<sequences, applied>>

StoreChunk(packet) ==
    /\ Admitted(packet)
    /\ Found(packet) \/ RoomForEntry(packet)
    /\ Takes(packet)
    /\ LET key == BatchKey(packet.fragment)
           entry == Filled(EntryOf(packet), packet)
           charged == Plus(TotalsWith(packet), ChunkCost(packet.commands))
           stored == WithEntry(LiveEntries, key, entry) IN
       IF Completes(entry)
       THEN /\ pending' = Without(LiveEntries, key)
            /\ totals' = Erased(charged, entry)
            /\ SubmitCompleteBatch(Assembled(entry), StreamKey(packet.fragment, packet.hash))
       ELSE /\ pending' = stored
            /\ totals' = charged
            /\ UNCHANGED <<sequences, applied>>

-----------------------------------------------------------------------------
(* The operations of the class. *)

Init ==
    /\ pending = <<>>
    /\ totals = Zero
    /\ sequences = [key \in StreamKeys |-> Fresh]
    /\ transactional \in Modes
    /\ map \in Maps \cup {NoMap}
    /\ applied = <<>>

Submit(packet) ==
    /\ Len(applied) < MaxApplied
    /\ \/ SubmitWhole(packet)
       \/ RefuseFragment(packet)
       \/ RefuseNewBatch(packet)
       \/ RepeatChunk(packet)
       \/ DropPendingBatch(packet)
       \/ StoreChunk(packet)
    /\ UNCHANGED <<transactional, map>>

\* Called at the start of every frame.
MaintainTransportState ==
    /\ pending' = LiveEntries
    /\ totals' = LiveTotals
    /\ UNCHANGED <<sequences, transactional, map, applied>>

\* A document is loaded: the scene and the history of the streams start again.
ResetTransportState ==
    /\ pending' = <<>>
    /\ totals' = Zero
    /\ sequences' = [key \in StreamKeys |-> Fresh]
    /\ map' \in Maps \cup {NoMap}
    /\ applied' = <<>>
    /\ UNCHANGED transactional

\* Time passes; ages are told apart up to the expiry.
Tick ==
    /\ pending' = [key \in DOMAIN pending |->
                    [pending[key] EXCEPT !.age = Min({@ + 1, Expiry + 1})]]
    /\ UNCHANGED <<totals, sequences, transactional, map, applied>>

Next ==
    \/ \E packet \in Packets : Submit(packet)
    \/ MaintainTransportState
    \/ ResetTransportState
    \/ Tick

\* The render loop calls MaintainTransportState every frame, and time does not stop.
Fairness == WF_processorVars(MaintainTransportState) /\ WF_processorVars(Tick)

Spec == Init /\ [][Next]_processorVars
FairSpec == Spec /\ Fairness

-----------------------------------------------------------------------------
(* Properties. *)

\* Every entry is a batch that can still complete, and the map of pending batches stays
\* under its limits.
TypeOK ==
    /\ DOMAIN pending \subseteq BatchKeys
    /\ \A key \in DOMAIN pending :
        LET entry == pending[key] IN
        /\ entry.count \in 1 .. MaxChunks
        /\ DOMAIN entry.chunks \subseteq 0 .. entry.count - 1
        /\ \A i \in DOMAIN entry.chunks : entry.chunks[i] \in Seq(Commands)
        /\ entry.cost \in Amount
        /\ entry.work \in 0 .. MaxAtomicWork
        /\ entry.age \in 0 .. Expiry + 1
        /\ ~Completes(entry)
    /\ totals \in Amount
    /\ DOMAIN sequences = StreamKeys
    /\ transactional \in BOOLEAN
    /\ map \in Maps \cup {NoMap}

\* The four totals that admission relies on are the sums over the pending batches, however
\* these were created, filled, completed, dropped for a conflict or expired, and never
\* exceed the aggregate limits.
TotalsTrue ==
    /\ totals = CostOfAll(pending)
    /\ Within(totals, Limit)
    /\ Cardinality(DOMAIN pending) <= MaxPending

\* Within one stream sequenced batches succeed in the order of their sequences, and each at
\* most once: a delayed batch never changes the scene after a newer one, whatever is
\* retransmitted, under the same or another batch identity.
StreamOrder ==
    \A i, j \in DOMAIN applied :
        i < j /\ applied[i].key = applied[j].key /\ Sequenced(applied[i]) /\ Sequenced(applied[j])
        /\ applied[i].whole =>
            /\ applied[i].sequence <= applied[j].sequence
            /\ applied[j].whole /\ applied[i].sequence = applied[j].sequence =>
                applied[i].batch # applied[j].batch

\* What a stream remembers is what reached the scene: its last sequence is the newest that
\* succeeded and its fingerprints are the batches of that sequence. A batch that failed can
\* so be sent again, and no batch is refused for one that never took effect.
StreamsTrackScene ==
    \A key \in StreamKeys :
        LET done == {i \in DOMAIN applied :
                        applied[i].key = key /\ applied[i].whole /\ Sequenced(applied[i])}
            last == Max({0} \cup {applied[i].sequence : i \in done})
        IN /\ sequences[key].last = last
           /\ sequences[key].fingerprints =
                {applied[i].batch : i \in {k \in done : applied[k].sequence = last}}

\* A reassembly that does not go on ends, even when copies of its chunks keep coming: chunks
\* that wait for one that was lost do not hold their slots for ever. (A copy that arrives
\* after the expiry may open the batch again, with that one chunk.)
StalledReassemblyEnds ==
    \A key \in BatchKeys :
        (key \in DOMAIN pending /\ Cardinality(DOMAIN pending[key].chunks) > 1)
            ~> (key \in DOMAIN pending => Cardinality(DOMAIN pending[key].chunks) <= 1)
=============================================================================
