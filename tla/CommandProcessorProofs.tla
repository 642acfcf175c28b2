----------------------- MODULE CommandProcessorProofs -----------------------
(***************************************************************************)
(* Proofs about CommandProcessor, for any packets, costs, limits and any   *)
(* number of them: the accounting of the reassembly is exact and within    *)
(* its limits, what a stream remembers is what reached the scene, and the  *)
(* sequenced batches of a stream take effect in order and once.            *)
(*                                                                         *)
(* With the clients and the network of CommandTransport around it, for any *)
(* clients and scripts, it keeps the promise of BatchDelivery.             *)
(***************************************************************************)
EXTENDS CommandTransport, SumTheorems, TLAPS

-----------------------------------------------------------------------------
(* The invariant. *)

SomeMap == Maps \cup {NoMap}
ChunkMaps == UNION {[D -> Seq(Commands)] : D \in SUBSET Nat}

Entries == [sequence : Nat, hash : SomeMap, count : Nat, chunks : ChunkMaps, cost : Amount,
            work : Nat, age : Nat]

\* A pending batch: it can still complete, and keeps to its own limits.
Reassembling(entry) ==
    /\ entry \in Entries
    /\ entry.count \in 1 .. MaxChunks
    /\ DOMAIN entry.chunks \subseteq 0 .. entry.count - 1
    /\ entry.work <= MaxAtomicWork
    /\ entry.age <= Expiry + 1
    /\ ~Completes(entry)

\* Pending batches within the limits, and exact totals for them.
Sound(entries, amounts) ==
    /\ IsFiniteSet(DOMAIN entries)
    /\ DOMAIN entries \subseteq BatchKeys
    /\ Cardinality(DOMAIN entries) <= MaxPending
    /\ \A key \in DOMAIN entries : Reassembling(entries[key])
    /\ amounts \in Amount
    /\ amounts = CostOfAll(entries)
    /\ Within(amounts, Limit)

PendingInv == Sound(pending, totals)

ModesInv == transactional \in BOOLEAN /\ map \in SomeMap

\* The batches of a stream that succeeded.
Done(key) ==
    {i \in DOMAIN applied : applied[i].key = key /\ applied[i].whole /\ Sequenced(applied[i])}

\* What a stream remembers of a history.
Remembers(stream, key) ==
    /\ stream = [last |-> stream.last, fingerprints |-> stream.fingerprints]
    /\ stream.last \in Nat
    /\ \A i \in Done(key) : applied[i].sequence <= stream.last
    /\ stream.last = 0 \/ \E i \in Done(key) : applied[i].sequence = stream.last
    /\ stream.fingerprints = {applied[i].batch : i \in {k \in Done(key) : applied[k].sequence = stream.last}}

StreamsInv ==
    /\ \E S : applied \in Seq(S)
    /\ \A i \in DOMAIN applied : applied[i].sequence \in Nat
    /\ sequences = [key \in StreamKeys |-> sequences[key]]
    /\ \A key \in StreamKeys : Remembers(sequences[key], key)
    /\ StreamOrder

PInv == PendingInv /\ ModesInv /\ StreamsInv

-----------------------------------------------------------------------------
(* Packets and costs. *)

LEMMA PacketParts ==
  ASSUME NEW packet \in Packets
  PROVE  /\ packet.fragment \in Fragment /\ packet.sequence \in Nat
         /\ packet.hash \in SomeMap /\ packet.commands \in Seq(Commands)
         /\ BatchKey(packet.fragment) \in BatchKeys
         /\ StreamKey(packet.fragment, packet.hash) \in StreamKeys
  BY ProcessorAssumption DEF Packet, BatchKeys, StreamKeys, SomeMap

LEMMA WorkNat ==
  ASSUME NEW commands \in Seq(Commands)
  PROVE  WorkOf(commands) \in Nat /\ WireOf(commands) \in Nat
  <1> DEFINE D == DOMAIN commands
  <1>1. IsFiniteSet(D) /\ D = 1 .. Len(commands) /\ \A i \in D : commands[i] \in Commands
    BY FS_Interval
  <1>2. SumFunction([i \in D |-> Work[commands[i]]]) \in Nat
    <2> DEFINE f == [i \in D |-> Work[commands[i]]]
    <2>1. DOMAIN f = D /\ \A i \in D : f[i] \in Nat
      BY <1>1, ProcessorAssumption
    <2>2. SumFunction(f) \in Nat
      <3> HIDE DEF f, D
      <3> QED
        BY <1>1, <2>1, SumNat DEF SumFunction
    <2> QED
      BY <2>2
  <1>3. SumFunction([i \in D |-> Bytes[commands[i]]]) \in Nat
    <2> DEFINE f == [i \in D |-> Bytes[commands[i]]]
    <2>1. DOMAIN f = D /\ \A i \in D : f[i] \in Nat
      BY <1>1, ProcessorAssumption
    <2>2. SumFunction(f) \in Nat
      <3> HIDE DEF f, D
      <3> QED
        BY <1>1, <2>1, SumNat DEF SumFunction
    <2> QED
      BY <2>2
  <1>4. EnvelopeBytes \in Nat
    BY ProcessorAssumption
  <1> QED
    BY <1>2, <1>3, <1>4 DEF WorkOf, WireOf

LEMMA CostsTyped ==
  /\ \A count \in Nat : EntryCost(count) \in Amount
  /\ \A commands \in Seq(Commands) : ChunkCost(commands) \in Amount
  <1>1. ASSUME NEW count \in Nat PROVE EntryCost(count) \in Amount
    <2>1. EntryBytes \in Nat /\ SlotBytes \in Nat
      BY ProcessorAssumption
    <2>2. EntryBytes + count * SlotBytes \in Nat
      BY <2>1
    <2> QED
      BY <2>2 DEF EntryCost, Amount, Quantities
  <1>2. ASSUME NEW commands \in Seq(Commands) PROVE ChunkCost(commands) \in Amount
    <2>1. WireOf(commands) \in Nat /\ Len(commands) \in Nat /\ CommandBytes \in Nat
      BY WorkNat, ProcessorAssumption
    <2>2. 2 * WireOf(commands) + Len(commands) * CommandBytes \in Nat
      BY <2>1
    <2> QED
      BY <2>1, <2>2 DEF ChunkCost, Amount, Quantities
  <1> QED
    BY <1>1, <1>2

LEMMA AmountsAdd ==
  ASSUME NEW a \in Amount, NEW b \in Amount
  PROVE  /\ Plus(a, b) \in Amount
         /\ \A q \in Quantities : Plus(a, b)[q] = a[q] + b[q] /\ Minus(a, b)[q] = a[q] - b[q]
         /\ Minus(Plus(a, b), b) = a
  BY DEF Plus, Minus, Amount

-----------------------------------------------------------------------------
(* Sums over the pending batches. *)

\* A map of entries whose costs can be added up.
Costed(entries) == IsFiniteSet(DOMAIN entries) /\ \A key \in DOMAIN entries : entries[key].cost \in Amount

LEMMA CostTyped ==
  ASSUME NEW entries, Costed(entries)
  PROVE  CostOfAll(entries) \in Amount
  <1>1. ASSUME NEW q \in Quantities
        PROVE  SumFunction([key \in DOMAIN entries |-> entries[key].cost[q]]) \in Nat
    <2> DEFINE f == [key \in DOMAIN entries |-> entries[key].cost[q]]
    <2>1. DOMAIN f = DOMAIN entries /\ \A key \in DOMAIN f : f[key] \in Nat
      BY DEF Costed, Amount
    <2>2. SumFunction(f) \in Nat
      <3> HIDE DEF f
      <3> QED
        BY <2>1, SumNat DEF SumFunction, Costed
    <2> QED
      BY <2>2
  <1> QED
    BY <1>1 DEF CostOfAll, Amount

\* The costs of a part and of the rest.
LEMMA CostCut ==
  ASSUME NEW entries, Costed(entries), NEW keys \in SUBSET DOMAIN entries, NEW some,
         DOMAIN some = keys, \A key \in keys : some[key].cost = entries[key].cost, NEW q \in Quantities
  PROVE  CostOfAll(entries)[q] = CostOfAll(some)[q] +
            SumFunction([key \in DOMAIN entries \ keys |-> entries[key].cost[q]])
  <1> DEFINE D == DOMAIN entries
             f == [key \in D |-> entries[key].cost[q]]
             g == [key \in keys |-> some[key].cost[q]]
             h == [key \in D \ keys |-> entries[key].cost[q]]
  <1>1. DOMAIN f = D /\ DOMAIN g = keys /\ DOMAIN h = D \ keys
    OBVIOUS
  <1>2. \A key \in D : f[key] \in Int
    BY DEF Costed, Amount
  <1>3. \A key \in keys : g[key] = f[key]
    OBVIOUS
  <1>4. \A key \in D \ keys : h[key] = f[key]
    OBVIOUS
  <1>5. IsFiniteSet(D) /\ IsFiniteSet(keys) /\ IsFiniteSet(D \ keys)
    BY FS_Subset DEF Costed
  <1>6. CostOfAll(entries)[q] = SumFunction(f) /\ CostOfAll(some)[q] = SumFunction(g)
    BY DEF CostOfAll
  <1>7. SumFunction(h) = SumFunction([key \in DOMAIN entries \ keys |-> entries[key].cost[q]])
    OBVIOUS
  <1> HIDE DEF f, g, h, D
  <1>8. SumFunctionOnSet(g, keys) = SumFunctionOnSet(f, keys)
    BY <1>2, <1>3, <1>5, SumAgree DEF D
  <1>9. SumFunctionOnSet(h, D \ keys) = SumFunctionOnSet(f, D \ keys)
    BY <1>2, <1>4, <1>5, SumAgree
  <1>10. SumFunctionOnSet(f, D) = SumFunctionOnSet(f, D \ keys) + SumFunctionOnSet(f, keys)
    BY <1>2, <1>5, SumSplit DEF D
  <1>11. SumFunctionOnSet(f, D \ keys) \in Int /\ SumFunctionOnSet(f, keys) \in Int
    BY <1>2, <1>5, SumInt DEF D
  <1> QED
    BY <1>1, <1>6, <1>7, <1>8, <1>9, <1>10, <1>11 DEF SumFunction

LEMMA CostSame ==
  ASSUME NEW entries, Costed(entries), NEW some, DOMAIN some = DOMAIN entries,
         \A key \in DOMAIN entries : some[key].cost = entries[key].cost
  PROVE  CostOfAll(some) = CostOfAll(entries)
  <1>1. \A q \in Quantities : [key \in DOMAIN some |-> some[key].cost[q]] =
                              [key \in DOMAIN entries |-> entries[key].cost[q]]
    OBVIOUS
  <1> QED
    BY <1>1 DEF CostOfAll

\* One entry, and the others.
LEMMA CostTake ==
  ASSUME NEW entries, Costed(entries), NEW key \in DOMAIN entries, NEW some,
         DOMAIN some = DOMAIN entries \ {key},
         \A other \in DOMAIN some : some[other].cost = entries[other].cost
  PROVE  CostOfAll(entries) = Plus(CostOfAll(some), entries[key].cost) /\ Costed(some)
  <1> DEFINE D == DOMAIN entries
  <1>1. Costed(some)
    BY FS_Subset DEF Costed
  <1>2. ASSUME NEW q \in Quantities
        PROVE  CostOfAll(entries)[q] = CostOfAll(some)[q] + entries[key].cost[q]
    <2> DEFINE h == [other \in D \ DOMAIN some |-> entries[other].cost[q]]
    <2>1. CostOfAll(entries)[q] = CostOfAll(some)[q] + SumFunction(h)
      BY CostCut
    <2>2. DOMAIN h = {key} /\ h[key] = entries[key].cost[q] /\ h[key] \in Int
      BY DEF Costed, Amount
    <2> HIDE DEF h
    <2>6. SumFunctionOnSet(h, {key}) = h[key]
      BY <2>2, SumSingleton
    <2>7. SumFunction(h) = h[key]
      BY <2>2, <2>6 DEF SumFunction
    <2> QED
      BY <2>1, <2>2, <2>7
  <1>3. CostOfAll(entries) = [q \in Quantities |-> CostOfAll(entries)[q]]
    BY DEF CostOfAll
  <1> QED
    BY <1>1, <1>2, <1>3 DEF Plus

-----------------------------------------------------------------------------
(* What the reassembly does to the pending batches. *)

LEMMA SoundCosted ==
  ASSUME NEW entries, NEW amounts, Sound(entries, amounts)
  PROVE  Costed(entries) /\ \A key \in DOMAIN entries : entries[key].cost \in Amount
  BY DEF Sound, Costed, Reassembling, Entries

\* The expired entries are erased.
LEMMA LiveSound ==
  ASSUME PendingInv
  PROVE  /\ Sound(LiveEntries, LiveTotals)
         /\ DOMAIN LiveEntries = Live /\ \A key \in Live : LiveEntries[key] = pending[key]
  <1>1. Live \subseteq DOMAIN pending /\ DOMAIN LiveEntries = Live
        /\ \A key \in Live : LiveEntries[key] = pending[key]
    BY DEF Live, LiveEntries
  <1>2. Costed(pending)
    BY SoundCosted DEF PendingInv
  <1>3. IsFiniteSet(Live) /\ Cardinality(Live) <= MaxPending
    <2>1. IsFiniteSet(Live) /\ Cardinality(Live) <= Cardinality(DOMAIN pending)
          /\ Cardinality(Live) \in Nat /\ Cardinality(DOMAIN pending) \in Nat
      BY <1>1, FS_Subset, FS_CardinalityType DEF PendingInv, Sound
    <2> QED
      BY <2>1, ProcessorAssumption DEF PendingInv, Sound
  <1>4. Costed(LiveEntries)
    BY <1>1, <1>2, <1>3 DEF Costed
  <1>5. ASSUME NEW q \in Quantities
        PROVE  LiveTotals[q] = CostOfAll(LiveEntries)[q] /\ CostOfAll(LiveEntries)[q] <= totals[q]
    <2> DEFINE h == [key \in DOMAIN pending \ Live |-> pending[key].cost[q]]
    <2>1. totals[q] = CostOfAll(LiveEntries)[q] + SumFunction(h)
      <3>1. \A key \in Live : LiveEntries[key].cost = pending[key].cost
        BY <1>1
      <3>2. CostOfAll(pending)[q] = CostOfAll(LiveEntries)[q] + SumFunction(h)
        <4> HIDE DEF h
        <4>1. CostOfAll(pending)[q] = CostOfAll(LiveEntries)[q] +
                SumFunction([key \in DOMAIN pending \ Live |-> pending[key].cost[q]])
          BY <1>1, <1>2, <3>1, CostCut
        <4> QED
          BY <4>1 DEF h
      <3> QED
        BY <3>2 DEF PendingInv, Sound
    <2>2. SumFunction(h) \in Nat
      <3>1. DOMAIN h = DOMAIN pending \ Live /\ \A key \in DOMAIN h : h[key] \in Nat
        BY <1>2 DEF Costed, Amount
      <3>2. IsFiniteSet(DOMAIN pending \ Live)
        BY <1>2, FS_Subset DEF Costed
      <3> HIDE DEF h
      <3> QED
        BY <3>1, <3>2, SumNat DEF SumFunction
    <2>3. LiveTotals[q] = totals[q] - SumFunction(h)
      BY DEF LiveTotals, Minus, Refund
    <2>4. totals[q] \in Nat /\ CostOfAll(LiveEntries)[q] \in Nat
      BY <1>4, CostTyped DEF PendingInv, Sound, Amount
    <2> HIDE DEF h
    <2> QED
      BY <2>1, <2>2, <2>3, <2>4
  <1>6. LiveTotals = CostOfAll(LiveEntries)
    BY <1>5 DEF LiveTotals, Minus, CostOfAll
  <1>7. LiveTotals \in Amount
    BY <1>4, <1>6, CostTyped
  <1>8. Within(LiveTotals, Limit)
    BY <1>5, <1>6, <1>7, ProcessorAssumption DEF Within, PendingInv, Sound, Amount
  <1> QED
    BY <1>1, <1>3, <1>6, <1>7, <1>8 DEF PendingInv, Sound

\* An entry is erased.
LEMMA WithoutSound ==
  ASSUME NEW entries, NEW amounts, Sound(entries, amounts), NEW key \in DOMAIN entries
  PROVE  /\ Sound(Without(entries, key), Minus(amounts, entries[key].cost))
         /\ Minus(amounts, entries[key].cost) \in Amount
         /\ Plus(Minus(amounts, entries[key].cost), entries[key].cost) = amounts
  <1> DEFINE less == Without(entries, key) cost == entries[key].cost D == DOMAIN entries
  <1>1. DOMAIN less = D \ {key} /\ \A other \in DOMAIN less : less[other] = entries[other]
    BY DEF Without
  <1>2. Costed(entries) /\ cost \in Amount
    BY SoundCosted
  <1>3. amounts = Plus(CostOfAll(less), cost) /\ Costed(less)
    BY <1>1, <1>2, CostTake DEF Sound
  <1>4. CostOfAll(less) \in Amount
    BY <1>3, CostTyped
  <1>5. Minus(amounts, cost) = CostOfAll(less)
    BY <1>2, <1>3, <1>4, AmountsAdd
  <1>6. \A q \in Quantities : CostOfAll(less)[q] <= amounts[q]
    BY <1>2, <1>3, <1>4 DEF Amount, Plus
  <1>7. Within(CostOfAll(less), Limit)
    BY <1>4, <1>6, ProcessorAssumption DEF Within, Sound, Amount
  <1>8. IsFiniteSet(DOMAIN less) /\ Cardinality(DOMAIN less) <= MaxPending
    <2>1. IsFiniteSet(D) /\ Cardinality(D) <= MaxPending /\ D \ {key} \subseteq D
      BY DEF Sound
    <2>2. IsFiniteSet(D \ {key}) /\ Cardinality(D \ {key}) <= Cardinality(D)
          /\ Cardinality(D \ {key}) \in Nat /\ Cardinality(D) \in Nat
      BY <2>1, FS_Subset, FS_CardinalityType
    <2> QED
      BY <1>1, <2>1, <2>2, ProcessorAssumption
  <1>9. Sound(less, CostOfAll(less))
    BY <1>1, <1>4, <1>7, <1>8 DEF Sound
  <1> QED
    BY <1>3, <1>4, <1>5, <1>9

\* There is no such entry.
LEMMA WithoutNone ==
  ASSUME NEW entries, NEW amounts, Sound(entries, amounts), NEW key, key \notin DOMAIN entries
  PROVE  Sound(Without(entries, key), amounts)
  <1> DEFINE less == Without(entries, key)
  <1>1. DOMAIN less = DOMAIN entries /\ \A other \in DOMAIN less : less[other] = entries[other]
    BY DEF Without
  <1>2. CostOfAll(less) = CostOfAll(entries)
    BY <1>1, SoundCosted, CostSame
  <1> HIDE DEF less
  <1>3. Sound(less, amounts)
    BY <1>1, <1>2 DEF Sound
  <1> QED
    BY <1>3 DEF less

\* An entry is put in, beside the others.
LEMMA WithEntrySound ==
  ASSUME NEW entries, NEW amounts, NEW key \in BatchKeys, NEW entry, Reassembling(entry),
         NEW rest, Sound(Without(entries, key), rest), amounts = Plus(rest, entry.cost),
         Within(amounts, Limit), IsFiniteSet(DOMAIN entries),
         Cardinality(DOMAIN entries \cup {key}) <= MaxPending
  PROVE  Sound(WithEntry(entries, key, entry), amounts)
  <1> DEFINE more == WithEntry(entries, key, entry) less == Without(entries, key)
             D == DOMAIN entries
  <1>1. DOMAIN more = D \cup {key} /\ more[key] = entry
        /\ \A other \in D \ {key} : more[other] = entries[other]
    BY DEF WithEntry
  <1>2. DOMAIN less = D \ {key} /\ \A other \in DOMAIN less : less[other] = entries[other]
    BY DEF Without
  <1>3. \A other \in DOMAIN more : Reassembling(more[other])
    BY <1>1, <1>2 DEF Sound
  <1>4. IsFiniteSet(DOMAIN more)
    BY <1>1, FS_AddElement
  <1>5. Costed(more)
    BY <1>3, <1>4 DEF Costed, Reassembling, Entries
  <1>6. CostOfAll(more) = Plus(CostOfAll(less), entry.cost)
    <2>1. DOMAIN less = DOMAIN more \ {key}
      BY <1>1, <1>2
    <2>2. \A other \in DOMAIN less : less[other].cost = more[other].cost
      BY <1>1, <1>2
    <2> HIDE DEF less, more
    <2> QED
      BY <1>1, <1>5, <2>1, <2>2, CostTake
  <1>7. rest = CostOfAll(less)
    BY DEF Sound
  <1>8. amounts = CostOfAll(more) /\ amounts \in Amount
    BY <1>5, <1>6, <1>7, CostTyped
  <1>9. DOMAIN more \subseteq BatchKeys
    BY <1>1, <1>2 DEF Sound
  <1> QED
    BY <1>1, <1>3, <1>4, <1>8, <1>9 DEF Sound

\* The entry of a packet: what the rest of the pending batches costs, and what it costs itself.
LEMMA EntryFound ==
  ASSUME PendingInv, NEW packet \in Packets, Admitted(packet), Found(packet) \/ RoomForEntry(packet)
  PROVE  LET key == BatchKey(packet.fragment) entry == EntryOf(packet) IN
         /\ entry \in Entries /\ entry.count \in 1 .. MaxChunks /\ entry.work <= MaxAtomicWork
         /\ DOMAIN entry.chunks \subseteq 0 .. entry.count - 1
         /\ Cardinality(Live \cup {key}) <= MaxPending
         /\ \E rest \in Amount : /\ Sound(Without(LiveEntries, key), rest)
                                 /\ TotalsWith(packet) = Plus(rest, entry.cost)
  <1> DEFINE key == BatchKey(packet.fragment) entry == EntryOf(packet)
  <1>1. Sound(LiveEntries, LiveTotals) /\ DOMAIN LiveEntries = Live
        /\ \A k \in Live : LiveEntries[k] = pending[k]
    BY LiveSound
  <1>2. CASE Found(packet)
    <2>1. key \in Live /\ entry = LiveEntries[key] /\ TotalsWith(packet) = LiveTotals
      BY <1>1, <1>2 DEF Found, EntryOf, TotalsWith
    <2>2. Reassembling(entry)
      BY <1>1, <2>1 DEF Sound
    <2>3. Live \cup {key} = Live
      BY <2>1
    <2>4. Cardinality(Live \cup {key}) <= MaxPending
      BY <1>1, <2>3 DEF Sound
    <2>5. /\ Sound(Without(LiveEntries, key), Minus(LiveTotals, entry.cost))
          /\ Minus(LiveTotals, entry.cost) \in Amount
          /\ Plus(Minus(LiveTotals, entry.cost), entry.cost) = LiveTotals
      <3> HIDE DEF key, entry
      <3> QED
        BY <1>1, <2>1, WithoutSound
    <2> HIDE DEF key, entry
    <2>6. \E rest \in Amount : /\ Sound(Without(LiveEntries, key), rest)
                               /\ TotalsWith(packet) = Plus(rest, entry.cost)
      BY <2>1, <2>5
    <2> QED
      BY <2>2, <2>4, <2>6 DEF Reassembling, key, entry
  <1>3. CASE ~Found(packet)
    <2>1. key \notin Live /\ entry = NewEntry(packet) /\ TotalsWith(packet) = Plus(LiveTotals, entry.cost)
      BY <1>3 DEF Found, EntryOf, TotalsWith
    <2>2. packet.fragment.count \in 1 .. MaxChunks
      BY <1>3, PacketParts, ProcessorAssumption DEF Admitted, ValidMetadata, Fragment
    <2>3. entry \in Entries /\ entry.count = packet.fragment.count /\ entry.work = 0
          /\ DOMAIN entry.chunks = {}
      <3>1. <<>> \in ChunkMaps /\ DOMAIN <<>> = {}
        <4>1. <<>> \in [{} -> Seq(Commands)]
          OBVIOUS
        <4> QED
          BY <4>1 DEF ChunkMaps
      <3>2. EntryCost(packet.fragment.count) \in Amount
        BY <2>2, CostsTyped, ProcessorAssumption
      <3> HIDE DEF entry
      <3> QED
        BY <2>1, <2>2, <3>1, <3>2, PacketParts, ProcessorAssumption DEF NewEntry, Entries
    <2>4. IsFiniteSet(Live) /\ Cardinality(Live) < MaxPending /\ Cardinality(Live) \in Nat
      BY <1>1, <1>3, FS_CardinalityType DEF Sound, RoomForEntry
    <2>5. Cardinality(Live \cup {key}) <= MaxPending
      <3> HIDE DEF key
      <3>1. Cardinality(Live \cup {key}) = Cardinality(Live) + 1
        BY <2>1, <2>4, FS_AddElement
      <3> QED
        BY <2>4, <3>1, ProcessorAssumption
    <2>6. Sound(Without(LiveEntries, key), LiveTotals) /\ LiveTotals \in Amount
      <3> HIDE DEF key
      <3> QED
        BY <1>1, <2>1, WithoutNone DEF Sound
    <2> HIDE DEF key, entry
    <2>7. \E rest \in Amount : /\ Sound(Without(LiveEntries, key), rest)
                               /\ TotalsWith(packet) = Plus(rest, entry.cost)
      BY <2>1, <2>6
    <2>8. entry.count \in 1 .. MaxChunks /\ entry.work <= MaxAtomicWork
      BY <2>2, <2>3, ProcessorAssumption
    <2> QED
      BY <2>3, <2>5, <2>7, <2>8 DEF key, entry
  <1> QED
    BY <1>2, <1>3

\* A chunk is put into its entry.
LEMMA FilledEntry ==
  ASSUME NEW entry \in Entries, NEW packet \in Packets
  PROVE  LET filled == Filled(entry, packet) IN
         /\ filled \in Entries
         /\ filled.sequence = entry.sequence /\ filled.hash = entry.hash /\ filled.count = entry.count
         /\ DOMAIN filled.chunks = DOMAIN entry.chunks \cup {packet.fragment.index}
         /\ \A i \in DOMAIN filled.chunks :
                filled.chunks[i] = IF i = packet.fragment.index THEN packet.commands ELSE entry.chunks[i]
         /\ filled.cost = Plus(entry.cost, ChunkCost(packet.commands))
         /\ filled.work = entry.work + WorkOf(packet.commands)
         /\ filled.age = 0
  <1> DEFINE D == DOMAIN entry.chunks \cup {packet.fragment.index}
             chunks == [i \in D |-> IF i = packet.fragment.index THEN packet.commands ELSE entry.chunks[i]]
             cost == Plus(entry.cost, ChunkCost(packet.commands))
             work == entry.work + WorkOf(packet.commands)
  <1>1. chunks \in ChunkMaps /\ DOMAIN chunks = D
    <2>1. PICK E \in SUBSET Nat : entry.chunks \in [E -> Seq(Commands)]
      BY DEF Entries, ChunkMaps
    <2>2. packet.fragment.index \in Nat /\ packet.commands \in Seq(Commands)
      BY PacketParts DEF Fragment
    <2>3. chunks \in [D -> Seq(Commands)] /\ D \in SUBSET Nat
      BY <2>1, <2>2
    <2> HIDE DEF chunks, D
    <2> QED
      BY <2>3 DEF ChunkMaps
  <1>2. cost \in Amount
    BY PacketParts, CostsTyped, AmountsAdd DEF Entries
  <1>3. work \in Nat
    BY PacketParts, WorkNat DEF Entries
  <1>4. Filled(entry, packet) = [entry EXCEPT !.chunks = chunks, !.cost = cost, !.work = work, !.age = 0]
    BY DEF Filled
  <1> HIDE DEF chunks, cost, work, D
  <1>5. /\ Filled(entry, packet) \in Entries
        /\ Filled(entry, packet).sequence = entry.sequence
        /\ Filled(entry, packet).hash = entry.hash /\ Filled(entry, packet).count = entry.count
        /\ Filled(entry, packet).chunks = chunks /\ Filled(entry, packet).cost = cost
        /\ Filled(entry, packet).work = work /\ Filled(entry, packet).age = 0
    <2> DEFINE filled == [entry EXCEPT !.chunks = chunks, !.cost = cost, !.work = work, !.age = 0]
    <2>1. filled \in Entries
      BY <1>1, <1>2, <1>3 DEF Entries
    <2>2. filled.sequence = entry.sequence /\ filled.hash = entry.hash /\ filled.count = entry.count
      BY DEF Entries
    <2>3. filled.chunks = chunks /\ filled.cost = cost
      BY DEF Entries
    <2>4. filled.work = work /\ filled.age = 0
      BY DEF Entries
    <2> HIDE DEF filled
    <2> QED
      BY <1>4, <2>1, <2>2, <2>3, <2>4 DEF filled
  <1> QED
    BY <1>1, <1>5 DEF D, chunks, cost, work

LEMMA AmountsThree ==
  ASSUME NEW a \in Amount, NEW b \in Amount, NEW c \in Amount
  PROVE  /\ Plus(Plus(a, b), c) = Plus(a, Plus(b, c))
         /\ Minus(Plus(Plus(a, b), c), Plus(b, c)) = a
  BY DEF Plus, Minus, Amount

-----------------------------------------------------------------------------
(* The steps and the reassembly. *)

LEMMA DropStep ==
  ASSUME PendingInv, NEW packet \in Packets, DropPendingBatch(packet)
  PROVE  PendingInv'
  <1> DEFINE key == BatchKey(packet.fragment) entry == EntryOf(packet)
  <1>1. /\ entry \in Entries
        /\ \E rest \in Amount : /\ Sound(Without(LiveEntries, key), rest)
                                /\ TotalsWith(packet) = Plus(rest, entry.cost)
    BY EntryFound DEF DropPendingBatch
  <1>2. PICK rest \in Amount : /\ Sound(Without(LiveEntries, key), rest)
                               /\ TotalsWith(packet) = Plus(rest, entry.cost)
    BY <1>1
  <1>3. pending' = Without(LiveEntries, key) /\ totals' = Minus(TotalsWith(packet), entry.cost)
    BY DEF DropPendingBatch, Erased, Refund
  <1>4. entry.cost \in Amount
    BY <1>1 DEF Entries
  <1>5. totals' = rest
    BY <1>2, <1>3, <1>4, AmountsAdd
  <1>6. Sound(pending', totals')
    BY <1>2, <1>3, <1>5
  <1> QED
    BY <1>6 DEF PendingInv, Sound, Reassembling, CostOfAll, Completes

LEMMA StoreStep ==
  ASSUME PendingInv, NEW packet \in Packets, StoreChunk(packet)
  PROVE  PendingInv'
  <1> DEFINE key == BatchKey(packet.fragment) entry == EntryOf(packet)
             filled == Filled(entry, packet) chunk == ChunkCost(packet.commands)
             charged == Plus(TotalsWith(packet), chunk)
  <1>1. /\ entry \in Entries /\ entry.count \in 1 .. MaxChunks /\ entry.work <= MaxAtomicWork
        /\ DOMAIN entry.chunks \subseteq 0 .. entry.count - 1
        /\ Cardinality(Live \cup {key}) <= MaxPending
        /\ \E rest \in Amount : /\ Sound(Without(LiveEntries, key), rest)
                                /\ TotalsWith(packet) = Plus(rest, entry.cost)
    BY EntryFound DEF StoreChunk
  <1>2. PICK rest \in Amount : /\ Sound(Without(LiveEntries, key), rest)
                               /\ TotalsWith(packet) = Plus(rest, entry.cost)
    BY <1>1
  <1>3. /\ filled \in Entries /\ filled.count = entry.count /\ filled.age = 0
        /\ DOMAIN filled.chunks = DOMAIN entry.chunks \cup {packet.fragment.index}
        /\ filled.cost = Plus(entry.cost, chunk)
        /\ filled.work = entry.work + WorkOf(packet.commands)
    BY <1>1, FilledEntry
  <1>4. entry.cost \in Amount /\ chunk \in Amount
    BY <1>1, PacketParts, CostsTyped DEF Entries
  <1>5. charged = Plus(rest, filled.cost) /\ Minus(charged, filled.cost) = rest
    BY <1>2, <1>3, <1>4, AmountsThree
  <1>6. CASE Completes(filled)
    <2>1. pending' = Without(LiveEntries, key) /\ totals' = Minus(charged, filled.cost)
      BY <1>6 DEF StoreChunk, Erased, Refund
    <2>2. Sound(pending', totals')
      BY <1>2, <1>5, <2>1
    <2> QED
      BY <2>2 DEF PendingInv, Sound, Reassembling, CostOfAll, Completes
  <1>7. CASE ~Completes(filled)
    <2>1. pending' = WithEntry(LiveEntries, key, filled) /\ totals' = charged
      BY <1>7 DEF StoreChunk
    <2>2. Takes(packet)
      BY DEF StoreChunk
    <2>3. Within(charged, Limit) /\ entry.work + WorkOf(packet.commands) <= MaxAtomicWork
      BY <2>2 DEF Takes, RoomForChunk
    <2>4. entry.count = packet.fragment.count /\ packet.fragment.index \in 0 .. entry.count - 1
      BY <2>2, PacketParts DEF Takes, SameBatch, StoreChunk, Admitted, ValidMetadata, Fragment
    <2>5. Reassembling(filled)
      <3> HIDE DEF filled, entry
      <3> QED
        BY <1>1, <1>3, <1>7, <2>3, <2>4, ProcessorAssumption DEF Reassembling
    <2>6. IsFiniteSet(Live) /\ DOMAIN LiveEntries = Live /\ key \in BatchKeys
      BY LiveSound, PacketParts DEF Sound
    <2>7. Sound(WithEntry(LiveEntries, key, filled), charged)
      <3> HIDE DEF filled, entry, key, charged
      <3> QED
        BY <1>1, <1>2, <1>5, <2>3, <2>5, <2>6, WithEntrySound
    <2>8. Sound(pending', totals')
      BY <2>1, <2>7
    <2> QED
      BY <2>8 DEF PendingInv, Sound, Reassembling, CostOfAll, Completes
  <1> QED
    BY <1>6, <1>7

\* Whatever is submitted.
LEMMA SubmitPending ==
  ASSUME PendingInv, NEW packet \in Packets, Submit(packet)
  PROVE  PendingInv'
  <1>1. CASE SubmitWhole(packet) \/ RefuseFragment(packet)
    BY <1>1 DEF SubmitWhole, RefuseFragment, transportVars, PendingInv, Sound, Reassembling,
                CostOfAll, Completes
  <1>2. CASE RefuseNewBatch(packet) \/ RepeatChunk(packet)
    <2>1. pending' = LiveEntries /\ totals' = LiveTotals
      BY <1>2 DEF RefuseNewBatch, RepeatChunk, AfterRepeat
    <2>2. Sound(pending', totals')
      BY <2>1, LiveSound
    <2> QED
      BY <2>2 DEF PendingInv, Sound, Reassembling, CostOfAll, Completes
  <1>3. CASE DropPendingBatch(packet)
    BY <1>3, DropStep
  <1>4. CASE StoreChunk(packet)
    BY <1>4, StoreStep
  <1> QED
    BY <1>1, <1>2, <1>3, <1>4 DEF Submit

LEMMA MaintainPending ==
  ASSUME PendingInv, MaintainTransportState
  PROVE  PendingInv'
  <1>1. Sound(pending', totals')
    BY LiveSound DEF MaintainTransportState
  <1> QED
    BY <1>1 DEF PendingInv, Sound, Reassembling, CostOfAll, Completes

LEMMA NothingPending == Sound(<<>>, Zero)
  <1>1. DOMAIN <<>> = {}
    OBVIOUS
  <1>2. IsFiniteSet({}) /\ Cardinality({}) = 0
    BY FS_EmptySet
  <1>3. \A q \in Quantities : SumFunction([key \in DOMAIN <<>> |-> <<>>[key].cost[q]]) = 0
    <2> TAKE q \in Quantities
    <2> DEFINE f == [key \in DOMAIN <<>> |-> <<>>[key].cost[q]]
    <2>1. DOMAIN f = {}
      BY <1>1
    <2>2. SumFunction(f) = 0
      <3> HIDE DEF f
      <3> QED
        BY <2>1, SumEmpty DEF SumFunction
    <2> QED
      BY <2>2
  <1>4. CostOfAll(<<>>) = Zero
    BY <1>3 DEF CostOfAll, Zero
  <1>5. Zero \in Amount /\ Within(Zero, Limit)
    BY ProcessorAssumption DEF Zero, Amount, Within
  <1> QED
    BY <1>1, <1>2, <1>4, <1>5, ProcessorAssumption DEF Sound

LEMMA ResetPending ==
  ASSUME ResetTransportState
  PROVE  PendingInv'
  <1>1. Sound(pending', totals')
    BY NothingPending DEF ResetTransportState
  <1> QED
    BY <1>1 DEF PendingInv, Sound, Reassembling, CostOfAll, Completes

LEMMA TickPending ==
  ASSUME PendingInv, Tick
  PROVE  PendingInv'
  <1> DEFINE aged == [key \in DOMAIN pending |->
                        [pending[key] EXCEPT !.age = Min({@ + 1, Expiry + 1})]]
  <1>1. pending' = aged /\ totals' = totals /\ DOMAIN aged = DOMAIN pending
    BY DEF Tick
  <1>2. ASSUME NEW key \in DOMAIN pending
        PROVE  Reassembling(aged[key]) /\ aged[key].cost = pending[key].cost
    <2> DEFINE entry == pending[key] age == Min({entry.age + 1, Expiry + 1})
    <2>1. entry \in Entries /\ Reassembling(entry)
      BY DEF PendingInv, Sound, Reassembling
    <2>2. age \in Nat /\ age <= Expiry + 1
      <3>1. entry.age + 1 \in Nat /\ Expiry + 1 \in Nat
        BY <2>1, ProcessorAssumption DEF Entries
      <3>2. \E x \in {entry.age + 1, Expiry + 1} : \A y \in {entry.age + 1, Expiry + 1} : x <= y
        BY <3>1
      <3>3. age \in {entry.age + 1, Expiry + 1} /\ \A y \in {entry.age + 1, Expiry + 1} : age <= y
        BY <3>2 DEF Min
      <3> HIDE DEF age
      <3> QED
        BY <3>1, <3>3
    <2>3. aged[key] = [entry EXCEPT !.age = age]
      OBVIOUS
    <2> HIDE DEF age, entry, aged
    <2>4. /\ aged[key] \in Entries /\ aged[key].count = entry.count /\ aged[key].chunks = entry.chunks
          /\ aged[key].cost = entry.cost /\ aged[key].work = entry.work /\ aged[key].age = age
      BY <2>1, <2>2, <2>3 DEF Entries
    <2> QED
      BY <2>1, <2>2, <2>4 DEF Reassembling, Completes, entry
  <1> HIDE DEF aged
  <1>3. CostOfAll(aged) = CostOfAll(pending)
    BY <1>1, <1>2, SoundCosted, CostSame DEF PendingInv
  <1>4. Sound(aged, totals)
    BY <1>1, <1>2, <1>3 DEF PendingInv, Sound
  <1>5. Sound(pending', totals')
    BY <1>1, <1>4
  <1> QED
    BY <1>5 DEF PendingInv, Sound, Reassembling, CostOfAll, Completes

-----------------------------------------------------------------------------
(* The streams. *)

\* A batch that takes effect, and one that does not, keep what the streams remember.
LEMMA CompleteBatchStep ==
  ASSUME StreamsInv, NEW batch, NEW key \in StreamKeys, batch.sequence \in Nat,
         SubmitCompleteBatch(batch, key)
  PROVE  StreamsInv'
  <1>1. CASE UNCHANGED <<applied, sequences>>
    BY <1>1 DEF StreamsInv, Remembers, Done, StreamOrder
  <1>2. CASE Acceptable(batch, key)
    <2>1. PICK count \in 0 .. Len(batch.commands) :
            LET application == Application(batch, key, count) IN
            /\ applied' = IF application.commands = <<>> /\ ~application.whole
                          THEN applied
                          ELSE Append(applied, application)
            /\ sequences' = RecordedAfter(batch, key, count)
      BY <1>2 DEF SubmitCompleteBatch
    <2> DEFINE app == Application(batch, key, count)
               record == Sequenced(batch) /\ count = Len(batch.commands)
               n == Len(applied) + 1
    <2>2. /\ app.key = key /\ app.sequence = batch.sequence /\ app.hash = batch.hash
          /\ app.batch = batch.commands /\ app.whole = (count = Len(batch.commands))
          /\ Sequenced(app) = Sequenced(batch)
      BY DEF Application, Sequenced
    <2>3. /\ Sequenced(batch) => ~Stale(sequences[key], batch)
          /\ sequences' = IF record THEN [sequences EXCEPT ![key] = Recorded(@, batch)] ELSE sequences
      BY <1>2, <2>1 DEF Acceptable, RecordedAfter
    <2>4. CASE applied' = applied /\ ~app.whole
      <3>1. UNCHANGED <<applied, sequences>>
        BY <2>2, <2>3, <2>4
      <3> QED
        BY <1>1, <3>1
    <2>5. CASE applied' = Append(applied, app)
      <3>1. PICK S : applied \in Seq(S)
        BY DEF StreamsInv
      <3>2. applied' \in Seq(S \cup {app})
        <4>1. applied \in Seq(S \cup {app})
          BY <3>1
        <4> HIDE DEF app
        <4> QED
          BY <2>5, <4>1
      <3>3. /\ n \in Nat /\ DOMAIN applied = 1 .. n - 1 /\ DOMAIN applied' = DOMAIN applied \cup {n}
            /\ n \notin DOMAIN applied /\ applied'[n] = app
            /\ \A i \in DOMAIN applied : applied'[i] = applied[i] /\ i < n
        <4> HIDE DEF app
        <4> QED
          BY <2>5, <3>1
      <3> DEFINE stream == sequences[key]
      <3>4. /\ stream = [last |-> stream.last, fingerprints |-> stream.fingerprints]
            /\ stream.last \in Nat /\ Remembers(stream, key)
        BY DEF StreamsInv, Remembers
      <3>5. \A i \in DOMAIN applied : Sequenced(applied'[i]) = Sequenced(applied[i])
        BY <3>3
      <3>6. \A k : Done(k)' = IF k = key /\ record THEN Done(k) \cup {n} ELSE Done(k)
        <4> TAKE k
        <4> HIDE DEF app
        <4>1. n \in Done(k)' <=> k = key /\ record
          BY <2>2, <3>3 DEF Done, Sequenced
        <4>2. \A i \in DOMAIN applied : i \in Done(k)' <=> i \in Done(k)
          BY <3>3, <3>5 DEF Done, Sequenced
        <4>3. Done(k)' \subseteq DOMAIN applied \cup {n} /\ Done(k) \subseteq DOMAIN applied
          BY <3>3 DEF Done
        <4>4. CASE k = key /\ record
          BY <4>1, <4>2, <4>3, <4>4
        <4>5. CASE ~(k = key /\ record)
          <5>1. Done(k)' \subseteq Done(k)
            BY <4>1, <4>2, <4>3, <4>5
          <5>2. Done(k) \subseteq Done(k)'
            BY <4>2, <4>3
          <5>3. Done(k)' = Done(k)
            BY <5>1, <5>2
          <5> QED
            BY <4>5, <5>3
        <4> QED
          BY <4>4, <4>5
      <3>7. ASSUME record
            PROVE  /\ stream.last <= batch.sequence
                   /\ stream.last = batch.sequence => batch.commands \notin stream.fingerprints
                   /\ sequences'[key].last = batch.sequence
                   /\ sequences'[key].fingerprints =
                        (IF batch.sequence > stream.last THEN {} ELSE stream.fingerprints) \cup {batch.commands}
                   /\ sequences'[key] = [last |-> sequences'[key].last,
                                         fingerprints |-> sequences'[key].fingerprints]
        <4>1. ~Stale(stream, batch)
          BY <2>3, <3>7
        <4>2. stream.last <= batch.sequence
          BY <3>4, <4>1 DEF Stale
        <4>3. Max({stream.last, batch.sequence}) = batch.sequence
          <5>1. \E x \in {stream.last, batch.sequence} : \A y \in {stream.last, batch.sequence} : x >= y
            BY <3>4, <4>2
          <5>2. /\ Max({stream.last, batch.sequence}) \in {stream.last, batch.sequence}
                /\ Max({stream.last, batch.sequence}) >= batch.sequence
            BY <5>1 DEF Max
          <5> QED
            BY <3>4, <4>2, <5>2
        <4>4. sequences'[key] = Recorded(stream, batch)
          BY <2>3, <3>7 DEF StreamsInv
        <4> QED
          BY <4>1, <4>2, <4>3, <4>4 DEF Stale, Recorded, Fingerprint
      <3>8. ASSUME NEW k \in StreamKeys, ~(k = key /\ record) PROVE sequences'[k] = sequences[k]
        BY <2>3, <3>8 DEF StreamsInv
      <3>9. sequences' = [k \in StreamKeys |-> sequences'[k]]
        BY <2>3 DEF StreamsInv
      <3>10. \A i \in DOMAIN applied' : applied'[i].sequence \in Nat
        <4> HIDE DEF app
        <4> QED
          BY <2>2, <3>3 DEF StreamsInv
      <3>11. ASSUME NEW k \in StreamKeys PROVE Remembers(sequences[k], k)'
        <4>1. \A i \in Done(k) : i \in DOMAIN applied /\ applied'[i] = applied[i]
          BY <3>3 DEF Done
        <4>2. Remembers(sequences[k], k)
          BY DEF StreamsInv
        <4>3. CASE ~(k = key /\ record)
          <5>1. Done(k)' = Done(k) /\ sequences'[k] = sequences[k]
            BY <3>6, <3>8, <4>3
          <5> QED
            BY <4>1, <4>2, <5>1 DEF Remembers
        <4>4. CASE k = key /\ record
          <5>1. Done(k)' = Done(k) \cup {n} /\ n \notin Done(k)
            BY <3>3, <3>6, <4>4 DEF Done
          <5>2. applied'[n].sequence = batch.sequence /\ applied'[n].batch = batch.commands
            BY <2>2, <3>3
          <5>3. /\ \A i \in Done(k) : applied[i].sequence <= stream.last /\ applied[i].sequence \in Nat
                /\ stream.fingerprints = {applied[i].batch : i \in {j \in Done(k) : applied[j].sequence = stream.last}}
            BY <4>1, <4>2, <4>4 DEF Remembers, StreamsInv
          <5>4. \A i \in Done(k)' : applied'[i].sequence <= sequences'[k].last
            BY <3>4, <3>7, <4>1, <4>4, <5>1, <5>2, <5>3
          <5>5. sequences'[k].last \in Nat /\ \E i \in Done(k)' : applied'[i].sequence = sequences'[k].last
            BY <3>7, <4>4, <5>1, <5>2
          <5>6. sequences'[k].fingerprints =
                   {applied'[i].batch : i \in {j \in Done(k)' : applied'[j].sequence = sequences'[k].last}}
            <6> DEFINE Newest == {j \in Done(k)' : applied'[j].sequence = batch.sequence}
            <6>1. CASE batch.sequence > stream.last
              <7>1. Newest = {n}
                BY <3>4, <4>1, <5>1, <5>2, <5>3, <6>1
              <7> HIDE DEF Newest
              <7>2. {applied'[i].batch : i \in Newest} = {batch.commands}
                BY <5>2, <7>1
              <7>3. sequences'[k].fingerprints = {batch.commands}
                BY <3>7, <4>4, <6>1
              <7> QED
                BY <3>7, <4>4, <7>2, <7>3 DEF Newest
            <6>2. CASE batch.sequence = stream.last
              <7>1. Newest = {j \in Done(k) : applied[j].sequence = stream.last} \cup {n}
                BY <4>1, <5>1, <5>2, <6>2
              <7> HIDE DEF Newest
              <7>2. {applied'[i].batch : i \in Newest} =
                       {applied[i].batch : i \in {j \in Done(k) : applied[j].sequence = stream.last}}
                         \cup {batch.commands}
                BY <4>1, <5>2, <7>1
              <7>3. sequences'[k].fingerprints = stream.fingerprints \cup {batch.commands}
                <8>1. ~(batch.sequence > stream.last)
                  BY <3>4, <6>2
                <8> QED
                  BY <3>7, <4>4, <8>1
              <7> QED
                BY <3>7, <4>4, <5>3, <7>2, <7>3 DEF Newest
            <6> QED
              BY <3>4, <3>7, <4>4, <6>1, <6>2
          <5> QED
            BY <3>7, <4>4, <5>4, <5>5, <5>6 DEF Remembers
        <4> QED
          BY <4>3, <4>4
      <3>12. StreamOrder'
        <4> SUFFICES ASSUME NEW i \in DOMAIN applied', NEW j \in DOMAIN applied', i < j,
                            applied'[i].key = applied'[j].key, Sequenced(applied'[i]),
                            Sequenced(applied'[j]), applied'[i].whole
                     PROVE  /\ applied'[i].sequence <= applied'[j].sequence
                            /\ applied'[j].whole /\ applied'[i].sequence = applied'[j].sequence =>
                                    applied'[i].batch # applied'[j].batch
          BY DEF StreamOrder, Sequenced
        <4>1. i \in DOMAIN applied /\ applied'[i] = applied[i]
          BY <3>3
        <4>2. CASE j \in DOMAIN applied
          BY <3>3, <4>1, <4>2 DEF StreamsInv, StreamOrder
        <4>3. CASE j = n
          <5>1. applied'[j] = app
            BY <3>3, <4>3
          <5> HIDE DEF app
          <5>2. applied[i].key = key /\ Sequenced(batch) /\ i \in Done(key)
            BY <2>2, <4>1, <5>1 DEF Done
          <5>3. ~Stale(stream, batch)
            BY <2>3, <5>2
          <5>4. applied[i].sequence <= stream.last /\ applied[i].sequence \in Nat
            BY <3>4, <4>1, <5>2 DEF Remembers, StreamsInv
          <5>5. applied[i].sequence <= batch.sequence
            BY <3>4, <5>3, <5>4 DEF Stale
          <5>6. ASSUME applied[i].sequence = batch.sequence PROVE applied[i].batch # batch.commands
            <6>1. applied[i].sequence = stream.last /\ batch.sequence = stream.last
              BY <3>4, <5>3, <5>4, <5>6 DEF Stale
            <6>2. applied[i].batch \in stream.fingerprints
              BY <3>4, <5>2, <6>1 DEF Remembers
            <6> QED
              BY <5>3, <6>1, <6>2 DEF Stale, Fingerprint
          <5> QED
            BY <2>2, <4>1, <5>1, <5>5, <5>6
        <4> QED
          BY <3>3, <4>2, <4>3
      <3> QED
        BY <3>2, <3>9, <3>10, <3>11, <3>12 DEF StreamsInv
    <2>6. (applied' = applied /\ ~app.whole) \/ applied' = Append(applied, app)
      BY <2>1
    <2> HIDE DEF app
    <2> QED
      BY <2>4, <2>5, <2>6
  <1> QED
    BY <1>1, <1>2 DEF SubmitCompleteBatch

LEMMA StreamsKept ==
  ASSUME StreamsInv, UNCHANGED <<sequences, applied>>
  PROVE  StreamsInv'
  BY DEF StreamsInv, Remembers, Done, StreamOrder

\* The batch that an entry makes up is of the packet that completes it.
LEMMA SubmitStreams ==
  ASSUME PendingInv, StreamsInv, NEW packet \in Packets, Submit(packet)
  PROVE  StreamsInv'
  <1> DEFINE key == StreamKey(packet.fragment, packet.hash)
  <1>1. key \in StreamKeys /\ packet.sequence \in Nat
    BY PacketParts
  <1>2. CASE SubmitWhole(packet)
    <2>1. CASE UNCHANGED <<applied, sequences>>
      BY <2>1, StreamsKept
    <2>2. CASE SubmitCompleteBatch(packet, key)
      <3> HIDE DEF key
      <3> QED
        BY <1>1, <2>2, CompleteBatchStep
    <2> QED
      BY <1>2, <2>1, <2>2 DEF SubmitWhole
  <1>3. CASE RefuseFragment(packet) \/ RefuseNewBatch(packet) \/ RepeatChunk(packet) \/ DropPendingBatch(packet)
    BY <1>3, StreamsKept DEF RefuseFragment, RefuseNewBatch, RepeatChunk, DropPendingBatch, transportVars
  <1>4. CASE StoreChunk(packet)
    <2> DEFINE filled == Filled(EntryOf(packet), packet)
    <2>1. CASE UNCHANGED <<sequences, applied>>
      BY <2>1, StreamsKept
    <2>2. CASE SubmitCompleteBatch(Assembled(filled), key)
      <3>1. filled.sequence = packet.sequence
        <4>1. EntryOf(packet) \in Entries /\ EntryOf(packet).sequence = packet.sequence
          BY <1>4, EntryFound DEF StoreChunk, Takes, SameBatch
        <4> QED
          BY <4>1, FilledEntry
      <3>2. Assembled(filled).sequence \in Nat
        BY <1>1, <3>1 DEF Assembled
      <3> HIDE DEF key, filled
      <3> QED
        BY <1>1, <2>2, <3>2, CompleteBatchStep
    <2> QED
      BY <1>4, <2>1, <2>2 DEF StoreChunk
  <1> QED
    BY <1>2, <1>3, <1>4 DEF Submit

LEMMA FreshStreams ==
  ASSUME applied' = <<>>, sequences' = [key \in StreamKeys |-> Fresh]
  PROVE  StreamsInv'
  BY DEF StreamsInv, Remembers, Done, StreamOrder, Fresh

-----------------------------------------------------------------------------
(* The invariant holds. *)

LEMMA InitInv == Init => PInv
  <1> SUFFICES ASSUME Init PROVE PInv
    OBVIOUS
  <1>1. PendingInv
    BY NothingPending DEF Init, PendingInv
  <1>2. ModesInv
    BY ProcessorAssumption DEF Init, ModesInv, SomeMap
  <1>3. StreamsInv
    BY DEF Init, StreamsInv, Remembers, Done, StreamOrder, Fresh
  <1> QED
    BY <1>1, <1>2, <1>3 DEF PInv

LEMMA NextInv == PInv /\ [Next]_processorVars => PInv'
  <1> SUFFICES ASSUME PInv, [Next]_processorVars PROVE PInv'
    OBVIOUS
  <1> USE DEF PInv
  <1>1. ASSUME NEW packet \in Packets, Submit(packet) PROVE PInv'
    BY <1>1, SubmitPending, SubmitStreams DEF Submit, ModesInv
  <1>2. CASE MaintainTransportState
    BY <1>2, MaintainPending, StreamsKept DEF MaintainTransportState, ModesInv
  <1>3. CASE ResetTransportState
    <2>1. PendingInv' /\ ModesInv'
      BY <1>3, ResetPending DEF ResetTransportState, ModesInv, SomeMap
    <2>2. StreamsInv'
      BY <1>3, FreshStreams DEF ResetTransportState
    <2> QED
      BY <2>1, <2>2
  <1>4. CASE Tick
    BY <1>4, TickPending, StreamsKept DEF Tick, ModesInv
  <1>5. CASE UNCHANGED processorVars
    BY <1>5, StreamsKept DEF processorVars, PendingInv, Sound, Reassembling, CostOfAll, Completes, ModesInv
  <1> QED
    BY <1>1, <1>2, <1>3, <1>4, <1>5 DEF Next

LEMMA Invariance == Spec => []PInv
  BY InitInv, NextInv, PTL DEF Spec

-----------------------------------------------------------------------------
(* The properties. *)

\* Every entry is a batch that can still complete: its chunks are some of those that it
\* counts, its work is within the atomic limit, and it is not complete.
THEOREM TypeOKAlways == Spec => []TypeOK
  <1>1. PInv => TypeOK
    <2> SUFFICES ASSUME PInv PROVE TypeOK
      OBVIOUS
    <2>1. ASSUME NEW key \in DOMAIN pending
          PROVE  LET entry == pending[key] IN
                 /\ entry.count \in 1 .. MaxChunks
                 /\ DOMAIN entry.chunks \subseteq 0 .. entry.count - 1
                 /\ \A i \in DOMAIN entry.chunks : entry.chunks[i] \in Seq(Commands)
                 /\ entry.cost \in Amount
                 /\ entry.work \in 0 .. MaxAtomicWork
                 /\ entry.age \in 0 .. Expiry + 1
                 /\ ~Completes(entry)
      <3> DEFINE entry == pending[key]
      <3>1. Reassembling(entry)
        BY DEF PInv, PendingInv, Sound
      <3>2. entry.cost \in Amount /\ entry.work \in Nat /\ entry.age \in Nat /\ entry.chunks \in ChunkMaps
        BY <3>1 DEF Reassembling, Entries
      <3>3. \A i \in DOMAIN entry.chunks : entry.chunks[i] \in Seq(Commands)
        BY <3>2 DEF ChunkMaps
      <3> HIDE DEF entry
      <3>4. entry.work \in 0 .. MaxAtomicWork /\ entry.age \in 0 .. Expiry + 1
        BY <3>1, <3>2, ProcessorAssumption DEF Reassembling
      <3> QED
        BY <3>1, <3>2, <3>3, <3>4 DEF Reassembling, entry
    <2>2. DOMAIN sequences = StreamKeys
      BY DEF PInv, StreamsInv
    <2> QED
      BY <2>1, <2>2 DEF PInv, PendingInv, Sound, ModesInv, SomeMap, TypeOK
  <1> QED
    BY <1>1, Invariance, PTL

\* The totals that admission relies on are the sums of what the pending batches are charged,
\* and within the limits, after any sequence of chunks, conflicts, completions and expiries.
THEOREM TotalsTrueAlways == Spec => []TotalsTrue
  <1>1. PInv => TotalsTrue
    BY DEF PInv, PendingInv, Sound, TotalsTrue
  <1> QED
    BY <1>1, Invariance, PTL

\* A sequenced batch never takes effect after a newer one of its stream, nor twice.
THEOREM StreamOrderAlways == Spec => []StreamOrder
  <1>1. PInv => StreamOrder
    BY DEF PInv, StreamsInv
  <1> QED
    BY <1>1, Invariance, PTL

\* What a stream remembers is what of it reached the scene since the last load.
THEOREM StreamsTrackSceneAlways == Spec => []StreamsTrackScene
  <1>1. PInv => StreamsTrackScene
    <2> SUFFICES ASSUME PInv, NEW key \in StreamKeys
                 PROVE  LET done == {i \in DOMAIN applied :
                                        applied[i].key = key /\ applied[i].whole /\ Sequenced(applied[i])}
                            last == Max({0} \cup {applied[i].sequence : i \in done})
                        IN /\ sequences[key].last = last
                           /\ sequences[key].fingerprints =
                                {applied[i].batch : i \in {k \in done : applied[k].sequence = last}}
      BY DEF StreamsTrackScene
    <2> DEFINE last == sequences[key].last
               Sent == {0} \cup {applied[i].sequence : i \in Done(key)}
    <2>1. Remembers(sequences[key], key) /\ \A i \in Done(key) : applied[i].sequence \in Nat
      BY DEF PInv, StreamsInv, Done
    <2>2. last \in Sent /\ \A x \in Sent : last >= x /\ x \in Nat
      BY <2>1 DEF Remembers
    <2>3. Max(Sent) = last
      <3> HIDE DEF Sent, last
      <3>1. Max(Sent) \in Sent /\ \A x \in Sent : Max(Sent) >= x
        BY <2>2 DEF Max
      <3> QED
        BY <2>2, <3>1
    <2> QED
      BY <2>1, <2>3 DEF Remembers, Done
  <1> QED
    BY <1>1, Invariance, PTL

-----------------------------------------------------------------------------
(* The chunks of a batch. *)

LEMMA FrontAndLast ==
  ASSUME NEW S, NEW s \in Seq(S), s # <<>>
  PROVE  Front(s) \in Seq(S) /\ Last(s) \in S /\ s = Append(Front(s), Last(s))
  <1>1. Len(s) \in Nat \ {0} /\ s = [i \in 1 .. Len(s) |-> s[i]] /\ \A i \in 1 .. Len(s) : s[i] \in S
    OBVIOUS
  <1>2. Front(s) = [i \in 1 .. Len(s) - 1 |-> s[i]] /\ Last(s) = s[Len(s)]
    BY <1>1 DEF Front, Last
  <1>3. Front(s) \in Seq(S) /\ Len(Front(s)) = Len(s) - 1
    BY <1>1, <1>2
  <1>4. Last(s) \in S
    BY <1>1, <1>2
  <1> QED
    BY <1>1, <1>2, <1>3, <1>4

LEMMA CutStep ==
  ASSUME NEW s \in Seq(Seq(Commands)), NEW c \in Commands
  PROVE  /\ Cut(s, c) \in Seq(Seq(Commands))
         /\ FlattenSeq(Cut(s, c)) = Append(FlattenSeq(s), c)
  <1>1. FlattenSeq(s) \in Seq(Commands) /\ <<c>> \in Seq(Commands)
    BY FlattenAppend
  <1>2. CASE Cut(s, c) = Append(s, <<c>>)
    <2>1. FlattenSeq(Append(s, <<c>>)) = FlattenSeq(s) \o <<c>>
      BY <1>1, FlattenAppend
    <2> QED
      BY <1>1, <1>2, <2>1
  <1>3. CASE s # <<>> /\ Cut(s, c) = Append(Front(s), Append(Last(s), c))
    <2> DEFINE front == Front(s) last == Last(s)
    <2>1. front \in Seq(Seq(Commands)) /\ last \in Seq(Commands) /\ s = Append(front, last)
      BY <1>3, FrontAndLast
    <2>2. Cut(s, c) = Append(front, Append(last, c)) /\ Append(last, c) \in Seq(Commands)
      BY <1>3, <2>1
    <2> HIDE DEF front, last
    <2>3. FlattenSeq(s) = FlattenSeq(front) \o last /\ FlattenSeq(front) \in Seq(Commands)
      BY <2>1, FlattenAppend
    <2>4. FlattenSeq(Cut(s, c)) = FlattenSeq(front) \o Append(last, c)
      BY <2>1, <2>2, FlattenAppend
    <2>5. FlattenSeq(front) \o Append(last, c) = Append(FlattenSeq(front) \o last, c)
      BY <2>1, <2>3
    <2> QED
      BY <2>1, <2>2, <2>3, <2>4, <2>5
  <1> QED
    BY <1>2, <1>3 DEF Cut

\* The recursive function by which Chunks is defined.
Chunking(g, commands) ==
    g = [n \in 0 .. Len(commands) |-> IF n = 0 THEN <<>> ELSE Cut(g[n - 1], commands[n])]

LEMMA ChunkingExists ==
  ASSUME NEW commands, Len(commands) \in Nat
  PROVE  \E g : Chunking(g, commands)
  <1> DEFINE last == Len(commands)
             At(g, n) == IF n = 0 THEN <<>> ELSE Cut(g[n - 1], commands[n])
             Upto(g, m) == g = [n \in 0 .. last |-> g[n]] /\ \A n \in 0 .. last : n < m => g[n] = At(g, n)
             Missing == {m \in Nat : ~ \E g : Upto(g, m)}
  <1>1. Missing = {}
    <2>1. SUFFICES ASSUME Missing # {} PROVE FALSE
      OBVIOUS
    <2>2. PICK m \in Missing : \A k \in Missing : m <= k
      BY <2>1, LeastNatural
    <2>3. m # 0
      <3> DEFINE none == [n \in 0 .. last |-> 0]
      <3>1. none = [n \in 0 .. last |-> none[n]] /\ \A n \in 0 .. last : ~ (n < 0)
        OBVIOUS
      <3> HIDE DEF none, At
      <3>2. Upto(none, 0)
        BY <3>1
      <3> QED
        BY <2>2, <3>2
    <2>4. m - 1 \in Nat /\ m - 1 \notin Missing
      <3>1. m \in Nat /\ m - 1 \in Nat
        BY <2>3
      <3> HIDE DEF Missing
      <3> QED
        BY <2>2, <3>1
    <2>5. PICK g : Upto(g, m - 1)
      BY <2>4
    <2> DEFINE h == [n \in 0 .. last |-> IF n = m - 1 THEN At(g, n) ELSE g[n]]
    <2>6. ASSUME NEW n \in 0 .. last, n < m PROVE h[n] = At(h, n)
      <3>1. h[n] = At(g, n)
        <4>1. CASE n = m - 1
          BY <4>1
        <4>2. CASE n # m - 1
          <5>1. h[n] = g[n] /\ n < m - 1
            BY <2>6, <4>2
          <5> HIDE DEF At, h
          <5> QED
            BY <2>5, <5>1
        <4> QED
          BY <4>1, <4>2
      <3>2. ASSUME n # 0 PROVE h[n - 1] = g[n - 1]
        BY <2>6, <3>2
      <3> HIDE DEF h
      <3> QED
        BY <3>1, <3>2
    <2>7. Upto(h, m)
      <3>1. h = [n \in 0 .. last |-> h[n]]
        OBVIOUS
      <3> HIDE DEF h, At
      <3> QED
        BY <2>6, <3>1
    <2> QED
      BY <2>2, <2>7
  <1>2. PICK g : Upto(g, last + 1)
    BY <1>1
  <1>3. g = [n \in 0 .. last |-> At(g, n)]
    <2> HIDE DEF At
    <2>1. g = [n \in 0 .. last |-> g[n]] /\ \A n \in 0 .. last : g[n] = At(g, n)
      BY <1>2
    <2>2. [n \in 0 .. last |-> g[n]] = [n \in 0 .. last |-> At(g, n)]
      BY <2>1
    <2> QED
      BY <2>1, <2>2
  <1> QED
    BY <1>3 DEF Chunking

\* Cut up and put together again, the commands of a batch are what they were.
LEMMA ChunksFlatten ==
  ASSUME NEW commands \in Seq(Commands)
  PROVE  Chunks(commands) \in Seq(Seq(Commands)) /\ FlattenSeq(Chunks(commands)) = commands
  <1> DEFINE it == CHOOSE g : Chunking(g, commands)
             last == Len(commands)
             Right(n) == /\ it[n] \in Seq(Seq(Commands))
                         /\ FlattenSeq(it[n]) = SubSeq(commands, 1, n)
             Wrong == {n \in 0 .. last : ~Right(n)}
  <1>1. last \in Nat /\ \A n \in 1 .. last : commands[n] \in Commands
    OBVIOUS
  <1>2. Chunking(it, commands)
    BY <1>1, ChunkingExists
  <1>3. Chunks(commands) = it[last]
    BY DEF Chunks, Chunking
  <1> HIDE DEF it
  <1>4. \A n \in 0 .. last : it[n] = IF n = 0 THEN <<>> ELSE Cut(it[n - 1], commands[n])
    BY <1>2 DEF Chunking
  <1>5. Wrong = {}
    <2>1. SUFFICES ASSUME Wrong # {} PROVE FALSE
      OBVIOUS
    <2>2. PICK n \in Wrong : \A k \in Wrong : n <= k
      <3>1. Wrong \in SUBSET Nat
        BY <1>1
      <3> HIDE DEF Wrong
      <3> QED
        BY <2>1, <3>1, LeastNatural
    <2>3. n \in 0 .. last /\ ~Right(n)
      BY <2>2
    <2>4. n # 0
      <3>1. it[0] = <<>>
        BY <1>1, <1>4
      <3>2. <<>> \in Seq(Seq(Commands)) /\ FlattenSeq(<<>>) = <<>>
        BY DEF FlattenSeq
      <3>3. SubSeq(commands, 1, 0) = <<>>
        OBVIOUS
      <3> QED
        BY <2>3, <3>1, <3>2, <3>3
    <2>5. n - 1 \in 0 .. last /\ n - 1 \notin Wrong /\ n \in 1 .. last
      <3>1. n - 1 \in 0 .. last /\ ~ (n <= n - 1) /\ n \in 1 .. last
        BY <1>1, <2>3, <2>4
      <3> HIDE DEF Wrong
      <3> QED
        BY <2>2, <3>1
    <2>6. Right(n - 1)
      BY <2>5
    <2>7. it[n] = Cut(it[n - 1], commands[n]) /\ commands[n] \in Commands
      BY <1>1, <1>4, <2>3, <2>4, <2>5
    <2>8. it[n] \in Seq(Seq(Commands)) /\ FlattenSeq(it[n]) = Append(SubSeq(commands, 1, n - 1), commands[n])
      BY <2>6, <2>7, CutStep
    <2>9. Append(SubSeq(commands, 1, n - 1), commands[n]) = SubSeq(commands, 1, n)
      BY <2>5
    <2> QED
      BY <2>3, <2>8, <2>9
  <1>6. Right(last)
    BY <1>1, <1>5
  <1>7. SubSeq(commands, 1, last) = commands
    OBVIOUS
  <1> QED
    BY <1>3, <1>6, <1>7

-----------------------------------------------------------------------------
(* The clients and the network. *)

\* Chunks that were sent, and those that a running SendBatch has still to send.
Launched == wire \cup UNION {{sending[client][k] : k \in DOMAIN sending[client]} : client \in Clients}

\* The k-th payload of a message under an identity.
Payload(m, f, k) == Payloads(f.client, m, [session |-> f.session, batch |-> f.batch])[k]
IsPayload(p, m, f, k) == k \in 1 .. Len(Chunks(m.commands)) /\ p = Payload(m, f, k)

\* The commands of a message in chunks.
Chunked(m) == Chunks(m.commands) \in Seq(Seq(Commands))

\* All the chunks on their way under the identity f are of the message m, which was offered.
Explains(m, f) ==
    /\ \E i \in DOMAIN Script[f.client] : m = Script[f.client][i]
    /\ Offered(f.client, m, [session |-> f.session]) \in offered
    /\ \A p \in Launched : BatchKey(p.fragment) = BatchKey(f) =>
            \E k : IsPayload(p, m, f, k)

\* An identity that its client does not take again.
Used(f) ==
    \/ f.session < session[f.client]
    \/ /\ f.session = session[f.client]
       /\ nextBatchId[f.client] = 0 \/ f.batch < nextBatchId[f.client]

Identified(f) ==
    /\ f.client \in Clients /\ f.session \in 1 .. MaxSessions /\ f.batch \in 1 .. BatchIds
    /\ Used(f)
    /\ \E m : Explains(m, f)

\* An entry has the chunks of one message.
Fits(entry, m) ==
    /\ entry.sequence = m.sequence /\ entry.hash = m.hash
    /\ entry.count = Len(Chunks(m.commands))
    /\ \A i \in DOMAIN entry.chunks : entry.chunks[i] = Chunks(m.commands)[i + 1]

ClientTypes ==
    /\ session \in [Clients -> 1 .. MaxSessions]
    /\ nextBatchId \in [Clients -> (0 .. BatchIds - 1) \cup {1}]
    /\ sending = [client \in Clients |-> sending[client]]
    /\ \A client \in Clients : \E S : sending[client] \in Seq(S)

LaunchedInv == \A p \in Launched : p \in Sendable /\ Identified(p.fragment)

ReassembledInv ==
    \A key \in DOMAIN pending :
        \E p \in wire : /\ BatchKey(p.fragment) = key
                        /\ \E m : Explains(m, p.fragment) /\ Fits(pending[key], m)

\* In transactional mode a batch is applied whole or not at all.
WholeInv ==
    /\ transactional = TRUE
    /\ \A i \in DOMAIN applied : applied[i].whole = TRUE /\ applied[i].commands = applied[i].batch

TransportInv == PInv /\ ClientTypes /\ LaunchedInv /\ ReassembledInv /\ WholeInv

LEMMA MessageParts ==
  ASSUME NEW client \in Clients, NEW i \in DOMAIN Script[client]
  PROVE  LET m == Script[client][i] IN
         /\ m \in Message /\ m.sequence \in Nat /\ m.hash \in SomeMap /\ m.commands \in Seq(Commands)
         /\ Chunked(m) /\ FlattenSeq(Chunks(m.commands)) = m.commands
  <1> DEFINE m == Script[client][i]
  <1>1. m \in Message
    BY ClientAssumption
  <1>2. m.sequence \in Nat /\ m.hash \in SomeMap /\ m.commands \in Seq(Commands)
    BY <1>1 DEF Message, SomeMap
  <1> QED
    BY <1>1, <1>2, ChunksFlatten DEF Chunked

LEMMA PayloadParts ==
  ASSUME NEW p, NEW m, NEW f, NEW k, IsPayload(p, m, f, k), Chunked(m)
  PROVE  /\ ~p.whole /\ p.sequence = m.sequence /\ p.hash = m.hash
         /\ p.commands = Chunks(m.commands)[k]
         /\ p.fragment.client = f.client /\ p.fragment.session = f.session /\ p.fragment.batch = f.batch
         /\ p.fragment.index = k - 1 /\ p.fragment.count = Len(Chunks(m.commands))
         /\ BatchKey(p.fragment) = BatchKey(f)
  <1> DEFINE chunks == Chunks(m.commands)
  <1>1. k \in DOMAIN chunks
    BY DEF IsPayload
  <1>2. p = [whole |-> FALSE, sequence |-> m.sequence, hash |-> m.hash, commands |-> chunks[k],
             fragment |-> [client |-> f.client, session |-> f.session, batch |-> f.batch,
                           index |-> k - 1, count |-> Len(chunks)]]
    BY <1>1 DEF IsPayload, Payload, Payloads
  <1> HIDE DEF chunks
  <1> QED
    BY <1>2 DEF BatchKey, chunks

\* The identity that a client takes has not been used.
LEMMA IdentityTaken ==
  ASSUME ClientTypes, NEW client \in Clients
  PROVE  LET id == AllocateBatchIdentity(client) IN
         /\ id.session \in Nat \ {0} /\ id.batch \in 1 .. BatchIds
         /\ id.next \in (0 .. BatchIds - 1) \cup {1}
         /\ id.next = 0 \/ id.batch < id.next
         /\ id.session >= session[client]
         /\ id.session = session[client] => nextBatchId[client] # 0 /\ id.batch = nextBatchId[client]
  <1> DEFINE next == nextBatchId[client] epoch == session[client]
  <1>1. BatchIds \in Nat \ {0} /\ epoch \in Nat \ {0} /\ next \in (0 .. BatchIds - 1) \cup {1}
    BY ClientAssumption DEF ClientTypes
  <1>2. \A x \in Nat : x % BatchIds \in 0 .. BatchIds - 1
    BY <1>1
  <1>3. \A x \in Nat : x < BatchIds => x % BatchIds = x
    BY <1>1
  <1>4. BatchIds % BatchIds = 0 /\ (BatchIds = 1 => 2 % BatchIds = 0)
    BY <1>1
  <1>5. \A x \in 1 .. BatchIds : (x = BatchIds => x = 1) => (x + 1) % BatchIds = 0 \/ (x + 1) % BatchIds > x
    BY <1>1, <1>3, <1>4
  <1> HIDE DEF next, epoch
  <1>6. CASE next = 0
    <2>1. AllocateBatchIdentity(client) = [session |-> epoch + 1, batch |-> 1, next |-> 2 % BatchIds]
      BY <1>6 DEF AllocateBatchIdentity, next, epoch
    <2>2. 2 % BatchIds = 0 \/ 2 % BatchIds > 1
      BY <1>1, <1>5
    <2> QED
      BY <1>1, <1>2, <2>1, <2>2 DEF epoch
  <1>7. CASE next # 0
    <2>1. AllocateBatchIdentity(client) = [session |-> epoch, batch |-> next, next |-> (next + 1) % BatchIds]
      BY <1>7 DEF AllocateBatchIdentity, next, epoch
    <2>2. next \in 1 .. BatchIds /\ (next = BatchIds => next = 1)
      BY <1>1, <1>7
    <2>3. (next + 1) % BatchIds = 0 \/ (next + 1) % BatchIds > next
      BY <1>5, <2>2
    <2>4. (next + 1) % BatchIds \in 0 .. BatchIds - 1
      BY <1>2, <2>2
    <2> QED
      BY <1>1, <1>7, <2>1, <2>2, <2>3, <2>4 DEF epoch, next
  <1> QED
    BY <1>6, <1>7

LEMMA IdentityFresh ==
  ASSUME ClientTypes, LaunchedInv, NEW client \in Clients, NEW p \in Launched
  PROVE  LET id == AllocateBatchIdentity(client) IN
         BatchKey(p.fragment) # <<client, id.session, id.batch>>
  <1> DEFINE id == AllocateBatchIdentity(client) f == p.fragment
  <1>1. SUFFICES ASSUME f.client = client, f.session = id.session, f.batch = id.batch PROVE FALSE
    BY DEF BatchKey
  <1>2. Used(f) /\ f.session \in Nat /\ f.batch \in Nat
    BY ClientAssumption DEF LaunchedInv, Identified
  <1>3. session[client] \in Nat /\ nextBatchId[client] \in Nat
    BY ClientAssumption DEF ClientTypes
  <1>4. id.session >= session[client] /\ id.session \in Nat
        /\ (id.session = session[client] => nextBatchId[client] # 0 /\ id.batch = nextBatchId[client])
    BY IdentityTaken
  <1> HIDE DEF id, f
  <1> QED
    BY <1>1, <1>2, <1>3, <1>4 DEF Used

LEMMA InLaunched ==
  ASSUME NEW p
  PROVE  p \in Launched <=>
            \/ p \in wire
            \/ \E client \in Clients : \E k \in DOMAIN sending[client] : p = sending[client][k]
  BY DEF Launched

\* What is known of an identity stays known, if nothing else is sent under it.
LEMMA ExplainsKept ==
  ASSUME NEW m, NEW f, Explains(m, f), offered \subseteq offered',
         \A p \in Launched' : BatchKey(p.fragment) = BatchKey(f) => p \in Launched
  PROVE  Explains(m, f)'
  BY DEF Explains

\* A step of the clients: what is launched anew has an identity of its own.
LEMMA Onward ==
  ASSUME LaunchedInv, ReassembledInv, UNCHANGED pending, wire \subseteq wire', offered \subseteq offered',
         \A p \in Launched : Used(p.fragment)',
         \A p \in Launched' :
            \/ p \in Launched
            \/ /\ p \in Sendable /\ Identified(p.fragment)'
               /\ \A q \in Launched : BatchKey(q.fragment) # BatchKey(p.fragment)
  PROVE  LaunchedInv' /\ ReassembledInv'
  <1>1. ASSUME NEW p \in Launched, NEW m, Explains(m, p.fragment)
        PROVE  Explains(m, p.fragment)'
    <2>1. \A q \in Launched' : BatchKey(q.fragment) = BatchKey(p.fragment) => q \in Launched
      OBVIOUS
    <2> QED
      BY <1>1, <2>1, ExplainsKept
  <1>2. ASSUME NEW p \in Launched PROVE p \in Sendable /\ Identified(p.fragment)'
    <2>1. p \in Sendable /\ Identified(p.fragment)
      BY DEF LaunchedInv
    <2>2. PICK m : Explains(m, p.fragment)
      BY <2>1 DEF Identified
    <2>3. Explains(m, p.fragment)' /\ Used(p.fragment)'
      BY <1>1, <2>2
    <2> QED
      BY <2>1, <2>3 DEF Identified
  <1>3. LaunchedInv'
    BY <1>2 DEF LaunchedInv
  <1>4. ASSUME NEW key \in DOMAIN pending'
        PROVE  \E p \in wire' : /\ BatchKey(p.fragment) = key
                                /\ \E m : Explains(m, p.fragment)' /\ Fits(pending'[key], m)
    <2>1. PICK p \in wire : /\ BatchKey(p.fragment) = key
                            /\ \E m : Explains(m, p.fragment) /\ Fits(pending[key], m)
      BY DEF ReassembledInv
    <2>2. PICK m : Explains(m, p.fragment) /\ Fits(pending[key], m)
      BY <2>1
    <2>3. p \in Launched
      BY InLaunched
    <2>4. Explains(m, p.fragment)'
      BY <1>1, <2>2, <2>3
    <2> QED
      BY <2>1, <2>2, <2>4
  <1>5. ReassembledInv'
    BY <1>4 DEF ReassembledInv
  <1> QED
    BY <1>3, <1>5

\* An identity is taken: those in use stay behind it.
LEMMA UsedKept ==
  ASSUME ClientTypes, LaunchedInv, NEW client \in Clients,
         session' = [session EXCEPT ![client] = AllocateBatchIdentity(client).session],
         nextBatchId' = [nextBatchId EXCEPT ![client] = AllocateBatchIdentity(client).next],
         NEW p \in Launched
  PROVE  Used(p.fragment)'
  <1> DEFINE id == AllocateBatchIdentity(client)
  <1>0. PICK f : f = p.fragment
    OBVIOUS
  <1>1. Used(f) /\ f.client \in Clients /\ f.session \in Nat /\ f.batch \in Nat
    BY <1>0, ClientAssumption DEF LaunchedInv, Identified
  <1>2. session[client] \in Nat /\ nextBatchId[client] \in Nat
    BY ClientAssumption DEF ClientTypes
  <1>3. /\ id.session \in Nat /\ id.batch \in Nat /\ id.next \in Nat
        /\ id.next = 0 \/ id.batch < id.next
        /\ id.session >= session[client]
        /\ id.session = session[client] => nextBatchId[client] # 0 /\ id.batch = nextBatchId[client]
    BY IdentityTaken, ClientAssumption
  <1>4. /\ session'[f.client] = IF f.client = client THEN id.session ELSE session[f.client]
        /\ nextBatchId'[f.client] = IF f.client = client THEN id.next ELSE nextBatchId[f.client]
    BY <1>1 DEF ClientTypes
  <1> HIDE DEF id
  <1>5. CASE f.client = client
    BY <1>0, <1>1, <1>2, <1>3, <1>4, <1>5 DEF Used
  <1>6. CASE f.client # client
    BY <1>0, <1>1, <1>4, <1>6 DEF Used
  <1> QED
    BY <1>5, <1>6

LEMMA PayloadSendable ==
  ASSUME NEW client \in Clients, NEW i \in DOMAIN Script[client], NEW f, f.client = client,
         f.session \in 1 .. MaxSessions, f.batch \in 1 .. BatchIds,
         NEW p, NEW k, IsPayload(p, Script[client][i], f, k)
  PROVE  p \in Sendable
  <1> DEFINE m == Script[client][i] id == [session |-> f.session, batch |-> f.batch]
             payloads == Payloads(client, m, id)
             OfClient(c) == UNION {Range(Payloads(c, Script[c][j], d)) :
                j \in DOMAIN Script[c], d \in [session : 1 .. MaxSessions, batch : 1 .. BatchIds]}
  <1>1. Chunks(m.commands) \in Seq(Seq(Commands))
    BY MessageParts DEF Chunked
  <1>2. k \in DOMAIN payloads
    BY <1>1 DEF IsPayload, Payloads
  <1>3. p = payloads[k]
    BY DEF IsPayload, Payload
  <1>4. p \in Range(payloads)
    <2> HIDE DEF payloads
    <2> QED
      BY <1>2, <1>3 DEF Range
  <1>5. id \in [session : 1 .. MaxSessions, batch : 1 .. BatchIds]
    OBVIOUS
  <1> HIDE DEF id
  <1>6. p \in OfClient(client)
    BY <1>4, <1>5
  <1>7. Sendable = UNION {OfClient(c) : c \in Clients}
    BY DEF Sendable
  <1> HIDE DEF OfClient
  <1> QED
    BY <1>6, <1>7

LEMMA BeginSendStep ==
  ASSUME ClientTypes, LaunchedInv, ReassembledInv, NEW client \in Clients, BeginSend(client)
  PROVE  ClientTypes' /\ LaunchedInv' /\ ReassembledInv'
  <1>0. PICK id, m, f : /\ id = AllocateBatchIdentity(client) /\ m = Current(client)
                        /\ f = [client |-> client, session |-> id.session, batch |-> id.batch]
    OBVIOUS
  <1>1. /\ cursor[client] \in DOMAIN Script[client] /\ id.session <= MaxSessions
        /\ session' = [session EXCEPT ![client] = id.session]
        /\ nextBatchId' = [nextBatchId EXCEPT ![client] = id.next]
        /\ wire' = wire /\ pending' = pending
        /\ \/ sending' = sending /\ offered' = offered
           \/ /\ sending' = [sending EXCEPT ![client] = Payloads(client, m, id)]
              /\ offered' = offered \cup {Offered(client, m, id)}
    BY <1>0 DEF BeginSend, processorVars
  <1>2. /\ id.session \in 1 .. MaxSessions /\ id.batch \in 1 .. BatchIds
        /\ id.next \in (0 .. BatchIds - 1) \cup {1} /\ (id.next = 0 \/ id.batch < id.next)
    BY <1>0, <1>1, IdentityTaken, ClientAssumption
  <1>3. \A p \in Launched : Used(p.fragment)'
    BY <1>0, <1>1, UsedKept
  <1>4. /\ session' \in [Clients -> 1 .. MaxSessions]
        /\ nextBatchId' \in [Clients -> (0 .. BatchIds - 1) \cup {1}]
    BY <1>1, <1>2 DEF ClientTypes
  <1>5. CASE sending' = sending /\ offered' = offered
    <2>1. Launched' = Launched
      BY <1>1, <1>5 DEF Launched
    <2>2. ClientTypes'
      BY <1>4, <1>5 DEF ClientTypes
    <2> QED
      BY <1>1, <1>3, <1>5, <2>1, <2>2, Onward
  <1>6. CASE /\ sending' = [sending EXCEPT ![client] = Payloads(client, m, id)]
             /\ offered' = offered \cup {Offered(client, m, id)}
    <2> DEFINE chunks == Chunks(m.commands)
    <2>1. m = Script[client][cursor[client]] /\ chunks \in Seq(Seq(Commands))
      BY <1>0, <1>1, MessageParts DEF Current, Chunked
    <2>2. Payloads(client, m, id) = [k \in 1 .. Len(chunks) |-> Payload(m, f, k)]
      BY <1>0, <2>1 DEF Payload, Payloads
    <2>3. ClientTypes'
      <3>1. Payloads(client, m, id) \in Seq({Payload(m, f, k) : k \in 1 .. Len(chunks)})
        <4>1. Len(chunks) \in Nat
          BY <2>1
        <4> HIDE DEF chunks
        <4> QED
          BY <2>2, <4>1
      <3>2. \A c \in Clients : sending'[c] = IF c = client THEN Payloads(client, m, id) ELSE sending[c]
        BY <1>6 DEF ClientTypes
      <3>3. sending' = [c \in Clients |-> sending'[c]]
        BY <1>6 DEF ClientTypes
      <3> HIDE DEF chunks
      <3>4. \A c \in Clients : \E S : sending'[c] \in Seq(S)
        BY <3>1, <3>2 DEF ClientTypes
      <3> QED
        BY <1>4, <3>3, <3>4 DEF ClientTypes
    <2>4. ASSUME NEW p \in Launched' PROVE p \in Launched \/ \E k : IsPayload(p, m, f, k)
      <3> HIDE DEF chunks
      <3>1. CASE p \in wire'
        BY <1>1, <3>1, InLaunched
      <3>2. CASE \E c \in Clients : \E k \in DOMAIN sending'[c] : p = sending'[c][k]
        <4>1. PICK c \in Clients : \E k \in DOMAIN sending'[c] : p = sending'[c][k]
          BY <3>2
        <4>2. sending'[c] = IF c = client THEN [k \in 1 .. Len(chunks) |-> Payload(m, f, k)] ELSE sending[c]
          BY <1>6, <2>2 DEF ClientTypes
        <4> QED
          BY <4>1, <4>2, InLaunched DEF IsPayload, chunks
      <3>3. p \in wire' \/ \E c \in Clients : \E k \in DOMAIN sending'[c] : p = sending'[c][k]
        BY DEF Launched
      <3> QED
        BY <3>1, <3>2, <3>3
    <2>5. f.client = client /\ f.session = id.session /\ f.batch = id.batch
          /\ BatchKey(f) = <<client, id.session, id.batch>>
      BY <1>0 DEF BatchKey
    <2>6. \A p \in Launched : BatchKey(p.fragment) # BatchKey(f)
      BY <1>0, <2>5, IdentityFresh
    <2>7. ASSUME NEW p, NEW k, IsPayload(p, m, f, k)
          PROVE  /\ BatchKey(p.fragment) = BatchKey(f)
                 /\ p \in Sendable /\ Identified(p.fragment)'
      <3>0. PICK g : g = p.fragment
        OBVIOUS
      <3>1. g.client = client /\ g.session = id.session /\ g.batch = id.batch /\ BatchKey(g) = BatchKey(f)
        <4>0. IsPayload(p, m, f, k) /\ Chunked(m)
          BY <2>1, <2>7 DEF Chunked
        <4>1. /\ p.fragment.client = f.client /\ p.fragment.session = f.session
              /\ p.fragment.batch = f.batch /\ BatchKey(p.fragment) = BatchKey(f)
          BY <4>0, PayloadParts
        <4> QED
          BY <2>5, <3>0, <4>1
      <3>2. p \in Sendable
        BY <1>1, <1>2, <2>1, <2>5, <2>7, PayloadSendable
      <3>3. \A q, j : IsPayload(q, m, f, j) => IsPayload(q, m, g, j)
        BY <2>5, <3>1 DEF IsPayload, Payload
      <3> HIDE DEF chunks
      <3>4. Used(g)'
        <4>1. session'[client] = id.session /\ nextBatchId'[client] = id.next
          BY <1>1 DEF ClientTypes
        <4> QED
          BY <1>2, <3>1, <4>1 DEF Used
      <3>5. Offered(g.client, m, [session |-> g.session]) = Offered(client, m, id)
        BY <3>1 DEF Offered
      <3>6. \A q \in Launched' : BatchKey(q.fragment) = BatchKey(g) =>
                \E j : IsPayload(q, m, g, j)
        BY <2>4, <2>6, <3>1, <3>3
      <3>7. Explains(m, g)'
        <4>1. \E i \in DOMAIN Script[g.client] : m = Script[g.client][i]
          BY <1>1, <2>1, <3>1
        <4>2. Offered(g.client, m, [session |-> g.session]) \in offered'
          BY <1>6, <3>5
        <4> QED
          BY <3>6, <4>1, <4>2 DEF Explains
      <3>8. Identified(g)'
        BY <1>2, <3>1, <3>4, <3>7 DEF Identified
      <3> QED
        BY <3>0, <3>1, <3>2, <3>8
    <2> HIDE DEF chunks
    <2>8. \A p \in Launched' :
            \/ p \in Launched
            \/ /\ p \in Sendable /\ Identified(p.fragment)'
               /\ \A q \in Launched : BatchKey(q.fragment) # BatchKey(p.fragment)
      <3>1. ASSUME NEW p \in Launched', p \notin Launched
            PROVE  /\ p \in Sendable /\ Identified(p.fragment)'
                   /\ \A q \in Launched : BatchKey(q.fragment) # BatchKey(p.fragment)
        <4>1. PICK k : IsPayload(p, m, f, k)
          BY <2>4, <3>1
        <4>2. BatchKey(p.fragment) = BatchKey(f) /\ p \in Sendable /\ Identified(p.fragment)'
          BY <2>7, <4>1
        <4> QED
          BY <2>6, <4>2
      <3> QED
        BY <3>1
    <2> QED
      BY <1>1, <1>3, <1>6, <2>3, <2>8, Onward
  <1> QED
    BY <1>1, <1>5, <1>6

\* A step that launches nothing new, under the same identities.
LEMMA NothingLaunched ==
  ASSUME LaunchedInv, ReassembledInv, UNCHANGED <<pending, session, nextBatchId, offered>>,
         wire \subseteq wire', \A p \in Launched' : p \in Launched
  PROVE  LaunchedInv' /\ ReassembledInv'
  <1>1. \A p \in Launched : Used(p.fragment)'
    BY DEF LaunchedInv, Identified, Used
  <1> QED
    BY <1>1, Onward

LEMMA RefuseMessageStep ==
  ASSUME ClientTypes, LaunchedInv, ReassembledInv, NEW client \in Clients, RefuseMessage(client)
  PROVE  ClientTypes' /\ LaunchedInv' /\ ReassembledInv'
  <1>1. UNCHANGED <<pending, session, nextBatchId, offered, wire, sending>>
    BY DEF RefuseMessage, processorVars
  <1>2. ClientTypes'
    BY <1>1 DEF ClientTypes
  <1>3. \A p \in Launched' : p \in Launched
    BY <1>1 DEF Launched
  <1> QED
    BY <1>1, <1>2, <1>3, NothingLaunched

LEMMA SendPayloadStep ==
  ASSUME ClientTypes, LaunchedInv, ReassembledInv, NEW client \in Clients, SendPayload(client)
  PROVE  ClientTypes' /\ LaunchedInv' /\ ReassembledInv'
  <1> DEFINE rest == Tail(sending[client])
  <1>1. /\ UNCHANGED <<pending, session, nextBatchId, offered>>
        /\ sending[client] # <<>>
        /\ wire' = wire \cup {Head(sending[client])}
        /\ sending' = [sending EXCEPT ![client] = rest]
    BY DEF SendPayload, processorVars
  <1>2. PICK S : sending[client] \in Seq(S)
    BY DEF ClientTypes
  <1>3. /\ rest \in Seq(S)
        /\ Head(sending[client]) = sending[client][1] /\ 1 \in DOMAIN sending[client]
        /\ \A k \in DOMAIN rest : rest[k] = sending[client][k + 1] /\ k + 1 \in DOMAIN sending[client]
    BY <1>1, <1>2
  <1> HIDE DEF rest
  <1>4. \A c \in Clients : sending'[c] = IF c = client THEN rest ELSE sending[c]
    BY <1>1 DEF ClientTypes
  <1>5. ClientTypes'
    <2>1. sending' = [c \in Clients |-> sending'[c]]
      BY <1>1 DEF ClientTypes
    <2>2. \A c \in Clients : \E T : sending'[c] \in Seq(T)
      BY <1>3, <1>4 DEF ClientTypes
    <2> QED
      BY <1>1, <2>1, <2>2 DEF ClientTypes
  <1>6. ASSUME NEW p \in Launched' PROVE p \in Launched
    <2>1. p \in wire' \/ \E c \in Clients : \E k \in DOMAIN sending'[c] : p = sending'[c][k]
      BY DEF Launched
    <2>2. CASE p \in wire'
      BY <1>1, <1>3, <2>2, InLaunched
    <2>3. CASE \E c \in Clients : \E k \in DOMAIN sending'[c] : p = sending'[c][k]
      <3>1. PICK c \in Clients : \E k \in DOMAIN sending'[c] : p = sending'[c][k]
        BY <2>3
      <3>2. CASE c = client
        <4>1. PICK k \in DOMAIN rest : p = rest[k]
          BY <1>4, <3>1, <3>2
        <4> QED
          BY <1>3, <4>1, InLaunched
      <3>3. CASE c # client
        BY <1>4, <3>1, <3>3, InLaunched
      <3> QED
        BY <3>2, <3>3
    <2> QED
      BY <2>1, <2>2, <2>3
  <1> QED
    BY <1>1, <1>5, <1>6, NothingLaunched

LEMMA FailPayloadStep ==
  ASSUME ClientTypes, LaunchedInv, ReassembledInv, NEW client \in Clients, FailPayload(client)
  PROVE  ClientTypes' /\ LaunchedInv' /\ ReassembledInv'
  <1>1. UNCHANGED <<pending, session, nextBatchId, offered, wire>>
        /\ sending' = [sending EXCEPT ![client] = <<>>]
    BY DEF FailPayload, processorVars
  <1>2. \A c \in Clients : sending'[c] = IF c = client THEN <<>> ELSE sending[c]
    BY <1>1 DEF ClientTypes
  <1>3. ClientTypes'
    <2>1. sending' = [c \in Clients |-> sending'[c]]
      BY <1>1 DEF ClientTypes
    <2>2. \A c \in Clients : \E T : sending'[c] \in Seq(T)
      <3>1. <<>> \in Seq({})
        OBVIOUS
      <3> QED
        BY <1>2, <3>1 DEF ClientTypes
    <2> QED
      BY <1>1, <2>1, <2>2 DEF ClientTypes
  <1>4. ASSUME NEW p \in Launched' PROVE p \in Launched
    <2>1. p \in wire' \/ \E c \in Clients : \E k \in DOMAIN sending'[c] : p = sending'[c][k]
      BY DEF Launched
    <2> QED
      BY <1>1, <1>2, <2>1, InLaunched
  <1> QED
    BY <1>1, <1>3, <1>4, NothingLaunched

-----------------------------------------------------------------------------
(* The window. *)

\* What a step may leave of the pending batches: an entry that was there, some of its
\* account brought up to date.
Lessened ==
    /\ DOMAIN pending' \subseteq DOMAIN pending
    /\ \A key \in DOMAIN pending' :
        /\ pending'[key].sequence = pending[key].sequence /\ pending'[key].hash = pending[key].hash
        /\ pending'[key].count = pending[key].count /\ pending'[key].chunks = pending[key].chunks

LEMMA WindowOnly ==
  ASSUME UNCHANGED <<clientVars, wire>>
  PROVE  /\ ClientTypes => ClientTypes'
         /\ LaunchedInv => LaunchedInv'
         /\ \A m, f : Explains(m, f)' <=> Explains(m, f)
  <1>1. Launched' = Launched
    BY DEF Launched, clientVars
  <1>2. \A m, f : Explains(m, f)' <=> Explains(m, f)
    BY <1>1 DEF Explains, clientVars
  <1>3. ClientTypes => ClientTypes'
    BY DEF ClientTypes, clientVars
  <1>4. LaunchedInv => LaunchedInv'
    <2>1. ASSUME LaunchedInv, NEW p \in Launched PROVE p \in Sendable /\ Identified(p.fragment)'
      <3>1. p \in Sendable /\ Identified(p.fragment)
        BY <2>1 DEF LaunchedInv
      <3>2. Used(p.fragment)'
        BY <3>1 DEF Identified, Used, clientVars
      <3>3. \E m : Explains(m, p.fragment)'
        BY <1>2, <3>1 DEF Identified
      <3> QED
        BY <3>1, <3>2, <3>3 DEF Identified
    <2> QED
      BY <1>1, <2>1 DEF LaunchedInv
  <1> QED
    BY <1>2, <1>3, <1>4

LEMMA LessenedKept ==
  ASSUME ReassembledInv, UNCHANGED <<clientVars, wire>>, Lessened
  PROVE  ReassembledInv'
  <1>1. ASSUME NEW key \in DOMAIN pending'
        PROVE  \E p \in wire : /\ BatchKey(p.fragment) = key
                               /\ \E m : Explains(m, p.fragment)' /\ Fits(pending'[key], m)
    <2>1. PICK p \in wire : /\ BatchKey(p.fragment) = key
                            /\ \E m : Explains(m, p.fragment) /\ Fits(pending[key], m)
      BY DEF ReassembledInv, Lessened
    <2>2. PICK m : Explains(m, p.fragment) /\ Fits(pending[key], m)
      BY <2>1
    <2>3. Explains(m, p.fragment)'
      BY <2>2, WindowOnly
    <2>4. Fits(pending'[key], m)
      BY <2>2 DEF Lessened, Fits
    <2> QED
      BY <2>1, <2>3, <2>4
  <1> QED
    BY <1>1 DEF ReassembledInv

\* The chunk that arrives is of the same message as those that wait for it.
LEMMA EntryFits ==
  ASSUME LaunchedInv, ReassembledInv, NEW packet \in wire
  PROVE  \E m, k : /\ Explains(m, packet.fragment) /\ IsPayload(packet, m, packet.fragment, k)
                   /\ Chunked(m) /\ Fits(EntryOf(packet), m)
  <1>0. PICK f, key : f = packet.fragment /\ key = BatchKey(f)
    OBVIOUS
  <1>1. packet \in Launched /\ Identified(f)
    BY <1>0, InLaunched DEF LaunchedInv
  <1>2. \A m : Explains(m, f) => Chunked(m) /\ \E k : IsPayload(packet, m, f, k)
    <2> SUFFICES ASSUME NEW m, Explains(m, f) PROVE Chunked(m) /\ \E k : IsPayload(packet, m, f, k)
      OBVIOUS
    <2>1. PICK i \in DOMAIN Script[f.client] : m = Script[f.client][i]
      BY DEF Explains
    <2>2. Chunked(m)
      BY <1>1, <2>1, MessageParts DEF Identified
    <2> QED
      BY <1>0, <1>1, <2>2 DEF Explains
  <1>3. CASE Found(packet)
    <2>1. key \in DOMAIN pending /\ EntryOf(packet) = pending[key]
      BY <1>0, <1>3 DEF Found, EntryOf, Live
    <2>2. PICK p, m : /\ p \in wire /\ BatchKey(p.fragment) = key
                      /\ Explains(m, p.fragment) /\ Fits(pending[key], m)
      BY <2>1 DEF ReassembledInv
    <2>3. PICK g : g = p.fragment
      OBVIOUS
    <2>4. g.client = f.client /\ g.session = f.session /\ g.batch = f.batch
      BY <1>0, <2>2, <2>3 DEF BatchKey
    <2>5. Explains(m, f)
      <3>1. Explains(m, g)
        BY <2>2, <2>3
      <3>2. \A q, j : IsPayload(q, m, g, j) => IsPayload(q, m, f, j)
        BY <2>4 DEF IsPayload, Payload
      <3>3. BatchKey(g) = BatchKey(f)
        BY <2>4 DEF BatchKey
      <3> QED
        BY <2>4, <3>1, <3>2, <3>3 DEF Explains
    <2>6. PICK k : IsPayload(packet, m, f, k) /\ Chunked(m)
      BY <1>2, <2>5
    <2> QED
      BY <1>0, <2>1, <2>2, <2>5, <2>6
  <1>4. CASE ~Found(packet)
    <2>1. PICK m : Explains(m, f)
      BY <1>1 DEF Identified
    <2>2. PICK k : IsPayload(packet, m, f, k) /\ Chunked(m)
      BY <1>2, <2>1
    <2>3. /\ packet.sequence = m.sequence /\ packet.hash = m.hash
          /\ packet.fragment.count = Len(Chunks(m.commands))
      BY <2>2, PayloadParts
    <2>4. EntryOf(packet) = NewEntry(packet)
      BY <1>4 DEF EntryOf
    <2>5. Fits(EntryOf(packet), m)
      <3> DEFINE entry == EntryOf(packet)
      <3>1. /\ entry.sequence = packet.sequence /\ entry.hash = packet.hash
            /\ entry.count = packet.fragment.count /\ entry.chunks = <<>>
        BY <2>4 DEF NewEntry
      <3> HIDE DEF entry
      <3>2. DOMAIN entry.chunks = {}
        BY <3>1
      <3>3. Fits(entry, m)
        BY <2>3, <3>1, <3>2 DEF Fits
      <3> QED
        BY <3>3 DEF entry
    <2> QED
      BY <1>0, <2>1, <2>2, <2>5
  <1> QED
    BY <1>3, <1>4

LEMMA FilledFits ==
  ASSUME NEW entry \in Entries, NEW packet \in Packets, NEW m, NEW f, NEW k,
         Fits(entry, m), IsPayload(packet, m, f, k), Chunked(m)
  PROVE  Fits(Filled(entry, packet), m)
  <1> DEFINE filled == Filled(entry, packet)
  <1>1. /\ filled.sequence = entry.sequence /\ filled.hash = entry.hash /\ filled.count = entry.count
        /\ DOMAIN filled.chunks = DOMAIN entry.chunks \cup {packet.fragment.index}
        /\ \A i \in DOMAIN filled.chunks :
                filled.chunks[i] = IF i = packet.fragment.index THEN packet.commands ELSE entry.chunks[i]
    BY FilledEntry
  <1>2. packet.commands = Chunks(m.commands)[k] /\ packet.fragment.index = k - 1
    BY PayloadParts
  <1>3. k \in Int
    <2>1. Len(Chunks(m.commands)) \in Nat
      BY DEF Chunked
    <2> QED
      BY <2>1 DEF IsPayload
  <1> HIDE DEF filled
  <1>4. packet.fragment.index + 1 = k
    BY <1>2, <1>3
  <1>5. \A i \in DOMAIN filled.chunks : filled.chunks[i] = Chunks(m.commands)[i + 1]
    BY <1>1, <1>2, <1>4 DEF Fits
  <1>6. Fits(filled, m)
    BY <1>1, <1>5 DEF Fits
  <1> QED
    BY <1>6 DEF filled

\* All the chunks are there: the batch is the message.
LEMMA AssembledMessage ==
  ASSUME NEW entry, NEW m, Fits(entry, m), Chunked(m), Completes(entry),
         DOMAIN entry.chunks \subseteq 0 .. entry.count - 1
  PROVE  /\ Assembled(entry).sequence = m.sequence /\ Assembled(entry).hash = m.hash
         /\ Assembled(entry).commands = FlattenSeq(Chunks(m.commands))
  <1> DEFINE chunks == Chunks(m.commands) n == Len(chunks)
             assembled == [i \in 1 .. entry.count |-> entry.chunks[i - 1]]
  <1>1. n \in Nat /\ entry.count = n /\ chunks = [i \in 1 .. n |-> chunks[i]]
    <2>1. entry.count = n
      BY DEF Fits
    <2>2. chunks \in Seq(Seq(Commands))
      BY DEF Chunked
    <2> HIDE DEF chunks
    <2> QED
      BY <2>1, <2>2
  <1> HIDE DEF chunks, n
  <1>2. DOMAIN entry.chunks = 0 .. n - 1
    <2> DEFINE S == 0 .. n - 1
    <2>1. IsFiniteSet(S) /\ Cardinality(S) = n
      <3>1. 0 \in Int /\ n - 1 \in Int
        BY <1>1
      <3>2. IsFiniteSet(S) /\ Cardinality(S) = IF 0 > n - 1 THEN 0 ELSE n - 1 - 0 + 1
        BY <3>1, FS_Interval
      <3> HIDE DEF S
      <3> QED
        BY <1>1, <3>2
    <2>2. Cardinality(DOMAIN entry.chunks) = n /\ DOMAIN entry.chunks \in SUBSET S
      BY <1>1 DEF Completes
    <2> HIDE DEF S
    <2>3. DOMAIN entry.chunks = S
      BY <2>1, <2>2, FS_Subset
    <2> QED
      BY <2>3 DEF S
  <1>3. \A i \in 1 .. n : entry.chunks[i - 1] = chunks[i]
    <2>1. ASSUME NEW i \in 1 .. n PROVE entry.chunks[i - 1] = chunks[i]
      <3>1. i - 1 \in DOMAIN entry.chunks /\ (i - 1) + 1 = i
        BY <1>1, <1>2
      <3>2. \A j \in DOMAIN entry.chunks : entry.chunks[j] = chunks[j + 1]
        BY DEF Fits, chunks
      <3> QED
        BY <3>1, <3>2
    <2> QED
      BY <2>1
  <1>4. assembled = chunks
    BY <1>1, <1>3
  <1>5. Assembled(entry).commands = FlattenSeq(assembled)
        /\ Assembled(entry).sequence = entry.sequence /\ Assembled(entry).hash = entry.hash
    BY DEF Assembled
  <1> HIDE DEF assembled
  <1> QED
    BY <1>4, <1>5 DEF Fits, chunks

\* What a batch that takes effect leaves in the history.
IsApplication(app, batch, key) ==
    /\ app.key = key /\ app.sequence = batch.sequence /\ app.hash = batch.hash
    /\ app.batch = batch.commands /\ app.commands = batch.commands /\ app.whole = TRUE

LEMMA WholeOrNothing ==
  ASSUME transactional = TRUE, NEW batch, NEW key, batch.commands \in Seq(Commands),
         SubmitCompleteBatch(batch, key)
  PROVE  applied' = applied \/ \E app : applied' = Append(applied, app) /\ IsApplication(app, batch, key)
  <1>1. CASE ~Acceptable(batch, key)
    BY <1>1 DEF SubmitCompleteBatch
  <1>2. CASE Acceptable(batch, key)
    <2> DEFINE n == Len(batch.commands)
    <2>1. PICK count \in 0 .. n :
            applied' = IF Application(batch, key, count).commands = <<>> /\ ~Application(batch, key, count).whole
                       THEN applied
                       ELSE Append(applied, Application(batch, key, count))
      BY <1>2 DEF SubmitCompleteBatch
    <2>2. PICK app : app = Application(batch, key, count)
      OBVIOUS
    <2>3. /\ app.key = key /\ app.sequence = batch.sequence /\ app.hash = batch.hash
          /\ app.batch = batch.commands /\ app.commands = Kept(batch.commands, count)
          /\ app.whole = (count = n)
      BY <2>2 DEF Application
    <2>4. CASE count = n
      <3>1. Kept(batch.commands, count) = batch.commands
        <4>1. SubSeq(batch.commands, 1, n) = batch.commands /\ ~ (n < n)
          OBVIOUS
        <4> QED
          BY <2>4, <4>1 DEF Kept
      <3>2. app.whole = TRUE
        BY <2>3, <2>4
      <3>3. applied' = Append(applied, app)
        BY <2>1, <2>2, <3>2
      <3> QED
        BY <2>3, <3>1, <3>2, <3>3 DEF IsApplication
    <2>5. CASE count # n
      <3>1. n \in Nat /\ count < n
        BY <2>5
      <3>2. Kept(batch.commands, count) = <<>>
        <4>1. CASE n > 1
          BY <3>1, <4>1 DEF Kept
        <4>2. CASE ~ (n > 1)
          <5>1. count = 0 /\ SubSeq(batch.commands, 1, 0) = <<>>
            BY <3>1, <4>2
          <5> QED
            BY <4>2, <5>1 DEF Kept
        <4> QED
          BY <4>1, <4>2
      <3>3. app.commands = <<>> /\ ~app.whole
        BY <2>3, <2>5, <3>2
      <3> QED
        BY <2>1, <2>2, <3>3
    <2> QED
      BY <2>4, <2>5
  <1> QED
    BY <1>1, <1>2

\* A message that was offered takes effect.
TakesEffect(app, m, f) ==
    /\ f.client \in Clients /\ f.session \in 1 .. MaxSessions
    /\ \E i \in DOMAIN Script[f.client] : m = Script[f.client][i]
    /\ Offered(f.client, m, [session |-> f.session]) \in offered
    /\ app.key = <<m.hash, f.client, f.session>> /\ app.sequence = m.sequence /\ app.hash = m.hash
    /\ app.batch = m.commands /\ app.commands = m.commands /\ app.whole = TRUE

EffectStep ==
    \/ applied' = applied
    \/ \E app, m, f : applied' = Append(applied, app) /\ TakesEffect(app, m, f)

LEMMA OnTheWire ==
  ASSUME LaunchedInv, NEW packet \in wire
  PROVE  /\ packet \in Packets /\ ~packet.whole /\ Identified(packet.fragment)
  <1>1. packet \in Sendable /\ Identified(packet.fragment)
    BY InLaunched DEF LaunchedInv
  <1>2. PICK m : Explains(m, packet.fragment)
    BY <1>1 DEF Identified
  <1>3. Chunked(m)
    BY <1>1, <1>2, MessageParts DEF Identified, Explains
  <1>4. PICK k : IsPayload(packet, m, packet.fragment, k)
    BY <1>2, InLaunched DEF Explains
  <1>5. ~packet.whole
    BY <1>3, <1>4, PayloadParts
  <1> QED
    BY <1>1, <1>5, TransportAssumption

\* A chunk is stored; the last one that was missing makes the batch take effect.
LEMMA StoreTransport ==
  ASSUME TransportInv, NEW packet \in wire, StoreChunk(packet), UNCHANGED <<clientVars, wire>>
  PROVE  ReassembledInv' /\ EffectStep
  <1>0. PICK f, key : f = packet.fragment /\ key = BatchKey(f)
    OBVIOUS
  <1> DEFINE entry == EntryOf(packet) filled == Filled(entry, packet)
  <1>1. packet \in Packets /\ Identified(f)
    BY <1>0, OnTheWire DEF TransportInv
  <1>2. PICK m, k : /\ Explains(m, f) /\ IsPayload(packet, m, f, k) /\ Chunked(m) /\ Fits(entry, m)
    BY <1>0, EntryFits DEF TransportInv
  <1>3. Admitted(packet) /\ (Found(packet) \/ RoomForEntry(packet)) /\ Takes(packet)
    BY DEF StoreChunk
  <1>4. entry \in Entries /\ DOMAIN entry.chunks \subseteq 0 .. entry.count - 1 /\ entry.count \in Nat
    <2>1. PendingInv /\ MaxChunks \in Nat
      BY ProcessorAssumption DEF TransportInv, PInv
    <2>2. entry \in Entries /\ entry.count \in 1 .. MaxChunks /\ DOMAIN entry.chunks \subseteq 0 .. entry.count - 1
      BY <1>1, <1>3, <2>1, EntryFound
    <2> HIDE DEF entry
    <2> QED
      BY <2>1, <2>2
  <1>5. Fits(filled, m)
    <2> HIDE DEF entry
    <2> QED
      BY <1>1, <1>2, <1>4, FilledFits
  <1>6. packet.fragment.index \in 0 .. entry.count - 1
    <2>1. entry.count = packet.fragment.count /\ packet.fragment.index < packet.fragment.count
      <3>1. SameBatch(entry, packet) /\ ValidMetadata(packet.fragment)
        BY <1>3 DEF Takes, Admitted
      <3> HIDE DEF entry
      <3> QED
        BY <3>1 DEF SameBatch, ValidMetadata
    <2>2. packet.fragment.index \in Nat
      BY <1>1, PacketParts DEF Fragment
    <2> HIDE DEF entry
    <2> QED
      BY <1>4, <2>1, <2>2
  <1>7. DOMAIN filled.chunks \subseteq 0 .. filled.count - 1
    <2>1. filled.count = entry.count /\ DOMAIN filled.chunks = DOMAIN entry.chunks \cup {packet.fragment.index}
      BY <1>1, <1>4, FilledEntry
    <2> HIDE DEF filled, entry
    <2> QED
      BY <1>4, <1>6, <2>1
  <1>8. CASE Completes(filled)
    <2>1. /\ pending' = Without(LiveEntries, key)
          /\ SubmitCompleteBatch(Assembled(filled), StreamKey(f, packet.hash))
      BY <1>0, <1>8 DEF StoreChunk
    <2>2. Lessened
      <3>1. DOMAIN pending' = Live \ {key} /\ \A other \in DOMAIN pending' : pending'[other] = pending[other]
        BY <2>1 DEF Without, LiveEntries
      <3> QED
        BY <3>1 DEF Lessened, Live
    <2>3. ReassembledInv'
      BY <2>2, LessenedKept DEF TransportInv
    <2>4. PICK batch, stream : batch = Assembled(filled) /\ stream = StreamKey(f, packet.hash)
      OBVIOUS
    <2>5. batch.sequence = m.sequence /\ batch.hash = m.hash /\ batch.commands = FlattenSeq(Chunks(m.commands))
      <3> HIDE DEF filled
      <3> QED
        BY <1>2, <1>5, <1>7, <1>8, <2>4, AssembledMessage
    <2>6. /\ f.client \in Clients /\ f.session \in 1 .. MaxSessions
          /\ \E i \in DOMAIN Script[f.client] : m = Script[f.client][i]
          /\ Offered(f.client, m, [session |-> f.session]) \in offered
      BY <1>1, <1>2 DEF Identified, Explains
    <2>7. m.commands \in Seq(Commands) /\ batch.commands = m.commands
      BY <2>5, <2>6, MessageParts
    <2>8. stream = <<m.hash, f.client, f.session>>
      BY <1>2, <2>4, PayloadParts DEF StreamKey
    <2>9. applied' = applied \/ \E app : applied' = Append(applied, app) /\ IsApplication(app, batch, stream)
      <3>1. transactional = TRUE
        BY DEF TransportInv, WholeInv
      <3> QED
        BY <2>1, <2>4, <2>7, <3>1, WholeOrNothing
    <2>10. ASSUME NEW app, IsApplication(app, batch, stream) PROVE TakesEffect(app, m, f)
      BY <2>5, <2>6, <2>7, <2>8, <2>10 DEF IsApplication, TakesEffect
    <2> QED
      BY <2>3, <2>9, <2>10 DEF EffectStep
  <1>9. CASE ~Completes(filled)
    <2>1. pending' = WithEntry(LiveEntries, key, filled) /\ applied' = applied
      BY <1>0, <1>9 DEF StoreChunk
    <2> HIDE DEF filled
    <2>2. /\ DOMAIN pending' \subseteq DOMAIN pending \cup {key}
          /\ \A other \in DOMAIN pending' :
                pending'[other] = IF other = key THEN filled ELSE pending[other]
      BY <2>1 DEF WithEntry, LiveEntries, Live
    <2>3. Explains(m, f)' /\ \A n, g : Explains(n, g) => Explains(n, g)'
      BY <1>2, WindowOnly
    <2>4. ASSUME NEW other \in DOMAIN pending'
          PROVE  \E p \in wire : /\ BatchKey(p.fragment) = other
                                 /\ \E n : Explains(n, p.fragment)' /\ Fits(pending'[other], n)
      <3>1. CASE other = key
        BY <1>0, <1>5, <2>2, <2>3, <3>1
      <3>2. CASE other # key
        <4>1. PICK p, n : /\ p \in wire /\ BatchKey(p.fragment) = other
                          /\ Explains(n, p.fragment) /\ Fits(pending[other], n)
          BY <2>2, <3>2 DEF TransportInv, ReassembledInv
        <4>2. Explains(n, p.fragment)'
          BY <2>3, <4>1
        <4> QED
          BY <2>2, <3>2, <4>1, <4>2
      <3> QED
        BY <3>1, <3>2
    <2> QED
      BY <2>1, <2>4 DEF ReassembledInv, EffectStep
  <1> QED
    BY <1>8, <1>9

\* What the window does with what arrives, and to what takes effect.
LEMMA WindowSubmit ==
  ASSUME TransportInv, NEW packet \in wire, Submit(packet), UNCHANGED <<clientVars, wire>>
  PROVE  ReassembledInv' /\ EffectStep
  <1>1. ~packet.whole
    BY OnTheWire DEF TransportInv
  <1>2. CASE SubmitWhole(packet)
    BY <1>1, <1>2 DEF SubmitWhole
  <1>3. CASE RefuseFragment(packet)
    <2>1. pending' = pending /\ applied' = applied
      BY <1>3 DEF RefuseFragment, transportVars
    <2> QED
      BY <2>1, LessenedKept DEF TransportInv, Lessened, EffectStep
  <1>4. CASE RefuseNewBatch(packet) \/ RepeatChunk(packet)
    <2>1. pending' = LiveEntries /\ applied' = applied
      BY <1>4 DEF RefuseNewBatch, RepeatChunk, AfterRepeat
    <2>2. Lessened
      BY <2>1 DEF Lessened, LiveEntries, Live
    <2> QED
      BY <2>1, <2>2, LessenedKept DEF TransportInv, EffectStep
  <1>5. CASE DropPendingBatch(packet)
    <2>1. pending' = Without(LiveEntries, BatchKey(packet.fragment)) /\ applied' = applied
      BY <1>5 DEF DropPendingBatch
    <2>2. Lessened
      BY <2>1 DEF Lessened, Without, LiveEntries, Live
    <2> QED
      BY <2>1, <2>2, LessenedKept DEF TransportInv, EffectStep
  <1>6. CASE StoreChunk(packet)
    BY <1>6, StoreTransport
  <1> QED
    BY <1>2, <1>3, <1>4, <1>5, <1>6 DEF Submit

\* A batch takes effect whole.
LEMMA WholeKept ==
  ASSUME PInv, WholeInv, EffectStep, UNCHANGED transactional
  PROVE  WholeInv'
  <1>1. CASE applied' = applied
    BY <1>1 DEF WholeInv
  <1>2. CASE \E app, m, f : applied' = Append(applied, app) /\ TakesEffect(app, m, f)
    <2>1. PICK app, m, f : applied' = Append(applied, app) /\ TakesEffect(app, m, f)
      BY <1>2
    <2>2. app.whole = TRUE /\ app.commands = app.batch
      BY <2>1 DEF TakesEffect
    <2>3. PICK S : applied \in Seq(S)
      BY DEF PInv, StreamsInv
    <2>4. \A i \in DOMAIN applied' : (i \in DOMAIN applied /\ applied'[i] = applied[i]) \/ applied'[i] = app
      BY <2>1, <2>3
    <2> QED
      BY <2>2, <2>4 DEF WholeInv
  <1> QED
    BY <1>1, <1>2 DEF EffectStep

\* A step of the window.
LEMMA WindowStep ==
  ASSUME TransportInv, Window
  PROVE  /\ [Next]_processorVars /\ ReassembledInv' /\ WholeInv'
         /\ EffectStep \/ applied' = <<>>
  <1>1. UNCHANGED <<clientVars, wire>>
    BY DEF Window
  <1>2. ASSUME NEW packet \in wire, Submit(packet)
        PROVE  [Next]_processorVars /\ ReassembledInv' /\ WholeInv' /\ EffectStep
    <2>1. [Next]_processorVars
      BY <1>2, OnTheWire DEF TransportInv, Next
    <2>2. ReassembledInv' /\ EffectStep
      BY <1>1, <1>2, WindowSubmit
    <2>3. UNCHANGED transactional
      BY <1>2 DEF Submit
    <2> QED
      BY <2>1, <2>2, <2>3, WholeKept DEF TransportInv
  <1>3. CASE MaintainTransportState
    <2>1. pending' = LiveEntries /\ applied' = applied /\ transactional' = transactional
      BY <1>3 DEF MaintainTransportState
    <2>2. Lessened
      BY <2>1 DEF Lessened, LiveEntries, Live
    <2> QED
      BY <1>1, <1>3, <2>1, <2>2, LessenedKept DEF TransportInv, WholeInv, EffectStep, Next
  <1>4. CASE ResetTransportState
    <2>1. pending' = <<>> /\ applied' = <<>> /\ transactional' = transactional
      BY <1>4 DEF ResetTransportState
    <2>2. Lessened
      BY <2>1 DEF Lessened
    <2> QED
      BY <1>1, <1>4, <2>1, <2>2, LessenedKept DEF TransportInv, WholeInv, Next
  <1>5. CASE Tick
    <2>1. applied' = applied /\ transactional' = transactional
          /\ pending' = [key \in DOMAIN pending |-> [pending[key] EXCEPT !.age = Min({@ + 1, Expiry + 1})]]
      BY <1>5 DEF Tick
    <2>2. Lessened
      <3>1. ASSUME NEW key \in DOMAIN pending
            PROVE  /\ pending'[key].sequence = pending[key].sequence /\ pending'[key].hash = pending[key].hash
                   /\ pending'[key].count = pending[key].count /\ pending'[key].chunks = pending[key].chunks
        <4>1. pending[key] \in Entries
          BY DEF TransportInv, PInv, PendingInv, Sound, Reassembling
        <4>2. pending'[key] = [pending[key] EXCEPT !.age = Min({pending[key].age + 1, Expiry + 1})]
          BY <2>1
        <4> QED
          BY <4>1, <4>2 DEF Entries
      <3>2. DOMAIN pending' = DOMAIN pending
        BY <2>1
      <3> QED
        BY <3>1, <3>2 DEF Lessened
    <2> QED
      BY <1>1, <1>5, <2>1, <2>2, LessenedKept DEF TransportInv, WholeInv, EffectStep, Next
  <1> QED
    BY <1>2, <1>3, <1>4, <1>5 DEF Window

LEMMA TransportInitInv == Modes \subseteq {TRUE} /\ TransportInit => TransportInv
  <1> SUFFICES ASSUME Modes \subseteq {TRUE}, TransportInit PROVE TransportInv
    OBVIOUS
  <1>1. PInv
    BY InitInv DEF TransportInit
  <1>2. Launched = {}
    BY DEF TransportInit, Launched
  <1>3. ClientTypes
    <2>1. 1 \in 1 .. MaxSessions
      BY ClientAssumption
    <2>2. <<>> \in Seq({})
      OBVIOUS
    <2> QED
      BY <2>1, <2>2 DEF TransportInit, ClientTypes
  <1>4. LaunchedInv
    BY <1>2 DEF LaunchedInv
  <1>5. ReassembledInv
    <2>1. pending = <<>>
      BY DEF TransportInit, Init
    <2>2. DOMAIN pending = {}
      BY <2>1
    <2> QED
      BY <2>2 DEF ReassembledInv
  <1>6. WholeInv
    <2>1. transactional = TRUE /\ applied = <<>>
      BY DEF TransportInit, Init
    <2>2. DOMAIN applied = {}
      BY <2>1
    <2> QED
      BY <2>1, <2>2 DEF WholeInv
  <1> QED
    BY <1>1, <1>3, <1>4, <1>5, <1>6 DEF TransportInv

\* A step of a client is none of the window.
LEMMA ClientStep ==
  ASSUME TransportInv, NEW client \in Clients,
         BeginSend(client) \/ RefuseMessage(client) \/ SendPayload(client) \/ FailPayload(client)
  PROVE  TransportInv'
  <1>1. UNCHANGED processorVars
    BY DEF BeginSend, RefuseMessage, SendPayload, FailPayload
  <1>2. PInv'
    BY <1>1, NextInv DEF TransportInv
  <1>3. ClientTypes' /\ LaunchedInv' /\ ReassembledInv'
    BY BeginSendStep, RefuseMessageStep, SendPayloadStep, FailPayloadStep DEF TransportInv
  <1>4. WholeInv'
    BY <1>1 DEF TransportInv, WholeInv, processorVars
  <1> QED
    BY <1>2, <1>3, <1>4 DEF TransportInv

LEMMA TransportNextInv == TransportInv /\ [TransportNext]_vars => TransportInv'
  <1> SUFFICES ASSUME TransportInv, [TransportNext]_vars PROVE TransportInv'
    OBVIOUS
  <1>1. ASSUME NEW client \in Clients,
               BeginSend(client) \/ RefuseMessage(client) \/ SendPayload(client) \/ FailPayload(client)
        PROVE  TransportInv'
    BY <1>1, ClientStep
  <1>2. CASE Window
    <2>1. [Next]_processorVars /\ ReassembledInv' /\ WholeInv'
      BY <1>2, WindowStep
    <2>2. ClientTypes' /\ LaunchedInv'
      BY <1>2, WindowOnly DEF Window, TransportInv
    <2> QED
      BY <2>1, <2>2, NextInv DEF TransportInv
  <1>3. CASE UNCHANGED vars
    <2>1. UNCHANGED <<clientVars, wire>> /\ UNCHANGED processorVars
      BY <1>3 DEF vars
    <2>2. PInv'
      BY <2>1, NextInv DEF TransportInv
    <2>3. Lessened /\ WholeInv'
      BY <2>1 DEF processorVars, Lessened, TransportInv, WholeInv
    <2>4. ReassembledInv' /\ ClientTypes' /\ LaunchedInv'
      BY <2>1, <2>3, LessenedKept, WindowOnly DEF TransportInv
    <2> QED
      BY <2>2, <2>3, <2>4 DEF TransportInv
  <1> QED
    BY <1>1, <1>2, <1>3 DEF TransportNext

-----------------------------------------------------------------------------
(* The promise of BatchDelivery. *)

LEMMA OfferedOnce ==
  ASSUME NEW client \in Clients, NEW i \in DOMAIN Script[client], NEW s \in 1 .. MaxSessions
  PROVE  Offered(client, Script[client][i], [session |-> s]) \in Offerable
  <1> DEFINE Of(c) == {Offered(c, Script[c][j], [session |-> t]) : j \in DOMAIN Script[c], t \in 1 .. MaxSessions}
  <1>1. Offered(client, Script[client][i], [session |-> s]) \in Of(client)
    OBVIOUS
  <1>2. Offerable = UNION {Of(c) : c \in Clients}
    BY DEF Offerable
  <1> HIDE DEF Of
  <1> QED
    BY <1>1, <1>2

\* A client begins to send a batch, or builds one it cannot send.
LEMMA OfferStep ==
  ASSUME ClientTypes, NEW client \in Clients, BeginSend(client)
  PROVE  /\ UNCHANGED applied
         /\ offered' = offered \/ \E batch \in Offerable : offered' = offered \cup {batch}
  <1>1. UNCHANGED applied
    BY DEF BeginSend, processorVars
  <1>2. PICK id, m : id = AllocateBatchIdentity(client) /\ m = Current(client)
    OBVIOUS
  <1>3. /\ cursor[client] \in DOMAIN Script[client] /\ id.session <= MaxSessions
        /\ offered' = offered \/ offered' = offered \cup {Offered(client, m, id)}
    BY <1>2 DEF BeginSend
  <1>4. id.session \in 1 .. MaxSessions
    BY <1>2, <1>3, IdentityTaken, ClientAssumption
  <1>5. Offered(client, m, id) = Offered(client, m, [session |-> id.session])
    BY DEF Offered
  <1>6. Offered(client, m, [session |-> id.session]) \in Offerable
    BY <1>2, <1>3, <1>4, OfferedOnce DEF Current
  <1> QED
    BY <1>1, <1>3, <1>5, <1>6

\* A batch takes effect: it was offered, and is in order.
LEMMA TakeStep ==
  ASSUME TransportInv, TransportInv', NEW app, NEW m, NEW f, applied' = Append(applied, app),
         TakesEffect(app, m, f)
  PROVE  \E batch \in Offerable :
            /\ batch \in offered
            /\ Taken' = Append(Taken, batch)
            /\ \A i \in DOMAIN Taken :
                Taken[i].stream = batch.stream /\ Taken[i].sequence # 0 /\ batch.sequence # 0 =>
                    Taken[i].sequence <= batch.sequence /\ Taken[i] # batch
  <1> DEFINE batch == Offered(f.client, m, [session |-> f.session])
             Image(a) == [stream |-> a.key, sequence |-> IF a.hash = NoMap THEN 0 ELSE a.sequence,
                          commands |-> a.commands]
             n == Len(applied)
  <1>1. batch \in offered /\ batch \in Offerable
    <2>1. PICK i \in DOMAIN Script[f.client] : m = Script[f.client][i]
      BY DEF TakesEffect
    <2> QED
      BY <2>1, OfferedOnce DEF TakesEffect
  <1>2. Image(app) = batch
    BY DEF TakesEffect, Offered
  <1>3. PICK S : applied \in Seq(S)
    BY DEF TransportInv, PInv, StreamsInv
  <1>4. /\ n \in Nat /\ DOMAIN applied = 1 .. n /\ DOMAIN applied' = 1 .. n + 1
        /\ applied'[n + 1] = app /\ \A i \in 1 .. n : applied'[i] = applied[i]
    BY <1>3
  <1>5. Taken = [i \in 1 .. n |-> Image(applied[i])] /\ Taken' = [i \in 1 .. n + 1 |-> Image(applied'[i])]
    BY <1>4 DEF Taken
  <1>6. Taken' = Append(Taken, batch)
    <2> DEFINE T == Image(app)
    <2> HIDE DEF Image, batch, n
    <2>1. Len(Taken) = n
      BY <1>4, <1>5
    <2> QED
      BY <1>2, <1>4, <1>5, <2>1
  <1>7. ASSUME NEW i \in DOMAIN Taken, Taken[i].stream = batch.stream, Taken[i].sequence # 0,
               batch.sequence # 0
        PROVE  Taken[i].sequence <= batch.sequence /\ Taken[i] # batch
    <2> DEFINE old == applied[i]
    <2>1. i \in 1 .. n /\ Taken[i] = Image(old)
      BY <1>5, <1>7
    <2>2. /\ old.key = app.key /\ old.hash # NoMap /\ app.hash # NoMap
          /\ old.sequence # 0 /\ app.sequence # 0
          /\ Taken[i].sequence = old.sequence /\ batch.sequence = app.sequence
          /\ Taken[i].commands = old.commands /\ batch.commands = app.commands
      BY <1>2, <1>7, <2>1
    <2>3. /\ i \in DOMAIN applied' /\ n + 1 \in DOMAIN applied' /\ i < n + 1
          /\ applied'[i] = old /\ applied'[n + 1] = app
      BY <1>4, <2>1
    <2>4. Sequenced(old) /\ Sequenced(app)
      BY <2>2 DEF Sequenced
    <2>5. old.whole = TRUE /\ old.commands = old.batch /\ app.whole = TRUE /\ app.commands = app.batch
      BY <1>4, <2>1 DEF TransportInv, WholeInv, TakesEffect
    <2>6. StreamOrder'
      BY DEF TransportInv, PInv, StreamsInv
    <2> HIDE DEF old, batch, Image, n
    <2>7. old.sequence <= app.sequence /\ (old.sequence = app.sequence => old.batch # app.batch)
      BY <2>2, <2>3, <2>4, <2>5, <2>6 DEF StreamOrder, Sequenced
    <2> QED
      BY <2>2, <2>5, <2>7
  <1> HIDE DEF batch
  <1> QED
    BY <1>1, <1>6, <1>7

\* Every step of the command path is one of the promise, or none.
LEMMA DeliveryStep ==
  ASSUME TransportInv, TransportInv', [TransportNext]_vars
  PROVE  [Delivery!Next]_(Delivery!vars)
  <1> USE DEF Delivery!Next, Delivery!vars, Delivery!Offer, Delivery!Take, Delivery!Forget, Delivery!Orderly
  <1>1. applied' = applied => Taken' = Taken
    BY DEF Taken
  <1>2. ASSUME NEW client \in Clients, BeginSend(client)
        PROVE  [Delivery!Next]_(Delivery!vars)
    BY <1>1, <1>2, OfferStep DEF TransportInv
  <1>3. ASSUME NEW client \in Clients,
               RefuseMessage(client) \/ SendPayload(client) \/ FailPayload(client)
        PROVE  [Delivery!Next]_(Delivery!vars)
    BY <1>1, <1>3 DEF RefuseMessage, SendPayload, FailPayload, processorVars
  <1>4. CASE Window
    <2>1. UNCHANGED offered
      BY <1>4 DEF Window, clientVars
    <2>2. CASE applied' = applied
      BY <1>1, <2>1, <2>2
    <2>3. CASE applied' = <<>>
      <3>1. Taken' = <<>>
        BY <2>3 DEF Taken
      <3> QED
        BY <2>1, <3>1
    <2>4. CASE \E app, m, f : applied' = Append(applied, app) /\ TakesEffect(app, m, f)
      <3>1. PICK app, m, f : applied' = Append(applied, app) /\ TakesEffect(app, m, f)
        BY <2>4
      <3> QED
        BY <2>1, <3>1, TakeStep
    <2> QED
      BY <1>4, <2>2, <2>3, <2>4, WindowStep DEF EffectStep
  <1>5. CASE UNCHANGED vars
    BY <1>1, <1>5 DEF vars, clientVars, processorVars
  <1> QED
    BY <1>2, <1>3, <1>4, <1>5 DEF TransportNext

\* In transactional mode the command path, with any clients, scripts and limits, over a
\* network that loses, repeats and reorders what is sent, keeps the promise of BatchDelivery:
\* the scene takes only whole batches that a client offered, in the order of their stream.
THEOREM CommandPathDelivers ==
  ASSUME Modes \subseteq {TRUE}
  PROVE  TransportSpec => DeliverySpec
  <1>1. TransportInit => TransportInv
    BY TransportInitInv
  <1>2. TransportInit => Delivery!Init
    <2> SUFFICES ASSUME TransportInit PROVE Delivery!Init
      OBVIOUS
    <2>1. applied = <<>> /\ offered = {}
      BY DEF TransportInit, Init
    <2>2. Taken = <<>>
      BY <2>1 DEF Taken
    <2> QED
      BY <2>1, <2>2 DEF Delivery!Init
  <1> QED
    BY <1>1, <1>2, TransportNextInv, DeliveryStep, PTL
    DEF TransportSpec, DeliverySpec, Delivery!Spec
=============================================================================
