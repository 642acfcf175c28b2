------------------------- MODULE UdpRuntimeBridge -------------------------
(***************************************************************************)
(* UdpRuntimeBridge of mfd_api: a worker thread receives command batches   *)
(* into a bounded inbound queue and sends feedback from a bounded outbound *)
(* queue; the owner (render) thread starts and stops the bridge, drains    *)
(* commands and enqueues feedback.                                         *)
(*                                                                         *)
(* Every critical section is one action. A command is the stamp it got     *)
(* when its batch was queued and the work units it costs; batches arrive   *)
(* already coalesced (see SceneTransaction). The channels are external:   *)
(* TryReceive returns a packet or nothing, Send succeeds or fails.         *)
(***************************************************************************)
EXTENDS Integers, Sequences, SequencesExt

CONSTANTS
    Packets,            \* command batches that can arrive, see Packet
    PacketsPerPump,     \* kMaxPacketsPerPump (64)
    MaxQueuedBatches,   \* kMaxQueuedBatches (8192)
    Limit,              \* kMaxQueuedCommands, ...WorkUnits, ...WireBytes, ...MemoryBytes
    MaxAtomicWork,      \* kMaxAtomicCommandWorkUnits (512)
    MaxQueuedFeedback,  \* kMaxQueuedFeedback (256)
    BatchBytes,         \* sizeof(CommandBatch)
    CommandBytes,       \* sizeof(UserCommand)
    FrameBudgets,       \* maxCommandWorkUnits of the frame drain
    DrainLimits,        \* maxBatches, maxCommands of the drains
    MaxArrivals,        \* bound: batches that arrive in a behaviour
    MaxFeedback,        \* bound: feedback enqueued in a behaviour
    MaxStarts           \* bound: calls of Start in a behaviour

Quantities == {"commands", "work", "wire", "memory"}
Amount == [Quantities -> Nat]

\* The work of each command, the capacity of the command vector before it was
\* coalesced, the datagram's size, and whether it is a chunk of a larger batch.
Packet == [works : Seq(Nat \ {0}) \ {<<>>}, capacity : Nat, wire : Nat, fragment : BOOLEAN]

ASSUME BridgeAssumption ==
    /\ Packets \subseteq Packet
    /\ Limit \in Amount
    /\ {PacketsPerPump, MaxQueuedBatches, MaxAtomicWork, MaxQueuedFeedback} \subseteq Nat \ {0}
    /\ {BatchBytes, CommandBytes, MaxArrivals, MaxFeedback, MaxStarts} \subseteq Nat
    /\ FrameBudgets \subseteq Nat \ {0}
    /\ DrainLimits \subseteq Nat \ {0}

VARIABLES
    inbound,        \* Impl::inboundBatches
    totals,         \* Impl::inboundQueuedCommands, ...WorkUnits, ...WireBytes, ...MemoryBytes
    outbound,       \* Impl::outboundFeedback
    wakeRequested,  \* Impl::feedbackWakeRequested
    stopRequested,  \* Impl::stopRequested
    channels,       \* Impl::commandReady, feedbackReady, hasFeedbackSender
    worker,         \* where the worker thread is, "none" when not joinable
    pumped,         \* packets received in this pump
    busy,           \* receivedCommands or sentFeedback of this round
    leaving,        \* the worker left its loop
    sending,        \* the worker's localQueue of feedback
    owner,          \* where the owner thread is
    restarting,     \* Stop was called by Start
    starts,         \* calls of Start so far
    arrivals,       \* batches that arrived so far
    nextStamp,      \* stamp of the next command that is queued
    drained,        \* stamps of the commands drained so far
    sent,           \* stamps of the feedback sent so far
    tally           \* metrics counters, and what Stop discards uncounted

queueVars == <<inbound, totals, arrivals, nextStamp, drained>>
feedbackVars == <<outbound, sending, sent>>
workerVars == <<worker, pumped, busy, leaving>>
ownerVars == <<owner, restarting, starts>>
vars == <<queueVars, feedbackVars, workerVars, ownerVars, wakeRequested, stopRequested,
          channels, tally>>

-----------------------------------------------------------------------------
(* Queued batches and what they cost. *)

Plus(a, b) == [q \in Quantities |-> a[q] + b[q]]
Minus(a, b) == [q \in Quantities |-> a[q] - b[q]]
Zero == [q \in Quantities |-> 0]

Cost(works, capacity, wire) ==
    [q \in Quantities |->
        CASE q = "commands" -> Len(works)
          [] q = "work" -> SumFunction(works)
          [] q = "wire" -> wire
          [] q = "memory" -> BatchBytes + capacity * CommandBytes + wire]

\* The stored cost is what the totals were raised by.
Queued(packet, first) ==
    [first |-> first, works |-> packet.works, capacity |-> packet.capacity,
     fragment |-> packet.fragment,
     cost |-> Cost(packet.works, packet.capacity, packet.wire)]

CostOf(batches) ==
    [q \in Quantities |-> SumFunction([i \in DOMAIN batches |-> batches[i].cost[q]])]

Stamps(batch) == [i \in DOMAIN batch.works |-> batch.first + i - 1]
StampsOf(batches) == FlattenSeq([i \in DOMAIN batches |-> Stamps(batches[i])])

-----------------------------------------------------------------------------
Init ==
    /\ inbound = <<>>
    /\ totals = Zero
    /\ outbound = <<>>
    /\ wakeRequested = FALSE
    /\ stopRequested = FALSE
    /\ channels = [command |-> FALSE, feedback |-> FALSE, sender |-> FALSE]
    /\ worker = "none"
    /\ pumped = 0
    /\ busy = FALSE
    /\ leaving = FALSE
    /\ sending = <<>>
    /\ owner = "free"
    /\ restarting = FALSE
    /\ starts = 0
    /\ arrivals = 0
    /\ nextStamp = 1
    /\ drained = <<>>
    /\ sent = <<>>
    /\ tally = [queuedBatches |-> 0, droppedBatches |-> 0, drainedBatches |-> 0,
                refusedBatches |-> 0, discardedBatches |-> 0,
                feedbackQueued |-> 0, feedbackSent |-> 0, feedbackDropped |-> 0,
                discardedFeedback |-> 0]

\* Also what IsRunning reports.
IsRunning == worker \notin {"none", "exited"}

-----------------------------------------------------------------------------
(* Worker thread: the loop and the pump. *)

\* Defect: the worker ends without a last flush.
NextRound_NoLastFlush == IF stopRequested THEN "exited" ELSE "pump"

\* Defect: a stop request waits for a quiet round.
NextRound_WhenQuiet == IF stopRequested /\ ~busy THEN "flush" ELSE "pump"

NextRound == IF stopRequested THEN "flush" ELSE "pump"

CheckStop ==
    /\ worker = "check"
    /\ worker' = NextRound
    /\ leaving' = (NextRound # "pump")
    /\ pumped' = 0
    /\ busy' = FALSE
    /\ UNCHANGED <<queueVars, feedbackVars, ownerVars, wakeRequested, stopRequested, channels, tally>>

\* Defect: a batch above the atomic limit is queued.
Admissible_QueueLimitsOnly(batch) == \A q \in Quantities : batch.cost[q] <= Limit[q]

\* A batch that would not fit an empty queue, or no frame, is refused.
Admissible(batch) ==
    /\ batch.cost["work"] <= MaxAtomicWork
    /\ \A q \in Quantities : batch.cost[q] <= Limit[q]

\* Defect: only the number of batches is looked at.
FitsAfterDropping_CountOnly(n, batch) == Len(inbound) - n < MaxQueuedBatches

FitsAfterDropping(n, batch) ==
    /\ Len(inbound) - n < MaxQueuedBatches
    /\ LET left == Minus(totals, CostOf(SubSeq(inbound, 1, n)))
       IN  \A q \in Quantities : left[q] <= Limit[q] - batch.cost[q]

\* How many of the oldest batches make room.
DropCount(batch) ==
    Min({n \in 0..Len(inbound) : n = Len(inbound) \/ FitsAfterDropping(n, batch)})

RefuseBatch ==
    /\ tally' = [tally EXCEPT !.droppedBatches = @ + 1, !.refusedBatches = @ + 1]
    /\ UNCHANGED <<inbound, totals, nextStamp>>

\* Defect: batches that make room are not counted.
CountedQueueing_NoDrops(n) == [tally EXCEPT !.queuedBatches = @ + 1]

CountedQueueing(n) == [tally EXCEPT !.droppedBatches = @ + n, !.queuedBatches = @ + 1]

QueueBatch(batch) ==
    LET n == DropCount(batch)
    IN  /\ inbound' = Append(SubSeq(inbound, n + 1, Len(inbound)), batch)
        /\ totals' = Plus(Minus(totals, CostOf(SubSeq(inbound, 1, n))), batch.cost)
        /\ nextStamp' = nextStamp + Len(batch.works)
        /\ tally' = CountedQueueing(n)

\* Defect: a pump lasts as long as packets arrive.
MayReceive_Unbounded == worker = "pump" /\ channels.command

MayReceive == worker = "pump" /\ channels.command /\ pumped < PacketsPerPump

\* One packet that decodes: PushQueuedBatch.
ReceiveBatch(packet) ==
    /\ MayReceive
    /\ arrivals < MaxArrivals
    /\ arrivals' = arrivals + 1
    /\ pumped' = pumped + 1
    /\ busy' = TRUE
    /\ LET batch == Queued(packet, nextStamp)
       IN  IF Admissible(batch) THEN QueueBatch(batch) ELSE RefuseBatch
    /\ UNCHANGED <<drained, worker, leaving, feedbackVars, ownerVars, wakeRequested, stopRequested,
                   channels>>

\* One packet that does not decode, or decodes to no command.
ReceiveGarbage ==
    /\ MayReceive
    /\ pumped' = pumped + 1
    /\ busy' = TRUE
    /\ UNCHANGED <<worker, leaving, queueVars, feedbackVars, ownerVars, wakeRequested, stopRequested,
                   channels, tally>>

\* Defect: feedback waits until the commands pause.
AfterPump_BusyFirst == IF busy THEN "check" ELSE "flush"

AfterPump == "flush"

\* No packet, an exception of the channel, no ready channel or a full pump.
EndPump ==
    /\ worker = "pump"
    /\ worker' = AfterPump
    /\ UNCHANGED <<pumped, busy, leaving, queueVars, feedbackVars, ownerVars, wakeRequested,
                   stopRequested, channels, tally>>

-----------------------------------------------------------------------------
(* Worker thread: FlushQueuedFeedback, the idle wait and the end. *)

AfterFlush(anySent) ==
    CASE leaving -> "exited"
      [] ~leaving /\ (busy \/ anySent) -> "check"
      [] OTHER -> "idle"

\* Consume the wake signal, then look whether the channel is ready.
BeginFlush ==
    /\ worker = "flush"
    /\ wakeRequested' = FALSE
    /\ worker' = IF channels.feedback THEN "take" ELSE AfterFlush(FALSE)
    /\ UNCHANGED <<pumped, busy, leaving, queueVars, feedbackVars, ownerVars, stopRequested,
                   channels, tally>>

TakeFeedback ==
    /\ worker = "take"
    /\ sending' = outbound
    /\ outbound' = <<>>
    /\ worker' = IF outbound = <<>> THEN AfterFlush(FALSE) ELSE "send"
    /\ UNCHANGED <<sent, pumped, busy, leaving, queueVars, ownerVars, wakeRequested, stopRequested,
                   channels, tally>>

\* Defect: a failed send is tried again after the rest of the queue.
KeepFailed_Requeued(ok) == IF ok THEN Tail(sending) ELSE Append(Tail(sending), Head(sending))

\* A payload leaves the local queue whether or not it could be sent.
KeepFailed(ok) == Tail(sending)

CountedSend(ok) ==
    IF ok THEN [tally EXCEPT !.feedbackSent = @ + 1]
          ELSE [tally EXCEPT !.feedbackDropped = @ + 1]

SendFeedback(ok) ==
    /\ worker = "send"
    /\ sending' = KeepFailed(ok)
    /\ sent' = IF ok THEN Append(sent, Head(sending)) ELSE sent
    /\ tally' = CountedSend(ok)
    /\ busy' = (busy \/ ok)
    /\ worker' = IF Len(sending) = 1 THEN AfterFlush(ok) ELSE "send"
    /\ UNCHANGED <<outbound, pumped, leaving, queueVars, ownerVars, wakeRequested, stopRequested,
                   channels>>

\* Defect: only a stop request interrupts the wait.
ShouldWake_StopOnly == stopRequested

\* ShouldWakeUdpRuntimeBridgeWorker, the predicate of the idle wait.
ShouldWake == stopRequested \/ wakeRequested

BeginIdleWait ==
    /\ worker = "idle"
    /\ worker' = IF ShouldWake THEN "check" ELSE "asleep"
    /\ UNCHANGED <<pumped, busy, leaving, queueVars, feedbackVars, ownerVars, wakeRequested,
                   stopRequested, channels, tally>>

\* kIdleWait is over.
IdleTimeout ==
    /\ worker = "asleep"
    /\ worker' = "check"
    /\ UNCHANGED <<pumped, busy, leaving, queueVars, feedbackVars, ownerVars, wakeRequested,
                   stopRequested, channels, tally>>

\* waitCondition.notify_all().
WokenWorker == IF worker = "asleep" /\ ShouldWake THEN "check" ELSE worker

-----------------------------------------------------------------------------
(* Owner thread: Start and Stop. *)

\* Stop, and Start, which stops first.
RequestStop(byStart) ==
    /\ owner = "free"
    /\ byStart => starts < MaxStarts
    /\ stopRequested' = TRUE
    /\ restarting' = byStart
    /\ owner' = "stopping"
    /\ UNCHANGED <<starts, workerVars, queueVars, feedbackVars, wakeRequested, channels, tally>>

NotifyStop ==
    /\ owner = "stopping"
    /\ worker' = WokenWorker
    /\ owner' = "joining"
    /\ UNCHANGED <<restarting, starts, pumped, busy, leaving, queueVars, feedbackVars, wakeRequested,
                   stopRequested, channels, tally>>

\* The worker is joined; nobody else sees the rest of Stop.
JoinAndClear ==
    /\ owner = "joining"
    /\ ~IsRunning
    /\ worker' = "none"
    /\ channels' = [command |-> FALSE, feedback |-> FALSE, sender |-> FALSE]
    /\ inbound' = <<>>
    /\ totals' = Zero
    /\ outbound' = <<>>
    /\ wakeRequested' = FALSE
    /\ tally' = [tally EXCEPT !.discardedBatches = @ + Len(inbound),
                              !.discardedFeedback = @ + Len(outbound)]
    /\ owner' = IF restarting THEN "starting" ELSE "free"
    /\ UNCHANGED <<restarting, starts, arrivals, nextStamp, drained, sending, sent, pumped, busy,
                   leaving, stopRequested>>

\* The channels are opened; without a ready one no worker starts and
\* stopRequested stays set.
OpenAndStart(command, feedback, sender) ==
    /\ owner = "starting"
    /\ feedback => sender
    /\ channels' = [command |-> command, feedback |-> feedback, sender |-> sender]
    /\ IF command \/ feedback
       THEN /\ stopRequested' = FALSE
            /\ worker' = "check"
       ELSE UNCHANGED <<stopRequested, worker>>
    /\ owner' = "free"
    /\ restarting' = FALSE
    /\ starts' = starts + 1
    /\ UNCHANGED <<pumped, busy, leaving, queueVars, feedbackVars, wakeRequested, tally>>

-----------------------------------------------------------------------------
(* Owner thread: Enqueue*Feedback. *)

Enqueued(queue, stamp) ==
    Append(IF Len(queue) >= MaxQueuedFeedback THEN Tail(queue) ELSE queue, stamp)

PushFeedback ==
    /\ owner = "free"
    /\ channels.sender
    /\ tally.feedbackQueued < MaxFeedback
    /\ outbound' = Enqueued(outbound, tally.feedbackQueued + 1)
    /\ tally' = [tally EXCEPT !.feedbackQueued = @ + 1,
                              !.feedbackDropped = @ + (IF Len(outbound) >= MaxQueuedFeedback THEN 1 ELSE 0)]
    /\ owner' = "pushed"
    /\ UNCHANGED <<sending, sent, restarting, starts, workerVars, queueVars, wakeRequested,
                   stopRequested, channels>>

RequestWake ==
    /\ owner = "pushed"
    /\ wakeRequested' = TRUE
    /\ owner' = "notifying"
    /\ UNCHANGED <<restarting, starts, workerVars, queueVars, feedbackVars, stopRequested, channels,
                   tally>>

NotifyWake ==
    /\ owner = "notifying"
    /\ worker' = WokenWorker
    /\ owner' = "free"
    /\ UNCHANGED <<restarting, starts, pumped, busy, leaving, queueVars, feedbackVars, wakeRequested,
                   stopRequested, channels, tally>>

-----------------------------------------------------------------------------
(* Owner thread: the three drains. *)

\* Take the n oldest batches whole.
TakeBatches(n) ==
    LET taken == SubSeq(inbound, 1, n)
    IN  /\ inbound' = SubSeq(inbound, n + 1, Len(inbound))
        /\ totals' = Minus(totals, CostOf(taken))
        /\ drained' = drained \o StampsOf(taken)
        /\ tally' = [tally EXCEPT !.drainedBatches = @ + n]
        /\ UNCHANGED <<arrivals, nextStamp>>

DrainBatches(maxBatches) ==
    /\ owner = "free"
    /\ TakeBatches(Min({maxBatches, Len(inbound)}))
    /\ UNCHANGED <<workerVars, ownerVars, feedbackVars, wakeRequested, stopRequested, channels>>

\* The n oldest batches fit one frame. A chunk of a larger batch is taken alone.
FitsFrame(n, maxWork) ==
    /\ CostOf(SubSeq(inbound, 1, n))["work"] <= maxWork
    /\ n > 1 => \A i \in 1..n : ~inbound[i].fragment

FrameCount(maxWork, maxBatches) ==
    Max({0} \cup {n \in 1..Len(inbound) : n <= maxBatches /\ FitsFrame(n, maxWork)})

DrainFrame(maxWork, maxBatches) ==
    /\ owner = "free"
    /\ TakeBatches(FrameCount(maxWork, maxBatches))
    /\ UNCHANGED <<workerVars, ownerVars, feedbackVars, wakeRequested, stopRequested, channels>>

\* Defect: the stored cost of a partly drained batch is not computed anew.
WithoutFirst_StaleCost(batch, n) ==
    [batch EXCEPT !.first = @ + n,
                  !.works = SubSeq(@, n + 1, Len(@))]

\* What is left of a batch after its first n commands: the vector keeps its
\* capacity and the batch its wire size.
WithoutFirst(batch, n) ==
    LET rest == SubSeq(batch.works, n + 1, Len(batch.works))
    IN  [batch EXCEPT !.first = @ + n,
                      !.works = rest,
                      !.cost = Cost(rest, batch.capacity, batch.cost["wire"])]

\* Defect: the rest goes to the end of the queue.
PutBack_Last(front, rest) == Append(Tail(rest), front)

PutBack(front, rest) == <<front>> \o Tail(rest)

\* Single commands: a batch that does not fit whole is taken in part, and its rest
\* goes back to the front.
DrainCommands(maxCommands) ==
    LET whole == Max({n \in 0..Len(inbound) :
                             CostOf(SubSeq(inbound, 1, n))["commands"] <= maxCommands})
        taken == SubSeq(inbound, 1, whole)
        partial == maxCommands - CostOf(taken)["commands"]
        rest == SubSeq(inbound, whole + 1, Len(inbound))
        split == rest # <<>> /\ partial > 0
        front == WithoutFirst(Head(rest), partial)
    IN  /\ owner = "free"
        /\ drained' = drained \o StampsOf(taken)
                        \o (IF split THEN SubSeq(Stamps(Head(rest)), 1, partial) ELSE <<>>)
        /\ inbound' = IF split THEN PutBack(front, rest) ELSE rest
        /\ totals' = IF split
                     THEN Plus(Minus(Minus(totals, CostOf(taken)), Head(rest).cost), front.cost)
                     ELSE Minus(totals, CostOf(taken))
        /\ tally' = [tally EXCEPT !.drainedBatches = @ + whole]
        /\ UNCHANGED <<arrivals, nextStamp, workerVars, ownerVars, feedbackVars, wakeRequested,
                       stopRequested, channels>>

-----------------------------------------------------------------------------
Worker ==
    \/ CheckStop
    \/ \E packet \in Packets : ReceiveBatch(packet)
    \/ ReceiveGarbage
    \/ EndPump
    \/ BeginFlush
    \/ TakeFeedback
    \/ \E ok \in BOOLEAN : SendFeedback(ok)
    \/ BeginIdleWait
    \/ IdleTimeout

\* The steps of a call that was begun.
OwnerContinues ==
    \/ NotifyStop
    \/ JoinAndClear
    \/ \E command, feedback, sender \in BOOLEAN : OpenAndStart(command, feedback, sender)
    \/ RequestWake
    \/ NotifyWake

OwnerDrains ==
    \/ \E n \in DrainLimits : DrainBatches(n)
    \/ \E w \in FrameBudgets, n \in DrainLimits : DrainFrame(w, n)
    \/ \E n \in DrainLimits : DrainCommands(n)

OwnerCalls ==
    \/ \E byStart \in BOOLEAN : RequestStop(byStart)
    \/ PushFeedback
    \/ OwnerDrains

Next == Worker \/ OwnerContinues \/ OwnerCalls

Spec == Init /\ [][Next]_vars

\* Both threads are scheduled: the worker goes on, and so does a call the owner began.
FairSpec ==
    /\ Spec
    /\ WF_vars(Worker)
    /\ WF_vars(OwnerContinues)

-----------------------------------------------------------------------------
(* Properties. *)

QueuedBatch == [first : Nat \ {0}, works : Seq(Nat \ {0}), capacity : Nat, fragment : BOOLEAN,
                cost : Amount]

TypeOK ==
    /\ inbound \in Seq(QueuedBatch)
    /\ totals \in Amount
    /\ outbound \in Seq(Nat) /\ sending \in Seq(Nat) /\ sent \in Seq(Nat)
    /\ {wakeRequested, stopRequested, busy, leaving, restarting} \subseteq BOOLEAN
    /\ channels \in [command : BOOLEAN, feedback : BOOLEAN, sender : BOOLEAN]
    /\ worker \in {"none", "check", "pump", "flush", "take", "send", "idle", "asleep", "exited"}
    /\ owner \in {"free", "stopping", "joining", "starting", "pushed", "notifying"}
    /\ pumped \in 0..PacketsPerPump
    /\ {starts, arrivals, nextStamp} \subseteq Nat
    /\ drained \in Seq(Nat)
    /\ tally \in [{"queuedBatches", "droppedBatches", "drainedBatches", "refusedBatches",
                   "discardedBatches", "feedbackQueued", "feedbackSent", "feedbackDropped",
                   "discardedFeedback"} -> Nat]

Increasing(stamps) == \A i, j \in DOMAIN stamps : i < j => stamps[i] < stamps[j]

Recosted(batch) == [batch EXCEPT !.cost = Cost(batch.works, batch.capacity, @["wire"])]

\* No sequence of arrivals and drains takes a queue over one of its budgets, and the four
\* running totals that enforce them are the true cost of the queue, also after batches were
\* dropped, drained in part or cleared; otherwise the budgets drift.
TotalsTrue ==
    /\ totals = CostOf([i \in DOMAIN inbound |-> Recosted(inbound[i])])
    /\ \A q \in Quantities : totals[q] <= Limit[q]
    /\ Len(inbound) <= MaxQueuedBatches

\* The render thread gets commands in the order of arrival and each at most once,
\* whichever mix of whole, frame and single-command drains it uses; and no batch disappears
\* uncounted: it is drained, dropped, still queued, or was discarded by Stop.
DrainedOnceInOrder ==
    /\ Increasing(drained \o StampsOf(inbound))
    /\ tally.queuedBatches + tally.refusedBatches =
        tally.drainedBatches + tally.droppedBatches + Len(inbound) + tally.discardedBatches

\* Feedback is sent in the order it was enqueued, each payload at most once, under the
\* queue's limit; and what was enqueued before Stop, a closing notice for instance, is
\* attempted before Stop returns when the channel is ready.
FeedbackOnceInOrder ==
    /\ Increasing(sent \o sending \o outbound)
    /\ Len(outbound) <= MaxQueuedFeedback
    /\ worker = "exited" /\ channels.feedback => outbound = <<>> /\ sending = <<>>

\* Whatever was admitted fits a frame: a head that is too big never blocks the queue.
FrameNeverBlocked ==
    \A w \in FrameBudgets, n \in DrainLimits :
        w >= MaxAtomicWork /\ inbound # <<>> => FrameCount(w, n) > 0

\* The worker does not sleep on feedback it could send: the wake signal of a payload
\* that was pushed while it looked at the queue is never lost.
NeverAsleepOnFeedback ==
    worker = "asleep" /\ channels.feedback /\ outbound # <<>> => owner \in {"pushed", "notifying"}

\* Feedback is sent in the end, also under a flood of packets, and never by the timeout of
\* the idle wait alone.
FeedbackLeaves ==
    /\ []NeverAsleepOnFeedback
    /\ outbound # <<>> /\ channels.feedback ~> outbound = <<>>

\* Stop, and the Stop that begins Start, returns, also under a flood of packets.
StopReturns == owner \in {"stopping", "joining"} ~> owner \in {"starting", "free"}
=============================================================================
