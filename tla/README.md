# MFDStudio: a TLA+ development

TLA+ models of MFDStudio, the TLC configurations that check them on small
instances, and theorems about them that the TLA+ proof system checks.

## The system

MFDStudio displays cockpit-style multi-function displays. External programs
drive a *window* through a generated C++ client; the window renders a *scene*
loaded from JSON documents, answers with feedback, and can show live video of
another process. An editor authors the documents.

```
 client process                                  window process
 +---------------------------+   UDP commands    +--------------------------------------+
 | generated UI (Animation)  |                   | UdpRuntimeBridge   worker thread     |
 |   dirty state -> batch    |  ---------------> |   pump / coalesce / inbound queue    |
 | LatestBatchPublisher      |                   |        | drain (render thread)       |
 |   worker thread, retries  |                   | RuntimeSession                       |
 | CommandClient             |                   |   CommandProcessor -> SceneRegistry  |
 |   normalise, fragment     |                   |   feedback throttles                 |
 | WindowLivenessMonitor     |  <--------------- |   outbound feedback queue            |
 +---------------------------+   UDP feedback    +--------------------------------------+
 video process: StreamProducer  <-- shared memory -->  StreamReceiver (render thread)
```

## Inventory

| part | state it keeps | operations | what is hard | what makes it correct |
|---|---|---|---|---|
| `LatestBatchPublisher` (mfd_client_api) | pending batch, batch in flight, retry and stop flags, join state | SubmitLatest, Flush, Stop, worker loop | merging batches while a send fails; several stoppers; missed notifications | no delta lost but in the ways named below, confirmations once in order, Flush means delivered, Stop joins once |
| `Animation` (mfd_client_api) | desired and last-sent patches per object | setters, AppendCommands, Reset | records as sent what the transport may lose | deltas of a cycle equal the change since the last |
| `WindowLivenessMonitor` (mfd_client_api) | liveness state, last activity, pending disconnect | RecordActivity, RecordWindowClosing, Observe, Update, ConsumeDisconnect, Reset | a late heartbeat against a timeout or a closing notice | one disconnect per loss, closing is final |
| `CommandClient` (mfd_common_api) | client and session identity, batch counter | SendBatch: normalise, fragment, send | partial sends, retries | every chunk of a batch carries the same metadata |
| `UdpRuntimeBridge` (mfd_api) | inbound queue with four totals, outbound feedback, wake and stop flags | Start, Stop, worker loop, three drains, Enqueue* | two threads, bounded queues, idle waits | totals match the queue, oldest dropped first, feedback flushed at stop |
| `CommandCoalescer` (mfd_api) | none | Coalesce | barriers between commands | the coalesced batch has the effect of the original |
| `CommandProcessor` (mfd_api) | pending fragmented batches and their totals, last sequence and fingerprints per stream | Submit, MaintainTransportState, ResetTransportState | lost, duplicated, reordered chunks; expiry; rollback | a batch is applied whole, at most once, never after a newer one |
| `SceneRegistry` (mfd_api) | entities, indices, active page, dynamic reticles | upsert, remove, patch, snapshot, restore, load | rollback must restore indices and ownership | a failed batch leaves nothing but the overrides the code is known to leave |
| `RuntimeSession` (mfd_runtime_api) | document, scene, bridge, throttles, what was last published | Advance, ApplyLoadedWindowConfiguration, PublishRuntimeFeedback, NotifyClosing | one throttle for changes and heartbeats; a reload restarts sequences | what changes is published, what does not is repeated |
| `RuntimeFeedbackState` (mfd_client_api) | active page, capture per page, last sequence per kind | Apply, Poll, Reset | lost, repeated, reordered feedback; a session that starts anew | the client comes to know the scene, and takes no capture of an earlier visit for a new one |
| external stream (mfd_external_stream) | shared header, three slots, generations, budget | producer Open/Acquire/Publish/Close, receiver Configure/Consume/Playback | two processes, a try-lock, crashes, stale generations | a slot has one user, frames are whole and never go back |
| window program (mfd_window) | capture ring, overlays, plugins | frame loop, asynchronous capture | GPU fences, slow readers | a capture is of the frame it is labelled with |
| editor (mfd_editor) | documents, undo history, recovery snapshot, asset watcher | edit, undo, save, autosave, recover, commit files | several files in one commit, a failure or a crash half-way | a failed commit leaves the old files or their backups; saved work is not lost |

The other parts of the repository (codecs, sockets, document loading,
rendering, plugins, the editor's user interface, the code generator) are listed
with their reasons in `PROJECT.json` under `components`. What is hard to test
in the code is listed there under `hazards`, each at its line.

## Modules and how they correspond to the code

| module | models | state | granularity of a step |
|---|---|---|---|
| `LatestBatch` | the data of the client side: batches, `MergePending`, and the window as a function of the batches it was given | - | operators |
| `LatestBatchPublisher` | `LatestBatchPublisher.cpp`: client threads, the worker, the send callback | the fields of `Impl`, the two mutexes, where each thread is | one critical section, one notification, one return of the callback |
| `UdpRuntimeBridge` | `UdpRuntimeBridge.cpp`: worker thread and owner (render) thread | the two queues, the running totals, the wake and stop flags, where each thread is | one critical section, one packet, one payload |
| `CommandProcessor` | `CommandProcessor.cpp`: reassembly, budgets, expiry, the sequence filter, the transaction modes | pending batches, totals, streams, what was applied | one call of a public operation (the render thread is alone) |
| `CommandTransport` | `CommandClient.cpp`, a network, and `CommandProcessor` | the clients' identities and cursors, chunks sent | one payload sent, one packet delivered |
| `BatchDelivery` | what the command path promises (abstract) | batches offered, batches taken | - |
| `SceneTransaction` | the runtime state of `SceneRegistry.cpp`, every command handler, the rollback of a failed batch, and the pointer's effect on widgets | active page, page state, overrides, dynamic reticles, strobes, widgets, widget feedback | one submitted batch, one frame of widget input |
| `ExternalStream` | `StreamProducer.cpp`, `StreamReceiver.cpp`, `StreamProtocol.cpp`: the two processes over the shared header | header, mutex and lease, producer, receiver, playback commands | one call (its critical section), one completion of GPU work |
| `FeedbackPath` | feedback of `RuntimeSession.cpp`, a network, `RuntimeFeedbackState` (`Animation.cpp`), `WindowLivenessMonitor.cpp` | throttles, packets in flight, what the client knows | one frame, one packet, one look at the clock |
| `EditorFileCommit` | `EditorFileCommit.cpp`: `CommitAssetFiles` and its roll back | the files, the transaction in progress | one file operation |
| `EditorSession` | `EditorApplication.cpp`, `EditorUndoHistory.h`, what `EditorDocumentSerializer.cpp` hands to the commit | document with its history, recovery snapshot, crashes | one call of the editor, and the steps of its commit |
| `MC...` | instances of these for TLC | | |
| `LatestBatchPublisherProofs` | theorems: the merge, and the publisher | | |
| `UdpRuntimeBridgeProofs` | theorems: the queues and the threads of the bridge | | |
| `CommandProcessorProofs` | theorems: reassembly, the sequence filter, and the command path from end to end | | |
| `SceneTransactionProofs` | theorems: the handlers, the footprint and the rollback, and the coalescer | | |
| `ExternalStreamProofs` | theorems: the shared header and its two kinds of processes, and how far its counters run | | |
| `EditorSessionProofs` | theorems: the commit, and the work an editor has saved | | |
| `FeedbackPathProofs` | theorem: captures of a visit | | |
| `SumTheorems` | lemmas: sums, flattened sequences, the least and the largest number | | |

`CommandTransport` extends `CommandProcessor` and refines `BatchDelivery`.
`EditorSession` extends `EditorFileCommit`.
The queue of `UdpRuntimeBridge` between the two is, to a packet, one more
network that may drop and delays, so `CommandTransport` does without it.
`CommandProcessor` leaves open at which command a batch fails;
`SceneTransaction` is the other half and computes it from the scene.

**LatestBatchPublisher.** A batch is, for each static reticle or container, the
sequence of updates it holds of it, then one operation for each dynamic reticle,
its widget confirmations, its reset and its mapping hash. A static update has
top-level fields and map entries, and an entry is addressed by name or by
generated id: the merge keeps updates apart in which the two mix
(`MixesSpaces`), `Collected` and `Folded` follow it, and `Written` is what the
transport makes of an update with both. The value of a write is the number of
the submission it comes from, so that order and loss are visible. The
specification keeps records beside the code's state: `window`, what the
delivered batches show; `desired`, what all accepted submissions in order would
show; `created`, which submission created each dynamic reticle; and `losses`,
the kinds of merges met so far that the code is known to lose something in. A
property that a kind of loss breaks names that kind as its exception, so that it
says exactly when the code keeps its promise. Mutexes are held for one action;
`SubmitLatest` with a builder is two, as the builder runs without the lock.
Condition variables are wait sets (`asleep`, `flushAsleep`) that only a notify
action leaves.

**UdpRuntimeBridge.** A command is the stamp it got when it was queued and the
work units it costs; a batch also has the capacity of its vector and its wire
size, because the memory budget is computed from them, and is computed anew when
a batch is drained in part. `Start` calls `Stop` first, as the code does. The
idle wait may end by its time-out or by a notification.

**CommandProcessor.** A packet is a decoded batch. The four aggregate totals
are kept as the code keeps them, raised and lowered at each place (`Refund` is
what erasing an entry gives back), and compared with the sum over the pending
batches. Expired entries are erased at the start
of every operation that erases them in the code. Ages stop at the expiry.

**CommandTransport.** `SendBatch` takes an identity, builds and checks all
payloads and then sends them one by one; a send can fail between any two. The
caller may try the batch again or go on. The session epoch is random in the
code and numbered here: two sessions of one client never share an epoch.
The processor is one for whatever the clients can send (`Sendable`), and may be
one for other packets too.

**SceneTransaction.** A submitted batch is one action, from the capture of the
snapshot to the rollback: the render thread runs it to its end. Positions are
points of a line. Handlers are functions from a scene to the set of scenes they
can lead to (two reticles at the same distance tie), empty when the command
fails. A batch is made of decoded commands: `WellFormed` says which fields each
kind has. `Outcomes` folds the handlers over a batch, command by command. The
rollback follows `ApplySnapshotState` in its order, because the order is what
can be wrong: rows first, then the selected strobes, then the active page
through `SetActivePage`, then the creation sequence. `Coalesce` is the coalescer
of `UdpRuntimeBridge.cpp`, a recursive function on bursts of the commands of
this module.

**ExternalStream.** The control mutex is only ever tried, so a call is one
action; an attempt that finds the mutex busy is an action of its own where the
code changes state all the same (`FrameMissed`, `OpenFails`). The pixels of a
slot are not under the mutex: a producer's drawing ends when a completion is
polled (`Completions`), the receiver's when its fence is (`ReadCompleted`) and
its copies when they are mapped. Either process can die with the mutex in its
hands. A named mapping ends with its last handle.

**FeedbackPath.** Sequences are only compared, so the network keeps packets in
the order of their sequences and each carries what the comparisons will say.
Strobe reports are numbered per page (`Channels`). A reload or a new window
numbers from 1 again: `behind` names the channels below what the client has
accepted, `CatchUp` ends that, and `Before` marks a capture that the client has
from before. Time is counted in frames for
the throttles; the client's time-out may fall at any moment after its last
activity. The code reloads at any moment; here `Reload` waits until what is in
flight has arrived or is lost, because the order of the network is that of the
sequences of one session.

**EditorFileCommit, EditorSession.** A content is the number of the edit that
made it. Every operation on the file system may fail (`Fault`), also the ones of
the roll back and of the clean-up; another program may write a resource
(`Intrude`); the editor may die between any two steps (`Crash`), which leaves
files and backups as they are and forgets the transaction.

## Runs

Every run is small enough to finish; the bounds are chosen for the case that
breaks each property. For every property of a passing run there is a
changed definition (`..._NoRefresh`, `..._StaleCost` and so on, beside the
definition it changes) under which TLC finds the property violated, so that none
of them holds by construction.

| run | instance | what it shows |
|---|---|---|
| `publisher_delivery` | one client thread, three submissions of static deltas, confirmations, resets, two mappings and every lifecycle operation of one reticle, its text addressed by name and by id (2.9 million states) | no confirmation is lost, repeated or reordered and nothing is sent under another mapping; deltas, creations, removals and stream controls survive, but for the named losses; `Flush` without error means delivered |
| `publisher_threads` | three client threads, two submissions, a callback that may stop the publisher | nothing is queued after a stop, one join, `Stop` returns after the worker ended, no missed notification |
| `bridge_queue` | five arrivals of five kinds of batches, budgets that any three exceed, the three drains in any mix (692 571 states) | the running totals are true and within the budgets, every command is drained once and in order or accounted for as dropped, an admitted head fits a frame |
| `bridge_feedback` | three payloads through a queue of two, failing sends, two starts, endless undecodable packets (79 000 states) | order, the flush at stop, no lost wake-up, and no starvation by a flood |
| `command_processor` | sixteen packets in any order and number, two reassembly slots, tight limits, both modes | true totals, order and at-most-once in a stream (`StreamOrder`), a stream history that matches the scene, an end for stalled reassemblies |
| `command_transport` | two clients, failing sends, retries, a batch counter that wraps at 3, two sessions | the command path implements `BatchDelivery` |
| `scene_transaction` | two pages with two strobes, two dynamic reticles, batches of one to three commands of every kind, bursts of two to five | a failed batch is undone but for the overrides it made itself; the strobe sits on what it is locked on; creation order; widget interaction only on the active page; a coalesced batch has an outcome of the original (35 000 states, some thousand batches tried in each) |
| `external_stream` | one producer process that comes back after it closed or died, two slots, two frames of a connection, three sessions, registrations and `Stop` commands (630 000 states) | no texture is read while it may be written; no slot is lost; a stopped image does not come back; only frames the GPU held back are shown late; a producer that asks is served |
| `feedback_path` | two pages, intervals of 1 and 2 frames, three packets in flight, three changes, reloads or new sessions (1.0 million states) | a capture of an earlier visit of a page is not taken for one of the new visit, unless a reload lies between them; the client comes to know the scene again |
| `editor_session` | a window, a template and a resource, two edits, two faults, one crash (4.1 million states) | a transaction ends all new, or all old with the backups it names; work reported as safe is not lost |
| `publisher_reset`, `feedback_with_stream` | the smallest instance of each | the findings below |

Why the bounds are enough. A merge concerns at most the batch in flight, the
pending one and a new one, so three submissions reach every merge of a merge;
three threads are the fewest of which one joins while another waits for the
join mutex and a third flushes. Five arrivals overflow each of the queue's five
budgets, once with more than one batch to drop. Two reassembly slots and three
kinds of pending batches reach the refusal of a fourth; three chunks make a
batch that is neither new nor one step from complete. In the scene, pairs of
commands followed by one that fails reach every order of two handlers before a
rollback; the reachable scenes supply the rest. In the stream, two slots are
the fewest in which one is shown while the other is drawn into; three slots
change nothing (the safety part also passes with three, 3.8 million states).
Two faults are the fewest that make a roll back fail after a promotion did, and
a crash is of use once in a transaction. Two pages are enough to leave one and
return, and three packets to have one overtake another with a third between
them. `MaxApplied`, `MaxArrivals`,
`MaxSubmissions`, `MaxAttempts`, `MaxSessions`, `MaxFeedback` of the bridge,
`MaxStarts`, `MaxRequests`, `MaxCreated`, `MaxEvents`, `MaxFrame`,
`MaxInFlight`, `MaxFaults`, `MaxEdits` and `MaxCrashes` are bounds of the instances and not
of the code; the other limits are the code's own, made small.

Deadlock is checked in every run: a stopped publisher can still be called, a
stopped bridge started or drained, a processor maintained, an editor launched.

**Fairness.** `LatestBatchPublisher`: the worker and the threads with a call in
progress are scheduled (weak), and the send callback returns (strong, as it may
call `Stop` any number of times first); that callbacks return is a documented
precondition of `Flush` and `Stop`. No fairness on starting a call.
`UdpRuntimeBridge`: the worker is scheduled, its idle wait ends by its time-out,
and a call the owner began goes on. Nothing is assumed of arrivals, drains or
sends. `CommandProcessor`: the render loop calls `MaintainTransportState` in
every frame (`RuntimeSession::Advance`), and time passes.
`ExternalStream`: a window with a live receiver draws frames, and again and again
one of them gets the mutex and finds memory (strong: the mutex may be busy any
number of times first); the GPU ends its work; a live producer goes on calling.
`FeedbackPath`: frames go on (strong, as a session may be reloaded between two),
the client looks at its clock, no packet stays in flight, and of a kind that is
sent again and again some packets arrive (strong); a session that numbers anew
catches up. Changes, losses and crashes are never required.
`EditorSession` has safety properties only.

## What the runs disagree with

Two statements of the sources do not hold; each has a run that shows it
and an entry in `PROJECT.json` under `findings`.

 - `publisher_reset`: deltas that followed an unsent reset are dropped when a
   newer batch of the same mapping replaces it (the header promises they are
   merged). The properties of the passing runs about deltas and lifecycles exclude
   it as the loss "behind reset".
 - `feedback_with_stream`: while an external stream is on display its packets
   rearm the throttle at every fast interval, so the heartbeat of a page that
   does not change is never due. With `Streams = FALSE` the property holds under
   the same fairness.

### Behaviour worth knowing

Met while modelling, each visible in a definition of the models; no run is
devoted to them.

Publisher. Three unsent updates of one reticle can leave the older of two texts:
A writes the text by name, B by generated id, C only moves the reticle. A and B
wait as two commands; C meets both, A is folded into C's command (`:736`) and B,
which now mixes with it, is carried in front (`:791`), so that A's text comes
last. The comments beside the code (`LatestBatchPublisher.cpp:464-470`,
`:491-496`) say that the order keeps "latest wins" true, and the header that an
undelivered delta is never dropped (`LatestBatchPublisher.h:35-37`).
`StaticDeltasSurvive` and `FlushDelivers` except such merges, by name ("apart"):
without the exception the run finds this. An unsent removal that a merge meets
together with the creation that follows it is lost (`:705`, only the last command
of a reticle is carried), although the header says that removals are preserved
(`:31-33`): the window keeps the old instance and patches it. When the new
instance has another template, the window rejects the batch. `LifecycleSurvives`
excepts such removals, by name ("removal"). Of two unsent partial updates of one
dynamic reticle only the newer is sent (`MergeDynamicOp`). An unsent creation
followed by a removal becomes a removal of a reticle the window does not have,
and the transactional window rejects the whole batch (`:708`; excluded elsewhere
by `rejected`). Page activation, strobe and display deltas of a replaced batch
are not carried (`:693`). A text may be written by a reticle's `texts` and by a
patch of its primitive: merged into one update both are sent, and the window
applies the primitive patches last, whichever is newer; the model follows each
on its own.

Scene. A failed batch that hid a set of dynamic reticles, or gave it a magnet,
leaves the set so. `RestoreScopedRuntimeSnapshot` means to reset the touched pages
to "no template overrides" first (`SceneRegistry.cpp:2235-2238`), but
`EraseDynamicTemplateOverridesForPage` (`:2191`) looks for keys that begin with the
page's name and the character 31, while `MakeDynamicTemplateLookupKey` (`:4085`)
builds keys that begin with `T`, `P` and a length: nothing is erased, and
`ApplySnapshotState` (`:2271`) only adds what was captured. A batch with a reset
takes the whole-scene path, which clears the sets. `RollbackRestores` says that
this is all: which sets may be left (`LeavesBehind`), that no override is lost,
and that the rest is as before. A failed batch that activated another page ends
the press and the pending request of the widgets of the page it returns to
(`ApplySnapshotState` calls `SetActivePageByKey`, `SceneRegistry.cpp:1761`), and
one with a reset loses queued widget feedback. So `RollbackRestores` speaks of
what commands decide (`Commanded`): it leaves out the interaction of widgets, the
feedback queued for them, and where the selected strobe of a hidden page sits.
Coalescing may keep a strobe's lock
that the commands one by one would have let go: a burst that moves a strobe onto
a reticle, hides the reticle and shows it again becomes one that moves the strobe
and shows the reticle. `CoalescedAlike` allows that (`LetGo`) of the strobes
that are locked when the burst begins or that a command of it moves (`MayLock`),
and of no other. To allow it only of the strobe that is selected and locked
when the burst begins would be too little: the burst can lock a strobe first, as
here, or select another one that has a lock.

Streams. A frame the GPU held back may be shown after a newer one
(`OnlyLateFramesGoBack` names the case). `Consume` lets the displayed slot go
before it reserves memory for a copy, so a shortage loses the image although the
status says it is retained. An abandoned mutex is seen by one waiter only. A
receiver destroyed while the mutex is busy leaves its process identifier in the
header, and its successor in a live process fails as a duplicate consumer. A
`Stop` that is followed by `Pause` and `Play` before the next frame is no
restart, which is why `StopIsFinal` counts the Stops.

Feedback. A copy of the strobe packet that was accepted last is accepted again
(`Animation.cpp:81`, on purpose), also when a page message has cleared the capture
in between: the client then reports it until the next packet. A page message
clears only captures the client already has: a strobe
packet of the earlier visit that arrives after it is taken up until the next one
(`CaptureOfThisVisit` is about the moment of the change). After a reload within
the time-out a client ignores feedback until its sequences have caught up, and
it may then take a capture from before the reload for one of the new visit: the
sequences that would tell them apart start at 1 again (`RuntimeSession.cpp:750`,
`Animation.cpp:722`). `CaptureOfThisVisit` excepts these, by name.

Editor. Leaving the editor while the recovery prompt is open, or after a
recovery failed with "snapshot kept", removes the snapshot (`Exit`). Staged
resources are not cleared by loading another window, so that discarded imports
are written by the next save, and fail every save if the asset root has changed.
Undoing the creation of a saved template leaves its file, which the next load
finds. A recovery does not delete removed templates. Loading with unsaved changes
leaves a stale snapshot, and a crash between a commit and `Clear` offers older
work. The commit is not atomic across files when the process dies, as its header
says: `WorkIsKept` then relies on the snapshot or the backups.

## What is proved

Every safety invariant of the passing runs, their action properties, and the
refinement `DeliverySpec` are theorems, for all values of
the constants: any number of threads, batches, packets, pages, reticles,
producers, slots, files, faults and crashes, and any limits. Each theorem
assumes the `ASSUME`s of the module it is about; the refinement also that
batches are transactional (`Modes \subseteq {TRUE}`), which is what it is about.
The `ASSUME`s say of the constants what the code's types and compile-time values
say, and TLC evaluates each of them on a run.

The proofs have one plan. A property is seldom inductive; an inductive
invariant is a conjunction of named parts, it was first checked by TLC on the
instance of the run, and the proof has a lemma for each kind of step, which
works on the parts that the step can disturb.

**`LatestBatchPublisherProofs`** (ten theorems). The first part is about the
updates of one static target, as what they do to the target (`Applied`): of a
concatenation it is the one after the other (`AppliedConcat`), filling an update
from an older one does what the two do when names and ids do not mix
(`FilledApplied`), so collecting the pending updates changes nothing
(`CollectedApplied`, also when they stay apart), and folding them into the newest
changes nothing when they are at most one (`MergeStaticUpdatesApplied`). From
there to batches: `MergePending` returns a batch, and a merged batch does to the
statics of a window (`MergePendingStatics`) and to its confirmations
(`MergePendingWidgets`) what the two batches did one after the other, for the
statics unless `Losses` names the merge. `IInv` carries `TypeOK`, `StaticDeltasSurvive`, `WidgetsOnceInOrder`,
`WidgetBudgetHeld`, `NothingQueuedAfterStop` and the action property
`FlushDelivers`: `WorkerHolds` ties where the worker is to whether it holds a
batch, `HashesAccepted` says that the hash of a held batch was accepted (so that
without mixed mappings two held batches have one hash and the merge lemmas
apply), `RetryExplained` that a blocked retry comes with an error (which is why
a `Flush` that returns early has one), `StopEmpties` that a stop ends a blocked
retry. `JoinInv` (who is in the join is the `joiner`; a worker that is not
joinable has exited) gives `JoinedOnce` and the action property
`StopReturnsQuiescent`. `LabelInv` (every value in a held batch is of a
submission with the batch's hash) gives `OneMappingPerBatch`. `LifeInv` follows each reticle through the batch in flight and
the pending one (`Follows`): what they make of the window is the wanted instance
(`Matches`); an operation waiting above another that it would only patch has the
wanted template and no value from before the creation (`Fits`), and so has the
instance the window shows when both would only patch it (`Current`). A merge
keeps that (`MergeFollows`) unless it drops a removal: that is the case the
exception of `LifecycleSurvives` is for. It gives `LifecycleSurvives`.

**`UdpRuntimeBridgeProofs`** (six theorems). `BridgeInv` is `QueueInv /\
ThreadInv /\ FeedbackInv`. In `QueueInv`, `Priced` says that every batch has the
cost of its commands and the totals are the sum (`TotalsTrue`,
`FrameNeverBlocked`), `Lined` that stamps ascend through what was drained, the
queue and the next stamp, also inside a batch that was drained in part, and
`Counted` that the tallies balance (`DrainedOnceInOrder`). In `FeedbackInv`,
`Staged` puts sent, sending and waiting payloads in one order. `ThreadInv` is
about the interleaving: `StopInv` (who asks a worker to stop waits for it),
`LastFlushInv` (nobody enqueues after the last flush), both for
`FeedbackOnceInOrder`, and `WakeInv`, a theorem of its own
(`NeverAsleepOnFeedbackAlways`): the worker does not sleep on feedback it could
send, whatever falls between its look at the queue and its wait.

**`CommandProcessorProofs`** (five theorems). `PInv` is `PendingInv /\ ModesInv /\
StreamsInv`. `Sound` says that the pending batches are within their limits, can
still complete, and that the totals are the sum of their charges (`TypeOK`,
`TotalsTrue`): every operation erases expired entries first, so each lemma is
about what is left (`Live`), one entry taken out, and one put back. `Remembers`
says that the sequence and the fingerprints of a stream are the ones of what
succeeded of it (`StreamsTrackScene`), from which the sequence filter lets
nothing pass that is older or a repeat (`StreamOrder`).

The fifth theorem there is the refinement `CommandPathDelivers`: in transactional
mode `TransportSpec` implements `BatchDelivery`, for any clients, scripts, chunk
sizes, limits and counter widths. `TransportInv` adds to `PInv` what chunks on
their way mean (`LaunchedInv`): those that carry one identity are chunks of one
message, which was offered (`Explains`), and their client does not take the
identity again (`Used`), because the counter moves on and starts a new session
before it returns to 1. So an entry holds chunks of one message only
(`ReassembledInv`) however attempts, retries and copies mix, and one that
completes makes up that message: `ChunksFlatten` says that cutting and joining
are inverse, whatever the cut points. `WholeInv` says that a batch applied in
transactional mode is applied whole. `BeginSend` is mapped to `Offer`, a
`StoreChunk` that completes a batch to `Take`, whose order is `StreamOrder` of
the next state, a load to `Forget`, and every other step to a stutter.

**`SceneTransactionProofs`** (six theorems). `SceneInv` says that the scene is
well typed and `Coherent`: the selected strobe of the active page sits on its
lock (`SitsOnLock`), creation sequences are distinct and below the next
(`InOrder`), only the widget of the active page is touched
(`TouchedWhereShown`). These are the invariants of the run, stated of any
scene, because a handler is shown to keep them of any scene it is called on,
also in the middle of a batch. `RollbackRestores` needs
three more facts: every handler leaves `Elsewhere`, the pages outside the
footprint the batch declares, as it was (with one lemma per handler, and the
footprint grown by the pages a batch activates); every handler hides no set, and
gives none a magnet, that its command does not name (`GrownBy`, `Hides`,
`Gives`); and putting the snapshot back leads to a scene that has everything of
the old one and the overrides that were not erased (`Widened`), refreshed on the
active page (`Rewound`), but for widgets' interaction and for where the strobe of
a hidden page sits (`PutBack`). Together they give all that `RolledBack`
compares.

`CoalescedAlike` compares two runs, so it is proved with a relation between two
scenes: `Follows(K, s, t)` says that they are the same but for strobes of `K`
that `s` has let go, and `Within` that no strobe outside `K` is locked. Every
handler keeps both (`DispatchFollows`, `DispatchWithin`): whatever it does to
`s` it can do to `t`, ending in related scenes. Two commands of one key that
follow each other, and the one command they are merged into, end in related
scenes too (`MergeFollows`, with a lemma per kind that is merged). The scenes
that a batch may pass through are a path (`Path`, `Leads`); one more command of
the burst makes the path of the coalesced batch longer (`LeadsLonger`) or
replaces its last step (`LeadsReplaced`). `CoalesceFollows` goes through the
burst by the least prefix at which that could fail, and `MayLockCovers` finds
that `MayLock` is a `K` that will do.

**`ExternalStreamProofs`** (five theorems). `IInv` has a part per actor: of the
receiver (`HostInv`: a slot is `Reading` exactly when it is shown or copied;
what is on offer was acquired after the last `Stop` it applied), of each
producer (`ProducerInv`: which slots a producer of this session and generation
holds, and that one of an older session is not served as long as it has the lease), of the frames
taken (`TakenInv`) and of the slots whose producer has left (`OrphanInv`). A
frame is not one step from header to header but a row of scans over the slots;
the lemmas follow the receiver through them (`Sound`, `Settled`). `Dark`, kept
from the moment a `Stop` is applied, is what `StopIsFinal` rests on.

The types of this module bound its counters: no generation without a request,
no epoch without a `Stop`. `BoundsInv` is the invariant for that. A generation
answers a request that had none (`Unanswered`, `Answers`). A `Stop` moves the
epoch twice at most, when it is seen and when `Play` follows it; `Paced` counts
the steps taken together with those still `Owed`, one that is latched and one
for leaving `Stop`. After a frame has applied the playback commands nothing in
it changes the epoch (`Steady`), and what a slot remembers was true when it was
acquired (`Lasts`).

**`EditorSessionProofs`** (two theorems). `JobInv` says of each phase of a
transaction what it has done with the entries it came past and with the others
(`EntryAt`, `Passed`): staged, backed up, promoted, cleaned up or rolled back. A
transaction that ends has come past them all: `CommitOutcome`. `WorkInv` adds
where the acknowledged work is (`HeldBy`): in the snapshot, in its file, or in a
backup that stays; a crash may come after any step.

**`FeedbackPathProofs`** (one theorem). `Delivers` relates the client to the
packets in flight in the order of their sequences: visits do not go back, a page
message clears the strobes sent before it (`InOrder`), and a capture it would
spare is of its visit or a later one, or from before a reload (`Spared`).

**`SumTheorems`** has no theorem of its own interest, but makes the totals
provable. The library's induction theorems take an operator as a parameter,
which the provers cannot instantiate. A set of naturals that is not empty has a
least element, though, and the set of the sizes (or positions) at which a
statement about sums, flattened sequences or folded handlers fails is such a
set. So `SumFunction` over a finite domain is shown to be additive, independent
of the order and equal on equal terms, and `FlattenSeq` to be what it is taken
for, without an induction principle.

Only model-checked: liveness (`CallsReturn`, `FeedbackLeaves`, `StopReturns`,
`StalledReassemblyEnds`, `ClientLearns`, `ProducerServed`), because fairness and
`ENABLED` are out of the prover's reach. The two properties the code violates
(`NoStaticDeltaDropped`, `UnchangedPublished`) are for TLC alone.

## What is not modelled

In the modelled parts: a publisher constructed with an unready channel, and the
`terminate` of a destructor run from its own callback; decoding, status texts
and metrics of the bridge; resolution of the names of pages and reticles to
identifiers, two ways to write one datum in one update, `Poll`, and the splitting of one oversized bulk command
in the command path; shapes, blinking, transport identifiers and indexes of the
scene, and what a failing allocation inside a restore leaves. Page, strobe and
display commands of a publisher's batch are left out of `LatestBatch`: the
merge does not carry them and nothing promises that it does. Window display
and stream commands of the coalescer; heartbeats of two seconds, two adapters in
one process, failing Direct3D calls, rejected dimensions, the sum of reserved
bytes and the limit on streams; feedback of widgets and streams, and the eviction
of captures of many pages; a reload whose transport does not start (the outcome
is reported and the next reload starts the bridge again); the contents of an
editor's files, the checks of paths and sizes before a commit, the capacity of
the undo history and the interval of autosaves.

Parts not modelled at all are in `PROJECT.json` with the reason. They are most
of the repository's lines: user interface code of the editor, the JSON loader
and the validator, rendering, code generation, generated clients, examples and
tests. They run on one thread, keep no state over a call but caches, or are
functions of their input to texts, pixels or widgets of a toolkit; a model of
them would repeat the code. That is why the models, which cover the parts with
protocols, threads, failures and transactions, stand for a small share of all
lines.

## Plan

The models are complete for the parts that carry protocols. What is left is
smaller: `FramebufferCapture` (a ring of pixel buffers with fences, on one
thread); the composition of `RuntimeSession`'s reload with `Start` and `Stop` of
the bridge; widget events in `FeedbackPath`.

No safety property of a passing run is left without a proof; liveness stays with
TLC; a property that comes with one of these models needs its theorem beside it.
