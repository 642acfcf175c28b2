----------------------- MODULE LatestBatchPublisher -----------------------
(***************************************************************************)
(* LatestBatchPublisher of mfd_client_api: client threads submit, flush    *)
(* and stop; one worker thread takes the pending batch, sends it without   *)
(* the lock, and on a failure keeps it, merged with what arrived meanwhile, *)
(* until the next submission.                                              *)
(*                                                                         *)
(* Every critical section on Impl::mutex is one action; notifications,     *)
(* issued after the unlock, and the send callback are actions of their own. *)
(* The send callback is external: it either hands the whole batch to the   *)
(* window or fails (returns false or throws) with nothing shown.           *)
(***************************************************************************)
EXTENDS LatestBatch

CONSTANTS
    Clients,          \* threads using the publisher
    NoClient,         \* the free join mutex has this holder
    Shapes,           \* what a submitted batch may write, see Shape
    MaxSubmissions,   \* bound: accepted submissions of a behaviour
    WidgetBudget      \* queued and in-flight widget confirmations (4096)

Shape == [hash : MappingHashes,
          reset : BOOLEAN,
          statics : [StaticTargets -> [fields : SUBSET StaticFields,
                                       named : SUBSET Entries,
                                       byId : SUBSET Entries]],
          dynamics : [DynamicReticles -> [kind : {"none", "upsert", "remove", "recreate"},
                                          template : Templates,
                                          fields : SUBSET DynamicFields,
                                          stream : BOOLEAN]],
          widgets : Nat]

ASSUME PublisherAssumption ==
    /\ Shapes \subseteq Shape
    /\ MaxSubmissions \in Nat
    /\ WidgetBudget \in Nat
    /\ NoClient \notin Clients

VARIABLES
    pending,          \* Impl::pendingBatch, NoBatch when empty
    sending,          \* Impl::sending
    sendingWidgets,   \* Impl::sendingWidgetCommands
    retryBlocked,     \* Impl::retryBlocked
    stopRequested,    \* Impl::stopRequested
    lastError,        \* whether Impl::lastError is not empty
    worker,           \* where the worker thread is
    inflight,         \* the worker's local batch, NoBatch outside a send
    sendOk,           \* what the last send callback returned
    client,           \* [Clients -> where the thread is]
    joinable,         \* Impl::worker is joinable
    joiner,           \* the thread that holds Impl::joinMutex, or NoClient
    window,           \* what the window shows after the delivered batches
    desired,          \* what it would show after every accepted submission
    accepted,         \* mapping hashes of the accepted submissions, in order
    created,          \* the submission that created each dynamic reticle
    losses,           \* the kinds of losses that a merge has caused
    rejected          \* the window rejected a batch

workerVars == <<worker, inflight, sendOk>>
ghostVars == <<desired, accepted, created>>
joinVars == <<joinable, joiner>>
vars == <<pending, sending, sendingWidgets, retryBlocked, stopRequested, lastError,
          worker, inflight, sendOk, client, joinable, joiner,
          window, desired, accepted, created, losses, rejected>>


WindowState == [statics : StaticState,
                dynamics : [DynamicReticles -> Instance],
                widgets : Seq(Stamp)]

AuthoredWindow == [statics |-> BlankStatics, dynamics |-> NoInstances, widgets |-> <<>>]

Show(batch, state) ==
    [statics |-> StaticsAfter(batch, state.statics),
     dynamics |-> DynamicsAfter(batch, state.dynamics),
     widgets |-> WidgetsAfter(batch, state.widgets)]

-----------------------------------------------------------------------------
(* The batch the generated client builds for its n-th submission: every     *)
(* value it writes carries the stamp n.                                     *)

Stamps(all, written, n) == [x \in all |-> IF x \in written THEN n ELSE Absent]

Stamped(shape, n) ==
    [hash |-> shape.hash,
     reset |-> shape.reset,
     statics |-> [t \in StaticTargets |->
        LET update == shape.statics[t]
        IN  IF update.fields \cup update.named \cup update.byId = {}
            THEN <<>>
            ELSE <<[fields |-> Stamps(StaticFields, update.fields, n),
                    named |-> Stamps(Entries, update.named, n),
                    byId |-> Stamps(Entries, update.byId, n)]>>],
     dynamics |-> [d \in DynamicReticles |->
        LET op == shape.dynamics[d]
        IN  [kind |-> op.kind,
             template |-> op.template,
             patch |-> Stamps(DynamicFields, op.fields, n),
             stream |-> IF op.stream THEN n ELSE Absent]],
     widgets |-> [i \in 1..shape.widgets |-> n]]

\* A client removes only what it published and never changes the template of a
\* live reticle (GeneratedDynamicReticleSet, DynamicReticleSet).
Consistent(batch) == Accepts(batch, desired.dynamics)

\* The submission that created each dynamic reticle, after the n-th.
CreatedBy(batch, n) ==
    [d \in DynamicReticles |->
        IF Creates(batch.dynamics[d], IF batch.reset THEN NoInstance ELSE desired.dynamics[d])
        THEN n
        ELSE created[d]]

(* What the merge of `older` with `newest` loses, by kind.                  *)

\* The merge keeps of a pending reset batch only its confirmations.
DropsBehindReset(older, newest) ==
    /\ older.reset
    /\ \/ \E t \in StaticTargets : older.statics[t] # <<>>
       \/ \E d \in DynamicReticles : older.dynamics[d].kind # "none"

\* Updates of one target that wait apart, because names and ids mix in them, are each
\* folded into the newest: the older of them comes first and may win.
FoldsApart(older, newest) ==
    /\ ~older.reset
    /\ \E t \in StaticTargets : Len(Collected(older.statics[t])) > 1 /\ newest.statics[t] # <<>>

\* A removal that is followed by a creation is not kept: the old instance lives on.
DropsRemoval(older, newest) ==
    /\ ~older.reset
    /\ \E d \in DynamicReticles :
          /\ older.dynamics[d].kind \in {"remove", "recreate"}
          /\ MergeDynamicOp(older.dynamics[d], newest.dynamics[d]).kind = "upsert"

LossKinds == {"behind reset", "apart", "removal"}

Losses(older, newest) ==
    {loss \in LossKinds :
        /\ ~Replaces(newest, older)
        /\ \/ loss = "behind reset" /\ DropsBehindReset(older, newest)
           \/ loss = "apart" /\ FoldsApart(older, newest)
           \/ loss = "removal" /\ DropsRemoval(older, newest)}

-----------------------------------------------------------------------------
Init ==
    /\ pending = NoBatch
    /\ sending = FALSE
    /\ sendingWidgets = 0
    /\ retryBlocked = FALSE
    /\ stopRequested = FALSE
    /\ lastError = FALSE
    /\ worker = "waiting"
    /\ inflight = NoBatch
    /\ sendOk = FALSE
    /\ client = [c \in Clients |-> "idle"]
    /\ joinable = TRUE
    /\ joiner = NoClient
    /\ window = AuthoredWindow
    /\ desired = AuthoredWindow
    /\ accepted = <<>>
    /\ created = [d \in DynamicReticles |-> 0]
    /\ losses = {}
    /\ rejected = FALSE

-----------------------------------------------------------------------------
(* Client threads: SubmitLatest. *)

\* The first check of SubmitLatest(BatchBuilder); the builder then runs unlocked.
BeginBuild(c) ==
    /\ client[c] = "idle"
    /\ IF stopRequested
       THEN /\ lastError' = TRUE
            /\ UNCHANGED client
       ELSE /\ client' = [client EXCEPT ![c] = "building"]
            /\ UNCHANGED lastError
    /\ UNCHANGED <<pending, sending, sendingWidgets, retryBlocked, stopRequested, window,
                   losses, rejected, workerVars, joinVars, ghostVars>>

\* The builder throws: nothing is submitted.
BuildThrows(c) ==
    /\ client[c] = "building"
    /\ client' = [client EXCEPT ![c] = "idle"]
    /\ UNCHANGED <<pending, sending, sendingWidgets, retryBlocked, stopRequested, lastError, window,
                   losses, rejected, workerVars, joinVars, ghostVars>>

RefuseSubmission(c) ==
    /\ lastError' = TRUE
    /\ client' = [client EXCEPT ![c] = "idle"]
    /\ UNCHANGED <<pending, retryBlocked, losses, ghostVars>>

AcceptSubmission(c, batch) ==
    /\ pending' = MergePending(pending, batch)
    /\ retryBlocked' = FALSE
    /\ client' = [client EXCEPT ![c] = "notifying"]
    /\ desired' = Show(batch, desired)
    /\ accepted' = Append(accepted, batch.hash)
    /\ created' = CreatedBy(batch, Len(accepted'))
    /\ losses' = losses \cup Losses(pending, batch)
    /\ UNCHANGED lastError

\* Defect: confirmations in flight are forgotten.
OverWidgetBudget_QueuedOnly(batch) ==
    CountWidgetCommands(pending) + Len(batch.widgets) > WidgetBudget

OverWidgetBudget(batch) ==
    CountWidgetCommands(pending) + sendingWidgets + Len(batch.widgets) > WidgetBudget

\* SubmitLatest(CommandBatch), called directly or by the builder overload.
SubmitLatest(c, shape) ==
    /\ client[c] \in {"idle", "building"}
    /\ Len(accepted) < MaxSubmissions
    /\ LET batch == Stamped(shape, Len(accepted) + 1)
       IN  /\ Consistent(batch)
           /\ IF stopRequested \/ OverWidgetBudget(batch)
              THEN RefuseSubmission(c)
              ELSE AcceptSubmission(c, batch)
    /\ UNCHANGED <<sending, sendingWidgets, stopRequested, window, rejected, workerVars, joinVars>>

\* Defect: the notification is forgotten.
WokenWorker_Asleep == worker

\* wakeCondition.notify_one() or notify_all(): only the worker waits on it.
WokenWorker == IF worker = "asleep" THEN "waiting" ELSE worker

\* The notification after the unlock.
NotifyWorker(c) ==
    /\ client[c] = "notifying"
    /\ worker' = WokenWorker
    /\ client' = [client EXCEPT ![c] = "idle"]
    /\ UNCHANGED <<pending, sending, sendingWidgets, retryBlocked, stopRequested, lastError, window,
                   inflight, sendOk, losses, rejected, joinVars, ghostVars>>

-----------------------------------------------------------------------------
(* Client threads: Flush. *)

\* Defect: a batch in flight is not waited for.
Idle_QueueOnly == pending = NoBatch \/ retryBlocked

Idle == (pending = NoBatch \/ retryBlocked) /\ ~sending

BeginFlush(c) ==
    /\ client[c] = "idle"
    /\ client' = [client EXCEPT ![c] = "flushing"]
    /\ UNCHANGED <<pending, sending, sendingWidgets, retryBlocked, stopRequested, lastError, window,
                   losses, rejected, workerVars, joinVars, ghostVars>>

\* idleCondition.wait: return when the predicate holds, else sleep.
CheckFlush(c) ==
    /\ client[c] = "flushing"
    /\ client' = [client EXCEPT ![c] = IF Idle THEN "idle" ELSE "flushAsleep"]
    /\ UNCHANGED <<pending, sending, sendingWidgets, retryBlocked, stopRequested, lastError, window,
                   losses, rejected, workerVars, joinVars, ghostVars>>

\* Defect: idleCondition is not notified.
WakeFlushers_None(clients) == clients

\* idleCondition.notify_all().
WakeFlushers(clients) ==
    [c \in Clients |-> IF clients[c] = "flushAsleep" THEN "flushing" ELSE clients[c]]

-----------------------------------------------------------------------------
(* Client threads: Stop, and the destructor, which calls it. *)

RequestStop(c) ==
    /\ client[c] = "idle"
    /\ stopRequested' = TRUE
    /\ pending' = NoBatch
    /\ retryBlocked' = FALSE
    /\ client' = [client EXCEPT ![c] = "stopping"]
    /\ UNCHANGED <<sending, sendingWidgets, lastError, window, losses, rejected,
                   workerVars, joinVars, ghostVars>>

NotifyStop(c) ==
    /\ client[c] = "stopping"
    /\ worker' = WokenWorker
    /\ client' = [WakeFlushers(client) EXCEPT ![c] = "locking"]
    /\ UNCHANGED <<pending, sending, sendingWidgets, retryBlocked, stopRequested, lastError, window,
                   inflight, sendOk, losses, rejected, joinVars, ghostVars>>

\* Defect: joins are not serialized.
JoinMutexFree_Always == TRUE

JoinMutexFree == joiner = NoClient

\* Take joinMutex; a worker that was joined already ends the call.
LockJoin(c) ==
    /\ client[c] = "locking"
    /\ JoinMutexFree
    /\ IF joinable
       THEN /\ joiner' = c
            /\ client' = [client EXCEPT ![c] = "joining"]
       ELSE /\ client' = [client EXCEPT ![c] = "idle"]
            /\ UNCHANGED joiner
    /\ UNCHANGED <<pending, sending, sendingWidgets, retryBlocked, stopRequested, lastError, window,
                   joinable, losses, rejected, workerVars, ghostVars>>

\* Defect: an idle worker is taken for a finished one.
WorkerFinished_Idle == ~sending

WorkerFinished == worker = "exited"

Join(c) ==
    /\ client[c] = "joining"
    /\ WorkerFinished
    /\ joinable' = FALSE
    /\ joiner' = NoClient
    /\ client' = [client EXCEPT ![c] = "idle"]
    /\ UNCHANGED <<pending, sending, sendingWidgets, retryBlocked, stopRequested, lastError, window,
                   losses, rejected, workerVars, ghostVars>>

-----------------------------------------------------------------------------
(* The worker thread. *)

\* wakeCondition.wait: the predicate is false, sleep until notified.
WorkerSleep ==
    /\ worker = "waiting"
    /\ ~stopRequested
    /\ pending = NoBatch \/ retryBlocked
    /\ worker' = "asleep"
    /\ UNCHANGED <<pending, sending, sendingWidgets, retryBlocked, stopRequested, lastError, window,
                   inflight, sendOk, client, losses, rejected, joinVars, ghostVars>>

WorkerTake ==
    /\ worker = "waiting"
    /\ ~stopRequested
    /\ pending # NoBatch /\ ~retryBlocked
    /\ inflight' = pending
    /\ pending' = NoBatch
    /\ sending' = TRUE
    /\ sendingWidgets' = CountWidgetCommands(pending)
    /\ worker' = "sending"
    /\ UNCHANGED <<retryBlocked, stopRequested, lastError, window, sendOk, client,
                   losses, rejected, joinVars, ghostVars>>

\* The send callback itself calls Stop(): no join from the worker thread.
WorkerRequestStop ==
    /\ worker = "sending"
    /\ stopRequested' = TRUE
    /\ pending' = NoBatch
    /\ retryBlocked' = FALSE
    /\ worker' = "selfStopped"
    /\ UNCHANGED <<sending, sendingWidgets, lastError, window, inflight, sendOk, client,
                   losses, rejected, joinVars, ghostVars>>

WorkerNotifyStop ==
    /\ worker = "selfStopped"
    /\ client' = WakeFlushers(client)
    /\ worker' = "sending"
    /\ UNCHANGED <<pending, sending, sendingWidgets, retryBlocked, stopRequested, lastError, window,
                   inflight, sendOk, losses, rejected, joinVars, ghostVars>>

\* The send callback returns: on success the window received the batch.
SendReturns(ok) ==
    /\ worker = "sending"
    /\ worker' = "returned"
    /\ sendOk' = ok
    /\ IF ok /\ Accepts(inflight, window.dynamics)
       THEN /\ window' = Show(inflight, window)
            /\ UNCHANGED rejected
       ELSE /\ rejected' = (rejected \/ ok)
            /\ UNCHANGED window
    /\ UNCHANGED <<pending, sending, sendingWidgets, retryBlocked, stopRequested, lastError,
                   inflight, client, losses, joinVars, ghostVars>>

\* Defect: what was submitted during the failed send is overwritten.
KeepForRetry_DropsNewer ==
    /\ pending' = inflight
    /\ retryBlocked' = TRUE
    /\ UNCHANGED losses

\* Defect: the failed batch is merged as if it were the newer one.
KeepForRetry_Swapped ==
    /\ pending' = MergePending(pending, inflight)
    /\ retryBlocked' = TRUE
    /\ UNCHANGED losses

KeepForRetry ==
    /\ pending' = IF pending = NoBatch THEN inflight ELSE MergePending(inflight, pending)
    /\ losses' = IF pending = NoBatch THEN losses ELSE losses \cup Losses(inflight, pending)
    /\ retryBlocked' = TRUE

\* Defect: a send that fails after Stop() is queued again.
Retries_AfterStop == ~sendOk

Retries == ~sendOk /\ ~stopRequested

\* Defect: the sending flag is left set.
EndSend_StillSending ==
    /\ sendingWidgets' = 0
    /\ inflight' = NoBatch
    /\ UNCHANGED sending

EndSend ==
    /\ sending' = FALSE
    /\ sendingWidgets' = 0
    /\ inflight' = NoBatch

\* The completion critical section after the callback.
WorkerComplete ==
    /\ worker = "returned"
    /\ EndSend
    /\ lastError' = ~sendOk
    /\ IF Retries THEN KeepForRetry
                  ELSE UNCHANGED <<pending, losses, retryBlocked>>
    /\ worker' = "completed"
    /\ UNCHANGED <<stopRequested, window, sendOk, client, rejected, joinVars, ghostVars>>

WorkerNotifyIdle ==
    /\ worker = "completed"
    /\ client' = WakeFlushers(client)
    /\ worker' = "waiting"
    /\ UNCHANGED <<pending, sending, sendingWidgets, retryBlocked, stopRequested, lastError, window,
                   inflight, sendOk, losses, rejected, joinVars, ghostVars>>

WorkerLeave ==
    /\ worker = "waiting"
    /\ stopRequested
    /\ worker' = "leaving"
    /\ UNCHANGED <<pending, sending, sendingWidgets, retryBlocked, stopRequested, lastError, window,
                   inflight, sendOk, client, losses, rejected, joinVars, ghostVars>>

WorkerExit ==
    /\ worker = "leaving"
    /\ client' = WakeFlushers(client)
    /\ worker' = "exited"
    /\ UNCHANGED <<pending, sending, sendingWidgets, retryBlocked, stopRequested, lastError, window,
                   inflight, sendOk, losses, rejected, joinVars, ghostVars>>

-----------------------------------------------------------------------------
\* The steps of a call in progress, as opposed to the choice to start one.
ClientContinue(c) ==
    \/ NotifyWorker(c)
    \/ CheckFlush(c)
    \/ NotifyStop(c)
    \/ LockJoin(c)
    \/ Join(c)

ClientStep(c) ==
    \/ BeginBuild(c)
    \/ BuildThrows(c)
    \/ \E shape \in Shapes : SubmitLatest(c, shape)
    \/ BeginFlush(c)
    \/ RequestStop(c)
    \/ ClientContinue(c)

WorkerContinue ==
    \/ WorkerSleep
    \/ WorkerTake
    \/ WorkerNotifyStop
    \/ \E ok \in BOOLEAN : SendReturns(ok)
    \/ WorkerComplete
    \/ WorkerNotifyIdle
    \/ WorkerLeave
    \/ WorkerExit

Next ==
    \/ \E c \in Clients : ClientStep(c)
    \/ WorkerContinue
    \/ WorkerRequestStop

Spec == Init /\ [][Next]_vars

\* The threads run and the send callback returns, however often it calls Stop()
\* (the documented precondition of Flush and Stop). Starting a call is a choice.
Fairness ==
    /\ WF_vars(WorkerContinue)
    /\ SF_vars(\E ok \in BOOLEAN : SendReturns(ok))
    /\ \A c \in Clients : WF_vars(ClientContinue(c))

FairSpec == Spec /\ Fairness

-----------------------------------------------------------------------------
(* Properties. *)

WorkerStates == {"waiting", "asleep", "sending", "selfStopped", "returned", "completed",
                 "leaving", "exited"}

ClientStates == {"idle", "building", "notifying", "flushing", "flushAsleep", "stopping",
                 "locking", "joining"}

\* The types of the state of LatestBatchPublisher::Impl, its threads and the
\* specification's record of what was accepted and shown; the sending flag and its
\* widget count describe the batch in the worker's hands.
TypeOK ==
    /\ pending \in Batch \cup {NoBatch}
    /\ inflight \in Batch \cup {NoBatch}
    /\ sending \in BOOLEAN /\ retryBlocked \in BOOLEAN /\ stopRequested \in BOOLEAN
    /\ lastError \in BOOLEAN /\ sendOk \in BOOLEAN /\ joinable \in BOOLEAN
    /\ sendingWidgets = CountWidgetCommands(inflight)
    /\ sending <=> inflight # NoBatch
    /\ worker \in WorkerStates
    /\ client \in [Clients -> ClientStates]
    /\ joiner \in Clients \cup {NoClient}
    /\ window \in WindowState
    /\ desired \in WindowState
    /\ accepted \in Seq(MappingHashes)
    /\ created \in [DynamicReticles -> Nat]
    /\ losses \subseteq LossKinds /\ rejected \in BOOLEAN

MixedMappings == \E i, j \in 1..Len(accepted) : accepted[i] # accepted[j]

\* The batch in the worker's hands, unless the window already has it.
Outstanding == IF worker = "returned" /\ sendOk THEN NoBatch ELSE inflight

\* What the window will show once everything still held is delivered.
Projected == Show(pending, Show(Outstanding, window))

\* No client stopped the publisher, switched mappings or saw a batch rejected.
Undisturbed == ~stopRequested /\ ~MixedMappings /\ ~rejected

\* No merge lost static deltas in one of the two ways it can.
DeltasMergedWhole == losses \cap {"behind reset", "apart"} = {}

\* Static and container deltas: whatever the interleaving of submissions, sends,
\* failures and retries, the window will show exactly what applying every accepted
\* submission in order shows, unless deltas were merged onto an unsent reset or the
\* newest batch met deltas of one reticle that waited apart.
StaticDeltasSurvive ==
    Undisturbed /\ DeltasMergedWhole => Projected.statics = desired.statics

\* Widget confirmations reach the window once each and in submission order, also
\* across retries and resets: none is lost, duplicated or overtaken.
WidgetsOnceInOrder ==
    Undisturbed => Projected.widgets = desired.widgets

\* The instance has the template of the wanted one, its newest stream control, and no
\* value of an instance that was removed before the wanted one was created.
SameInstance(shown, wanted, creation) ==
    /\ shown.template = wanted.template
    /\ shown.stream = wanted.stream
    /\ \A f \in Writes(shown.patch) : shown.patch[f] >= creation

\* Creations and removals of dynamic reticles survive replacement of the pending
\* batch, and so does the newest stream control of a live one: what will be shown is
\* the instance that was created last and nothing of an earlier one. Excepted are
\* batches merged onto an unsent reset and removals that a merge met together with
\* the creation that follows them.
LifecycleSurvives ==
    Undisturbed /\ losses \cap {"behind reset", "removal"} = {} =>
        \A d \in DynamicReticles :
            LET shown == Projected.dynamics[d]
                wanted == desired.dynamics[d]
            IN  /\ shown.alive = wanted.alive
                /\ wanted.alive => SameInstance(shown, wanted, created[d])

\* The values that updates of a static target write.
StampsOf(updates) ==
    UNION {{updates[i].fields[f] : f \in Writes(updates[i].fields)}
             \cup {updates[i].named[e] : e \in Writes(updates[i].named)}
             \cup {updates[i].byId[e] : e \in Writes(updates[i].byId)} : i \in DOMAIN updates}

\* A held batch contains only values submitted under the batch's own mapping hash,
\* also after failures and switches back and forth between two mappings.
OneMappingPerBatch ==
    \A batch \in {pending, inflight} \ {NoBatch} :
        LET stamps == (UNION {StampsOf(batch.statics[t]) : t \in StaticTargets})
                        \cup {batch.widgets[i] : i \in DOMAIN batch.widgets}
                        \cup UNION {{batch.dynamics[d].patch[f] : f \in Writes(batch.dynamics[d].patch)}
                                     : d \in DynamicReticles}
        IN  \A n \in stamps : accepted[n] = batch.hash

\* The budget bounds queued plus in-flight confirmations, also when a failed batch
\* is merged back into the queue.
WidgetBudgetHeld ==
    CountWidgetCommands(pending) + CountWidgetCommands(inflight) <= WidgetBudget

\* After a stop request nothing is queued again: not by a builder that was running,
\* not by a send that fails late.
NothingQueuedAfterStop == stopRequested => pending = NoBatch

\* Concurrent Stop() calls: one thread at a time joins, and only a joinable thread.
JoinedOnce ==
    \A c, d \in Clients :
        client[c] = "joining" => joinable /\ (client[d] = "joining" => c = d)

\* An external Stop() returns only when the worker can no longer run the callback.
StopReturnsQuiescent ==
    [][\A c \in Clients :
          client[c] \in {"locking", "joining"} /\ client'[c] = "idle" => worker = "exited"]_vars

\* Flush returning without an error means that the window shows every submission
\* accepted before, static deltas and confirmations alike, unless a merge lost deltas.
FlushDelivers ==
    [][\A c \in Clients :
          /\ client[c] = "flushing" /\ client'[c] = "idle"
          /\ ~lastError /\ Undisturbed /\ DeltasMergedWhole
          => /\ window.statics = desired.statics
             /\ window.widgets = desired.widgets]_vars

\* Flush and Stop return, with concurrent callers, a late failure or a self-stop: no
\* notification of a submission, of an idle worker or of a stop request is missed.
CallsReturn ==
    \A c \in Clients : client[c] \in {"flushing", "stopping"} ~> client[c] = "idle"

\* The header's promise: an undelivered static delta is never dropped when a newer
\* batch of the same mapping does not rewrite it.
NoStaticDeltaDropped ==
    ~stopRequested /\ ~MixedMappings => Projected.statics = desired.statics
=============================================================================
