--------------------------- MODULE ExternalStream ---------------------------
(***************************************************************************)
(* A local GPU stream: a producer process draws into shared textures, a    *)
(* receiver in the window shows them.                                      *)
(*                                                                         *)
(* The two share a header under a mutex that is only ever tried, and three *)
(* textures, the slots, for each generation. The mutex protects the        *)
(* header; who may touch the pixels of a slot follows from its state and   *)
(* from GPU work that ends at a time of its own. Either process can die,   *)
(* also with the mutex in its hands. Each action below is one call; its    *)
(* critical section is atomic. An attempt that finds the mutex taken is an *)
(* action of its own where the code changes state all the same.            *)
(***************************************************************************)
EXTENDS Integers, FiniteSets, FiniteSetsExt

CONSTANTS
    Producers,      \* processes that open the stream as its producer
    NoOne, Gone,    \* process identifiers: none, and that of a dead process
    SlotCount,      \* detail::kSlotCount
    MaxFrame,       \* bound: frames of one connection
    MaxEvents       \* bound: sessions, registrations in a session and Stop commands together

ASSUME StreamAssumption ==
    /\ NoOne \notin Producers /\ Gone \notin Producers \cup {NoOne}
    /\ {SlotCount, MaxFrame, MaxEvents} \subseteq Nat \ {0}

VARIABLES
    control,    \* the WireHeader in shared memory
    mutex,      \* the control mutex between two calls: "free" or "abandoned"
    lease,      \* owner of the producer lease
    producer,   \* StreamProducer::Impl of each process
    host,       \* StreamReceiver::Impl
    wish,       \* playback commands the scene has applied
    orphans     \* history: textures of this session with GPU writes of producers that left

vars == <<control, mutex, lease, producer, host, wish, orphans>>

Slots == 1 .. SlotCount
NoSlot == 0
Modes == {"Play", "Pause", "Stop"}
NoDisplay == [generation |-> 0, slot |-> NoSlot, frame |-> 0, stops |-> 0]

\* stops is history: the Stop commands given when the slot was acquired. The frame and epoch that
\* a free slot keeps in the header are not read again and are left out.
FreeSlot == [state |-> "Free", frame |-> 0, epoch |-> 0, stops |-> 0]

Header(session, alive) ==
    [session |-> session, host |-> alive, generation |-> 0, epoch |-> 1, pid |-> NoOne,
     wanted |-> FALSE, serial |-> 0, result |-> "Ok", slots |-> [s \in Slots |-> FreeSlot]]
Unmapped == Header(0, FALSE)

\* The mapping and the mutex end with their last handle.
Mapped(hostMapped, producers) == hostMapped \/ \E p \in Producers : producers[p].open
KeepMapping(c, hostMapped, producers) == IF Mapped(hostMapped, producers) THEN c ELSE Unmapped

\* order is the GPU's: pairs of pending slots, the one submitted earlier first.
Closed ==
    [open |-> FALSE, registered |-> FALSE, session |-> 0, generation |-> 0, writing |-> NoSlot,
     pending |-> {}, order |-> {}, discard |-> {}, lastFrame |-> 0, acquiring |-> FALSE]

\* drawing, newest, late and seen are history: the textures of draws that are not done,
\* the newest frame taken of this generation, the frames the GPU still had when it was taken, and
\* the Stop commands of the last Update.
NewReceiver(life) ==
    [life |-> life, mapped |-> life = "up", display |-> NoDisplay, hasImage |-> FALSE,
     fence |-> "none", drawing |-> {}, copying |-> NoSlot, current |-> 0, cpu |-> FALSE, rejected |-> FALSE,
     applied |-> 0, deferred |-> FALSE, revision |-> 0, playback |-> "Play", clear |-> FALSE,
     invalidate |-> FALSE, newest |-> 0, late |-> {}, seen |-> 0]

Init ==
    /\ control = Unmapped
    /\ mutex = "free"
    /\ lease = NoOne
    /\ producer = [p \in Producers |-> Closed]
    /\ host = NewReceiver("absent")
    /\ wish = [mode |-> "Play", revision |-> 0]
    /\ orphans = {}

InBudget == control.session + control.serial + wish.revision < MaxEvents

-----------------------------------------------------------------------------
(* The scans over the slots: StreamProtocol. *)

\* Mutant: a slot whose frame the GPU has not finished is given out again.
FindWritable_Pending(c) ==
    LET idle == {s \in Slots : c.slots[s].state \in {"Free", "Ready"}}
        rest == {s \in Slots : c.slots[s].state = "Pending"} IN
    CASE idle # {} -> Min(idle) [] idle = {} /\ rest # {} -> Min(rest) [] OTHER -> NoSlot

FindWritable(c) ==
    LET free == {s \in Slots : c.slots[s].state = "Free"}
        ready == {s \in Slots : c.slots[s].state = "Ready"} IN
    CASE free # {} -> Min(free)
      [] free = {} /\ ready # {} ->
            CHOOSE s \in ready : \A t \in ready : c.slots[s].frame <= c.slots[t].frame
      [] OTHER -> NoSlot

FindLatest(c) ==
    LET latest == {s \in Slots : /\ c.slots[s].state = "Ready"
                                 /\ c.slots[s].epoch = c.epoch
                                 /\ c.slots[s].frame > 0} IN
    IF latest = {} THEN NoSlot
    ELSE CHOOSE s \in latest : \A t \in latest : c.slots[s].frame >= c.slots[t].frame

InvalidateReady(c) ==
    [c EXCEPT !.slots = [s \in Slots |-> IF c.slots[s].state = "Ready" THEN FreeSlot ELSE c.slots[s]]]

Freed(c, slot) == [c EXCEPT !.slots[slot] = FreeSlot]

-----------------------------------------------------------------------------
(* The producer. *)

Held(p) == producer[p].pending \cup ({producer[p].writing} \ {NoSlot})

\* GPU writes that p leaves behind in textures of the current session.
Abandoned(p) ==
    IF producer[p].session = control.session
    THEN {<<producer[p].generation, s>> : s \in Held(p)} ELSE {}

\* GPU work ends in the order of submission, the slots are asked one after the other: of two
\* submissions the later one is seen alone only when the earlier one was asked before it.
Completions(p) ==
    {S \in SUBSET producer[p].pending :
        \A e \in producer[p].order : e[2] \in S /\ e[1] \notin S => e[1] < e[2]}

\* A discarded frame and one of an earlier epoch free their slot.
CompletedState(q, slot, c) ==
    IF slot \in q.discard \/ c.slots[slot].epoch # c.epoch THEN "Free" ELSE "Ready"

\* The textures of a new generation are opened and everything of the old one is dropped.
Reopened(q, c) ==
    [q EXCEPT !.session = c.session, !.generation = c.generation, !.writing = NoSlot,
              !.pending = {}, !.order = {}, !.discard = {}, !.acquiring = FALSE]

Connected(p, c) ==
    /\ c.host
    /\ producer[p].session \in {0, c.session}
    /\ c.pid = p

\* The slot that was drawn into is submitted to the GPU.
Submitted(q) ==
    [q EXCEPT !.pending = @ \cup {q.writing}, !.order = @ \cup (q.pending \X {q.writing}),
              !.writing = NoSlot]

\* Synchronize, on header c with the GPU completions S; acquire tells the call of TryAcquire,
\* which goes on to its second critical section.
Synchronize(p, c, q, S, acquire) ==
    /\ mutex' = mutex
    /\ \/ /\ ~Connected(p, c) \/ c.result # "Ok" \/ c.generation = 0
          /\ control' = c
          /\ producer' = [producer EXCEPT ![p] = q]
          /\ UNCHANGED orphans
       \/ /\ Connected(p, c) /\ c.result = "Ok" /\ c.generation # 0
          /\ q.generation # c.generation
          /\ control' = c
          /\ producer' = [producer EXCEPT ![p] = Reopened(q, c)]
          /\ orphans' = orphans \cup Abandoned(p)
       \/ /\ Connected(p, c) /\ c.result = "Ok" /\ c.generation # 0
          /\ q.generation = c.generation
          /\ control' = [c EXCEPT !.slots = [s \in Slots |->
                IF s \notin S THEN c.slots[s]
                ELSE IF CompletedState(q, s, c) = "Free" THEN FreeSlot
                ELSE [c.slots[s] EXCEPT !.state = "Ready"]]]
          /\ producer' = [producer EXCEPT ![p] =
                [q EXCEPT !.pending = @ \ S, !.discard = @ \ S,
                          !.order = @ \ {e \in @ : e[1] \in S \/ e[2] \in S},
                          !.acquiring = acquire /\ q.writing = NoSlot]]
          /\ UNCHANGED orphans

\* Mutant: a successor asks with the serial of its predecessor.
Request_SameSerial(p) ==
    [control EXCEPT !.pid = p, !.wanted = TRUE, !.serial = 1, !.result = "Unavailable"]

Request(p) ==
    [control EXCEPT !.pid = p, !.wanted = TRUE, !.serial = @ + 1, !.result = "Unavailable"]

\* Open of a process that is not registered: endpoint, lease, request and first Synchronize.
Open(p) ==
    /\ Mapped(host.mapped, producer) /\ mutex = "free"
    /\ ~producer[p].registered
    /\ lease \in {NoOne, p}
    /\ InBudget
    /\ lease' = p
    /\ Synchronize(p, Request(p), [producer[p] EXCEPT !.open = TRUE, !.registered = TRUE], {}, FALSE)
    /\ UNCHANGED <<host, wish>>

\* The lease is taken by another, the control mutex is busy, or abandoned, which is an error:
\* what was opened stays open, and the wait has taken an abandoned mutex over.
OpenFails(p) ==
    /\ Mapped(host.mapped, producer)
    /\ ~producer[p].registered
    /\ \/ lease = NoOne \/ lease = p \/ ~producer[p].open
    /\ producer' = [producer EXCEPT ![p].open = TRUE]
    /\ lease' = IF lease = NoOne THEN p ELSE lease
    /\ mutex' = IF lease' = p THEN "free" ELSE mutex
    /\ UNCHANGED <<control, host, wish, orphans>>

\* A registered producer tries an abandoned mutex: an error for it, and the mutex is as new.
TakeOver(p) ==
    /\ producer[p].registered /\ mutex = "abandoned"
    /\ mutex' = "free"
    /\ UNCHANGED <<control, lease, producer, host, wish, orphans>>

\* Poll, and Open of a registered producer.
Poll(p, S) ==
    /\ producer[p].registered /\ mutex = "free" /\ ~producer[p].acquiring
    /\ Synchronize(p, control, producer[p], S, FALSE)
    /\ UNCHANGED <<lease, host, wish>>

\* The Poll of TryAcquire.
TryAcquire(p, S) ==
    /\ producer[p].registered /\ mutex = "free" /\ ~producer[p].acquiring
    /\ producer[p].lastFrame < MaxFrame
    /\ Synchronize(p, control, producer[p], S, TRUE)
    /\ UNCHANGED <<lease, host, wish>>

\* The second critical section of TryAcquire. Nothing is acquired when the mutex is busy, the
\* generation is another or no slot is writable.
Acquire(p) ==
    /\ producer[p].acquiring
    /\ \/ LET s == FindWritable(control) IN
          /\ mutex = "free" /\ control.generation = producer[p].generation /\ s # NoSlot
          /\ control' = [control EXCEPT !.slots[s] =
                [state |-> "Writing", frame |-> 0, epoch |-> control.epoch, stops |-> wish.revision]]
          /\ producer' = [producer EXCEPT ![p].acquiring = FALSE, ![p].writing = s]
          /\ UNCHANGED mutex
       \/ /\ producer' = [producer EXCEPT ![p].acquiring = FALSE]
          /\ mutex' = "free"
          /\ UNCHANGED control
    /\ UNCHANGED <<lease, host, wish, orphans>>

Publish(p) ==
    LET q == producer[p] IN
    /\ q.writing # NoSlot /\ q.lastFrame < MaxFrame /\ mutex = "free"
    /\ \/ /\ control.generation = q.generation
          /\ control' = [control EXCEPT !.slots[q.writing].state = "Pending",
                                        !.slots[q.writing].frame = q.lastFrame + 1]
          /\ producer' = [producer EXCEPT ![p] =
                [Submitted(q) EXCEPT !.discard = @ \ {q.writing}, !.lastFrame = @ + 1]]
          /\ UNCHANGED orphans
       \/ /\ control.generation # q.generation
          /\ producer' = [producer EXCEPT ![p].writing = NoSlot]
          /\ orphans' = orphans \cup Abandoned(p)
          /\ UNCHANGED control
    /\ UNCHANGED <<mutex, lease, host, wish>>

\* The slot stays Writing until a poll sees the GPU done with it.
Cancel(p) ==
    LET q == producer[p] IN
    /\ q.writing # NoSlot
    /\ producer' = [producer EXCEPT ![p] =
          [Submitted(q) EXCEPT !.discard = @ \cup {q.writing}]]
    /\ UNCHANGED <<control, mutex, lease, host, wish, orphans>>

\* Close withdraws the request if it gets the mutex, which it tries only when it is registered, and
\* lets go of everything in any case. A new mapping, when one is made, has a new mutex.
Close(p) ==
    LET closed == [producer EXCEPT ![p] = Closed] IN
    /\ producer[p].open /\ ~producer[p].acquiring
    /\ producer' = closed
    /\ orphans' = orphans \cup Abandoned(p)
    /\ lease' = IF lease = p THEN NoOne ELSE lease
    /\ \E tried \in {FALSE, producer[p].registered} :
          /\ control' = KeepMapping(
                IF tried /\ mutex = "free" /\ control.pid = p
                THEN [control EXCEPT !.pid = NoOne, !.wanted = FALSE] ELSE control, host.mapped, closed)
          /\ mutex' = IF tried \/ ~Mapped(host.mapped, closed) THEN "free" ELSE mutex
    /\ UNCHANGED <<host, wish>>

\* The process dies; the system releases the lease and, when it held it, abandons the mutex.
Crash(p) ==
    LET closed == [producer EXCEPT ![p] = Closed] IN
    /\ producer[p].open
    /\ producer' = closed
    /\ orphans' = orphans \cup Abandoned(p)
    /\ lease' = IF lease = p THEN NoOne ELSE lease
    /\ control' = KeepMapping(
          [control EXCEPT !.pid = IF @ = p THEN Gone ELSE @], host.mapped, closed)
    /\ \/ UNCHANGED mutex
       \/ mutex' = IF Mapped(host.mapped, closed) THEN "abandoned" ELSE "free"
    /\ UNCHANGED <<host, wish>>

-----------------------------------------------------------------------------
(* The receiver: operators on st == [c |-> control, h |-> host]. *)

\* Mutant: the fence behind the draws is not asked.
ReadCompleted_Unasked(h) == TRUE

ReadCompleted(h) == h.fence # "pending"

\* Mutant: a Stop that finds the mutex busy is forgotten once Play follows.
ObservePlayback_NotLatched(h) ==
    LET stopping == wish.revision # h.revision \/ wish.mode = "Stop" IN
    [h EXCEPT !.invalidate = (wish.mode = "Stop") # (h.playback = "Stop"),
              !.clear = @ \/ stopping, !.hasImage = @ /\ ~stopping,
              !.playback = wish.mode, !.seen = wish.revision]

\* What a Stop asks for is latched, whether or not this tick gets the mutex.
ObservePlayback(h) ==
    LET stopping == wish.revision # h.revision \/ wish.mode = "Stop"
        crossing == \/ wish.mode = "Stop" /\ h.playback # "Stop"
                    \/ wish.mode = "Play" /\ h.playback = "Stop" IN
    [h EXCEPT !.invalidate = @ \/ wish.revision # h.revision \/ crossing,
              !.clear = @ \/ stopping, !.hasImage = @ /\ ~stopping,
              !.playback = wish.mode, !.seen = wish.revision]

\* The displayed texture goes back to the producer, unless its generation is gone.
ReleaseDisplay(st) ==
    IF st.h.display = NoDisplay THEN st
    ELSE [c |-> IF st.h.display.generation = st.h.current /\ st.h.display.slot # NoSlot
                THEN Freed(st.c, st.h.display.slot) ELSE st.c,
          h |-> [st.h EXCEPT !.display = NoDisplay, !.hasImage = FALSE, !.fence = "none"]]

\* Mutant: the epoch advances again in the next frame.
Applied_Again(h) == [h EXCEPT !.revision = wish.revision]

Applied(h) == [h EXCEPT !.invalidate = FALSE, !.revision = wish.revision]

ApplyPlayback(st) ==
    LET bumped == IF st.h.invalidate THEN [InvalidateReady(st.c) EXCEPT !.epoch = @ + 1] ELSE st.c
        stopping == wish.revision # st.h.revision \/ wish.mode = "Stop"
        next == [c |-> IF stopping THEN InvalidateReady(bumped) ELSE bumped,
                 h |-> Applied(st.h)] IN
    IF next.h.clear /\ ReadCompleted(next.h)
    THEN [ReleaseDisplay(next) EXCEPT !.h.clear = FALSE]
    ELSE next

Adopt(st, slot) ==
    [st EXCEPT !.h.display = [generation |-> st.h.current, slot |-> IF st.h.cpu THEN NoSlot ELSE slot,
                              frame |-> st.c.slots[slot].frame, stops |-> st.c.slots[slot].stops],
               !.h.hasImage = TRUE]

\* Mutant: a copy that completes is shown whatever was commanded meanwhile.
CopyIsWanted_Always(st, consume) == consume

CopyIsWanted(st, consume) == consume /\ st.c.slots[st.h.copying].epoch = st.c.epoch

\* A copy that has completed is shown or dropped; either way its slot is free.
PollCopy(st, consume, copied) ==
    LET shown == Adopt(ReleaseDisplay(st), st.h.copying)
        retired(x) == [c |-> Freed(x.c, st.h.copying), h |-> [x.h EXCEPT !.copying = NoSlot]] IN
    CASE st.h.copying = NoSlot \/ ~copied -> st
      [] st.h.copying # NoSlot /\ copied /\ ~CopyIsWanted(st, consume) -> retired(st)
      [] OTHER -> IF ReadCompleted(st.h) THEN retired(shown) ELSE st

\* Mutant: a copy in flight does not hold a new generation back.
MayConfigure_DuringCopy(st, due) == due

MayConfigure(st, due) == due /\ st.h.copying = NoSlot

Requested(st, due) ==
    /\ st.c.pid # NoOne /\ st.c.wanted /\ st.c.serial # st.h.applied
    /\ MayConfigure(st, due)

\* A request that is not served yet gets a generation of its own, or waits for memory. A
\* texture on display stays with its old generation.
Configure(st, due, gpu) ==
    IF ~Requested(st, due) THEN st
    ELSE IF gpu = "short"
    THEN [c |-> [st.c EXCEPT !.result = "Unavailable"], h |-> [st.h EXCEPT !.deferred = TRUE]]
    ELSE [c |-> [st.c EXCEPT !.generation = @ + 1, !.result = "Ok", !.slots = [s \in Slots |-> FreeSlot]],
          h |-> [st.h EXCEPT !.current = st.c.generation + 1, !.cpu = (gpu = "cpu"), !.rejected = FALSE,
                             !.applied = st.c.serial, !.deferred = FALSE, !.newest = 0, !.late = {}]]

\* Mutant: the older frames that are ready stay on offer.
AfterTaking_Kept(c) == c

AfterTaking(c) == InvalidateReady(c)

\* The latest frame is read: its texture is locked for drawing, or a copy of it begins. The
\* previous texture was given back before.
Take(st, slot) ==
    LET pending == {s \in Slots : st.c.slots[s].state = "Pending"}
        reading == [c |-> [st.c EXCEPT !.slots[slot].state = "Reading"],
                    h |-> [st.h EXCEPT !.newest = IF st.c.slots[slot].frame > @ THEN st.c.slots[slot].frame ELSE @,
                                       !.late = {st.c.slots[s].frame : s \in pending}]]
        begun == IF st.h.cpu THEN [reading EXCEPT !.h.copying = slot] ELSE Adopt(reading, slot) IN
    [begun EXCEPT !.c = AfterTaking(@)]

\* A lock that the driver refuses turns the generation to copies, for which memory may be short.
Consume(st, due, gpu) ==
    LET latest == FindLatest(st.c)
        given == ReleaseDisplay(st) IN
    CASE st.h.copying # NoSlot \/ ~ReadCompleted(st.h) \/ latest = NoSlot -> st
      [] OTHER ->
            IF st.h.cpu THEN Take(st, latest)
            ELSE IF ~due THEN st
            ELSE IF gpu = "short" THEN [given EXCEPT !.h.deferred = TRUE, !.h.rejected = TRUE]
            ELSE IF gpu = "cpu" \/ st.h.rejected
            THEN Take([given EXCEPT !.h.deferred = FALSE, !.h.cpu = TRUE], latest)
            ELSE Take([given EXCEPT !.h.deferred = FALSE], latest)

\* The producer has its lease and its process lives.
ProducerConnected == lease # NoOne /\ control.pid \in Producers

\* A frame that is drawn ends with a fence behind the draws.
EndFrame(h, visible) ==
    IF ~visible \/ ~h.hasImage THEN h
    ELSE [h EXCEPT !.fence = "pending", !.drawing = @ \cup {<<h.display.generation, h.display.slot>>}]

\* Update up to the point where the device is asked, then the rest of it and EndFrame. due: the
\* retry delay has passed; copied: the copy has completed; gpu: what the driver and the budget give.
Entered ==
    LET seen == IF ProducerConnected THEN control ELSE [control EXCEPT !.pid = NoOne, !.wanted = FALSE] IN
    ApplyPlayback([c |-> seen, h |-> ObservePlayback(host)])

Frame(visible, due, copied, gpu) ==
    /\ host.life = "up" /\ mutex = "free"
    /\ due \/ host.deferred
    /\ copied \/ host.copying # NoSlot
    /\ \E entered \in {Entered} :
       \E consume \in {visible /\ wish.mode = "Play" /\ ~entered.h.clear} :
       \E polled \in {PollCopy(entered, consume, copied)} :
       \E configured \in {Configure(polled, due, gpu)} :
          LET stillDue == due /\ ~(Requested(polled, due) /\ gpu = "short")
              consumed == IF consume /\ configured.h.current # 0
                          THEN Consume(configured, stillDue, gpu) ELSE configured IN
          /\ control' = consumed.c
          /\ host' = EndFrame(consumed.h, visible)
    /\ UNCHANGED <<mutex, lease, producer, wish, orphans>>

\* A tick that finds the mutex busy.
FrameMissed(visible) ==
    /\ host.life = "up"
    /\ host' = EndFrame(ObservePlayback(host), visible)
    /\ UNCHANGED <<control, mutex, lease, producer, wish, orphans>>

\* The GPU has done the draws that read the displayed texture.
DrawsDone ==
    /\ host.drawing # {}
    /\ host' = [host EXCEPT !.fence = IF @ = "pending" THEN "done" ELSE @, !.drawing = {}]
    /\ UNCHANGED <<control, mutex, lease, producer, wish, orphans>>

\* Of a receiver that failed only its textures matter.
FailedReceiver(h) ==
    [NewReceiver("failed") EXCEPT !.mapped = TRUE, !.display = h.display, !.fence = h.fence,
                                  !.drawing = h.drawing, !.copying = h.copying, !.current = h.current]

\* Fail: an abandoned mutex, or a device that is lost after playback was applied. The result
\* reaches the header if the mutex can be had.
HostFails ==
    LET entered == IF mutex = "free" THEN Entered ELSE [c |-> control, h |-> ObservePlayback(host)] IN
    /\ host.life = "up"
    /\ host' = FailedReceiver(entered.h)
    /\ \/ control' = [entered.c EXCEPT !.result = "Error"]
       \/ control' = entered.c
    /\ mutex' = "free"
    /\ UNCHANGED <<lease, producer, wish, orphans>>

\* A receiver is created: it writes a new header, unless the mutex is abandoned or busy or the
\* header names a receiver whose process lives.
HostStart ==
    /\ host.life = "absent" /\ InBudget
    /\ \/ /\ mutex = "free" /\ ~control.host
          /\ control' = Header(control.session + 1, TRUE)
          /\ host' = NewReceiver("up")
          /\ orphans' = {}
       \/ /\ mutex = "abandoned" \/ control.host \/ Mapped(FALSE, producer)
          /\ host' = NewReceiver("failed")
          /\ UNCHANGED <<control, orphans>>
    /\ mutex' = "free"
    /\ UNCHANGED <<lease, producer, wish>>

\* The receiver is destroyed, with or without the mutex, or its process dies.
HostStop ==
    /\ host.life # "absent"
    /\ host' = NewReceiver("absent")
    /\ \E cleared, held \in BOOLEAN :
          /\ control' = KeepMapping(
                [control EXCEPT !.host = @ /\ ~(host.mapped /\ (cleared \/ held))], FALSE, producer)
          /\ mutex' = IF held /\ Mapped(FALSE, producer) THEN "abandoned" ELSE
                      IF host.mapped THEN "free" ELSE mutex
    /\ UNCHANGED <<lease, producer, wish, orphans>>

\* A command of the scene. Every Stop has a revision of its own.
Command(mode) ==
    /\ mode = "Stop" => InBudget
    /\ wish' = [mode |-> mode,
                revision |-> wish.revision + IF mode = "Stop" THEN 1 ELSE 0]
    /\ UNCHANGED <<control, mutex, lease, producer, host, orphans>>

-----------------------------------------------------------------------------
ProducerStep(p) ==
    \/ Open(p) \/ OpenFails(p) \/ TakeOver(p)
    \/ \E S \in Completions(p) : Poll(p, S) \/ TryAcquire(p, S)
    \/ Acquire(p) \/ Publish(p) \/ Cancel(p) \/ Close(p) \/ Crash(p)

HostStep ==
    \/ \E visible, due, copied \in BOOLEAN, gpu \in {"direct", "cpu", "short"} :
          Frame(visible, due, copied, gpu)
    \/ \E visible \in BOOLEAN : FrameMissed(visible)
    \/ DrawsDone \/ HostFails \/ HostStart \/ HostStop

Next ==
    \/ \E p \in Producers : ProducerStep(p)
    \/ HostStep
    \/ \E mode \in Modes : Command(mode)

Spec == Init /\ [][Next]_vars

\* A live producer goes on calling, and a window with a live receiver draws frames: they get
\* the mutex again and again, the GPU ends its work, and memory is found at last.
Tick == \E visible \in BOOLEAN : ReadCompleted(host) /\ Frame(visible, TRUE, TRUE, "direct")

Polling(p) == TakeOver(p) \/ Acquire(p) \/ Poll(p, producer[p].pending)

FairSpec ==
    /\ Spec
    /\ SF_vars(Tick) /\ WF_vars(DrawsDone)
    /\ \A p \in Producers : WF_vars(Polling(p))

-----------------------------------------------------------------------------
(* Properties. *)

TypeOK ==
    /\ control \in [session : 0 .. MaxEvents, host : BOOLEAN, generation : 0 .. MaxEvents,
                    epoch : 1 .. 2 * MaxEvents + 2, pid : Producers \cup {NoOne, Gone}, wanted : BOOLEAN,
                    serial : 0 .. MaxEvents, result : {"Ok", "Unavailable", "Error"},
                    slots : [Slots -> [state : {"Free", "Writing", "Pending", "Ready", "Reading"},
                                       frame : 0 .. MaxFrame, epoch : 0 .. 2 * MaxEvents + 2,
                                       stops : 0 .. MaxEvents]]]
    /\ mutex \in {"free", "abandoned"}
    /\ lease \in Producers \cup {NoOne}
    /\ \A p \in Producers :
          /\ producer[p].pending \subseteq Slots /\ producer[p].discard \subseteq producer[p].pending
          /\ producer[p].order \subseteq producer[p].pending \X producer[p].pending
          /\ producer[p].writing \in Slots \cup {NoSlot} /\ producer[p].lastFrame \in 0 .. MaxFrame
          /\ producer[p].generation \in 0 .. MaxEvents /\ producer[p].session \in 0 .. MaxEvents
    /\ host.life \in {"absent", "up", "failed"} /\ host.fence \in {"none", "pending", "done"}
    /\ host.copying \in Slots \cup {NoSlot} /\ host.display.slot \in Slots \cup {NoSlot}
    /\ host.drawing \subseteq (0 .. MaxEvents) \X (Slots \cup {NoSlot})
    /\ wish \in [mode : Modes, revision : 0 .. MaxEvents]
    /\ orphans \subseteq (0 .. MaxEvents) \X Slots

\* Textures of this session that the GPU may write for a producer, those that left included.
Written ==
    orphans \cup UNION {{<<producer[p].generation, s>> : s \in Held(p)} :
                            p \in {q \in Producers : producer[q].session = control.session}}

\* Textures the receiver shows or copies, and those its draws still read.
Read ==
    {<<host.display.generation, host.display.slot>>, <<host.current, host.copying>>} \cup host.drawing

\* No texture is read while a producer, living, closed or dead, may still have the GPU write it:
\* not across a cancelled frame, a new generation, a crash or a new session.
PixelOwnership == host.mapped => Written \cap Read \subseteq Nat \X {NoSlot}

\* Every slot of a producer at work that is neither free nor on offer has someone who will let go
\* of it: the producer that draws into it or awaits the GPU, the copy or the display. A slot
\* without one would be lost until the next generation, and three lost slots starve the stream.
SlotsHaveOwners ==
    \A p \in Producers :
        (/\ host.mapped /\ producer[p].registered /\ control.pid = p
         /\ producer[p].session = control.session /\ producer[p].generation = control.generation
         /\ control.generation # 0)
        => \A s \in Slots :
            LET q == producer[p]
                state == control.slots[s].state IN
            /\ state = "Writing" <=> s = q.writing \/ s \in q.discard
            /\ state = "Pending" <=> s \in q.pending \ q.discard
            /\ state = "Reading" <=> <<control.generation, s>> \in Read

\* A frame whose texture was acquired before a Stop is never on display once the receiver has been
\* told of the Stop, whatever was pending, copied, paused or missed meanwhile.
StopIsFinal == host.hasImage => host.display.stops >= host.seen

\* A completed frame on offer is newer than every frame taken of its generation, but for the one
\* case the code leaves open: the GPU still had it when a later frame was taken.
OnlyLateFramesGoBack ==
    \A s \in Slots :
        /\ host.life = "up"
        /\ control.slots[s].state = "Ready" /\ control.slots[s].epoch = control.epoch
        => control.slots[s].frame > host.newest \/ control.slots[s].frame \in host.late

\* A producer that asks a living receiver for surfaces gets those of the current generation,
\* whatever its predecessors left in the header, unless one of the two goes away.
ProducerServed ==
    \A p \in Producers :
        (host.life = "up" /\ producer[p].registered /\ control.pid = p)
        ~> \/ /\ producer[p].generation = control.generation
              /\ producer[p].session = control.session
           \/ ~producer[p].registered \/ host.life # "up"
=============================================================================
