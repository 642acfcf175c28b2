---------------------------- MODULE FeedbackPath ----------------------------
(***************************************************************************)
(* What a client knows of its window. The session publishes the active     *)
(* page, the strobe of that page and signs of life, each on a throttle;    *)
(* the feedback goes through a channel that loses, repeats and reorders;   *)
(* the client filters it by its sequence and watches for silence.          *)
(*                                                                         *)
(* Sequences are only ever compared. The network keeps its messages in the *)
(* order of their sequences, and what a comparison would say is kept with  *)
(* the message: it is Old when the client has accepted a newer one, and a  *)
(* message of an active page clears the pages whose strobe the client has  *)
(* from an earlier message. A session that starts anew numbers from 1      *)
(* again: behind says what is still below what the client has accepted of  *)
(* the page, of the strobe of each page and of the lifecycle. The packets  *)
(* of widgets and external streams are left out.                           *)
(* The unit of time is the frame.                                          *)
(***************************************************************************)
EXTENDS Integers, Sequences, SequencesExt

CONSTANTS
    Pages,          \* transport identifiers of the pages
    FirstPage,      \* the page the window opens on
    NoPage,
    Fast,           \* feedbackFastIntervalSeconds, in frames
    Heartbeat,      \* feedbackHeartbeatIntervalSeconds, in frames
    Streams,        \* whether an external stream is on display
    MaxInFlight,    \* bound: feedback in flight
    MaxEvents       \* bound: changes of the scene, and sessions started or reloaded, together

ASSUME FeedbackAssumption ==
    /\ FirstPage \in Pages /\ NoPage \notin Pages
    /\ {Fast, Heartbeat, MaxInFlight, MaxEvents} \subseteq Nat \ {0}
    /\ Heartbeat >= Fast
    /\ Streams \in BOOLEAN

VARIABLES
    window,     \* the session's scene and its throttles
    network,    \* feedback in flight, in the order of its sequences
    client      \* RuntimeFeedbackState and WindowLivenessMonitor

vars == <<window, network, client>>

Captures == {"free", "held"}

\* The client keeps a sequence of the active page, of the strobe of each page and of the lifecycle.
Channel(kind, page) == <<kind, IF kind = "strobe" THEN page ELSE NoPage>>
Channels == {Channel(kind, page) : kind \in {"page", "strobe", "closing"}, page \in Pages}

\* ResetLoadedState: nothing is published, everything is due. reported is what was published of
\* the strobe of that page; what the session keeps of other pages is overwritten before it is read.
\* visit counts the activations of pages in this session.
Loaded(page, capture, events) ==
    [up |-> TRUE, page |-> page, capture |-> capture, visit |-> 0, events |-> events,
     first |-> TRUE, fast |-> 0, beat |-> 0, published |-> NoPage, reported |-> "none", behind |-> {}]

\* shown and seen are history: the visit in which the client last saw the page change, and that of
\* the capture it has of each page. A visit of an earlier session is Before every other.
Before == -1

NewClient ==
    [page |-> NoPage, strobes |-> [p \in Pages |-> "none"], closing |-> FALSE, heard |-> FALSE,
     connected |-> FALSE, shown |-> 0, seen |-> [p \in Pages |-> 0]]

\* Commands may have come before the first frame is published.
Init ==
    /\ \E capture \in Captures : window = Loaded(FirstPage, capture, 1)
    /\ network = <<>>
    /\ client = NewClient

-----------------------------------------------------------------------------
(* The session. *)

\* RuntimeFeedbackThrottle. Elapsed time is kept up to multiples of the interval.
Advanced(elapsed, interval) == IF elapsed + 1 >= 2 * interval THEN elapsed + 1 - interval ELSE elapsed + 1
Remainder(elapsed, interval) == IF elapsed < interval THEN 0 ELSE elapsed % interval

Advance(w) ==
    [w EXCEPT !.fast = Advanced(@, Fast), !.beat = Advanced(@, Heartbeat)]

ShouldSendChanged(w) == w.first \/ w.fast >= Fast
ShouldSendHeartbeat(w) == ~w.first /\ w.beat >= Heartbeat

MarkSent(w, changed) ==
    IF changed THEN [w EXCEPT !.first = FALSE, !.fast = Remainder(@, Fast), !.beat = 0]
    ELSE [w EXCEPT !.first = FALSE, !.beat = Remainder(@, Heartbeat)]

\* A message that the sequences say is old: one more packet, and nothing else.
Old == [kind |-> "old", page |-> NoPage, value |-> "none", visit |-> 0, clears |-> {}]

Message(w, kind, page, value) ==
    IF Channel(kind, page) \in w.behind THEN Old
    ELSE [kind |-> kind, page |-> page, value |-> value,
          visit |-> IF kind = "closing" \/ value = "free" THEN 0 ELSE w.visit,
          clears |-> {p \in Pages : kind = "page" /\ Channel("strobe", p) \notin w.behind}]

\* PublishRuntimeFeedback for the active page and for its strobe.
PageChanged(w) == w.published # w.page

\* Mutant: the active page is published when it changes and never again.
PageSent_Once(w) == PageChanged(w) /\ ShouldSendChanged(w)

PageSent(w) == IF PageChanged(w) THEN ShouldSendChanged(w) ELSE ShouldSendHeartbeat(w)
StrobeChanged(w) == PageChanged(w) \/ w.reported # w.capture
StrobeSent(w) == IF StrobeChanged(w) THEN ShouldSendChanged(w) ELSE ShouldSendHeartbeat(w)
SentChanged(w) ==
    \/ ShouldSendChanged(w) /\ StrobeChanged(w)
    \/ Streams /\ (ShouldSendChanged(w) \/ ShouldSendHeartbeat(w))

Published(w) ==
    LET sent == [w EXCEPT !.published = IF PageSent(w) THEN w.page ELSE @,
                          !.reported = IF StrobeSent(w) THEN w.capture ELSE @] IN
    IF SentChanged(w) \/ PageSent(w) \/ StrobeSent(w) THEN MarkSent(sent, SentChanged(w)) ELSE sent

Feedback(w) ==
    (IF PageSent(w) THEN <<Message(w, "page", w.page, "none")>> ELSE <<>>)
    \o (IF StrobeSent(w) THEN <<Message(w, "strobe", w.page, w.capture)>> ELSE <<>>)

\* One frame of the session.
Frame ==
    LET w == Advance(window) IN
    /\ window.up
    /\ Len(network \o Feedback(w)) <= MaxInFlight
    /\ window' = Published(w)
    /\ network' = network \o Feedback(w)
    /\ UNCHANGED client

\* A heartbeat of the window arrives. It has a throttle of its own, which no other feedback
\* rearms, and tells the client nothing but that the window is there.
Alive ==
    /\ window.up
    /\ client' = [client EXCEPT !.heard = TRUE]
    /\ UNCHANGED <<window, network>>

\* Commands change the page, or what the strobe holds.
Change(page, capture) ==
    /\ window.up /\ window.events < MaxEvents
    /\ <<page, capture>> # <<window.page, window.capture>>
    /\ window' = [window EXCEPT !.page = page, !.capture = capture, !.events = @ + 1,
                                !.visit = IF page = window.page THEN @ ELSE @ + 1]
    /\ UNCHANGED <<network, client>>

\* NotifyClosing, behind the last frame; the bridge sends it before it stops.
NotifyClosing ==
    /\ window.up /\ Len(network) < MaxInFlight
    /\ window' = [window EXCEPT !.up = FALSE]
    /\ network' = Append(network, Message(window, "closing", NoPage, "none"))
    /\ UNCHANGED client

Crash ==
    /\ window.up
    /\ window' = [window EXCEPT !.up = FALSE]
    /\ UNCHANGED <<network, client>>

\* What the client may have accepted a message of.
Accepted ==
    {c \in Channels : /\ c[1] = "page" => client.page # NoPage
                      /\ c[1] = "strobe" => client.strobes[c[2]] # "none"}

\* A session starts again, or is reloaded while it runs. What the old one sent has arrived or is
\* lost by then: messages of two sessions, whose sequences say nothing of each other, are not mixed.
Reload ==
    /\ window.events < MaxEvents /\ network = <<>>
    /\ window' = [Loaded(window.page, window.capture, window.events + 1) EXCEPT !.behind = Accepted]
    /\ client' = [client EXCEPT !.shown = Before,
                                !.seen = [p \in Pages |-> IF client.strobes[p] = "held" THEN Before ELSE 0]]
    /\ UNCHANGED network

\* The sequence passes what the client has accepted before the session began.
CatchUp(channel) ==
    /\ window.up /\ channel \in window.behind
    /\ window' = [window EXCEPT !.behind = @ \ {channel}]
    /\ UNCHANGED <<network, client>>

-----------------------------------------------------------------------------
(* The client. *)

\* Mutant: the captures of the pages stay when another becomes active.
Cleared_Kept(c, m) == c.strobes

\* A capture reported before the page became active is forgotten.
Cleared(c, m) ==
    [p \in Pages |-> IF p \in m.clears /\ c.strobes[p] = "held" THEN "free" ELSE c.strobes[p]]

Applied(c, m) ==
    CASE m.kind = "old" -> c
      [] m.kind = "page" ->
            IF m.page = c.page THEN c
            ELSE [c EXCEPT !.page = m.page, !.strobes = Cleared(c, m), !.shown = m.visit,
                           !.seen = [p \in Pages |-> IF Cleared(c, m)[p] = "held" THEN @[p] ELSE 0]]
      [] m.kind = "strobe" ->
            [c EXCEPT !.strobes[m.page] = m.value, !.seen[m.page] = m.visit]
      [] m.kind = "closing" -> [c EXCEPT !.closing = TRUE]

\* What the sequences say of a message once a later one is accepted.
Overtaken(m, by) ==
    IF Channel(m.kind, m.page) = Channel(by.kind, by.page) THEN Old
    ELSE [m EXCEPT !.clears = IF by.kind = "strobe" THEN @ \ {by.page} ELSE @]

\* ApplyPayload of one message. Every packet that is decoded counts. A copy that comes again has the
\* sequence that was accepted last, unless a later one was accepted between, and is accepted again.
Receive(i, again) ==
    LET m == network[i]
        known == [j \in DOMAIN network |->
                    IF j < i THEN Overtaken(network[j], m) ELSE network[j]] IN
    /\ client' = [Applied(client, m) EXCEPT !.heard = TRUE]
    /\ network' = IF again THEN known ELSE RemoveAt(known, i)
    /\ UNCHANGED window

Lose(i) ==
    /\ network' = RemoveAt(network, i)
    /\ UNCHANGED <<window, client>>

\* WindowLivenessMonitor::Observe, and what the client does with a disconnect: it opens its
\* channels anew and starts over. late: the time-out has passed since the last activity.
Observe(late) ==
    LET connected == client.connected \/ client.heard IN
    /\ late => ~client.heard /\ connected
    /\ IF late \/ client.closing
       THEN /\ client' = NewClient
            /\ network' = <<>>
            /\ window' = [window EXCEPT !.behind = {}]
       ELSE /\ client' = [client EXCEPT !.connected = connected, !.heard = FALSE]
            /\ UNCHANGED <<window, network>>

-----------------------------------------------------------------------------
Next ==
    \/ Frame \/ Alive \/ NotifyClosing \/ Crash \/ Reload
    \/ \E page \in Pages, capture \in Captures : Change(page, capture)
    \/ \E channel \in Channels : CatchUp(channel)
    \/ \E i \in DOMAIN network : Lose(i) \/ \E again \in BOOLEAN : Receive(i, again)
    \/ \E late \in BOOLEAN : Observe(late)

Spec == Init /\ [][Next]_vars

\* The newest message of a kind arrives.
Arrive(kind) ==
    \E i \in DOMAIN network :
        /\ network[i].kind = kind /\ \A j \in DOMAIN network : j > i => network[j].kind # kind
        /\ Receive(i, FALSE)

\* The session and the client go on; messages do not stay in flight; of every kind that is sent
\* again and again some arrive.
FairSpec ==
    /\ Spec
    /\ SF_vars(Frame) /\ WF_vars(Observe(FALSE)) /\ WF_vars(Observe(TRUE))
    /\ WF_vars(network # <<>> /\ Receive(1, FALSE))
    /\ SF_vars(Arrive("page")) /\ SF_vars(Arrive("strobe"))
    /\ WF_vars(\E channel \in Channels : CatchUp(channel))

-----------------------------------------------------------------------------
(* Properties. *)

IsDynamicReticleCaptured == client.page # NoPage /\ client.strobes[client.page] = "held"

\* When the client learns that another page is active, it does not take up a capture that this page
\* had in an earlier visit: whatever was lost or overtaken, a capture it still reports was sent
\* after the activation it learns of, or with it. (RuntimeFeedbackState::Apply of an active page.)
\* The one exception is a capture from before the session began: a reload numbers from 1 again,
\* so the sequence of the page does not tell that this capture is older.
CaptureOfThisVisit ==
    [][client'.page # client.page =>
          (IsDynamicReticleCaptured' => \/ client'.seen[client'.page] >= client'.shown
                                        \/ client'.seen[client'.page] = Before)]_client

\* What the client knows of the scene.
View == <<client.page, IF client.page = NoPage THEN "none" ELSE client.strobes[client.page]>>

\* A client that is not cut off again and again comes to know the active page and its capture:
\* what was lost is repeated, also to a client that came late, and across a reload. One whose
\* session has gone starts over.
ClientLearns ==
    []<>(IF window.up THEN View = <<window.page, window.capture>> \/ client = NewClient
         ELSE ~client.connected)

\* A page that does not change is published again and again, at the pace of the heartbeat.
UnchangedPublished == []<>(window.up => \E i \in DOMAIN network : network[i].kind = "page")
=============================================================================
