------------------------- MODULE FeedbackPathProofs -------------------------
(***************************************************************************)
(* Proofs about FeedbackPath: a client that learns of another page does    *)
(* not take up a capture that this page had in an earlier visit, whatever  *)
(* the channel loses, repeats or reorders and whenever the session is      *)
(* reloaded, for any pages, intervals and bounds.                          *)
(***************************************************************************)
EXTENDS FeedbackPath, SequenceTheorems, TLAPS

-----------------------------------------------------------------------------
(* Types. *)

SomePage == Pages \cup {NoPage}
Reports == {"none", "free", "held"}

Messages ==
    {m \in [kind : {"old", "page", "strobe", "closing"}, page : SomePage, value : Reports,
            visit : Nat, clears : SUBSET Pages] :
        m.kind \in {"page", "strobe"} => m.page \in Pages}

Windows ==
    [up : BOOLEAN, page : Pages, capture : Captures, visit : Nat, events : Nat, first : BOOLEAN,
     fast : Nat, beat : Nat, published : SomePage, reported : Reports, behind : SUBSET Channels]

Clients ==
    [page : SomePage, strobes : [Pages -> Reports], closing : BOOLEAN, heard : BOOLEAN,
     connected : BOOLEAN, shown : Int, seen : [Pages -> Int]]

FeedbackTypes == window \in Windows /\ network \in Seq(Messages) /\ client \in Clients

-----------------------------------------------------------------------------
(* The invariant. *)

\* The client has a capture of page p.
Held(c, p) == c.strobes[p] = "held"

\* Nothing is known or on its way of a visit that is still to come.
PastOnly(n, c, w) ==
    /\ \A p \in Pages : c.seen[p] <= w.visit
    /\ \A i \in DOMAIN n : n[i].visit <= w.visit

\* While the sequence is behind what the client has of a strobe, no report of it is on its way, and
\* what the client has is of an earlier session.
Behind(n, c, w) ==
    \A p \in Pages : Channel("strobe", p) \in w.behind =>
        /\ Held(c, p) => c.seen[p] = Before
        /\ \A i \in DOMAIN n : ~(n[i].kind = "strobe" /\ n[i].page = p)

\* In the order of the sequences, visits do not go back, and a page clears the strobes before it.
InOrder(n) ==
    \A i, j \in DOMAIN n : i < j =>
        /\ n[i].kind = "page" /\ n[j].kind = "strobe" /\ n[j].value = "held" => n[i].visit <= n[j].visit
        /\ n[i].kind = "strobe" /\ n[j].kind = "page" => n[i].page \in n[j].clears

\* A capture that an active page on its way would not clear is of that visit, a later one, or an
\* earlier session.
Spared(m, c) ==
    m.kind = "page" /\ m.page \notin m.clears /\ Held(c, m.page) =>
        c.seen[m.page] >= m.visit \/ c.seen[m.page] = Before

Delivers(n, c, w) ==
    PastOnly(n, c, w) /\ Behind(n, c, w) /\ InOrder(n) /\ \A i \in DOMAIN n : Spared(n[i], c)

FInv == FeedbackTypes /\ Delivers(network, client, window)

-----------------------------------------------------------------------------
(* Messages leave the network, and messages enter it. *)

LEMMA RemoveAtParts ==
  ASSUME NEW n \in Seq(Messages), NEW i \in DOMAIN n
  PROVE  /\ RemoveAt(n, i) \in Seq(Messages)
         /\ DOMAIN RemoveAt(n, i) = 1 .. Len(n) - 1
         /\ \A k \in 1 .. Len(n) - 1 : RemoveAt(n, i)[k] = n[IF k < i THEN k ELSE k + 1]
  <1> DEFINE front == SubSeq(n, 1, i - 1)
             back == SubSeq(n, i + 1, Len(n))
  <1>1. i \in 1 .. Len(n) /\ Len(n) \in Nat
    OBVIOUS
  <1>2. front \in Seq(Messages) /\ Len(front) = i - 1 /\ \A k \in 1 .. i - 1 : front[k] = n[k]
    BY <1>1
  <1>3. back \in Seq(Messages) /\ Len(back) = Len(n) - i /\ \A k \in 1 .. Len(n) - i : back[k] = n[i + k]
    BY <1>1
  <1> HIDE DEF front, back
  <1>4. front \o back \in Seq(Messages) /\ Len(front \o back) = Len(n) - 1
    BY <1>1, <1>2, <1>3, ConcatProperties
  <1>5. ASSUME NEW k \in 1 .. Len(n) - 1
        PROVE  (front \o back)[k] = n[IF k < i THEN k ELSE k + 1]
    <2>1. CASE k < i
      BY <1>1, <1>2, <1>3, <2>1
    <2>2. CASE ~(k < i)
      <3>1. (front \o back)[k] = back[k - (i - 1)] /\ k - (i - 1) \in 1 .. Len(n) - i
        <4>1. \A l \in 1 .. Len(front) + Len(back) :
                  (front \o back)[l] = IF l <= Len(front) THEN front[l] ELSE back[l - Len(front)]
          BY <1>2, <1>3, ConcatProperties
        <4>2. k \in 1 .. Len(front) + Len(back) /\ ~(k <= Len(front)) /\ k - (i - 1) \in 1 .. Len(n) - i
          BY <1>1, <1>2, <1>3, <2>2
        <4> QED
          BY <1>2, <4>1, <4>2
      <3>2. back[k - (i - 1)] = n[i + (k - (i - 1))] /\ i + (k - (i - 1)) = k + 1
        BY <1>1, <1>3, <3>1
      <3> QED
        BY <2>2, <3>1, <3>2
    <2> QED
      BY <2>1, <2>2
  <1> QED
    <2>1. RemoveAt(n, i) = front \o back
      BY DEF RemoveAt, front, back
    <2> QED
      BY <1>1, <1>4, <1>5, <2>1

LEMMA RemovalDelivers ==
  ASSUME NEW n \in Seq(Messages), NEW i \in DOMAIN n, NEW c \in Clients, NEW w \in Windows,
         Delivers(n, c, w)
  PROVE  RemoveAt(n, i) \in Seq(Messages) /\ Delivers(RemoveAt(n, i), c, w)
  <1> DEFINE rest == RemoveAt(n, i)
             at(k) == IF k < i THEN k ELSE k + 1
  <1>1. rest \in Seq(Messages) /\ DOMAIN rest = 1 .. Len(n) - 1
    BY RemoveAtParts
  <1>2. i \in 1 .. Len(n) /\ Len(n) \in Nat
    OBVIOUS
  <1>3. \A k \in DOMAIN rest : at(k) \in DOMAIN n /\ rest[k] = n[at(k)]
    <2>1. \A k \in 1 .. Len(n) - 1 : rest[k] = n[at(k)]
      BY RemoveAtParts
    <2>2. \A k \in 1 .. Len(n) - 1 : at(k) \in 1 .. Len(n)
      BY <1>2
    <2> QED
      BY <1>1, <2>1, <2>2
  <1>4. \A k, l \in DOMAIN rest : k < l => at(k) < at(l)
    BY <1>1, <1>2
  <1> HIDE DEF rest, at
  <1>5. PastOnly(rest, c, w)
    BY <1>3 DEF Delivers, PastOnly
  <1>6. Behind(rest, c, w)
    BY <1>3 DEF Delivers, Behind
  <1>7. InOrder(rest)
    BY <1>3, <1>4 DEF Delivers, InOrder
  <1>8. \A k \in DOMAIN rest : Spared(rest[k], c)
    BY <1>3 DEF Delivers
  <1> QED
    BY <1>1, <1>5, <1>6, <1>7, <1>8 DEF Delivers, rest

\* What Message makes can be sent behind everything in flight.
LEMMA SendingDelivers ==
  ASSUME NEW n \in Seq(Messages), NEW c \in Clients, NEW w \in Windows, Delivers(n, c, w),
         NEW kind \in {"page", "strobe", "closing"}, NEW page \in SomePage, NEW value \in Reports,
         kind \in {"page", "strobe"} => page = w.page
  PROVE  /\ Append(n, Message(w, kind, page, value)) \in Seq(Messages)
         /\ Delivers(Append(n, Message(w, kind, page, value)), c, w)
  <1> DEFINE m == Message(w, kind, page, value)
             more == Append(n, m)
             visit == IF kind = "closing" \/ value = "free" THEN 0 ELSE w.visit
             clears == {p \in Pages : kind = "page" /\ Channel("strobe", p) \notin w.behind}
  <1>1. w.visit \in Nat /\ visit \in Nat /\ visit <= w.visit /\ w.page \in Pages
    BY DEF Windows
  <1>2. clears \in SUBSET Pages
    OBVIOUS
  <1>3. CASE Channel(kind, page) \in w.behind
    <2>1. m = Old
      BY <1>3 DEF Message
    <2>2. Old \in Messages /\ Old.kind = "old" /\ Old.visit = 0
      BY DEF Old, Messages, SomePage, Reports
    <2> HIDE DEF m, visit, clears
    <2>3. more \in Seq(Messages) /\ DOMAIN more = 1 .. Len(n) + 1 /\ Len(n) \in Nat
          /\ more[Len(n) + 1] = m /\ \A k \in DOMAIN n : k \in DOMAIN more /\ more[k] = n[k] /\ k < Len(n) + 1
      BY <2>1, <2>2
    <2> HIDE DEF more
    <2>4. \A k \in DOMAIN more : k = Len(n) + 1 \/ k \in DOMAIN n
      BY <2>3
    <2>5. PastOnly(more, c, w) /\ Behind(more, c, w) /\ InOrder(more)
      <3>1. PastOnly(more, c, w)
        BY <1>1, <2>1, <2>2, <2>3, <2>4 DEF Delivers, PastOnly
      <3>2. Behind(more, c, w)
        BY <2>1, <2>2, <2>3, <2>4 DEF Delivers, Behind
      <3>3. InOrder(more)
        BY <2>1, <2>2, <2>3, <2>4 DEF Delivers, InOrder
      <3> QED
        BY <3>1, <3>2, <3>3
    <2>6. \A k \in DOMAIN more : Spared(more[k], c)
      BY <2>1, <2>2, <2>3, <2>4 DEF Delivers, Spared
    <2> QED
      BY <2>3, <2>5, <2>6 DEF Delivers, more, m
  <1>4. CASE Channel(kind, page) \notin w.behind
    <2>1. m = [kind |-> kind, page |-> page, value |-> value, visit |-> visit, clears |-> clears]
      BY <1>4 DEF Message
    <2> HIDE DEF visit, clears
    <2>2. m.kind = kind /\ m.page = page /\ m.value = value /\ m.visit = visit /\ m.clears = clears
      BY <2>1
    <2>3. m \in Messages
      BY <1>1, <1>2, <2>1 DEF Messages, SomePage
    <2> HIDE DEF m
    <2>4. more \in Seq(Messages) /\ DOMAIN more = 1 .. Len(n) + 1 /\ Len(n) \in Nat
          /\ more[Len(n) + 1] = m /\ \A k \in DOMAIN n : k \in DOMAIN more /\ more[k] = n[k] /\ k < Len(n) + 1
      BY <2>3
    <2>5. \A k \in DOMAIN n : n[k] \in Messages
      OBVIOUS
    <2> HIDE DEF more
    <2>6. \A k \in DOMAIN more : k = Len(n) + 1 \/ k \in DOMAIN n
      BY <2>4
    <2>7. PastOnly(more, c, w)
      BY <1>1, <2>2, <2>4, <2>6 DEF Delivers, PastOnly
    <2>8. Behind(more, c, w)
      <3>1. \A p \in Pages : Channel("strobe", p) \in w.behind => ~(kind = "strobe" /\ page = p)
        BY <1>4
      <3> QED
        BY <2>2, <2>4, <2>6, <3>1 DEF Delivers, Behind
    <2>9. InOrder(more)
      <3> SUFFICES ASSUME NEW k \in DOMAIN more, NEW l \in DOMAIN more, k < l
                   PROVE  /\ more[k].kind = "page" /\ more[l].kind = "strobe" /\ more[l].value = "held" =>
                               more[k].visit <= more[l].visit
                          /\ more[k].kind = "strobe" /\ more[l].kind = "page" => more[k].page \in more[l].clears
        BY DEF InOrder
      <3>1. k \in DOMAIN n
        BY <2>4, <2>6
      <3>2. CASE l \in DOMAIN n
        BY <2>4, <3>1, <3>2 DEF Delivers, InOrder
      <3>3. CASE l = Len(n) + 1
        <4>1. n[k].visit <= w.visit
          BY <3>1 DEF Delivers, PastOnly
        <4>2. kind = "strobe" /\ value = "held" => visit = w.visit
          BY DEF visit
        <4>3. n[k].kind = "strobe" => n[k].page \in Pages /\ Channel("strobe", n[k].page) \notin w.behind
          BY <2>5, <3>1 DEF Delivers, Behind, Messages
        <4>4. n[k].kind = "strobe" /\ kind = "page" => n[k].page \in clears
          BY <4>3 DEF clears
        <4> QED
          BY <2>2, <2>4, <3>1, <3>3, <4>1, <4>2, <4>4
      <3> QED
        BY <2>6, <3>2, <3>3
    <2>10. Spared(m, c)
      <3>1. kind = "page" /\ page \notin clears => page \in Pages /\ Channel("strobe", page) \in w.behind
        BY <1>1 DEF clears
      <3> QED
        BY <2>2, <3>1 DEF Delivers, Behind, Spared
    <2>11. \A k \in DOMAIN more : Spared(more[k], c)
      BY <2>4, <2>6, <2>10 DEF Delivers
    <2> QED
      BY <2>4, <2>7, <2>8, <2>9, <2>11 DEF Delivers, more, m
  <1> QED
    BY <1>3, <1>4

-----------------------------------------------------------------------------
(* The session. *)

\* What a step leaves of the window where only the throttles and the record of what was published change.
SameScene(w, v) ==
    /\ v \in Windows
    /\ v.page = w.page /\ v.capture = w.capture /\ v.visit = w.visit /\ v.behind = w.behind

LEMMA SameSceneDelivers ==
  ASSUME NEW n, NEW c, NEW w, NEW v, SameScene(w, v), Delivers(n, c, w)
  PROVE  Delivers(n, c, v)
  BY DEF SameScene, Delivers, PastOnly, Behind

LEMMA AdvanceIsSameScene ==
  ASSUME NEW w \in Windows
  PROVE  SameScene(w, Advance(w))
  <1> DEFINE fast == Advanced(w.fast, Fast)
             beat == Advanced(w.beat, Heartbeat)
  <1>1. Fast \in Nat \ {0} /\ Heartbeat \in Nat \ {0}
    BY FeedbackAssumption
  <1>2. w.fast \in Nat /\ w.beat \in Nat
    BY DEF Windows
  <1>3. fast \in Nat /\ beat \in Nat
    BY <1>1, <1>2 DEF Advanced
  <1>4. Advance(w) = [w EXCEPT !.fast = fast, !.beat = beat]
    BY DEF Advance
  <1> HIDE DEF fast, beat
  <1> QED
    BY <1>3, <1>4 DEF Windows, SameScene

LEMMA MarkSentIsSameScene ==
  ASSUME NEW w \in Windows, NEW changed \in BOOLEAN
  PROVE  SameScene(w, MarkSent(w, changed))
  <1> DEFINE fast == Remainder(w.fast, Fast)
             beat == Remainder(w.beat, Heartbeat)
  <1>1. Fast \in Nat \ {0} /\ Heartbeat \in Nat \ {0}
    BY FeedbackAssumption
  <1>2. w.fast \in Nat /\ w.beat \in Nat
    BY DEF Windows
  <1>3. fast \in Nat /\ beat \in Nat
    BY <1>1, <1>2 DEF Remainder
  <1>4. MarkSent(w, changed) = IF changed THEN [w EXCEPT !.first = FALSE, !.fast = fast, !.beat = 0]
                               ELSE [w EXCEPT !.first = FALSE, !.beat = beat]
    BY DEF MarkSent
  <1> HIDE DEF fast, beat
  <1>5. CASE changed
    <2>1. MarkSent(w, changed) = [w EXCEPT !.first = FALSE, !.fast = fast, !.beat = 0] /\ 0 \in Nat
      BY <1>4, <1>5
    <2> QED
      BY <1>3, <2>1 DEF Windows, SameScene
  <1>6. CASE ~changed
    BY <1>3, <1>4, <1>6 DEF Windows, SameScene
  <1> QED
    BY <1>5, <1>6

LEMMA PublishedIsSameScene ==
  ASSUME NEW w \in Windows
  PROVE  SameScene(w, Published(w))
  <1> DEFINE published == IF PageSent(w) THEN w.page ELSE w.published
             reported == IF StrobeSent(w) THEN w.capture ELSE w.reported
             sent == [w EXCEPT !.published = published, !.reported = reported]
  <1>1. published \in SomePage /\ reported \in Reports
    BY DEF Windows, SomePage, Reports, Captures
  <1>2. Published(w) = IF SentChanged(w) \/ PageSent(w) \/ StrobeSent(w)
                       THEN MarkSent(sent, SentChanged(w)) ELSE sent
    BY DEF Published
  <1> HIDE DEF published, reported
  <1>3. SameScene(w, sent)
    BY <1>1 DEF Windows, SameScene
  <1> HIDE DEF sent
  <1>4. SentChanged(w) \in BOOLEAN
    BY FeedbackAssumption DEF SentChanged
  <1>5. SameScene(sent, MarkSent(sent, SentChanged(w)))
    BY <1>3, <1>4, MarkSentIsSameScene DEF SameScene
  <1> QED
    BY <1>2, <1>3, <1>5 DEF SameScene

LEMMA FeedbackDelivers ==
  ASSUME NEW n \in Seq(Messages), NEW c \in Clients, NEW w \in Windows, Delivers(n, c, w)
  PROVE  n \o Feedback(w) \in Seq(Messages) /\ Delivers(n \o Feedback(w), c, w)
  <1> DEFINE a == Message(w, "page", w.page, "none")
             b == Message(w, "strobe", w.page, w.capture)
  <1>1. w.page \in SomePage /\ w.capture \in Reports /\ "none" \in Reports
    BY DEF Windows, SomePage, Captures, Reports
  <1>2. Append(n, a) \in Seq(Messages) /\ Delivers(Append(n, a), c, w)
    BY <1>1, SendingDelivers
  <1>3. Append(n, b) \in Seq(Messages) /\ Delivers(Append(n, b), c, w)
    BY <1>1, SendingDelivers
  <1> HIDE DEF a
  <1>4. /\ Append(Append(n, a), b) \in Seq(Messages)
        /\ Delivers(Append(Append(n, a), b), c, w)
    BY <1>1, <1>2, SendingDelivers
  <1>5. Feedback(w) = (IF PageSent(w) THEN <<a>> ELSE <<>>) \o (IF StrobeSent(w) THEN <<b>> ELSE <<>>)
    BY DEF Feedback, a
  <1>6. a \in Messages /\ b \in Messages
    <2>1. /\ Append(n, a)[Len(n) + 1] = a /\ Append(n, b)[Len(n) + 1] = b
          /\ Len(n) + 1 \in DOMAIN Append(n, a) /\ Len(n) + 1 \in DOMAIN Append(n, b)
      OBVIOUS
    <2> QED
      BY <1>2, <1>3, <2>1, ElementOfSeq
  <1> HIDE DEF b
  <1>7. n \o (<<a>> \o <<b>>) = Append(Append(n, a), b) /\ n \o (<<a>> \o <<>>) = Append(n, a)
        /\ n \o (<<>> \o <<b>>) = Append(n, b) /\ n \o (<<>> \o <<>>) = n
    BY <1>6
  <1> QED
    BY <1>2, <1>3, <1>4, <1>5, <1>7

LEMMA FrameStep ==
  ASSUME FInv, Frame
  PROVE  FInv'
  <1> DEFINE w == Advance(window)
  <1>1. window' = Published(w) /\ network' = network \o Feedback(w) /\ client' = client
    BY DEF Frame
  <1>2. SameScene(window, w)
    BY AdvanceIsSameScene DEF FInv, FeedbackTypes
  <1> HIDE DEF w
  <1>3. w \in Windows /\ Delivers(network, client, w)
    BY <1>2, SameSceneDelivers DEF FInv, SameScene
  <1>4. network' \in Seq(Messages) /\ Delivers(network', client, w)
    BY <1>1, <1>3, FeedbackDelivers DEF FInv, FeedbackTypes
  <1>5. SameScene(w, window')
    BY <1>1, <1>3, PublishedIsSameScene
  <1>6. Delivers(network', client, window')
    BY <1>4, <1>5, SameSceneDelivers
  <1> QED
    BY <1>1, <1>4, <1>5, <1>6 DEF FInv, FeedbackTypes, SameScene

LEMMA NotifyClosingStep ==
  ASSUME FInv, NotifyClosing
  PROVE  FInv'
  <1>1. /\ window' = [window EXCEPT !.up = FALSE] /\ client' = client
        /\ network' = Append(network, Message(window, "closing", NoPage, "none"))
    BY DEF NotifyClosing
  <1>2. SameScene(window, window')
    BY <1>1 DEF FInv, FeedbackTypes, Windows, SameScene
  <1>3. network' \in Seq(Messages) /\ Delivers(network', client, window)
    BY <1>1, SendingDelivers DEF FInv, FeedbackTypes, SomePage, Reports
  <1>4. Delivers(network', client, window')
    BY <1>2, <1>3, SameSceneDelivers
  <1> QED
    BY <1>1, <1>2, <1>3, <1>4 DEF FInv, FeedbackTypes, SameScene

LEMMA CrashStep ==
  ASSUME FInv, Crash
  PROVE  FInv'
  <1>1. window' = [window EXCEPT !.up = FALSE] /\ client' = client /\ network' = network
    BY DEF Crash
  <1>2. SameScene(window, window')
    BY <1>1 DEF FInv, FeedbackTypes, Windows, SameScene
  <1>3. Delivers(network, client, window')
    BY <1>2, SameSceneDelivers DEF FInv
  <1> QED
    BY <1>1, <1>2, <1>3 DEF FInv, FeedbackTypes, SameScene

LEMMA ChangeStep ==
  ASSUME FInv, NEW page \in Pages, NEW capture \in Captures, Change(page, capture)
  PROVE  FInv'
  <1> DEFINE visit == IF page = window.page THEN window.visit ELSE window.visit + 1
             events == window.events + 1
  <1>1. /\ window' = [window EXCEPT !.page = page, !.capture = capture, !.events = events, !.visit = visit]
        /\ client' = client /\ network' = network
    BY DEF Change
  <1>2. window.visit \in Nat /\ visit \in Nat /\ visit >= window.visit /\ events \in Nat
    BY DEF FInv, FeedbackTypes, Windows
  <1> HIDE DEF visit, events
  <1>3. window' \in Windows /\ window'.visit = visit /\ window'.behind = window.behind
    BY <1>1, <1>2 DEF FInv, FeedbackTypes, Windows
  <1>4. \A p \in Pages : client.seen[p] \in Int
    BY DEF FInv, FeedbackTypes, Clients
  <1>5. \A i \in DOMAIN network : network[i].visit \in Nat
    BY DEF FInv, FeedbackTypes, Messages
  <1>6. PastOnly(network, client, window')
    BY <1>2, <1>3, <1>4, <1>5 DEF FInv, Delivers, PastOnly
  <1>7. Behind(network, client, window')
    BY <1>3 DEF FInv, Delivers, Behind
  <1> QED
    BY <1>1, <1>3, <1>6, <1>7 DEF FInv, FeedbackTypes, Delivers

LEMMA ReloadStep ==
  ASSUME FInv, Reload
  PROVE  FInv'
  <1> DEFINE seen == [p \in Pages |-> IF client.strobes[p] = "held" THEN Before ELSE 0]
  <1>1. /\ network = <<>> /\ network' = <<>>
        /\ window' = [Loaded(window.page, window.capture, window.events + 1) EXCEPT !.behind = Accepted]
        /\ client' = [client EXCEPT !.shown = Before, !.seen = seen]
    BY DEF Reload
  <1>2. window' \in Windows /\ window'.visit = 0
    <2> DEFINE v == [up |-> TRUE, page |-> window.page, capture |-> window.capture, visit |-> 0,
                     events |-> window.events + 1, first |-> TRUE, fast |-> 0, beat |-> 0,
                     published |-> NoPage, reported |-> "none", behind |-> Accepted]
    <2>1. Accepted \in SUBSET Channels
      BY DEF Accepted
    <2>2. window' = v
      BY <1>1 DEF Loaded
    <2>3. window.page \in Pages /\ window.capture \in Captures /\ window.events + 1 \in Nat
      BY DEF FInv, FeedbackTypes, Windows
    <2>4. v \in Windows
      BY <2>1, <2>3 DEF Windows, SomePage, Reports
    <2> QED
      BY <2>2, <2>4
  <1>3. seen \in [Pages -> Int] /\ \A p \in Pages : seen[p] <= 0 /\ (Held(client, p) => seen[p] = Before)
    BY DEF Before, Held
  <1> HIDE DEF seen
  <1>4. client' \in Clients /\ client'.seen = seen /\ client'.strobes = client.strobes
    <2>1. Before \in Int
      BY DEF Before
    <2> QED
      BY <1>1, <1>3, <2>1 DEF FInv, FeedbackTypes, Clients
  <1>5. Delivers(network', client', window')
    BY <1>1, <1>2, <1>3, <1>4 DEF Delivers, PastOnly, Behind, InOrder, Held
  <1>6. network' \in Seq(Messages)
    BY <1>1
  <1> QED
    BY <1>2, <1>4, <1>5, <1>6 DEF FInv, FeedbackTypes

LEMMA CatchUpStep ==
  ASSUME FInv, NEW channel \in Channels, CatchUp(channel)
  PROVE  FInv'
  <1>1. /\ window' = [window EXCEPT !.behind = window.behind \ {channel}]
        /\ client' = client /\ network' = network
    BY DEF CatchUp
  <1>2. /\ window' \in Windows /\ window'.visit = window.visit /\ window'.behind \subseteq window.behind
    BY <1>1 DEF FInv, FeedbackTypes, Windows
  <1>3. Delivers(network, client, window')
    BY <1>2 DEF FInv, Delivers, PastOnly, Behind
  <1> QED
    BY <1>1, <1>2, <1>3 DEF FInv, FeedbackTypes

-----------------------------------------------------------------------------
(* The client. *)

\* A message that is received leaves others as they are, or old, or without the page whose strobe
\* it has brought.
LEMMA OvertakenParts ==
  ASSUME NEW m \in Messages, NEW by \in Messages
  PROVE  LET o == Overtaken(m, by) IN
         /\ o \in Messages
         /\ \/ o.kind = "old" /\ o.visit = 0
            \/ /\ o.kind = m.kind /\ o.page = m.page /\ o.value = m.value /\ o.visit = m.visit
               /\ o.clears = IF by.kind = "strobe" THEN m.clears \ {by.page} ELSE m.clears
               /\ Channel(m.kind, m.page) # Channel(by.kind, by.page)
  <1> DEFINE clears == IF by.kind = "strobe" THEN m.clears \ {by.page} ELSE m.clears
  <1>1. clears \in SUBSET Pages
    BY DEF Messages
  <1>2. Overtaken(m, by) = IF Channel(m.kind, m.page) = Channel(by.kind, by.page) THEN Old
                           ELSE [m EXCEPT !.clears = clears]
    BY DEF Overtaken
  <1> HIDE DEF clears
  <1>3. Old \in Messages /\ Old.kind = "old" /\ Old.visit = 0
    BY DEF Old, Messages, SomePage, Reports
  <1> DEFINE o == [m EXCEPT !.clears = clears]
  <1>4. /\ o \in Messages /\ o.kind = m.kind /\ o.page = m.page /\ o.value = m.value
        /\ o.visit = m.visit /\ o.clears = clears
    BY <1>1 DEF Messages
  <1> HIDE DEF o
  <1> QED
    BY <1>2, <1>3, <1>4 DEF clears, o

\* What a client takes from a message.
LEMMA AppliedParts ==
  ASSUME NEW c \in Clients, NEW m \in Messages
  PROVE  LET d == Applied(c, m) IN
         /\ d \in Clients
         /\ m.kind = "strobe" =>
               /\ d.page = c.page
               /\ d.strobes = [c.strobes EXCEPT ![m.page] = m.value]
               /\ d.seen = [c.seen EXCEPT ![m.page] = m.visit]
         /\ m.kind # "strobe" =>
               \A p \in Pages : /\ Held(d, p) => Held(c, p) /\ d.seen[p] = c.seen[p]
                                /\ d.seen[p] \in {0, c.seen[p]}
         /\ d.page # c.page =>
               /\ m.kind = "page" /\ d.page = m.page /\ d.shown = m.visit
               /\ m.page \in m.clears => ~Held(d, m.page)
  <1>1. CASE m.kind = "old"
    <2>1. Applied(c, m) = c
      BY <1>1 DEF Applied
    <2> QED
      BY <1>1, <2>1
  <1>2. CASE m.kind = "closing"
    <2>1. Applied(c, m) = [c EXCEPT !.closing = TRUE]
      BY <1>2 DEF Applied
    <2> QED
      BY <1>2, <2>1 DEF Clients, Held
  <1>3. CASE m.kind = "strobe"
    <2> DEFINE strobes == [c.strobes EXCEPT ![m.page] = m.value]
               seen == [c.seen EXCEPT ![m.page] = m.visit]
               d == [c EXCEPT !.strobes = strobes, !.seen = seen]
    <2>1. Applied(c, m) = d
      BY <1>3 DEF Applied
    <2>2. strobes \in [Pages -> Reports] /\ seen \in [Pages -> Int]
      <3>1. m.value \in Reports /\ m.visit \in Int
        BY DEF Messages
      <3> QED
        BY <3>1 DEF Clients
    <2> HIDE DEF strobes, seen
    <2>3. d \in Clients /\ d.page = c.page /\ d.strobes = strobes /\ d.seen = seen
      BY <2>2 DEF Clients
    <2> HIDE DEF d
    <2> QED
      BY <1>3, <2>1, <2>3 DEF strobes, seen
  <1>4. CASE m.kind = "page" /\ m.page = c.page
    <2>1. Applied(c, m) = c
      BY <1>4 DEF Applied
    <2> QED
      BY <1>4, <2>1
  <1>5. CASE m.kind = "page" /\ m.page # c.page
    <2> DEFINE strobes == Cleared(c, m)
               seen == [p \in Pages |-> IF strobes[p] = "held" THEN c.seen[p] ELSE 0]
               d == [c EXCEPT !.page = m.page, !.strobes = strobes, !.shown = m.visit, !.seen = seen]
    <2>1. Applied(c, m) = d
      BY <1>5 DEF Applied
    <2>2. /\ strobes \in [Pages -> Reports] /\ m.page \in Pages /\ m.visit \in Int
          /\ \A p \in Pages : (strobes[p] = "held" => c.strobes[p] = "held") /\ (p \in m.clears => strobes[p] # "held")
      BY <1>5 DEF Clients, Messages, Reports, Cleared
    <2> HIDE DEF strobes
    <2>3. seen \in [Pages -> Int] /\ \A p \in Pages : seen[p] = IF strobes[p] = "held" THEN c.seen[p] ELSE 0
      BY DEF Clients
    <2> HIDE DEF seen
    <2>4. d \in Clients /\ d.page = m.page /\ d.strobes = strobes /\ d.shown = m.visit /\ d.seen = seen
      BY <2>2, <2>3 DEF Clients, SomePage
    <2> HIDE DEF d
    <2> QED
      BY <1>5, <2>1, <2>2, <2>3, <2>4 DEF Held
  <1> QED
    BY <1>1, <1>2, <1>3, <1>4, <1>5 DEF Messages

LEMMA ReceiveStep ==
  ASSUME FInv, NEW i \in DOMAIN network, NEW again \in BOOLEAN, Receive(i, again)
  PROVE  FInv'
  <1> DEFINE m == network[i]
             d == Applied(client, m)
             known == [j \in DOMAIN network |-> IF j < i THEN Overtaken(network[j], m) ELSE network[j]]
  <1>1. /\ client' = [d EXCEPT !.heard = TRUE] /\ window' = window
        /\ network' = IF again THEN known ELSE RemoveAt(known, i)
    BY DEF Receive
  <1>2. /\ network \in Seq(Messages) /\ client \in Clients /\ window \in Windows
        /\ Delivers(network, client, window)
    BY DEF FInv, FeedbackTypes
  <1>3. \A j \in DOMAIN network : network[j] \in Messages
    BY <1>2
  <1>4. m \in Messages
    BY <1>3
  <1>5. /\ d \in Clients
        /\ m.kind = "strobe" =>
              /\ d.strobes = [client.strobes EXCEPT ![m.page] = m.value]
              /\ d.seen = [client.seen EXCEPT ![m.page] = m.visit]
        /\ m.kind # "strobe" =>
              \A p \in Pages : /\ Held(d, p) => Held(client, p) /\ d.seen[p] = client.seen[p]
                               /\ d.seen[p] \in {0, client.seen[p]}
    BY <1>2, <1>4, AppliedParts
  <1> HIDE DEF d
  <1>6. client' \in Clients /\ client'.strobes = d.strobes /\ client'.seen = d.seen
    BY <1>1, <1>5 DEF Clients
  <1>7. \A p \in Pages :
           /\ m.kind = "strobe" /\ m.page = p => (Held(client', p) <=> m.value = "held") /\ client'.seen[p] = m.visit
           /\ ~(m.kind = "strobe" /\ m.page = p) =>
                 /\ Held(client', p) => Held(client, p) /\ client'.seen[p] = client.seen[p]
                 /\ client'.seen[p] \in {0, client.seen[p]}
    BY <1>2, <1>5, <1>6 DEF Held, Clients
  <1>8. known \in Seq(Messages) /\ DOMAIN known = DOMAIN network /\ Len(known) = Len(network)
    <2>1. \A j \in DOMAIN network : known[j] \in Messages
      BY <1>3, <1>4, OvertakenParts
    <2> QED
      BY <1>2, <2>1
  <1>9. \A j \in DOMAIN network :
           LET o == known[j] n == network[j] IN
           /\ n \in Messages
           /\ \/ o.kind = "old" /\ o.visit = 0
              \/ /\ o.kind = n.kind /\ o.page = n.page /\ o.value = n.value /\ o.visit = n.visit
                 /\ o.clears = IF m.kind = "strobe" /\ j < i THEN n.clears \ {m.page} ELSE n.clears
                 /\ j < i => Channel(n.kind, n.page) # Channel(m.kind, m.page)
    <2> SUFFICES ASSUME NEW j \in DOMAIN network
                 PROVE  LET o == known[j] n == network[j] IN
                        \/ o.kind = "old" /\ o.visit = 0
                        \/ /\ o.kind = n.kind /\ o.page = n.page /\ o.value = n.value /\ o.visit = n.visit
                           /\ o.clears = IF m.kind = "strobe" /\ j < i THEN n.clears \ {m.page} ELSE n.clears
                           /\ j < i => Channel(n.kind, n.page) # Channel(m.kind, m.page)
      BY <1>3
    <2>1. CASE j < i
      <3> DEFINE o == Overtaken(network[j], m)
      <3>1. known[j] = o
        BY <2>1
      <3>2. \/ o.kind = "old" /\ o.visit = 0
            \/ /\ o.kind = network[j].kind /\ o.page = network[j].page /\ o.value = network[j].value
               /\ o.visit = network[j].visit
               /\ o.clears = IF m.kind = "strobe" THEN network[j].clears \ {m.page} ELSE network[j].clears
               /\ Channel(network[j].kind, network[j].page) # Channel(m.kind, m.page)
        BY <1>3, <1>4, OvertakenParts
      <3> HIDE DEF known, m, o
      <3> QED
        BY <2>1, <3>1, <3>2
    <2>2. CASE ~(j < i)
      BY <2>2
    <2> QED
      BY <2>1, <2>2
  <1> HIDE DEF known
  <1>10. i \in DOMAIN network /\ DOMAIN network \subseteq Nat /\ i \in Nat
    BY <1>2
  <1>11. m.kind \in {"page", "strobe"} => m.page \in Pages
    BY <1>4 DEF Messages
  <1>12. window.visit \in Nat /\ m.visit <= window.visit /\ m.visit \in Nat
    BY <1>2, <1>4 DEF Delivers, PastOnly, Windows, Messages
  <1>13. PastOnly(known, client', window)
    <2>1. \A p \in Pages : client.seen[p] <= window.visit
      BY <1>2 DEF Delivers, PastOnly
    <2>2. \A p \in Pages : client'.seen[p] \in {0, m.visit, client.seen[p]}
      BY <1>7
    <2>3. \A p \in Pages : client'.seen[p] <= window.visit
      BY <1>12, <2>1, <2>2
    <2>4. \A j \in DOMAIN network : network[j].visit <= window.visit
      BY <1>2 DEF Delivers, PastOnly
    <2>5. ASSUME NEW j \in DOMAIN network
          PROVE  known[j].visit <= window.visit
      <3>1. known[j].visit = 0 \/ known[j].visit = network[j].visit
        BY <1>9
      <3> QED
        BY <1>12, <2>4, <3>1
    <2> QED
      BY <1>8, <2>3, <2>5 DEF PastOnly
  <1>14. Behind(known, client', window)
    <2> SUFFICES ASSUME NEW p \in Pages, Channel("strobe", p) \in window.behind
                 PROVE  /\ Held(client', p) => client'.seen[p] = Before
                        /\ \A j \in DOMAIN known : ~(known[j].kind = "strobe" /\ known[j].page = p)
      BY DEF Behind
    <2>1. /\ Held(client, p) => client.seen[p] = Before
          /\ \A j \in DOMAIN network : ~(network[j].kind = "strobe" /\ network[j].page = p)
      BY <1>2 DEF Delivers, Behind
    <2>2. Held(client', p) => client'.seen[p] = Before
      BY <1>7, <1>10, <2>1
    <2> QED
      BY <1>8, <1>9, <2>1, <2>2
  <1>15. InOrder(known)
    <2> SUFFICES ASSUME NEW k \in DOMAIN network, NEW l \in DOMAIN network, k < l
                 PROVE  /\ known[k].kind = "page" /\ known[l].kind = "strobe" /\ known[l].value = "held" =>
                             known[k].visit <= known[l].visit
                        /\ known[k].kind = "strobe" /\ known[l].kind = "page" => known[k].page \in known[l].clears
      BY <1>8 DEF InOrder
    <2>1. /\ network[k].kind = "page" /\ network[l].kind = "strobe" /\ network[l].value = "held" =>
                network[k].visit <= network[l].visit
          /\ network[k].kind = "strobe" /\ network[l].kind = "page" => network[k].page \in network[l].clears
      BY <1>2 DEF Delivers, InOrder
    <2>2. l < i => k < i
      BY <1>10
    <2>3. ASSUME known[k].kind = "strobe", known[l].kind = "page"
          PROVE  known[k].page \in known[l].clears
      <3>1. /\ network[k].kind = "strobe" /\ network[l].kind = "page" /\ known[k].page = network[k].page
            /\ known[l].clears = IF m.kind = "strobe" /\ l < i THEN network[l].clears \ {m.page} ELSE network[l].clears
            /\ k < i => Channel("strobe", network[k].page) # Channel(m.kind, m.page)
        BY <1>9, <2>3
      <3>2. l < i /\ m.kind = "strobe" => network[k].page # m.page
        BY <2>2, <3>1
      <3> QED
        BY <2>1, <3>1, <3>2
    <2>4. ASSUME known[k].kind = "page", known[l].kind = "strobe", known[l].value = "held"
          PROVE  known[k].visit <= known[l].visit
      BY <1>9, <2>1, <2>4
    <2> QED
      BY <2>3, <2>4
  <1>16. ASSUME NEW k \in DOMAIN network
         PROVE  Spared(known[k], client')
    <2> SUFFICES ASSUME known[k].kind = "page", known[k].page \notin known[k].clears, Held(client', known[k].page)
                 PROVE  client'.seen[known[k].page] >= known[k].visit \/ client'.seen[known[k].page] = Before
      BY DEF Spared
    <2>1. /\ network[k].kind = "page" /\ known[k].page = network[k].page /\ known[k].visit = network[k].visit
          /\ known[k].clears = IF m.kind = "strobe" /\ k < i THEN network[k].clears \ {m.page} ELSE network[k].clears
          /\ network[k].visit \in Nat /\ network[k].page \in Pages
      BY <1>9 DEF Messages
    <2>2. CASE m.kind = "strobe" /\ m.page = network[k].page
      <3>1. m.value = "held" /\ client'.seen[m.page] = m.visit
        BY <1>7, <2>1, <2>2
      <3>2. k # i
        BY <2>1, <2>2
      <3>3. CASE k < i
        BY <1>2, <1>10, <2>1, <2>2, <3>1, <3>3 DEF Delivers, InOrder
      <3>4. CASE i < k
        <4>1. m.page \in network[k].clears
          BY <1>2, <1>10, <2>1, <2>2, <3>4 DEF Delivers, InOrder
        <4>2. ~(k < i)
          BY <1>10, <3>4
        <4> QED
          BY <2>1, <2>2, <4>1, <4>2
      <3> QED
        BY <1>10, <3>2, <3>3, <3>4
    <2>3. CASE ~(m.kind = "strobe" /\ m.page = network[k].page)
      <3>1. Held(client, network[k].page) /\ client'.seen[network[k].page] = client.seen[network[k].page]
        BY <1>7, <2>1, <2>3
      <3>2. network[k].page \notin network[k].clears
        BY <2>1, <2>3
      <3>3. Spared(network[k], client)
        BY <1>2 DEF Delivers
      <3> QED
        BY <2>1, <3>1, <3>2, <3>3 DEF Spared
    <2> QED
      BY <2>2, <2>3
  <1>17. Delivers(known, client', window)
    BY <1>8, <1>13, <1>14, <1>15, <1>16 DEF Delivers
  <1>18. network' \in Seq(Messages) /\ Delivers(network', client', window)
    <2>1. i \in DOMAIN known
      BY <1>8
    <2> QED
      BY <1>1, <1>2, <1>6, <1>8, <1>17, <2>1, RemovalDelivers
  <1> QED
    BY <1>1, <1>2, <1>6, <1>18 DEF FInv, FeedbackTypes

LEMMA NewClientIs ==
  /\ NewClient \in Clients
  /\ \A p \in Pages : ~Held(NewClient, p) /\ NewClient.seen[p] = 0
  /\ NewClient.page = NoPage
  BY DEF NewClient, Clients, SomePage, Reports, Held

LEMMA NothingInFlight ==
  ASSUME NEW w \in Windows, w.behind = {}
  PROVE  <<>> \in Seq(Messages) /\ Delivers(<<>>, NewClient, w)
  <1>1. w.visit \in Nat
    BY DEF Windows
  <1> QED
    BY <1>1, NewClientIs DEF Delivers, PastOnly, Behind, InOrder

LEMMA ObserveStep ==
  ASSUME FInv, NEW late \in BOOLEAN, Observe(late)
  PROVE  FInv'
  <1> DEFINE connected == client.connected \/ client.heard
  <1>1. connected \in BOOLEAN
    BY DEF FInv, FeedbackTypes, Clients
  <1>2. CASE late \/ client.closing
    <2>1. client' = NewClient /\ network' = <<>> /\ window' = [window EXCEPT !.behind = {}]
      BY <1>2 DEF Observe
    <2>2. window' \in Windows /\ window'.behind = {}
      BY <2>1 DEF FInv, FeedbackTypes, Windows
    <2> QED
      BY <2>1, <2>2, NewClientIs, NothingInFlight DEF FInv, FeedbackTypes
  <1>3. CASE ~(late \/ client.closing)
    <2>1. client' = [client EXCEPT !.connected = connected, !.heard = FALSE] /\ network' = network /\ window' = window
      BY <1>3 DEF Observe
    <2> HIDE DEF connected
    <2>2. client' \in Clients /\ client'.strobes = client.strobes /\ client'.seen = client.seen
      BY <1>1, <2>1 DEF FInv, FeedbackTypes, Clients
    <2> QED
      BY <2>1, <2>2 DEF FInv, FeedbackTypes, Delivers, PastOnly, Behind, Spared, Held
  <1> QED
    BY <1>2, <1>3

LEMMA AliveStep ==
  ASSUME FInv, Alive
  PROVE  FInv'
  <1>1. client' = [client EXCEPT !.heard = TRUE] /\ network' = network /\ window' = window
    BY DEF Alive
  <1>2. client' \in Clients /\ client'.strobes = client.strobes /\ client'.seen = client.seen
    BY <1>1 DEF FInv, FeedbackTypes, Clients
  <1> QED
    BY <1>1, <1>2 DEF FInv, FeedbackTypes, Delivers, PastOnly, Behind, Spared, Held

LEMMA LoseStep ==
  ASSUME FInv, NEW i \in DOMAIN network, Lose(i)
  PROVE  FInv'
  BY RemovalDelivers DEF Lose, FInv, FeedbackTypes

-----------------------------------------------------------------------------
LEMMA InitOK == Init => FInv
  <1> SUFFICES ASSUME Init
               PROVE  FInv
    OBVIOUS
  <1>1. window \in Windows /\ window.behind = {}
    BY FeedbackAssumption DEF Init, Loaded, Windows, SomePage, Reports
  <1> QED
    BY <1>1, NewClientIs, NothingInFlight DEF Init, FInv, FeedbackTypes

LEMMA NextOK == FInv /\ [Next]_vars => FInv'
  <1> SUFFICES ASSUME FInv, [Next]_vars
               PROVE  FInv'
    OBVIOUS
  <1>1. CASE UNCHANGED vars
    BY <1>1 DEF vars, FInv, FeedbackTypes
  <1>2. ASSUME NEW page \in Pages, NEW capture \in Captures, Change(page, capture)
        PROVE  FInv'
    BY <1>2, ChangeStep
  <1>3. ASSUME NEW channel \in Channels, CatchUp(channel)
        PROVE  FInv'
    BY <1>3, CatchUpStep
  <1>4. ASSUME NEW i \in DOMAIN network, Lose(i)
        PROVE  FInv'
    BY <1>4, LoseStep
  <1>5. ASSUME NEW i \in DOMAIN network, NEW again \in BOOLEAN, Receive(i, again)
        PROVE  FInv'
    BY <1>5, ReceiveStep
  <1>6. ASSUME NEW late \in BOOLEAN, Observe(late)
        PROVE  FInv'
    BY <1>6, ObserveStep
  <1> QED
    BY <1>1, <1>2, <1>3, <1>4, <1>5, <1>6, FrameStep, AliveStep, NotifyClosingStep, CrashStep, ReloadStep DEF Next

LEMMA Invariance == Spec => []FInv
  BY InitOK, NextOK, PTL DEF Spec

\* A page that becomes active for the client brings up only a capture of this visit, or one of an
\* earlier session.
LEMMA PageChangeStep ==
  ASSUME FInv, [Next]_vars, client'.page # client.page, IsDynamicReticleCaptured'
  PROVE  \/ client'.seen[client'.page] >= client'.shown
         \/ client'.seen[client'.page] = Before
  <1>1. client \in Clients /\ network \in Seq(Messages)
    BY DEF FInv, FeedbackTypes
  <1>2. client'.page # NoPage /\ client'.strobes[client'.page] = "held"
    BY DEF IsDynamicReticleCaptured
  <1>3. ASSUME NEW i \in DOMAIN network, NEW again \in BOOLEAN, Receive(i, again)
        PROVE  \/ client'.seen[client'.page] >= client'.shown
               \/ client'.seen[client'.page] = Before
    <2> DEFINE m == network[i]
               d == Applied(client, m)
    <2>1. client' = [d EXCEPT !.heard = TRUE] /\ m \in Messages
      BY <1>1, <1>3 DEF Receive
    <2>2. /\ d \in Clients
          /\ m.kind # "strobe" =>
                \A p \in Pages : /\ Held(d, p) => Held(client, p) /\ d.seen[p] = client.seen[p]
                                 /\ d.seen[p] \in {0, client.seen[p]}
          /\ d.page # client.page =>
                /\ m.kind = "page" /\ d.page = m.page /\ d.shown = m.visit
                /\ m.page \in m.clears => ~Held(d, m.page)
      BY <1>1, <2>1, AppliedParts
    <2> HIDE DEF d
    <2>3. /\ client'.page = d.page /\ client'.strobes = d.strobes /\ client'.seen = d.seen
          /\ client'.shown = d.shown
      BY <2>1, <2>2 DEF Clients
    <2>4. m.kind = "page" /\ client'.page = m.page /\ client'.shown = m.visit /\ m.page \in Pages
      BY <2>1, <2>2, <2>3 DEF Messages
    <2>5. Held(d, m.page)
      BY <1>2, <2>3, <2>4 DEF Held
    <2>6. m.page \notin m.clears /\ Held(client, m.page) /\ client'.seen[m.page] = client.seen[m.page]
      BY <2>2, <2>3, <2>4, <2>5
    <2>7. Spared(m, client)
      BY DEF FInv, Delivers
    <2> QED
      BY <2>4, <2>6, <2>7 DEF Spared
  <1>4. ASSUME NEW late \in BOOLEAN, Observe(late)
        PROVE  FALSE
    <2>1. client' = NewClient \/ client' = [client EXCEPT !.connected = client.connected \/ client.heard, !.heard = FALSE]
      BY <1>4 DEF Observe
    <2>2. client' # NewClient
      BY <1>2, NewClientIs
    <2> QED
      BY <1>1, <2>1, <2>2 DEF Clients
  <1>5. ~Alive /\ ~Reload
    BY <1>1 DEF Alive, Reload, Clients
  <1>6. client' # client
    OBVIOUS
  <1> QED
    BY <1>3, <1>4, <1>5, <1>6
    DEF Next, vars, Frame, NotifyClosing, Crash, Change, CatchUp, Lose

\* When the client learns that another page is active, a capture it still reports of that page was
\* sent after that activation, or is of an earlier session: RuntimeFeedbackState::Apply.
THEOREM CaptureOfThisVisitAlways == Spec => CaptureOfThisVisit
  <1>1. FInv /\ [Next]_vars =>
           [client'.page # client.page =>
               (IsDynamicReticleCaptured' => \/ client'.seen[client'.page] >= client'.shown
                                             \/ client'.seen[client'.page] = Before)]_client
    BY PageChangeStep
  <1> QED
    BY <1>1, Invariance, PTL DEF Spec, CaptureOfThisVisit
=============================================================================
