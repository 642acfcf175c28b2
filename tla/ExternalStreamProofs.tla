------------------------ MODULE ExternalStreamProofs ------------------------
(***************************************************************************)
(* No texture of a stream is drawn and read at once, every slot has        *)
(* someone who will let go of it, a Stop is final, and frames go back only *)
(* where the code leaves it open: for any number of producers, of frames,  *)
(* of sessions and of commands, with crashes and lost mutexes. No counter  *)
(* runs ahead of the requests and the Stops it counts.                     *)
(***************************************************************************)
EXTENDS ExternalStream, FiniteSetTheorems, TLAPS

-----------------------------------------------------------------------------
(* Types.                                                                   *)

SlotStates == {"Free", "Writing", "Pending", "Ready", "Reading"}
SomeSlot == Slots \cup {NoSlot}

SlotTypes == [state : SlotStates, frame : Nat, epoch : Nat, stops : Nat]

Headers ==
    [session : Nat, host : BOOLEAN, generation : Nat, epoch : Nat \ {0}, pid : Producers \cup {NoOne, Gone},
     wanted : BOOLEAN, serial : Nat, result : {"Ok", "Unavailable", "Error"},
     slots : [Slots -> SlotTypes]]

ProducerTypes ==
    [open : BOOLEAN, registered : BOOLEAN, session : Nat, generation : Nat, writing : SomeSlot,
     pending : SUBSET Slots, order : SUBSET (Slots \X Slots), discard : SUBSET Slots, lastFrame : Nat, acquiring : BOOLEAN]

Displays == [generation : Nat, slot : SomeSlot, frame : Nat, stops : Nat]

Hosts ==
    [life : {"absent", "up", "failed"}, mapped : BOOLEAN, display : Displays, hasImage : BOOLEAN,
     fence : {"none", "pending", "done"}, drawing : SUBSET (Nat \X SomeSlot), copying : SomeSlot,
     current : Nat, cpu : BOOLEAN, rejected : BOOLEAN, applied : Nat, deferred : BOOLEAN,
     revision : Nat, playback : Modes, clear : BOOLEAN, invalidate : BOOLEAN, newest : Nat,
     late : SUBSET Nat, seen : Nat]

StreamTypes ==
    /\ control \in Headers
    /\ mutex \in {"free", "abandoned"}
    /\ lease \in Producers \cup {NoOne}
    /\ producer \in [Producers -> ProducerTypes]
    /\ host \in Hosts
    /\ wish \in [mode : Modes, revision : Nat]
    /\ orphans \in SUBSET (Nat \X Slots)

-----------------------------------------------------------------------------
(* The receiver and the header.                                             *)

\* Slots of generation g whose texture is shown or copied.
Shown(h, g) ==
    {s \in Slots : (h.display.slot = s /\ h.display.generation = g) \/ (h.copying = s /\ h.current = g)}

\* What holds of a receiver that has the textures, also when it has failed.
Reads(c, h) ==
    /\ h.current = c.generation
    /\ \A s \in Slots : c.slots[s].state = "Reading" <=> s \in Shown(h, c.generation)
    /\ h.drawing \subseteq {<<h.display.generation, h.display.slot>>}
    /\ h.fence # "pending" => h.drawing = {}

\* A slot of this epoch has been acquired since the last Stop that the receiver has applied. A frame
\* on offer is newer than what was taken, or was late then.
Offers(c, h) ==
    \A s \in Slots :
        LET slot == c.slots[s] IN
        /\ slot.epoch <= c.epoch
        /\ slot.epoch = c.epoch => slot.stops >= h.revision
        /\ slot.state = "Ready" /\ slot.epoch = c.epoch => slot.frame > h.newest \/ slot.frame \in h.late

\* The image shown was acquired after the last Stop that the receiver has seen.
Shows(h) == h.hasImage => h.display.stops >= h.seen

\* A copy is not made of a texture that is shown.
Apart(h) ==
    /\ h.display.generation <= h.current
    /\ h.copying # NoSlot => h.cpu
    /\ h.cpu /\ h.display.generation = h.current => h.display.slot = NoSlot

\* What the receiver has seen of the commands, and what it has applied of what it has seen.
Commands(h, w) ==
    /\ h.revision <= h.seen /\ h.seen <= w.revision
    /\ h.seen # h.revision => h.invalidate

Receiving(c, h, w) == Offers(c, h) /\ Shows(h) /\ Apart(h) /\ Commands(h, w)

HostInv ==
    /\ host.life = "up" => host.mapped
    /\ host.mapped => Reads(control, host)
    /\ host.life = "up" => Receiving(control, host, wish)

-----------------------------------------------------------------------------
(* The producers.                                                           *)

Idles(q) ==
    /\ q.session = 0 /\ q.generation = 0 /\ q.writing = NoSlot
    /\ q.pending = {} /\ q.order = {} /\ q.discard = {} /\ ~q.acquiring

\* The slots that a producer knows of.
Orderly(q) ==
    /\ q.generation = 0 => q.writing = NoSlot /\ q.pending = {} /\ ~q.acquiring
    /\ q.discard \subseteq q.pending /\ q.order \subseteq q.pending \X q.pending
    /\ q.writing \notin q.pending
    /\ q.acquiring => q.writing = NoSlot

AtWork(q, c) == q.session = c.session /\ q.generation = c.generation /\ c.generation # 0

\* A producer at work and the slots of its generation.
Works(q, c) ==
    \A s \in Slots :
        LET slot == c.slots[s] IN
        /\ slot.state = "Writing" <=> s = q.writing \/ s \in q.discard
        /\ slot.state = "Pending" <=> s \in q.pending \ q.discard
        /\ slot.frame <= q.lastFrame

\* A generation that its producer has not opened yet.
Awaited(p, q, c) ==
    /\ c.pid = p /\ c.result = "Ok" /\ c.generation # 0
    /\ q.session \in {0, c.session} /\ q.generation # c.generation

Untouched(c) == \A s \in Slots : c.slots[s] = FreeSlot

\* A producer is of the session of the header, or of one whose receiver has gone: then nobody is
\* served in this session as long as it has the lease.
Placed(p, q, c) ==
    /\ q.session <= c.session
    /\ q.generation # 0 =>
          \/ q.session = c.session /\ c.pid = p /\ q.generation <= c.generation
          \/ q.session # c.session /\ c.pid = NoOne /\ c.generation = 0

ProducerInv ==
    \A p \in Producers :
        LET q == producer[p] IN
        IF ~q.registered THEN Idles(q)
        ELSE /\ q.open /\ lease = p
             /\ Orderly(q) /\ Placed(p, q, control)
             /\ AtWork(q, control) => Works(q, control)
             /\ Awaited(p, q, control) => Untouched(control)

\* Frames taken of a generation are of its producer.
TakenInv ==
    host.life = "up" =>
        \A p \in Producers :
            LET q == producer[p] IN
            /\ AtWork(q, control) =>
                  /\ host.newest <= q.lastFrame
                  /\ \A s \in Slots : control.slots[s].state = "Pending" =>
                        control.slots[s].frame > host.newest \/ control.slots[s].frame \in host.late
            /\ q.registered /\ Awaited(p, q, control) => host.newest = 0

\* Those who left this generation keep their slots, and no producer comes after them in it.
OrphanInv ==
    host.mapped =>
        /\ \A o \in orphans : /\ o[1] <= control.generation
                              /\ o[1] = control.generation => control.slots[o[2]].state \in {"Writing", "Pending"}
        /\ \A p \in Producers :
              LET q == producer[p] IN
              q.registered /\ (AtWork(q, control) \/ Awaited(p, q, control)) =>
                  \A o \in orphans : o[1] # control.generation

IInv ==
    /\ StreamTypes /\ HostInv /\ ProducerInv /\ TakenInv /\ OrphanInv /\ PixelOwnership

-----------------------------------------------------------------------------
(* The scans over the slots.                                                *)

LEMMA Extremes ==
  ASSUME NEW S, IsFiniteSet(S), S # {}, NEW f \in [S -> Int]
  PROVE  /\ \E s \in S : \A t \in S : f[s] >= f[t]
         /\ \E s \in S : \A t \in S : f[s] <= f[t]
  <1>1. ASSUME NEW g \in [S -> Int]
        PROVE  \E s \in S : \A t \in S : g[s] >= g[t]
    <2> DEFINE above(s) == {t \in S : g[t] > g[s]}
               T == {above(s) : s \in S}
               R == StrictSubsetOrdering(S)
    <2>1. IsWellFoundedOn(R, FiniteSubsetsOf(S))
      BY FS_StrictSubsetOrderingWellFounded
    <2>2. T \subseteq FiniteSubsetsOf(S) /\ T # {}
      <3>1. T \subseteq SUBSET S
        OBVIOUS
      <3>2. T # {}
        <4>1. PICK s \in S : TRUE
          OBVIOUS
        <4>2. above(s) \in T
          OBVIOUS
        <4> QED
          BY <4>2
      <3>3. FiniteSubsetsOf(S) = SUBSET S
        BY FS_FiniteSubsetsOfFinite
      <3> HIDE DEF T
      <3> QED
        BY <3>1, <3>2, <3>3
    <2>3. PICK U \in T : \A V \in T : <<V, U>> \notin R
      <3> HIDE DEF T, R
      <3> QED
        BY <2>1, <2>2, WFMin
    <2>4. PICK s \in S : U = above(s)
      OBVIOUS
    <2>5. ASSUME NEW t \in S, ~(g[s] >= g[t])
          PROVE  FALSE
      <3>1. t \in above(s) /\ t \notin above(t) /\ above(t) \subseteq above(s)
        BY <2>5
      <3>2. above(t) \in SUBSET S /\ above(s) \in SUBSET S /\ above(t) \in T
        OBVIOUS
      <3>3. <<above(t), above(s)>> \in R
        BY <3>1, <3>2 DEF StrictSubsetOrdering
      <3> QED
        BY <2>3, <2>4, <3>2, <3>3
    <2> QED
      BY <2>5
  <1>2. \E s \in S : \A t \in S : f[s] <= f[t]
    <2> DEFINE g == [s \in S |-> 0 - f[s]]
    <2>1. g \in [S -> Int] /\ \A s \in S : g[s] = 0 - f[s]
      OBVIOUS
    <2> HIDE DEF g
    <2>2. PICK s \in S : \A t \in S : g[s] >= g[t]
      BY <1>1, <2>1
    <2>3. \A t \in S : f[s] <= f[t]
      BY <2>1, <2>2
    <2> QED
      BY <2>3
  <1> QED
    BY <1>1, <1>2

LEMMA SlotsAreFinite == Slots \subseteq Nat \ {0} /\ NoSlot \notin Slots /\ \A S \in SUBSET Slots : IsFiniteSet(S)
  <1>1. IsFiniteSet(Slots)
    BY StreamAssumption, FS_Interval DEF Slots
  <1>2. \A S \in SUBSET Slots : IsFiniteSet(S)
    BY <1>1, FS_Subset
  <1>3. Slots \subseteq Nat \ {0}
    BY StreamAssumption DEF Slots
  <1> QED
    BY <1>2, <1>3 DEF NoSlot

LEMMA LeastSlot ==
  ASSUME NEW S \in SUBSET Slots, S # {}
  PROVE  Min(S) \in S
  <1> DEFINE f == [s \in S |-> s]
  <1>1. f \in [S -> Int] /\ IsFiniteSet(S)
    BY SlotsAreFinite
  <1>2. \E s \in S : \A t \in S : f[s] <= f[t]
    <2> HIDE DEF f
    <2> QED
      BY <1>1, Extremes
  <1> QED
    BY <1>2 DEF Min

LEMMA WritableSlot ==
  ASSUME NEW c \in Headers, FindWritable(c) # NoSlot
  PROVE  FindWritable(c) \in Slots /\ c.slots[FindWritable(c)].state \in {"Free", "Ready"}
  <1> DEFINE free == {s \in Slots : c.slots[s].state = "Free"}
             ready == {s \in Slots : c.slots[s].state = "Ready"}
  <1>1. CASE free # {}
    <2>1. FindWritable(c) = Min(free)
      BY <1>1 DEF FindWritable
    <2> QED
      BY <1>1, <2>1, LeastSlot
  <1>2. CASE free = {} /\ ready # {}
    <2> DEFINE f == [s \in ready |-> c.slots[s].frame]
    <2>1. f \in [ready -> Int] /\ IsFiniteSet(ready)
      <3>1. ready \in SUBSET Slots /\ \A s \in Slots : c.slots[s].frame \in Int
        BY DEF Headers, SlotTypes
      <3> HIDE DEF ready
      <3> QED
        BY <3>1, SlotsAreFinite
    <2>2. \E s \in ready : \A t \in ready : f[s] <= f[t]
      <3> HIDE DEF f
      <3> QED
        BY <1>2, <2>1, Extremes
    <2>3. FindWritable(c) \in ready
      BY <1>2, <2>2 DEF FindWritable
    <2> QED
      BY <2>3
  <1>3. CASE free = {} /\ ready = {}
    BY <1>3 DEF FindWritable
  <1> QED
    BY <1>1, <1>2, <1>3

LEMMA LatestSlot ==
  ASSUME NEW c \in Headers, FindLatest(c) # NoSlot
  PROVE  LET s == FindLatest(c) IN
         /\ s \in Slots /\ c.slots[s].state = "Ready" /\ c.slots[s].epoch = c.epoch
  <1> DEFINE latest == {s \in Slots : /\ c.slots[s].state = "Ready"
                                      /\ c.slots[s].epoch = c.epoch
                                      /\ c.slots[s].frame > 0}
             f == [s \in latest |-> c.slots[s].frame]
  <1>1. f \in [latest -> Int] /\ IsFiniteSet(latest)
    <2>1. latest \in SUBSET Slots /\ \A s \in Slots : c.slots[s].frame \in Int
      BY DEF Headers, SlotTypes
    <2> HIDE DEF latest
    <2> QED
      BY <2>1, SlotsAreFinite
  <1>2. latest # {} => \E s \in latest : \A t \in latest : f[s] >= f[t]
    <2> HIDE DEF f
    <2> QED
      BY <1>1, Extremes
  <1>3. FindLatest(c) \in latest
    BY <1>2 DEF FindLatest
  <1> QED
    BY <1>3

-----------------------------------------------------------------------------
(* What a frame of the receiver does: operators on a header and a receiver. *)

States == [c : Headers, h : Hosts]

\* Textures that are read, or may be.
Textures(h) == {<<h.display.generation, h.display.slot>>, <<h.current, h.copying>>} \cup h.drawing

Fewer(h, k) == \A r \in Textures(k) : r[2] = NoSlot \/ r \in Textures(h)

SlotMove(x, y) ==
    \/ y = x
    \/ x.state \notin {"Writing", "Pending"} /\ y = FreeSlot
    \/ x.state = "Ready" /\ y = [x EXCEPT !.state = "Reading"]

SameHeader(c, d) ==
    d.session = c.session /\ d.host = c.host /\ d.pid = c.pid /\ d.wanted = c.wanted /\ d.serial = c.serial

\* Frames taken: none, or that of a slot that was ready, and then the others are late.
Takes(c, h, k) ==
    \/ k.newest = h.newest /\ k.late = h.late
    \/ /\ \E s \in Slots : c.slots[s].state = "Ready" /\ k.newest \in {h.newest, c.slots[s].frame}
       /\ \A s \in Slots : c.slots[s].state = "Pending" => c.slots[s].frame \in k.late

\* In one generation.
Kept(c, d) ==
    /\ SameHeader(c, d) /\ d.generation = c.generation
    /\ d.result = "Ok" => c.result = "Ok"
    /\ \A s \in Slots : SlotMove(c.slots[s], d.slots[s])

Same(st, next) ==
    /\ Kept(st.c, next.c) /\ Takes(st.c, st.h, next.h)
    /\ next.h.life = st.h.life /\ next.h.mapped = st.h.mapped /\ next.h.applied = st.h.applied

\* What holds of a state within a frame, once playback has been applied.
Sound(st) == st \in States /\ Reads(st.c, st.h) /\ Offers(st.c, st.h) /\ Shows(st.h) /\ Apart(st.h)
Current(h) == h.seen = wish.revision /\ h.revision = wish.revision /\ ~h.invalidate
Settled(h, k) == k.seen = h.seen /\ k.revision = h.revision /\ k.invalidate = h.invalidate

\* What a slot keeps that the receiver may have read, freed or not touched.
LEMMA SlotMoves ==
  ASSUME NEW x \in SlotTypes, NEW y \in SlotTypes, SlotMove(x, y)
  PROVE  /\ y.state = "Ready" => y = x
         /\ x.state \in {"Writing", "Pending"} \/ y.state \in {"Writing", "Pending"} => y = x
         /\ x = FreeSlot => y = FreeSlot
         /\ y.frame \in {0, x.frame}
  <1>1. CASE y = x
    BY <1>1
  <1>2. CASE x.state \notin {"Writing", "Pending"} /\ y = FreeSlot
    BY <1>2 DEF FreeSlot
  <1>3. CASE x.state = "Ready" /\ y = [x EXCEPT !.state = "Reading"]
    <2>1. y.state = "Reading" /\ y.frame = x.frame
      BY <1>3 DEF SlotTypes
    <2> QED
      BY <1>3, <2>1 DEF FreeSlot
  <1> QED
    BY <1>1, <1>2, <1>3 DEF SlotMove

LEMMA SlotMoveTransitive ==
  ASSUME NEW x \in SlotTypes, NEW y \in SlotTypes, NEW z \in SlotTypes, SlotMove(x, y), SlotMove(y, z)
  PROVE  SlotMove(x, z)
  BY DEF SlotMove, SlotTypes, FreeSlot

LEMMA SameTransitive ==
  ASSUME NEW st \in States, NEW next \in States, NEW last \in States, Same(st, next), Same(next, last)
  PROVE  Same(st, last)
  <1>1. \A s \in Slots : /\ st.c.slots[s] \in SlotTypes /\ next.c.slots[s] \in SlotTypes
                         /\ last.c.slots[s] \in SlotTypes
    BY DEF States, Headers
  <1>2. \A s \in Slots : SlotMove(st.c.slots[s], next.c.slots[s]) /\ SlotMove(next.c.slots[s], last.c.slots[s])
    BY DEF Same, Kept
  <1>3. \A s \in Slots : SlotMove(st.c.slots[s], last.c.slots[s])
    BY <1>1, <1>2, SlotMoveTransitive
  <1>4. \A s \in Slots : next.c.slots[s].state = "Ready" => next.c.slots[s] = st.c.slots[s]
    BY <1>1, <1>2, SlotMoves
  <1>5. \A s \in Slots : st.c.slots[s].state = "Pending" => next.c.slots[s] = st.c.slots[s]
    BY <1>1, <1>2, SlotMoves
  <1>6. Takes(st.c, st.h, last.h)
    <2>1. Takes(st.c, st.h, next.h) /\ Takes(next.c, next.h, last.h)
      BY DEF Same, Kept
    <2>2. CASE last.h.newest = next.h.newest /\ last.h.late = next.h.late
      BY <2>1, <2>2 DEF Takes
    <2>3. CASE ~(last.h.newest = next.h.newest /\ last.h.late = next.h.late)
      <3>1. PICK s \in Slots : next.c.slots[s].state = "Ready" /\ last.h.newest \in {next.h.newest, next.c.slots[s].frame}
        BY <2>1, <2>3 DEF Takes
      <3>2. \A t \in Slots : st.c.slots[t].state = "Pending" => st.c.slots[t].frame \in last.h.late
        BY <1>5, <2>1, <2>3 DEF Takes
      <3>3. st.c.slots[s].state = "Ready" /\ st.c.slots[s].frame = next.c.slots[s].frame
        BY <1>4, <3>1
      <3>4. \E t \in Slots : st.c.slots[t].state = "Ready" /\ last.h.newest \in {st.h.newest, st.c.slots[t].frame}
        BY <2>1, <3>1, <3>3 DEF Takes
      <3> QED
        BY <3>2, <3>4 DEF Takes
    <2> QED
      BY <2>2, <2>3
  <1> QED
    BY <1>3, <1>6 DEF Same, Kept, SameHeader

LEMMA FewerTransitive ==
  ASSUME NEW h, NEW k, NEW l, Fewer(h, k), Fewer(k, l)
  PROVE  Fewer(h, l)
  BY DEF Fewer

LEMMA InvalidateReadyParts ==
  ASSUME NEW c \in Headers
  PROVE  LET d == InvalidateReady(c) IN
         /\ d \in Headers /\ SameHeader(c, d)
         /\ d.generation = c.generation /\ d.epoch = c.epoch /\ d.result = c.result
         /\ \A s \in Slots : d.slots[s] = IF c.slots[s].state = "Ready" THEN FreeSlot ELSE c.slots[s]
  <1> DEFINE slots == [s \in Slots |-> IF c.slots[s].state = "Ready" THEN FreeSlot ELSE c.slots[s]]
  <1>1. slots \in [Slots -> SlotTypes]
    BY DEF Headers, SlotTypes, FreeSlot, SlotStates
  <1>2. InvalidateReady(c) = [c EXCEPT !.slots = slots]
    BY DEF InvalidateReady
  <1>3. \A s \in Slots : slots[s] = IF c.slots[s].state = "Ready" THEN FreeSlot ELSE c.slots[s]
    OBVIOUS
  <1> HIDE DEF slots
  <1> QED
    BY <1>1, <1>2, <1>3 DEF Headers, SameHeader

LEMMA FreedParts ==
  ASSUME NEW c \in Headers, NEW slot \in Slots
  PROVE  LET d == Freed(c, slot) IN
         /\ d \in Headers /\ SameHeader(c, d)
         /\ d.generation = c.generation /\ d.epoch = c.epoch /\ d.result = c.result
         /\ d.slots[slot] = FreeSlot /\ \A s \in Slots \ {slot} : d.slots[s] = c.slots[s]
  <1>1. FreeSlot \in SlotTypes
    BY DEF SlotTypes, FreeSlot, SlotStates
  <1> DEFINE slots == [c.slots EXCEPT ![slot] = FreeSlot]
  <1>2. /\ slots \in [Slots -> SlotTypes] /\ slots[slot] = FreeSlot
        /\ \A s \in Slots \ {slot} : slots[s] = c.slots[s]
    BY <1>1 DEF Headers
  <1>3. Freed(c, slot) = [c EXCEPT !.slots = slots]
    BY DEF Freed
  <1> HIDE DEF slots
  <1> QED
    BY <1>2, <1>3 DEF Headers, SameHeader

LEMMA FewerTextures ==
  ASSUME NEW h \in Hosts, NEW k \in Hosts,
         k.drawing \subseteq h.drawing,
         k.display.slot = NoSlot \/ <<k.display.generation, k.display.slot>> = <<h.display.generation, h.display.slot>>,
         k.copying = NoSlot \/ <<k.current, k.copying>> = <<h.current, h.copying>>
  PROVE  Fewer(h, k)
  BY DEF Fewer, Textures

\* The part of a receiver that is not about a texture.
Elsewhere(h, k) ==
    /\ k.life = h.life /\ k.mapped = h.mapped /\ k.applied = h.applied
    /\ k.newest = h.newest /\ k.late = h.late

LEMMA ReleaseDisplayParts ==
  ASSUME NEW st, Sound(st), ReadCompleted(st.h)
  PROVE  LET next == ReleaseDisplay(st) IN
         /\ Sound(next) /\ Same(st, next) /\ Settled(st.h, next.h) /\ Fewer(st.h, next.h)
         /\ next.h.display = NoDisplay /\ ReadCompleted(next.h)
         /\ next.h.copying = st.h.copying /\ next.h.current = st.h.current /\ next.h.cpu = st.h.cpu
         /\ next.c.epoch = st.c.epoch
         /\ \A s \in Slots : st.c.slots[s].state = "Ready" \/ s = st.h.copying => next.c.slots[s] = st.c.slots[s]
  <1> DEFINE h == st.h
             k == [h EXCEPT !.display = NoDisplay, !.hasImage = FALSE, !.fence = "none"]
  <1>1. st \in States /\ st.c \in Headers /\ h \in Hosts /\ Reads(st.c, h) /\ Offers(st.c, h) /\ Apart(h)
    BY DEF Sound, States
  <1>2. CASE h.display = NoDisplay
    <2>1. ReleaseDisplay(st) = st
      BY <1>2 DEF ReleaseDisplay
    <2>2. Same(st, st) /\ Settled(h, h) /\ Fewer(h, h)
      BY DEF Same, Kept, SameHeader, SlotMove, Takes, Settled, Fewer
    <2> QED
      BY <1>2, <2>1, <2>2
  <1>3. CASE h.display # NoDisplay
    <2>1. /\ k \in Hosts
          /\ k.display = NoDisplay /\ k.hasImage = FALSE /\ k.fence = "none"
          /\ k.drawing = h.drawing /\ k.copying = h.copying /\ k.current = h.current /\ k.cpu = h.cpu
          /\ k.seen = h.seen /\ k.revision = h.revision /\ k.invalidate = h.invalidate
          /\ Elsewhere(h, k)
      <3>1. NoDisplay \in Displays
        BY DEF Displays, NoDisplay, SomeSlot
      <3> HIDE DEF h
      <3> QED
        BY <1>1, <3>1 DEF Hosts, Elsewhere
    <2> HIDE DEF k
    <2>2. k.drawing = {}
      BY <1>1, <2>1 DEF Reads, ReadCompleted
    <2>3. Fewer(h, k)
      BY <1>1, <2>1, FewerTextures DEF NoDisplay
    <2>4. Shows(k) /\ Apart(k)
      BY <1>1, <2>1 DEF Shows, Apart, NoDisplay, Hosts, Displays
    <2>5. CASE h.display.generation = h.current /\ h.display.slot # NoSlot
      <3> DEFINE slot == h.display.slot
                 c == Freed(st.c, slot)
      <3>1. ReleaseDisplay(st) = [c |-> c, h |-> k]
        BY <1>3, <2>5 DEF ReleaseDisplay, k
      <3>2. slot \in Slots
        BY <1>1, <2>5 DEF Hosts, Displays, SomeSlot
      <3>3. /\ c \in Headers /\ SameHeader(st.c, c)
            /\ c.generation = st.c.generation /\ c.epoch = st.c.epoch /\ c.result = st.c.result
            /\ c.slots[slot] = FreeSlot /\ \A s \in Slots \ {slot} : c.slots[s] = st.c.slots[s]
        BY <1>1, <3>2, FreedParts
      <3> HIDE DEF c
      <3>4. slot # h.copying /\ st.c.slots[slot].state = "Reading"
        BY <1>1, <2>5, <3>2 DEF Reads, Shown, Apart
      <3>5. Reads(c, k)
        <4>1. \A s \in Slots \ {slot} : s \in Shown(k, c.generation) <=> s \in Shown(h, c.generation)
          BY <1>1, <2>1, <3>2, SlotsAreFinite DEF Shown, NoDisplay
        <4>2. slot \notin Shown(k, c.generation) /\ FreeSlot.state # "Reading"
          BY <1>1, <2>1, <3>2, <3>4, SlotsAreFinite DEF Shown, NoDisplay, FreeSlot
        <4>3. \A s \in Slots : c.slots[s].state = "Reading" <=> s \in Shown(k, c.generation)
          BY <1>1, <3>3, <4>1, <4>2 DEF Reads
        <4> QED
          BY <1>1, <2>1, <2>2, <3>3, <4>3 DEF Reads
      <3>6. Offers(c, k)
        BY <1>1, <2>1, <3>3 DEF Offers, FreeSlot, Headers, Elsewhere
      <3>7. Same(st, [c |-> c, h |-> k])
        BY <1>1, <2>1, <3>3, <3>4 DEF Same, Kept, SlotMove, Takes, Elsewhere
      <3>8. \A s \in Slots : st.c.slots[s].state = "Ready" \/ s = h.copying => c.slots[s] = st.c.slots[s]
        BY <3>3, <3>4
      <3> QED
        BY <2>1, <2>3, <2>4, <3>1, <3>3, <3>5, <3>6, <3>7, <3>8 DEF Sound, States, Settled, ReadCompleted
    <2>6. CASE ~(h.display.generation = h.current /\ h.display.slot # NoSlot)
      <3>1. ReleaseDisplay(st) = [c |-> st.c, h |-> k]
        BY <1>3, <2>6 DEF ReleaseDisplay, k
      <3>2. Shown(k, st.c.generation) = Shown(h, st.c.generation)
        BY <1>1, <2>1, <2>6, SlotsAreFinite DEF Shown, Reads, NoDisplay
      <3>3. Reads(st.c, k)
        BY <1>1, <2>1, <2>2, <3>2 DEF Reads
      <3>4. Offers(st.c, k)
        BY <1>1, <2>1 DEF Offers, Elsewhere
      <3>5. Same(st, [c |-> st.c, h |-> k])
        BY <1>1, <2>1 DEF Same, Kept, SameHeader, SlotMove, Takes, Elsewhere
      <3> QED
        BY <1>1, <2>1, <2>3, <2>4, <3>1, <3>3, <3>4, <3>5 DEF Sound, States, Settled, ReadCompleted
    <2> QED
      BY <2>5, <2>6
  <1> QED
    BY <1>2, <1>3

\* Receivers that differ in what no texture and no Stop depends on.
Alike(h, k) ==
    /\ k.display = h.display /\ k.hasImage = h.hasImage /\ k.fence = h.fence /\ k.drawing = h.drawing
    /\ k.copying = h.copying /\ k.current = h.current /\ k.cpu = h.cpu
    /\ k.seen = h.seen /\ k.revision = h.revision /\ k.invalidate = h.invalidate
    /\ Elsewhere(h, k)

LEMMA ReceiverSet ==
  ASSUME NEW st \in States, NEW k
  PROVE  [st EXCEPT !.h = k] = [c |-> st.c, h |-> k]
  BY DEF States

LEMMA HeaderSet ==
  ASSUME NEW st \in States, NEW d
  PROVE  [st EXCEPT !.c = d] = [c |-> d, h |-> st.h]
  BY DEF States

LEMMA AlikeParts ==
  ASSUME NEW st, Sound(st), NEW k \in Hosts, Alike(st.h, k)
  PROVE  LET next == [c |-> st.c, h |-> k] IN
         /\ Sound(next) /\ Same(st, next) /\ Settled(st.h, k) /\ Fewer(st.h, k)
         /\ ReadCompleted(st.h) => ReadCompleted(k)
  <1>1. st.c \in Headers /\ st.h \in Hosts
    BY DEF Sound, States
  <1>2. Sound([c |-> st.c, h |-> k])
    <2>1. Reads(st.c, k)
      BY DEF Sound, Alike, Reads, Shown
    <2>2. Offers(st.c, k)
      BY DEF Sound, Alike, Elsewhere, Offers
    <2>3. Shows(k) /\ Apart(k)
      BY DEF Sound, Alike, Shows, Apart
    <2> QED
      BY <1>1, <2>1, <2>2, <2>3 DEF Sound, States
  <1>3. Fewer(st.h, k)
    BY <1>1, FewerTextures DEF Alike
  <1>4. Same(st, [c |-> st.c, h |-> k])
    BY DEF Same, Kept, SameHeader, SlotMove, Takes, Alike, Elsewhere
  <1> QED
    BY <1>2, <1>3, <1>4 DEF Settled, Alike, ReadCompleted

LEMMA ObservePlaybackParts ==
  ASSUME NEW c \in Headers, NEW h \in Hosts, wish \in [mode : Modes, revision : Nat],
         Receiving(c, h, wish), Reads(c, h)
  PROVE  LET k == ObservePlayback(h) IN
         /\ k \in Hosts /\ Receiving(c, k, wish) /\ Reads(c, k)
         /\ k.seen = wish.revision
         /\ Elsewhere(h, k) /\ Textures(k) = Textures(h)
         /\ k.copying = h.copying /\ k.display = h.display /\ k.drawing = h.drawing
         /\ k.current = h.current /\ k.fence = h.fence
  <1> DEFINE stopping == wish.revision # h.revision \/ wish.mode = "Stop"
             crossing == \/ wish.mode = "Stop" /\ h.playback # "Stop"
                         \/ wish.mode = "Play" /\ h.playback = "Stop"
             invalidate == h.invalidate \/ wish.revision # h.revision \/ crossing
             clear == h.clear \/ stopping
             hasImage == h.hasImage /\ ~stopping
             k == [h EXCEPT !.invalidate = invalidate, !.clear = clear, !.hasImage = hasImage,
                            !.playback = wish.mode, !.seen = wish.revision]
  <1>1. ObservePlayback(h) = k
    BY DEF ObservePlayback
  <1>2. invalidate \in BOOLEAN /\ clear \in BOOLEAN /\ hasImage \in BOOLEAN
    OBVIOUS
  <1>3. wish.revision # h.revision => invalidate
    OBVIOUS
  <1>4. hasImage => h.hasImage /\ wish.revision = h.revision
    OBVIOUS
  <1> HIDE DEF invalidate, clear, hasImage
  <1>5. /\ k \in Hosts
        /\ k.seen = wish.revision /\ k.invalidate = invalidate /\ k.hasImage = hasImage /\ k.revision = h.revision
        /\ k.cpu = h.cpu /\ k.copying = h.copying /\ k.display = h.display /\ k.drawing = h.drawing
        /\ k.current = h.current /\ k.fence = h.fence
        /\ Elsewhere(h, k)
    BY <1>2 DEF Hosts, Elsewhere
  <1> HIDE DEF k
  <1>6. Reads(c, k) /\ Textures(k) = Textures(h)
    BY <1>5 DEF Reads, Shown, Textures
  <1>7. Offers(c, k)
    BY <1>5 DEF Receiving, Offers, Elsewhere
  <1>8. Shows(k)
    BY <1>4, <1>5 DEF Receiving, Shows, Commands, Hosts
  <1>9. Apart(k) /\ Commands(k, wish)
    BY <1>3, <1>5 DEF Receiving, Apart, Commands, Hosts
  <1> QED
    BY <1>1, <1>5, <1>6, <1>7, <1>8, <1>9 DEF Receiving

LEMMA ApplyPlaybackParts ==
  ASSUME NEW st \in States, wish \in [mode : Modes, revision : Nat],
         Reads(st.c, st.h), Receiving(st.c, st.h, wish), st.h.seen = wish.revision
  PROVE  LET next == ApplyPlayback(st) IN
         Sound(next) /\ Same(st, next) /\ Fewer(st.h, next.h) /\ Current(next.h)
  <1> DEFINE h == st.h
             stopping == wish.revision # h.revision \/ wish.mode = "Stop"
             ready == InvalidateReady(st.c)
             bumped == IF h.invalidate THEN [ready EXCEPT !.epoch = @ + 1] ELSE st.c
             c == IF stopping THEN InvalidateReady(bumped) ELSE bumped
             k == Applied(h)
             next == [c |-> c, h |-> k]
  <1>1. ApplyPlayback(st) = IF k.clear /\ ReadCompleted(k) THEN [ReleaseDisplay(next) EXCEPT !.h.clear = FALSE] ELSE next
    BY DEF ApplyPlayback
  <1>2. st.c \in Headers /\ h \in Hosts
    BY DEF States
  <1>3. /\ k \in Hosts /\ k.revision = wish.revision /\ k.seen = h.seen /\ k.invalidate = FALSE
        /\ k.hasImage = h.hasImage /\ k.display = h.display /\ k.fence = h.fence /\ k.drawing = h.drawing
        /\ k.copying = h.copying /\ k.current = h.current /\ k.cpu = h.cpu
        /\ Elsewhere(h, k)
    BY <1>2 DEF Applied, Hosts, Elsewhere
  <1> HIDE DEF k
  <1>4. /\ bumped \in Headers /\ SameHeader(st.c, bumped)
        /\ bumped.generation = st.c.generation /\ bumped.result = st.c.result
        /\ bumped.epoch = IF h.invalidate THEN st.c.epoch + 1 ELSE st.c.epoch
        /\ \A s \in Slots : \/ bumped.slots[s] = st.c.slots[s]
                            \/ st.c.slots[s].state = "Ready" /\ bumped.slots[s] = FreeSlot
    <2>1. /\ ready \in Headers /\ SameHeader(st.c, ready)
          /\ ready.generation = st.c.generation /\ ready.epoch = st.c.epoch /\ ready.result = st.c.result
          /\ \A s \in Slots : ready.slots[s] = IF st.c.slots[s].state = "Ready" THEN FreeSlot ELSE st.c.slots[s]
      BY <1>2, InvalidateReadyParts
    <2> HIDE DEF ready
    <2>2. CASE h.invalidate
      BY <2>1, <2>2 DEF Headers, SameHeader
    <2>3. CASE ~h.invalidate
      BY <1>2, <2>3 DEF SameHeader
    <2> QED
      BY <2>2, <2>3
  <1> HIDE DEF bumped
  <1>5. /\ c \in Headers /\ SameHeader(st.c, c)
        /\ c.generation = st.c.generation /\ c.result = st.c.result
        /\ c.epoch = IF h.invalidate THEN st.c.epoch + 1 ELSE st.c.epoch
        /\ \A s \in Slots : \/ c.slots[s] = st.c.slots[s]
                            \/ st.c.slots[s].state = "Ready" /\ c.slots[s] = FreeSlot
    <2>1. /\ InvalidateReady(bumped) \in Headers /\ SameHeader(bumped, InvalidateReady(bumped))
          /\ InvalidateReady(bumped).generation = bumped.generation
          /\ InvalidateReady(bumped).epoch = bumped.epoch /\ InvalidateReady(bumped).result = bumped.result
          /\ \A s \in Slots : InvalidateReady(bumped).slots[s] =
                IF bumped.slots[s].state = "Ready" THEN FreeSlot ELSE bumped.slots[s]
      BY <1>4, InvalidateReadyParts
    <2>2. CASE stopping
      <3>1. c = InvalidateReady(bumped)
        BY <2>2
      <3> HIDE DEF c
      <3> QED
        BY <1>4, <2>1, <3>1 DEF SameHeader, FreeSlot
    <2>3. CASE ~stopping
      BY <1>4, <2>3
    <2> QED
      BY <2>2, <2>3
  <1> HIDE DEF c
  <1>6. Offers(c, k)
    <2>1. \A s \in Slots : st.c.slots[s].epoch \in Nat /\ st.c.epoch \in Nat \ {0}
      BY <1>2 DEF Headers, SlotTypes
    <2>2. Offers(st.c, h) /\ Commands(h, wish)
      BY DEF Receiving
    <2>3. CASE h.invalidate
      BY <1>3, <1>5, <2>1, <2>2, <2>3 DEF Offers, FreeSlot
    <2>4. CASE ~h.invalidate
      <3>1. wish.revision = h.revision
        BY <2>2, <2>4 DEF Commands
      <3> QED
        BY <1>3, <1>5, <2>1, <2>2, <2>4, <3>1 DEF Offers, FreeSlot, Elsewhere
    <2> QED
      BY <2>3, <2>4
  <1>7. Reads(c, k)
    <2>1. \A s \in Slots : c.slots[s].state = "Reading" <=> st.c.slots[s].state = "Reading"
      BY <1>5 DEF FreeSlot
    <2> QED
      BY <1>3, <1>5, <2>1 DEF Reads, Shown
  <1>8. Shows(k) /\ Apart(k)
    BY <1>3 DEF Receiving, Shows, Apart
  <1>9. Sound(next) /\ Fewer(h, k) /\ Current(k)
    BY <1>2, <1>3, <1>5, <1>6, <1>7, <1>8, FewerTextures DEF Sound, States, Current
  <1>10. Same(st, next)
    BY <1>3, <1>5 DEF Same, Kept, SlotMove, Takes, Elsewhere
  <1> DEFINE given == ReleaseDisplay(next)
             rest == [given.h EXCEPT !.clear = FALSE]
  <1>11. CASE k.clear /\ ReadCompleted(k)
    <2> HIDE DEF next
    <2>1. next.h = k /\ next \in States
      BY <1>9 DEF next, Sound
    <2>2. Sound(given) /\ Same(next, given) /\ Settled(k, given.h) /\ Fewer(k, given.h)
      BY <1>9, <1>11, <2>1, ReleaseDisplayParts
    <2> HIDE DEF given
    <2>3. given \in States /\ given.h \in Hosts
      BY <2>2 DEF Sound, States
    <2>4. rest \in Hosts /\ Alike(given.h, rest)
      BY <2>3 DEF Hosts, Alike, Elsewhere
    <2>5. [given EXCEPT !.h.clear = FALSE] = [c |-> given.c, h |-> rest]
      BY <2>3, ReceiverSet
    <2> HIDE DEF rest
    <2> DEFINE last == [c |-> given.c, h |-> rest]
    <2>6. Sound(last) /\ Same(given, last) /\ Settled(given.h, rest) /\ Fewer(given.h, rest)
      BY <2>2, <2>4, AlikeParts
    <2>7. last.h = rest /\ last \in States
      BY <2>6 DEF Sound
    <2> HIDE DEF last
    <2>8. Same(st, last)
      BY <1>10, <2>1, <2>2, <2>3, <2>6, <2>7, SameTransitive
    <2>9. Fewer(h, rest)
      BY <1>9, <2>2, <2>6, FewerTransitive
    <2>10. Current(rest)
      BY <1>9, <2>2, <2>6 DEF Current, Settled
    <2>11. ApplyPlayback(st) = last
      BY <1>1, <1>11, <2>5 DEF last, given
    <2> QED
      BY <2>6, <2>7, <2>8, <2>9, <2>10, <2>11
  <1>12. CASE ~(k.clear /\ ReadCompleted(k))
    BY <1>1, <1>9, <1>10, <1>12
  <1> QED
    BY <1>11, <1>12

LEMMA AdoptIs ==
  ASSUME NEW st \in States, NEW slot \in Slots
  PROVE  LET d == [generation |-> st.h.current, slot |-> IF st.h.cpu THEN NoSlot ELSE slot,
                   frame |-> st.c.slots[slot].frame, stops |-> st.c.slots[slot].stops]
             k == [st.h EXCEPT !.display = d, !.hasImage = TRUE] IN
         /\ Adopt(st, slot) = [c |-> st.c, h |-> k]
         /\ d \in Displays /\ k \in Hosts /\ k.display = d /\ k.hasImage
         /\ k.fence = st.h.fence /\ k.drawing = st.h.drawing /\ k.copying = st.h.copying
         /\ k.current = st.h.current /\ k.cpu = st.h.cpu
         /\ Settled(st.h, k) /\ Elsewhere(st.h, k)
  <1> DEFINE d == [generation |-> st.h.current, slot |-> IF st.h.cpu THEN NoSlot ELSE slot,
                   frame |-> st.c.slots[slot].frame, stops |-> st.c.slots[slot].stops]
             k == [st.h EXCEPT !.display = d, !.hasImage = TRUE]
  <1>1. st.c \in Headers /\ st.h \in Hosts
    BY DEF States
  <1>2. d \in Displays
    <2>1. st.c.slots[slot] \in SlotTypes /\ st.h.current \in Nat
      BY <1>1 DEF Headers, Hosts
    <2> QED
      BY <2>1 DEF Displays, SlotTypes, SomeSlot
  <1>3. Adopt(st, slot) = [st EXCEPT !.h.display = d, !.h.hasImage = TRUE]
    BY DEF Adopt
  <1> HIDE DEF d
  <1>4. [st EXCEPT !.h.display = d, !.h.hasImage = TRUE] = [st EXCEPT !.h = k]
    BY <1>1 DEF States, Hosts
  <1>5. [st EXCEPT !.h = k] = [c |-> st.c, h |-> k]
    BY ReceiverSet
  <1>6. /\ k \in Hosts /\ k.display = d /\ k.hasImage
        /\ k.fence = st.h.fence /\ k.drawing = st.h.drawing /\ k.copying = st.h.copying
        /\ k.current = st.h.current /\ k.cpu = st.h.cpu
        /\ Settled(st.h, k) /\ Elsewhere(st.h, k)
    BY <1>1, <1>2 DEF Hosts, Settled, Elsewhere
  <1> QED
    BY <1>2, <1>3, <1>4, <1>5, <1>6 DEF d

LEMMA RetiredParts ==
  ASSUME NEW st, Sound(st), st.h.copying # NoSlot
  PROVE  LET k == [st.h EXCEPT !.copying = NoSlot]
             next == [c |-> Freed(st.c, st.h.copying), h |-> k] IN
         Sound(next) /\ Same(st, next) /\ Settled(st.h, k) /\ Fewer(st.h, k)
  <1> DEFINE h == st.h
             slot == h.copying
             k == [h EXCEPT !.copying = NoSlot]
             c == Freed(st.c, slot)
  <1>1. st.c \in Headers /\ h \in Hosts /\ Reads(st.c, h) /\ Offers(st.c, h) /\ Apart(h) /\ Shows(h)
    BY DEF Sound, States
  <1>2. slot \in Slots
    BY <1>1 DEF Hosts, SomeSlot
  <1>3. /\ k \in Hosts /\ k.copying = NoSlot /\ k.hasImage = h.hasImage
        /\ k.fence = h.fence /\ k.drawing = h.drawing /\ k.display = h.display
        /\ k.current = h.current /\ k.cpu = h.cpu
        /\ Settled(h, k) /\ Elsewhere(h, k)
    BY <1>1 DEF Hosts, Settled, Elsewhere, SomeSlot
  <1>4. /\ c \in Headers /\ SameHeader(st.c, c)
        /\ c.generation = st.c.generation /\ c.epoch = st.c.epoch /\ c.result = st.c.result
        /\ c.slots[slot] = FreeSlot /\ \A s \in Slots \ {slot} : c.slots[s] = st.c.slots[s]
    BY <1>1, <1>2, FreedParts
  <1> HIDE DEF k, c
  <1>5. st.c.slots[slot].state = "Reading" /\ slot \notin Shown(k, c.generation)
    BY <1>1, <1>2, <1>3, <1>4, SlotsAreFinite DEF Reads, Shown, Apart
  <1>6. Reads(c, k)
    <2>1. \A s \in Slots \ {slot} : s \in Shown(k, c.generation) <=> s \in Shown(h, c.generation)
      BY <1>3, SlotsAreFinite DEF Shown
    <2>2. \A s \in Slots : c.slots[s].state = "Reading" <=> s \in Shown(k, c.generation)
      BY <1>1, <1>4, <1>5, <2>1 DEF Reads, FreeSlot
    <2> QED
      BY <1>1, <1>3, <1>4, <2>2 DEF Reads
  <1>7. Offers(c, k)
    BY <1>1, <1>3, <1>4 DEF Offers, FreeSlot, Headers, Elsewhere, Settled
  <1>8. Shows(k) /\ Apart(k) /\ Fewer(h, k)
    BY <1>1, <1>3, FewerTextures DEF Shows, Apart, Settled
  <1>9. Same(st, [c |-> c, h |-> k])
    BY <1>3, <1>4, <1>5 DEF Same, Kept, SlotMove, Takes, Elsewhere
  <1> QED
    BY <1>3, <1>4, <1>6, <1>7, <1>8, <1>9 DEF Sound, States, c, k

LEMMA PollCopyParts ==
  ASSUME NEW st, Sound(st), Current(st.h), NEW consume \in BOOLEAN, NEW copied \in BOOLEAN
  PROVE  LET next == PollCopy(st, consume, copied) IN
         Sound(next) /\ Same(st, next) /\ Fewer(st.h, next.h) /\ Current(next.h)
  <1> DEFINE slot == st.h.copying
             given == ReleaseDisplay(st)
             shown == Adopt(given, slot)
             retired(x) == [c |-> Freed(x.c, slot), h |-> [x.h EXCEPT !.copying = NoSlot]]
  <1>1. Sound(st) /\ Same(st, st) /\ Fewer(st.h, st.h) /\ Current(st.h)
    BY DEF Same, Kept, SameHeader, SlotMove, Takes, Fewer
  <1>2. CASE slot = NoSlot \/ ~copied \/ (CopyIsWanted(st, consume) /\ ~ReadCompleted(st.h))
    <2>1. PollCopy(st, consume, copied) = st
      BY <1>2 DEF PollCopy
    <2> QED
      BY <1>1, <2>1
  <1>3. CASE slot # NoSlot /\ copied /\ ~CopyIsWanted(st, consume)
    <2>1. PollCopy(st, consume, copied) = retired(st)
      BY <1>3 DEF PollCopy
    <2> HIDE DEF retired
    <2>2. Sound(retired(st)) /\ Same(st, retired(st)) /\ Settled(st.h, retired(st).h) /\ Fewer(st.h, retired(st).h)
      BY <1>3, RetiredParts DEF retired
    <2> QED
      BY <2>1, <2>2 DEF Settled, Current
  <1>4. CASE slot # NoSlot /\ copied /\ CopyIsWanted(st, consume) /\ ReadCompleted(st.h)
    <2>1. PollCopy(st, consume, copied) = retired(shown)
      BY <1>4 DEF PollCopy
    <2>2. /\ Sound(given) /\ Same(st, given) /\ Settled(st.h, given.h) /\ Fewer(st.h, given.h)
          /\ given.h.display = NoDisplay /\ ReadCompleted(given.h)
          /\ given.h.copying = slot /\ given.c.epoch = st.c.epoch
          /\ (slot \in Slots => given.c.slots[slot] = st.c.slots[slot])
      BY <1>4, ReleaseDisplayParts
    <2> HIDE DEF given
    <2> DEFINE d == [generation |-> given.h.current, slot |-> IF given.h.cpu THEN NoSlot ELSE slot,
                     frame |-> given.c.slots[slot].frame, stops |-> given.c.slots[slot].stops]
               k == [given.h EXCEPT !.display = d, !.hasImage = TRUE]
               next == [c |-> given.c, h |-> k]
    <2>3. /\ st \in States /\ given \in States /\ given.c \in Headers /\ given.h \in Hosts
          /\ st.h \in Hosts /\ slot \in Slots
      BY <1>4, <2>2 DEF Sound, States, Hosts, SomeSlot
    <2>4. given.h.cpu /\ given.c.slots[slot].epoch = given.c.epoch
      BY <1>4, <2>2, <2>3 DEF Sound, Apart, CopyIsWanted
    <2>5. /\ shown = next
          /\ k \in Hosts /\ k.display = d /\ k.hasImage
          /\ k.fence = given.h.fence /\ k.drawing = given.h.drawing /\ k.copying = slot
          /\ k.current = given.h.current /\ k.cpu = given.h.cpu
          /\ Settled(given.h, k) /\ Elsewhere(given.h, k)
      BY <2>2, <2>3, AdoptIs
    <2>6. d.generation = k.current /\ d.slot = NoSlot /\ d.stops = given.c.slots[slot].stops
      BY <2>4, <2>5
    <2> HIDE DEF shown, k, d
    <2>7. Reads(given.c, k)
      <3>1. Shown(k, given.c.generation) = Shown(given.h, given.c.generation)
        BY <2>2, <2>5, <2>6, SlotsAreFinite DEF Shown, NoDisplay
      <3>2. k.drawing = {}
        BY <2>2, <2>5 DEF Sound, Reads, ReadCompleted
      <3> QED
        BY <2>2, <2>5, <3>1, <3>2 DEF Reads, Sound
    <2>8. Offers(given.c, k)
      BY <2>2, <2>5 DEF Sound, Offers, Settled, Elsewhere
    <2>9. Shows(k)
      BY <2>2, <2>3, <2>4, <2>5, <2>6 DEF Sound, Shows, Offers, Settled, Current
    <2>10. Apart(k)
      BY <2>3, <2>4, <2>5, <2>6 DEF Apart, Hosts
    <2>11. Sound(next) /\ next \in States /\ next.h = k /\ next.c = given.c
      BY <2>3, <2>5, <2>7, <2>8, <2>9, <2>10 DEF Sound, States
    <2>12. Same(given, next)
      BY <2>5 DEF Same, Kept, SameHeader, SlotMove, Takes, Elsewhere
    <2>13. Fewer(given.h, k)
      BY <2>2, <2>3, <2>5, <2>6, FewerTextures
    <2> HIDE DEF next
    <2>14. Sound(retired(next)) /\ Same(next, retired(next)) /\ Settled(k, retired(next).h) /\ Fewer(k, retired(next).h)
      BY <1>4, <2>5, <2>11, RetiredParts
    <2> HIDE DEF retired
    <2>15. retired(next) \in States
      BY <2>14 DEF Sound
    <2>16. Same(st, retired(next))
      <3>1. Same(st, next)
        BY <2>2, <2>3, <2>11, <2>12, SameTransitive
      <3> QED
        BY <2>3, <2>11, <2>14, <2>15, <3>1, SameTransitive
    <2>17. Fewer(st.h, retired(next).h)
      BY <2>2, <2>13, <2>14, FewerTransitive
    <2> QED
      BY <2>1, <2>2, <2>5, <2>14, <2>16, <2>17 DEF Settled, Current
  <1> QED
    BY <1>2, <1>3, <1>4

\* A generation of its own for a request: its slots are free, and nothing has been taken of it.
Succeeds(c, d) ==
    /\ SameHeader(c, d) /\ d.generation = c.generation + 1
    /\ d.result = "Ok" /\ d.pid # NoOne /\ Untouched(d)

Renewed(st, next) ==
    /\ Succeeds(st.c, next.c)
    /\ next.h.newest = 0 /\ next.h.late = {}
    /\ next.h.life = st.h.life /\ next.h.mapped = st.h.mapped

LEMMA ConfigureParts ==
  ASSUME NEW st, Sound(st), Current(st.h), NEW due \in BOOLEAN, NEW gpu \in {"direct", "cpu", "short"}
  PROVE  LET next == Configure(st, due, gpu) IN
         /\ Same(st, next) \/ Renewed(st, next)
         /\ Fewer(st.h, next.h) /\ Current(next.h)
         /\ Sound(next)
  <1>1. /\ st.c \in Headers /\ st.h \in Hosts /\ Reads(st.c, st.h) /\ Offers(st.c, st.h)
        /\ Apart(st.h) /\ Shows(st.h)
    BY DEF Sound, States
  <1>2. CASE ~Requested(st, due)
    <2>1. Configure(st, due, gpu) = st
      BY <1>2 DEF Configure
    <2>2. Same(st, st) /\ Fewer(st.h, st.h)
      BY DEF Same, Kept, SameHeader, SlotMove, Takes, Fewer
    <2> QED
      BY <2>1, <2>2
  <1>3. CASE Requested(st, due) /\ gpu = "short"
    <2> DEFINE c == [st.c EXCEPT !.result = "Unavailable"]
               k == [st.h EXCEPT !.deferred = TRUE]
               next == [c |-> c, h |-> k]
    <2>1. Configure(st, due, gpu) = next
      BY <1>3 DEF Configure
    <2>2. k \in Hosts /\ Alike(st.h, k)
      BY <1>1 DEF Hosts, Alike, Elsewhere
    <2>3. /\ c \in Headers /\ SameHeader(st.c, c) /\ c.generation = st.c.generation /\ c.epoch = st.c.epoch
          /\ c.result # "Ok" /\ c.slots = st.c.slots
      BY <1>1 DEF Headers, SameHeader
    <2> HIDE DEF c, k
    <2>4. Sound([c |-> st.c, h |-> k]) /\ Same(st, [c |-> st.c, h |-> k]) /\ Fewer(st.h, k) /\ Current(k)
      BY <2>2, AlikeParts DEF Settled, Current
    <2>5. Sound(next)
      BY <2>2, <2>3, <2>4 DEF Sound, States, Reads, Offers
    <2>6. Same(st, next)
      BY <2>3, <2>4 DEF Same, Kept, Takes
    <2> QED
      BY <2>1, <2>4, <2>5, <2>6
  <1>4. CASE Requested(st, due) /\ gpu # "short"
    <2> DEFINE slots == [s \in Slots |-> FreeSlot]
               cpu == gpu = "cpu"
               current == st.c.generation + 1
               c == [st.c EXCEPT !.generation = current, !.result = "Ok", !.slots = slots]
               k == [st.h EXCEPT !.current = current, !.cpu = cpu, !.rejected = FALSE,
                                 !.applied = st.c.serial, !.deferred = FALSE, !.newest = 0, !.late = {}]
               next == [c |-> c, h |-> k]
    <2>1. Configure(st, due, gpu) = next
      BY <1>4 DEF Configure
    <2>2. slots \in [Slots -> SlotTypes] /\ \A s \in Slots : slots[s] = FreeSlot
      BY DEF SlotTypes, FreeSlot, SlotStates
    <2>3. current \in Nat /\ cpu \in BOOLEAN /\ st.c.serial \in Nat /\ current > st.c.generation
      BY <1>1 DEF Headers
    <2> HIDE DEF slots, cpu, current
    <2>4. /\ c \in Headers /\ SameHeader(st.c, c) /\ c.generation = current /\ c.epoch = st.c.epoch
          /\ c.result = "Ok" /\ c.slots = slots
      BY <1>1, <2>2, <2>3 DEF Headers, SameHeader
    <2>5. /\ k \in Hosts /\ k.current = current /\ k.newest = 0 /\ k.late = {}
          /\ k.fence = st.h.fence /\ k.drawing = st.h.drawing /\ k.copying = st.h.copying
          /\ k.display = st.h.display /\ k.hasImage = st.h.hasImage
          /\ k.life = st.h.life /\ k.mapped = st.h.mapped
          /\ Settled(st.h, k)
      BY <1>1, <2>3 DEF Hosts, Settled
    <2> HIDE DEF c, k
    <2>6. st.h.copying = NoSlot /\ st.c.pid # NoOne
      BY <1>4 DEF Requested, MayConfigure
    <2>7. st.h.display.generation \in Nat /\ st.h.display.generation <= st.c.generation /\ st.c.generation \in Nat
      BY <1>1 DEF Apart, Reads, Hosts, Displays, Headers
    <2>8. Reads(c, k)
      <3>1. Shown(k, current) = {}
        BY <2>3, <2>5, <2>6, <2>7, SlotsAreFinite DEF Shown
      <3> QED
        BY <1>1, <2>2, <2>4, <2>5, <3>1 DEF Reads, FreeSlot
    <2>9. Offers(c, k)
      BY <1>1, <2>2, <2>4 DEF Offers, FreeSlot, Headers
    <2>10. Shows(k) /\ Apart(k)
      BY <1>1, <2>3, <2>5, <2>6, <2>7 DEF Shows, Apart, Settled
    <2>11. Sound(next)
      BY <2>4, <2>5, <2>8, <2>9, <2>10 DEF Sound, States
    <2>12. Renewed(st, next)
      BY <2>2, <2>4, <2>5, <2>6, <1>1 DEF Renewed, Succeeds, SameHeader, Untouched, current
    <2>13. Fewer(st.h, k) /\ Current(k)
      BY <1>1, <2>5, <2>6, FewerTextures DEF Settled, Current
    <2> QED
      BY <2>1, <2>11, <2>12, <2>13
  <1> QED
    BY <1>2, <1>3, <1>4

\* Textures that are read anew are of the current generation.
Reaches(h, next) == \A r \in Textures(next.h) : r[2] = NoSlot \/ r[1] = next.c.generation \/ r \in Textures(h)

LEMMA ReachesAfterFewer ==
  ASSUME NEW h, NEW k, NEW next, Fewer(h, k), Reaches(k, next)
  PROVE  Reaches(h, next)
  BY DEF Fewer, Reaches

LEMMA TakeParts ==
  ASSUME NEW st, Sound(st), Current(st.h), NEW slot \in Slots,
         st.c.slots[slot].state = "Ready", st.c.slots[slot].epoch = st.c.epoch,
         st.h.copying = NoSlot, ReadCompleted(st.h), st.h.cpu \/ st.h.display = NoDisplay
  PROVE  LET next == Take(st, slot) IN
         Sound(next) /\ Same(st, next) /\ Reaches(st.h, next) /\ Current(next.h)
  <1> DEFINE h == st.h
             pending == {s \in Slots : st.c.slots[s].state = "Pending"}
             newest == IF st.c.slots[slot].frame > h.newest THEN st.c.slots[slot].frame ELSE h.newest
             late == {st.c.slots[s].frame : s \in pending}
             c == [st.c EXCEPT !.slots[slot].state = "Reading"]
             k == [h EXCEPT !.newest = newest, !.late = late]
             reading == [c |-> c, h |-> k]
             begun == IF h.cpu THEN [reading EXCEPT !.h.copying = slot] ELSE Adopt(reading, slot)
  <1>1. /\ st \in States /\ st.c \in Headers /\ h \in Hosts /\ Reads(st.c, h) /\ Offers(st.c, h)
        /\ Apart(h) /\ Shows(h) /\ st.c.slots \in [Slots -> SlotTypes] /\ st.c.slots[slot] \in SlotTypes
    BY DEF Sound, States, Headers
  <1>2. newest \in Nat /\ late \in SUBSET Nat
    BY <1>1 DEF Hosts, Headers, SlotTypes
  <1>3. newest \in {h.newest, st.c.slots[slot].frame} /\ \A s \in pending : st.c.slots[s].frame \in late
    OBVIOUS
  <1>4. Take(st, slot) = [begun EXCEPT !.c = AfterTaking(@)]
    BY <1>1 DEF Take, States
  <1>5. /\ c \in Headers /\ SameHeader(st.c, c)
        /\ c.generation = st.c.generation /\ c.epoch = st.c.epoch /\ c.result = st.c.result
        /\ c.slots[slot] = [st.c.slots[slot] EXCEPT !.state = "Reading"]
        /\ \A s \in Slots \ {slot} : c.slots[s] = st.c.slots[s]
    <2> DEFINE taken == [st.c.slots[slot] EXCEPT !.state = "Reading"]
               slots == [st.c.slots EXCEPT ![slot] = taken]
    <2>1. taken \in SlotTypes
      BY <1>1 DEF SlotTypes, SlotStates
    <2>2. c = [st.c EXCEPT !.slots = slots]
      BY <1>1 DEF Headers
    <2> HIDE DEF taken
    <2>3. slots \in [Slots -> SlotTypes] /\ slots[slot] = taken /\ \A s \in Slots \ {slot} : slots[s] = st.c.slots[s]
      BY <1>1, <2>1
    <2> HIDE DEF slots, c
    <2>4. /\ c \in Headers /\ SameHeader(st.c, c)
          /\ c.generation = st.c.generation /\ c.epoch = st.c.epoch /\ c.result = st.c.result
          /\ c.slots = slots
      BY <1>1, <2>2, <2>3 DEF Headers, SameHeader
    <2> QED
      BY <2>3, <2>4 DEF taken
  <1>6. /\ c.slots[slot].state = "Reading" /\ c.slots[slot].epoch = st.c.slots[slot].epoch
        /\ c.slots[slot].stops = st.c.slots[slot].stops
    BY <1>1, <1>5 DEF SlotTypes
  <1> HIDE DEF newest, late, c, pending
  <1>7. /\ k \in Hosts /\ k.newest = newest /\ k.late = late /\ k.display = h.display
        /\ k.hasImage = h.hasImage
        /\ k.fence = h.fence /\ k.drawing = h.drawing /\ k.copying = h.copying
        /\ k.current = h.current /\ k.cpu = h.cpu
        /\ k.life = h.life /\ k.mapped = h.mapped /\ k.applied = h.applied
        /\ Settled(h, k)
    BY <1>1, <1>2 DEF Hosts, Settled
  <1> HIDE DEF k
  <1>8. reading \in States /\ reading.c = c /\ reading.h = k
    BY <1>5, <1>7 DEF States
  <1> HIDE DEF reading
  <1>9. /\ begun.c = c /\ begun \in States
        /\ begun.h.copying = (IF h.cpu THEN slot ELSE NoSlot)
        /\ h.cpu => begun.h.display = h.display /\ begun.h.hasImage = h.hasImage
        /\ ~h.cpu => /\ begun.h.display.generation = h.current /\ begun.h.display.slot = slot
                     /\ begun.h.display.stops = st.c.slots[slot].stops
        /\ begun.h.fence = h.fence /\ begun.h.drawing = h.drawing
        /\ begun.h.current = h.current /\ begun.h.cpu = h.cpu
        /\ begun.h.newest = newest /\ begun.h.late = late
        /\ begun.h.life = h.life /\ begun.h.mapped = h.mapped /\ begun.h.applied = h.applied
        /\ Settled(h, begun.h)
    <2>1. CASE h.cpu
      <3> DEFINE l == [k EXCEPT !.copying = slot]
      <3>1. begun = [c |-> c, h |-> l]
        <4>1. [reading EXCEPT !.h.copying = slot] = [reading EXCEPT !.h = l]
          BY <1>8
        <4> QED
          BY <1>8, <2>1, <4>1, ReceiverSet
      <3>2. /\ l \in Hosts /\ l.copying = slot /\ l.newest = k.newest /\ l.late = k.late /\ l.display = k.display
            /\ l.hasImage = k.hasImage
            /\ l.fence = k.fence /\ l.drawing = k.drawing
            /\ l.current = k.current /\ l.cpu = k.cpu
            /\ l.life = k.life /\ l.mapped = k.mapped /\ l.applied = k.applied
            /\ Settled(k, l)
        BY <1>7 DEF Hosts, Settled, SomeSlot
      <3> HIDE DEF l, begun
      <3> QED
        BY <1>5, <1>7, <2>1, <3>1, <3>2 DEF States, Settled
    <2>2. CASE ~h.cpu
      <3> DEFINE d == [generation |-> reading.h.current, slot |-> IF reading.h.cpu THEN NoSlot ELSE slot,
                       frame |-> reading.c.slots[slot].frame, stops |-> reading.c.slots[slot].stops]
                 l == [reading.h EXCEPT !.display = d, !.hasImage = TRUE]
      <3>1. /\ Adopt(reading, slot) = [c |-> reading.c, h |-> l]
            /\ l \in Hosts /\ l.display = d /\ l.hasImage
            /\ l.fence = reading.h.fence /\ l.drawing = reading.h.drawing /\ l.copying = reading.h.copying
            /\ l.current = reading.h.current /\ l.cpu = reading.h.cpu
            /\ Settled(reading.h, l) /\ Elsewhere(reading.h, l)
        BY <1>8, AdoptIs
      <3>2. d.generation = h.current /\ d.slot = slot /\ d.stops = st.c.slots[slot].stops
        BY <1>6, <1>7, <1>8, <2>2
      <3> HIDE DEF l, d
      <3>3. begun = [c |-> c, h |-> l]
        BY <1>8, <2>2, <3>1
      <3> HIDE DEF begun
      <3> QED
        BY <1>5, <1>7, <1>8, <2>2, <3>1, <3>2, <3>3 DEF States, Settled, Elsewhere
    <2> QED
      BY <2>1, <2>2
  <1> DEFINE offered == InvalidateReady(c)
             next == [c |-> offered, h |-> begun.h]
  <1>10. Take(st, slot) = next
    <2> HIDE DEF begun
    <2>1. [begun EXCEPT !.c = AfterTaking(@)] = [begun EXCEPT !.c = AfterTaking(c)]
      BY <1>9 DEF States
    <2> QED
      BY <1>4, <1>9, <2>1, HeaderSet DEF AfterTaking
  <1>11. /\ offered \in Headers /\ SameHeader(c, offered)
         /\ offered.generation = c.generation /\ offered.epoch = c.epoch /\ offered.result = c.result
         /\ \A s \in Slots : offered.slots[s] = IF c.slots[s].state = "Ready" THEN FreeSlot ELSE c.slots[s]
    BY <1>5, InvalidateReadyParts
  <1> HIDE DEF begun, offered
  <1> DEFINE l == begun.h
  <1>12. l \in Hosts /\ h.drawing = {} /\ (l.cpu => l.copying = slot) /\ (~l.cpu => l.display.slot = slot)
    BY <1>1, <1>9 DEF States, Reads, ReadCompleted
  <1>13. Reads(offered, l)
    <2>1. Shown(h, st.c.generation) = {}
      BY <1>1, SlotsAreFinite DEF Shown, Apart, Reads, NoDisplay
    <2>2. Shown(l, offered.generation) = {slot}
      <3>1. l.current = offered.generation /\ l.current = h.current
        BY <1>1, <1>5, <1>9, <1>11 DEF Reads
      <3>2. CASE h.cpu
        <4>1. l.copying = slot /\ l.display = h.display
          BY <1>9, <3>2
        <4>2. \A s \in Slots : ~(h.display.slot = s /\ h.display.generation = h.current)
          BY <1>1, <3>2, SlotsAreFinite DEF Apart
        <4> QED
          BY <3>1, <4>1, <4>2 DEF Shown
      <3>3. CASE ~h.cpu
        <4>1. l.copying = NoSlot /\ l.display.slot = slot /\ l.display.generation = h.current
          BY <1>9, <3>3
        <4> QED
          BY <3>1, <4>1, SlotsAreFinite DEF Shown
      <3> QED
        BY <3>2, <3>3
    <2>3. \A s \in Slots : offered.slots[s].state = "Reading" <=> s = slot
      <3>1. \A s \in Slots : st.c.slots[s].state # "Reading"
        BY <1>1, <2>1 DEF Reads
      <3>2. \A s \in Slots \ {slot} : c.slots[s].state # "Reading"
        BY <1>5, <3>1
      <3>3. FreeSlot.state = "Free"
        BY DEF FreeSlot
      <3> QED
        BY <1>6, <1>11, <3>2, <3>3
    <2> QED
      BY <1>1, <1>5, <1>9, <1>11, <1>12, <2>2, <2>3 DEF Reads
  <1>14. Offers(offered, l)
    <2>1. \A s \in Slots : offered.slots[s].state # "Ready"
      BY <1>11 DEF FreeSlot
    <2>2. \A s \in Slots : /\ c.slots[s].epoch <= st.c.epoch
                           /\ c.slots[s].epoch = st.c.epoch => c.slots[s].stops >= h.revision
      BY <1>1, <1>5, <1>6 DEF Offers
    <2> QED
      BY <1>5, <1>9, <1>11, <2>1, <2>2 DEF Offers, FreeSlot, Headers, Settled
  <1>15. Shows(l)
    <2>1. st.c.slots[slot].stops >= h.revision
      BY <1>1 DEF Offers
    <2> QED
      BY <1>1, <1>9, <2>1 DEF Shows, Settled, Current
  <1>16. Apart(l)
    BY <1>1, <1>9 DEF Apart, Hosts, Displays
  <1>17. Sound(next) /\ Current(l)
    BY <1>9, <1>11, <1>12, <1>13, <1>14, <1>15, <1>16 DEF Sound, States, Current, Settled
  <1>18. Same(st, next)
    <2>1. \A s \in Slots : SlotMove(st.c.slots[s], offered.slots[s])
      BY <1>5, <1>6, <1>11 DEF SlotMove
    <2>2. Takes(st.c, h, l)
      BY <1>3, <1>9 DEF Takes, pending
    <2> QED
      BY <1>5, <1>9, <1>11, <2>1, <2>2 DEF Same, Kept, SameHeader
  <1>19. Reaches(h, next)
    BY <1>1, <1>5, <1>9, <1>11, <1>12 DEF Reaches, Textures, Reads
  <1> QED
    BY <1>10, <1>17, <1>18, <1>19

LEMMA ConsumeParts ==
  ASSUME NEW st, Sound(st), Current(st.h), NEW due \in BOOLEAN, NEW gpu \in {"direct", "cpu", "short"}
  PROVE  LET next == Consume(st, due, gpu) IN
         /\ Sound(next) /\ Same(st, next) /\ Reaches(st.h, next) /\ Current(next.h)
         /\ Untouched(st.c) => next = st
  <1> DEFINE latest == FindLatest(st.c)
             given == ReleaseDisplay(st)
             next == Consume(st, due, gpu)
  <1>1. st \in States /\ st.c \in Headers /\ st.h \in Hosts
    BY DEF Sound, States
  <1>2. Untouched(st.c) => latest = NoSlot
    BY <1>1, LatestSlot DEF Untouched, FreeSlot
  <1>3. CASE next = st
    <2>1. Same(st, st) /\ Reaches(st.h, st)
      BY DEF Same, Kept, SameHeader, SlotMove, Takes, Reaches
    <2> QED
      BY <1>3, <2>1
  <1>4. CASE st.h.copying # NoSlot \/ ~ReadCompleted(st.h) \/ latest = NoSlot
    BY <1>3, <1>4 DEF Consume
  <1>5. CASE st.h.copying = NoSlot /\ ReadCompleted(st.h) /\ latest # NoSlot
    <2>1. latest \in Slots /\ st.c.slots[latest].state = "Ready" /\ st.c.slots[latest].epoch = st.c.epoch
      BY <1>1, <1>5, LatestSlot
    <2>2. next = IF st.h.cpu THEN Take(st, latest)
                 ELSE IF ~due THEN st
                 ELSE IF gpu = "short" THEN [given EXCEPT !.h.deferred = TRUE, !.h.rejected = TRUE]
                 ELSE IF gpu = "cpu" \/ st.h.rejected
                 THEN Take([given EXCEPT !.h.deferred = FALSE, !.h.cpu = TRUE], latest)
                 ELSE Take([given EXCEPT !.h.deferred = FALSE], latest)
      BY <1>5 DEF Consume
    <2>3. /\ Sound(given) /\ Same(st, given) /\ Settled(st.h, given.h) /\ Fewer(st.h, given.h)
          /\ given.h.display = NoDisplay /\ ReadCompleted(given.h)
          /\ given.h.copying = NoSlot /\ given.c.epoch = st.c.epoch
          /\ given.c.slots[latest] = st.c.slots[latest]
      BY <1>5, <2>1, ReleaseDisplayParts
    <2> HIDE DEF next, given, latest
    <2>4. given \in States /\ given.c \in Headers /\ given.h \in Hosts
      BY <2>3 DEF Sound, States
    <2>5. Current(given.h)
      BY <2>3 DEF Settled, Current
    <2>6. CASE st.h.cpu
      <3>1. next = Take(st, latest)
        BY <2>2, <2>6
      <3> QED
        BY <1>2, <1>5, <2>1, <2>6, <3>1, TakeParts DEF next, latest
    <2>7. CASE ~st.h.cpu /\ ~due
      BY <1>3, <2>2, <2>7 DEF next
    <2>8. CASE ~st.h.cpu /\ due /\ gpu = "short"
      <3> DEFINE k == [given.h EXCEPT !.deferred = TRUE, !.rejected = TRUE]
                 last == [c |-> given.c, h |-> k]
      <3>1. next = last
        <4>1. [given EXCEPT !.h.deferred = TRUE, !.h.rejected = TRUE] = [given EXCEPT !.h = k]
          BY <2>4 DEF States, Hosts
        <4> QED
          BY <2>2, <2>4, <2>8, <4>1, ReceiverSet
      <3>2. k \in Hosts /\ Alike(given.h, k)
        BY <2>4 DEF Hosts, Alike, Elsewhere
      <3> HIDE DEF k
      <3>3. Sound(last) /\ Same(given, last) /\ Settled(given.h, k) /\ Fewer(given.h, k)
        BY <2>3, <3>2, AlikeParts
      <3>4. last \in States /\ last.h = k
        BY <3>3 DEF Sound
      <3> HIDE DEF last
      <3>5. Same(st, last)
        BY <1>1, <2>3, <2>4, <3>3, <3>4, SameTransitive
      <3>6. Reaches(st.h, last)
        BY <2>3, <3>3, <3>4, FewerTransitive DEF Fewer, Reaches
      <3> QED
        BY <1>2, <1>5, <2>5, <3>1, <3>3, <3>4, <3>5, <3>6 DEF Settled, Current, next
    <2>9. ASSUME NEW cpu \in BOOLEAN, given.h.cpu => cpu,
                 NEW k \in Hosts, k = [given.h EXCEPT !.deferred = FALSE, !.cpu = cpu]
          PROVE  LET last == Take([c |-> given.c, h |-> k], latest) IN
                 Sound(last) /\ Same(st, last) /\ Reaches(st.h, last) /\ Current(last.h)
      <3> DEFINE from == [c |-> given.c, h |-> k]
      <3>1. /\ k.cpu = cpu /\ k.display = NoDisplay /\ k.hasImage = given.h.hasImage
            /\ k.fence = given.h.fence /\ k.drawing = given.h.drawing
            /\ k.copying = NoSlot /\ k.current = given.h.current
            /\ Settled(given.h, k) /\ Elsewhere(given.h, k)
        BY <2>3, <2>4, <2>9 DEF Hosts, Settled, Elsewhere
      <3>2. /\ given.h.current \in Nat /\ Reads(given.c, given.h) /\ Offers(given.c, given.h) /\ Shows(given.h)
            /\ Apart(given.h)
        BY <2>3, <2>4 DEF Sound, Hosts
      <3>3. Reads(given.c, k) /\ Offers(given.c, k) /\ Shows(k)
        BY <2>3, <3>1, <3>2 DEF Reads, Shown, Offers, Shows, Settled, Elsewhere
      <3>4. Apart(k)
        BY <3>1, <3>2 DEF Apart, NoDisplay
      <3>5. Sound(from) /\ from \in States /\ from.c = given.c /\ from.h = k
        BY <2>4, <3>3, <3>4 DEF Sound, States
      <3>6. Same(given, from)
        BY <3>1, <3>5 DEF Same, Kept, SameHeader, SlotMove, Takes, Elsewhere
      <3>7. Fewer(given.h, k) /\ Current(k) /\ ReadCompleted(k)
        BY <2>3, <2>4, <2>5, <3>1, FewerTextures DEF Current, Settled, ReadCompleted
      <3> HIDE DEF from
      <3> DEFINE last == Take(from, latest)
      <3>8. Sound(last) /\ Same(from, last) /\ Reaches(k, last) /\ Current(last.h)
        BY <2>1, <2>3, <3>1, <3>5, <3>7, TakeParts
      <3> HIDE DEF last
      <3>9. last \in States
        BY <3>8 DEF Sound
      <3>10. Same(st, last)
        <4>1. Same(st, from)
          BY <1>1, <2>3, <2>4, <3>5, <3>6, SameTransitive
        <4> QED
          BY <1>1, <3>5, <3>8, <3>9, <4>1, SameTransitive
      <3>11. Reaches(st.h, last)
        BY <2>3, <3>7, <3>8, FewerTransitive, ReachesAfterFewer
      <3> QED
        BY <3>8, <3>10, <3>11 DEF from, last
    <2>10. CASE ~st.h.cpu /\ due /\ gpu # "short" /\ (gpu = "cpu" \/ st.h.rejected)
      <3> DEFINE k == [given.h EXCEPT !.deferred = FALSE, !.cpu = TRUE]
      <3>1. [given EXCEPT !.h.deferred = FALSE, !.h.cpu = TRUE] = [c |-> given.c, h |-> k]
        <4>1. [given EXCEPT !.h.deferred = FALSE, !.h.cpu = TRUE] = [given EXCEPT !.h = k]
          BY <2>4 DEF States, Hosts
        <4> QED
          BY <2>4, <4>1, ReceiverSet
      <3>2. k \in Hosts
        BY <2>4 DEF Hosts
      <3>3. next = Take([c |-> given.c, h |-> k], latest)
        BY <2>2, <2>10, <3>1
      <3> QED
        BY <1>2, <1>5, <2>9, <3>2, <3>3 DEF next
    <2>11. CASE ~st.h.cpu /\ due /\ gpu # "short" /\ ~(gpu = "cpu" \/ st.h.rejected)
      <3> DEFINE k == [given.h EXCEPT !.deferred = FALSE]
                 l == [given.h EXCEPT !.deferred = FALSE, !.cpu = given.h.cpu]
      <3>1. [given EXCEPT !.h.deferred = FALSE] = [c |-> given.c, h |-> k]
        <4>1. [given EXCEPT !.h.deferred = FALSE] = [given EXCEPT !.h = k]
          BY <2>4 DEF States, Hosts
        <4> QED
          BY <2>4, <4>1, ReceiverSet
      <3>2. k \in Hosts /\ given.h.cpu \in BOOLEAN /\ k = l
        BY <2>4 DEF Hosts
      <3>3. next = Take([c |-> given.c, h |-> k], latest)
        BY <2>2, <2>11, <3>1
      <3> QED
        BY <1>2, <1>5, <2>9, <3>2, <3>3 DEF next
    <2> QED
      BY <2>6, <2>7, <2>8, <2>10, <2>11
  <1> QED
    BY <1>4, <1>5

-----------------------------------------------------------------------------
(* A whole frame.                                                           *)

\* The header as the receiver sees it once it knows whether a producer is there.
Seen == IF ProducerConnected THEN control ELSE [control EXCEPT !.pid = NoOne, !.wanted = FALSE]

\* What a tick makes of header c and receiver h.
Serves(c, h, d, k) ==
    /\ d \in Headers /\ k \in Hosts
    /\ Reads(d, k) /\ k.mapped = h.mapped
    /\ Reaches(h, [c |-> d, h |-> k])
    /\ Kept(c, d) \/ Succeeds(c, d)
    /\ k.life = "up" =>
          /\ h.life = "up" /\ Receiving(d, k, wish)
          /\ Kept(c, d) => Takes(c, h, k)
          /\ Succeeds(c, d) => k.newest = 0 /\ k.late = {}

LEMMA SeenParts ==
  ASSUME StreamTypes
  PROVE  /\ Seen \in Headers /\ Seen.session = control.session /\ Seen.host = control.host
         /\ Seen.generation = control.generation /\ Seen.epoch = control.epoch /\ Seen.serial = control.serial
         /\ Seen.result = control.result /\ Seen.slots = control.slots
         /\ Seen.pid = IF ProducerConnected THEN control.pid ELSE NoOne
  BY DEF StreamTypes, Headers, Seen

LEMMA EndFrameParts ==
  ASSUME NEW c \in Headers, NEW h \in Hosts, Reads(c, h), NEW visible \in BOOLEAN
  PROVE  LET k == EndFrame(h, visible) IN
         /\ k \in Hosts /\ Reads(c, k) /\ Textures(k) = Textures(h)
         /\ Elsewhere(h, k) /\ Settled(h, k)
         /\ Receiving(c, h, wish) => Receiving(c, k, wish)
  <1>1. CASE ~visible \/ ~h.hasImage
    <2>1. EndFrame(h, visible) = h
      BY <1>1 DEF EndFrame
    <2> QED
      BY <2>1 DEF Elsewhere, Settled
  <1>2. CASE visible /\ h.hasImage
    <2> DEFINE drawing == h.drawing \cup {<<h.display.generation, h.display.slot>>}
               k == [h EXCEPT !.fence = "pending", !.drawing = drawing]
    <2>1. EndFrame(h, visible) = k
      BY <1>2 DEF EndFrame
    <2>2. drawing \in SUBSET (Nat \X SomeSlot)
      BY DEF Hosts, Displays
    <2>3. drawing = {<<h.display.generation, h.display.slot>>}
      BY DEF Reads
    <2> HIDE DEF drawing
    <2>4. /\ k \in Hosts /\ k.fence = "pending" /\ k.drawing = drawing /\ k.display = h.display
          /\ k.hasImage = h.hasImage /\ k.copying = h.copying /\ k.current = h.current /\ k.cpu = h.cpu
          /\ Elsewhere(h, k) /\ Settled(h, k)
      BY <2>2 DEF Hosts, Elsewhere, Settled
    <2> HIDE DEF k
    <2>5. Reads(c, k)
      BY <2>3, <2>4 DEF Reads, Shown
    <2>6. Textures(k) = Textures(h)
      BY <2>3, <2>4 DEF Textures, Reads
    <2>7. Receiving(c, h, wish) => Receiving(c, k, wish)
      BY <2>4 DEF Receiving, Offers, Shows, Apart, Commands, Settled, Elsewhere
    <2> QED
      BY <2>1, <2>4, <2>5, <2>6, <2>7
  <1> QED
    BY <1>1, <1>2

LEMMA EnteredParts ==
  ASSUME StreamTypes, HostInv, host.life = "up"
  PROVE  /\ Sound(Entered) /\ Current(Entered.h)
         /\ Same([c |-> Seen, h |-> host], Entered) /\ Fewer(host, Entered.h)
  <1> DEFINE observed == ObservePlayback(host)
             st == [c |-> Seen, h |-> observed]
             next == ApplyPlayback(st)
  <1>1. host \in Hosts /\ wish \in [mode : Modes, revision : Nat]
    BY DEF StreamTypes
  <1>2. Reads(Seen, host) /\ Receiving(Seen, host, wish)
    BY SeenParts DEF HostInv, Reads, Receiving, Offers
  <1>3. /\ observed \in Hosts /\ Receiving(Seen, observed, wish) /\ Reads(Seen, observed)
        /\ observed.seen = wish.revision
        /\ Elsewhere(host, observed) /\ Textures(observed) = Textures(host)
    BY <1>1, <1>2, SeenParts, ObservePlaybackParts
  <1>4. Entered = next
    BY DEF Entered, Seen
  <1> HIDE DEF observed
  <1>5. st \in States /\ st.c = Seen /\ st.h = observed
    BY <1>3, SeenParts DEF States
  <1> HIDE DEF st
  <1>6. Sound(next) /\ Same(st, next) /\ Fewer(observed, next.h) /\ Current(next.h)
    BY <1>1, <1>3, <1>5, ApplyPlaybackParts
  <1> HIDE DEF next
  <1>7. Fewer(host, next.h)
    BY <1>3, <1>6 DEF Fewer
  <1>8. Same([c |-> Seen, h |-> host], next)
    BY <1>3, <1>5, <1>6 DEF Same, Takes, Elsewhere
  <1> QED
    BY <1>4, <1>6, <1>7, <1>8

LEMMA FrameServes ==
  ASSUME StreamTypes, HostInv,
         NEW visible \in BOOLEAN, NEW due \in BOOLEAN, NEW copied \in BOOLEAN,
         NEW gpu \in {"direct", "cpu", "short"}, Frame(visible, due, copied, gpu)
  PROVE  Serves(Seen, host, control', host') /\ host'.life = "up"
  <1> DEFINE entered == Entered
             consume == visible /\ wish.mode = "Play" /\ ~entered.h.clear
             polled == PollCopy(entered, consume, copied)
             configured == Configure(polled, due, gpu)
             stillDue == due /\ ~(Requested(polled, due) /\ gpu = "short")
             consumed == IF consume /\ configured.h.current # 0
                         THEN Consume(configured, stillDue, gpu) ELSE configured
             st == [c |-> Seen, h |-> host]
  <1>1. host.life = "up" /\ control' = consumed.c /\ host' = EndFrame(consumed.h, visible)
    BY DEF Frame
  <1>2. Sound(entered) /\ Current(entered.h) /\ Same(st, entered) /\ Fewer(host, entered.h)
    BY <1>1, EnteredParts
  <1>3. consume \in BOOLEAN /\ stillDue \in BOOLEAN
    OBVIOUS
  <1>4. st \in States /\ st.c = Seen /\ st.h = host
    BY SeenParts DEF StreamTypes, States
  <1> HIDE DEF entered, consume, st
  <1>5. Sound(polled) /\ Same(entered, polled) /\ Fewer(entered.h, polled.h) /\ Current(polled.h)
    BY <1>2, <1>3, PollCopyParts
  <1> HIDE DEF polled
  <1>6. /\ Same(polled, configured) \/ Renewed(polled, configured)
        /\ Fewer(polled.h, configured.h) /\ Current(configured.h)
        /\ Sound(configured)
    BY <1>5, ConfigureParts
  <1> HIDE DEF configured, stillDue
  <1>7. /\ Sound(consumed) /\ Same(configured, consumed) /\ Reaches(configured.h, consumed) /\ Current(consumed.h)
        /\ Untouched(configured.c) => consumed = configured
    <2>1. CASE consume /\ configured.h.current # 0
      BY <1>3, <1>6, <2>1, ConsumeParts
    <2>2. CASE ~(consume /\ configured.h.current # 0)
      <3>1. consumed = configured
        BY <2>2
      <3> QED
        BY <1>6, <3>1 DEF Same, Kept, SameHeader, SlotMove, Takes, Reaches
    <2> QED
      BY <2>1, <2>2
  <1> HIDE DEF consumed
  <1>8. /\ entered \in States /\ polled \in States /\ configured \in States /\ consumed \in States
        /\ consumed.c \in Headers /\ consumed.h \in Hosts
    BY <1>2, <1>5, <1>6, <1>7 DEF Sound, States
  <1>9. Same(st, polled) /\ Fewer(host, polled.h)
    BY <1>2, <1>4, <1>5, <1>8, SameTransitive, FewerTransitive
  <1>10. Reaches(host, consumed)
    BY <1>6, <1>7, <1>9, FewerTransitive, ReachesAfterFewer
  <1>11. Same(st, consumed) \/ Renewed(st, consumed)
    <2>1. CASE Same(polled, configured)
      BY <1>4, <1>7, <1>8, <1>9, <2>1, SameTransitive
    <2>2. CASE Renewed(polled, configured)
      <3>1. consumed = configured
        BY <1>7, <2>2 DEF Renewed, Succeeds
      <3> QED
        BY <1>9, <2>2, <3>1 DEF Renewed, Succeeds, Same, Kept, SameHeader
    <2> QED
      BY <1>6, <2>1, <2>2
  <1>12. Receiving(consumed.c, consumed.h, wish)
    <2>1. Commands(consumed.h, wish)
      <3>1. wish.revision \in Nat
        BY DEF StreamTypes
      <3> QED
        BY <1>7, <3>1 DEF Commands, Current
    <2> QED
      BY <1>7, <2>1 DEF Receiving, Sound
  <1> DEFINE k == EndFrame(consumed.h, visible)
  <1>13. /\ k \in Hosts /\ Reads(consumed.c, k) /\ Textures(k) = Textures(consumed.h)
         /\ Elsewhere(consumed.h, k) /\ Receiving(consumed.c, k, wish)
    BY <1>7, <1>8, <1>12, EndFrameParts DEF Sound
  <1> HIDE DEF k
  <1>14. Reaches(host, [c |-> consumed.c, h |-> k])
    BY <1>10, <1>13 DEF Reaches
  <1>15. CASE Same(st, consumed)
    <2>1. Kept(Seen, consumed.c) /\ Takes(Seen, host, k) /\ k.life = host.life /\ k.mapped = host.mapped
      BY <1>4, <1>13, <1>15 DEF Same, Takes, Elsewhere
    <2>2. ~Succeeds(Seen, consumed.c)
      BY <2>1, SeenParts DEF Kept, Succeeds, Headers
    <2> QED
      BY <1>1, <1>8, <1>13, <1>14, <2>1, <2>2 DEF Serves, k
  <1>16. CASE Renewed(st, consumed)
    <2>1. /\ Succeeds(Seen, consumed.c) /\ k.newest = 0 /\ k.late = {}
          /\ k.life = host.life /\ k.mapped = host.mapped
      BY <1>4, <1>13, <1>16 DEF Renewed, Elsewhere
    <2>2. ~Kept(Seen, consumed.c)
      BY <2>1, SeenParts DEF Kept, Succeeds, Headers
    <2> QED
      BY <1>1, <1>8, <1>13, <1>14, <2>1, <2>2 DEF Serves, k
  <1> QED
    BY <1>11, <1>15, <1>16

LEMMA FrameMissedServes ==
  ASSUME StreamTypes, HostInv, NEW visible \in BOOLEAN, FrameMissed(visible)
  PROVE  Serves(control, host, control', host') /\ host'.life = "up"
  <1> DEFINE observed == ObservePlayback(host)
             k == EndFrame(observed, visible)
  <1>1. host.life = "up" /\ host' = k /\ control' = control
    BY DEF FrameMissed
  <1>2. /\ host \in Hosts /\ control \in Headers /\ wish \in [mode : Modes, revision : Nat]
        /\ Reads(control, host) /\ Receiving(control, host, wish)
    BY <1>1 DEF StreamTypes, HostInv
  <1>3. /\ observed \in Hosts /\ Receiving(control, observed, wish) /\ Reads(control, observed)
        /\ Elsewhere(host, observed) /\ Textures(observed) = Textures(host)
    BY <1>2, ObservePlaybackParts
  <1> HIDE DEF observed
  <1>4. /\ k \in Hosts /\ Reads(control, k) /\ Textures(k) = Textures(observed)
        /\ Elsewhere(observed, k) /\ Receiving(control, k, wish)
    BY <1>2, <1>3, EndFrameParts
  <1> HIDE DEF k
  <1>5. Reaches(host, [c |-> control, h |-> k])
    BY <1>3, <1>4 DEF Reaches
  <1>6. Kept(control, control) /\ ~Succeeds(control, control) /\ Takes(control, host, k)
    BY <1>2, <1>3, <1>4 DEF Kept, SameHeader, SlotMove, Succeeds, Headers, Takes, Elsewhere
  <1> QED
    BY <1>1, <1>2, <1>3, <1>4, <1>5, <1>6 DEF Serves, Elsewhere

LEMMA DrawsDoneServes ==
  ASSUME StreamTypes, HostInv, host.mapped, DrawsDone
  PROVE  Serves(control, host, control', host')
  <1> DEFINE fence == IF host.fence = "pending" THEN "done" ELSE host.fence
             k == [host EXCEPT !.fence = fence, !.drawing = {}]
  <1>1. host' = k /\ control' = control
    BY DEF DrawsDone
  <1>2. host \in Hosts /\ control \in Headers /\ Reads(control, host)
    BY DEF StreamTypes, HostInv
  <1>3. fence \in {"none", "pending", "done"} /\ {} \in SUBSET (Nat \X SomeSlot)
    BY <1>2 DEF Hosts
  <1> HIDE DEF fence
  <1>4. /\ k \in Hosts /\ k.fence = fence /\ k.drawing = {} /\ k.display = host.display
        /\ k.hasImage = host.hasImage /\ k.copying = host.copying /\ k.current = host.current /\ k.cpu = host.cpu
        /\ Elsewhere(host, k) /\ Settled(host, k)
    BY <1>2, <1>3 DEF Hosts, Elsewhere, Settled
  <1> HIDE DEF k
  <1>5. Reads(control, k)
    BY <1>2, <1>4 DEF Reads, Shown
  <1>6. Reaches(host, [c |-> control, h |-> k])
    BY <1>4 DEF Reaches, Textures
  <1>7. host.life = "up" => Receiving(control, k, wish)
    BY <1>4 DEF HostInv, Receiving, Offers, Shows, Apart, Commands, Settled, Elsewhere
  <1>8. Kept(control, control) /\ ~Succeeds(control, control) /\ Takes(control, host, k)
    BY <1>2, <1>4 DEF Kept, SameHeader, SlotMove, Succeeds, Headers, Takes, Elsewhere
  <1> QED
    BY <1>1, <1>2, <1>4, <1>5, <1>6, <1>7, <1>8 DEF Serves, Elsewhere

LEMMA HostFailsServes ==
  ASSUME StreamTypes, HostInv, HostFails
  PROVE  \E c \in {Seen, control} : Serves(c, host, control', host')
  <1> DEFINE entered == IF mutex = "free" THEN Entered ELSE [c |-> control, h |-> ObservePlayback(host)]
             k == FailedReceiver(entered.h)
  <1>1. /\ host.life = "up" /\ host' = k
        /\ control' = [entered.c EXCEPT !.result = "Error"] \/ control' = entered.c
    BY DEF HostFails
  <1>2. /\ host \in Hosts /\ control \in Headers /\ wish \in [mode : Modes, revision : Nat]
        /\ Reads(control, host) /\ Receiving(control, host, wish) /\ host.mapped
    BY <1>1 DEF StreamTypes, HostInv
  <1>3. \E c \in {Seen, control} :
            /\ entered.c \in Headers /\ entered.h \in Hosts /\ Reads(entered.c, entered.h)
            /\ Fewer(host, entered.h) /\ Kept(c, entered.c)
    <2>1. CASE mutex = "free"
      <3>1. entered = Entered
        BY <2>1
      <3>2. Sound(Entered) /\ Same([c |-> Seen, h |-> host], Entered) /\ Fewer(host, Entered.h)
        BY <1>1, EnteredParts
      <3> QED
        BY <3>1, <3>2 DEF Sound, States, Same
    <2>2. CASE mutex # "free"
      <3> DEFINE observed == ObservePlayback(host)
      <3>1. entered = [c |-> control, h |-> observed]
        BY <2>2
      <3>2. observed \in Hosts /\ Reads(control, observed) /\ Textures(observed) = Textures(host)
        BY <1>2, ObservePlaybackParts
      <3> HIDE DEF observed, entered
      <3>3. Fewer(host, observed) /\ Kept(control, control)
        BY <3>2 DEF Fewer, Kept, SameHeader, SlotMove
      <3> QED
        BY <1>2, <3>1, <3>2, <3>3
    <2> QED
      BY <2>1, <2>2
  <1> HIDE DEF entered
  <1>4. /\ k \in Hosts /\ k.life = "failed" /\ k.mapped = TRUE /\ k.display = entered.h.display
        /\ k.drawing = entered.h.drawing /\ k.copying = entered.h.copying /\ k.current = entered.h.current
        /\ k.fence = entered.h.fence
    <2> DEFINE new == NewReceiver("failed")
    <2>1. new \in Hosts /\ new.life = "failed"
      BY DEF NewReceiver, Hosts, Displays, NoDisplay, SomeSlot, Modes
    <2>2. k = [new EXCEPT !.mapped = TRUE, !.display = entered.h.display, !.fence = entered.h.fence,
                          !.drawing = entered.h.drawing, !.copying = entered.h.copying, !.current = entered.h.current]
      BY DEF FailedReceiver
    <2> HIDE DEF new, k
    <2>3. /\ entered.h.display \in Displays /\ entered.h.fence \in {"none", "pending", "done"}
          /\ entered.h.drawing \in SUBSET (Nat \X SomeSlot) /\ entered.h.copying \in SomeSlot
          /\ entered.h.current \in Nat
      BY <1>3 DEF Hosts
    <2> QED
      BY <2>1, <2>2, <2>3 DEF Hosts
  <1> HIDE DEF k
  <1>5. PICK c \in {Seen, control} : Kept(c, entered.c)
    BY <1>3
  <1>6. control' \in Headers /\ Reads(control', k) /\ Kept(c, control')
    <2>1. control' = entered.c => control' \in Headers /\ Reads(control', k) /\ Kept(c, control')
      BY <1>3, <1>4, <1>5 DEF Reads, Shown
    <2>2. ASSUME control' = [entered.c EXCEPT !.result = "Error"]
          PROVE  control' \in Headers /\ Reads(control', k) /\ Kept(c, control')
      <3> DEFINE d == [entered.c EXCEPT !.result = "Error"]
      <3>1. /\ d \in Headers /\ SameHeader(entered.c, d) /\ d.generation = entered.c.generation
            /\ d.result # "Ok" /\ d.slots = entered.c.slots
        BY <1>3 DEF Headers, SameHeader
      <3> HIDE DEF d
      <3>2. Reads(d, k)
        BY <1>3, <1>4, <3>1 DEF Reads, Shown
      <3>3. Kept(c, d)
        BY <1>5, <3>1 DEF Kept, SameHeader
      <3> QED
        BY <2>2, <3>1, <3>2, <3>3 DEF d
    <2> QED
      BY <1>1, <2>1, <2>2
  <1>7. Reaches(host, [c |-> control', h |-> k])
    BY <1>3, <1>4 DEF Fewer, Reaches, Textures
  <1> QED
    BY <1>1, <1>2, <1>4, <1>5, <1>6, <1>7 DEF Serves

-----------------------------------------------------------------------------
(* Ownership.                                                               *)

LEMMA WrittenIs ==
  \A r : r \in Written <=>
            \/ r \in orphans
            \/ \E p \in Producers : /\ producer[p].session = control.session
                                    /\ \E s \in Held(p) : r = <<producer[p].generation, s>>
  BY DEF Written

\* In the current generation the states of the slots keep writers and readers apart.
ApartNow == host.mapped => \A r \in Written \cap Read : r[2] = NoSlot \/ r[1] # control.generation

LEMMA OwnedNow == StreamTypes /\ HostInv /\ ProducerInv /\ OrphanInv => ApartNow
  <1> SUFFICES ASSUME StreamTypes, HostInv, ProducerInv, OrphanInv, host.mapped,
                      NEW r \in Written \cap Read, r[2] # NoSlot, r[1] = control.generation
               PROVE  FALSE
    BY DEF ApartNow
  <1>1. Reads(control, host) /\ host \in Hosts /\ control \in Headers
    BY DEF HostInv, StreamTypes
  <1>2. r[2] \in Slots /\ control.slots[r[2]].state = "Reading"
    <2>1. \/ r = <<host.display.generation, host.display.slot>>
          \/ r = <<host.current, host.copying>>
      BY <1>1 DEF Read, Reads
    <2>2. r[2] \in Slots
      BY <1>1, <2>1 DEF Hosts, Displays, SomeSlot
    <2>3. r[2] \in Shown(host, control.generation)
      BY <1>1, <2>1, <2>2 DEF Reads, Shown
    <2> QED
      BY <1>1, <2>2, <2>3 DEF Reads
  <1>3. CASE r \in orphans
    BY <1>2, <1>3 DEF OrphanInv
  <1>4. ASSUME NEW p \in Producers, producer[p].session = control.session,
               NEW s \in Held(p), r = <<producer[p].generation, s>>
        PROVE  FALSE
    <2> DEFINE q == producer[p]
    <2>1. s \in q.pending \cup ({q.writing} \ {NoSlot}) /\ s = r[2] /\ q.generation = control.generation
      BY <1>4 DEF Held
    <2>2. q.registered /\ Orderly(q)
      BY <2>1 DEF ProducerInv, Idles
    <2>3. AtWork(q, control)
      BY <1>4, <2>1, <2>2 DEF AtWork, Orderly
    <2>4. Works(q, control)
      BY <2>2, <2>3 DEF ProducerInv
    <2> QED
      BY <1>2, <2>1, <2>4 DEF Works
  <1> QED
    BY <1>3, <1>4, WrittenIs

LEMMA OwnedNext == StreamTypes' /\ HostInv' /\ ProducerInv' /\ OrphanInv' => ApartNow'
  BY OwnedNow, PTL

ReadTypes == Read \subseteq Nat \X SomeSlot

LEMMA ReadTyped == StreamTypes => ReadTypes
  BY DEF StreamTypes, Hosts, Displays, Read, ReadTypes

LEMMA ReadTypedNext == StreamTypes' => ReadTypes'
  BY ReadTyped, PTL

\* Nothing is read in an older generation that was not read there before, and nothing new is written there.
LEMMA OwnershipStep ==
  ASSUME PixelOwnership, StreamTypes', HostInv', ProducerInv', OrphanInv', host'.mapped => host.mapped,
         \A r \in Read' : r[2] = NoSlot \/ r[1] = control'.generation \/ r \in Read,
         \A r \in Written' : r[1] = control'.generation \/ r \in Written
  PROVE  PixelOwnership'
  <1> SUFFICES ASSUME host'.mapped, NEW r \in Written' \cap Read', r \notin Nat \X {NoSlot}
               PROVE  FALSE
    BY DEF PixelOwnership
  <1>1. r[2] # NoSlot
    BY ReadTypedNext DEF ReadTypes
  <1>2. r[1] # control'.generation
    BY <1>1, OwnedNext DEF ApartNow
  <1>3. r \in Written \cap Read /\ host.mapped
    BY <1>1, <1>2
  <1> QED
    BY <1>3 DEF PixelOwnership

-----------------------------------------------------------------------------
(* The invariant: steps of the receiver.                                    *)

\* Whoever has work in this session is connected.
LEMMA ServedOnesAreSeen ==
  ASSUME StreamTypes, ProducerInv, NEW c \in {Seen, control}
  PROVE  /\ c \in Headers /\ c.session = control.session /\ c.generation = control.generation
         /\ c.result = control.result /\ c.slots = control.slots /\ c.epoch = control.epoch
         /\ c.pid = control.pid \/ c.pid = NoOne
         /\ \A p \in Producers : control.pid = p /\ producer[p].registered => c.pid = p
  <1>1. c.pid = IF ProducerConnected \/ c = control THEN control.pid ELSE NoOne
    BY SeenParts
  <1>2. ASSUME NEW p \in Producers, control.pid = p, producer[p].registered
        PROVE  ProducerConnected
    BY <1>2, StreamAssumption DEF ProducerInv, ProducerConnected
  <1> QED
    BY <1>1, <1>2, SeenParts DEF StreamTypes

LEMMA ServedStep ==
  ASSUME IInv, host.mapped, NEW c \in {Seen, control}, Serves(c, host, control', host'),
         UNCHANGED <<lease, producer, wish, orphans>>, mutex' \in {"free", "abandoned"}
  PROVE  IInv'
  <1>1. /\ StreamTypes /\ HostInv /\ ProducerInv /\ TakenInv /\ OrphanInv /\ PixelOwnership
        /\ control' \in Headers /\ host' \in Hosts /\ Reads(control', host') /\ host'.mapped
        /\ control \in Headers /\ host \in Hosts
    BY DEF IInv, Serves, StreamTypes
  <1>2. /\ c \in Headers /\ c.session = control.session /\ c.generation = control.generation
        /\ c.result = control.result /\ c.slots = control.slots
        /\ c.pid = control.pid \/ c.pid = NoOne
        /\ \A p \in Producers : control.pid = p /\ producer[p].registered => c.pid = p
    BY <1>1, ServedOnesAreSeen
  <1>3. StreamTypes'
    BY <1>1 DEF StreamTypes
  <1>4. HostInv'
    BY <1>1 DEF HostInv, Serves
  <1>5. \A s \in Slots : control.slots[s] \in SlotTypes /\ control'.slots[s] \in SlotTypes
    BY <1>1 DEF Headers
  <1>6. CASE Kept(c, control')
    <2>1. /\ control'.session = control.session /\ control'.generation = control.generation
          /\ control'.pid = c.pid
          /\ control'.result = "Ok" => control.result = "Ok"
      BY <1>2, <1>6 DEF Kept, SameHeader
    <2>2. \A s \in Slots :
             LET x == control.slots[s]
                 y == control'.slots[s] IN
             /\ y.state = "Ready" => y = x
             /\ x.state \in {"Writing", "Pending"} \/ y.state \in {"Writing", "Pending"} => y = x
             /\ x = FreeSlot => y = FreeSlot
             /\ y.frame \in {0, x.frame}
      BY <1>2, <1>5, <1>6, SlotMoves DEF Kept
    <2>3. ProducerInv'
      <3> SUFFICES ASSUME NEW p \in Producers, producer[p].registered
                   PROVE  LET q == producer[p] IN
                          /\ q.open /\ lease = p
                          /\ Orderly(q) /\ Placed(p, q, control')
                          /\ AtWork(q, control') => Works(q, control')
                          /\ Awaited(p, q, control') => Untouched(control')
        BY <1>1 DEF ProducerInv
      <3> DEFINE q == producer[p]
      <3>1. /\ q.open /\ lease = p /\ Orderly(q) /\ Placed(p, q, control) /\ q \in ProducerTypes
            /\ AtWork(q, control) => Works(q, control)
            /\ Awaited(p, q, control) => Untouched(control)
        BY <1>1 DEF ProducerInv, StreamTypes
      <3> HIDE DEF q
      <3>2. Placed(p, q, control')
        BY <1>2, <2>1, <3>1, StreamAssumption DEF Placed, q
      <3>3. AtWork(q, control') => Works(q, control')
        <4>1. AtWork(q, control') => AtWork(q, control)
          BY <2>1 DEF AtWork
        <4>2. Works(q, control) => Works(q, control')
          <5> SUFFICES ASSUME Works(q, control), NEW s \in Slots
                       PROVE  LET slot == control'.slots[s] IN
                              /\ slot.state = "Writing" <=> s = q.writing \/ s \in q.discard
                              /\ slot.state = "Pending" <=> s \in q.pending \ q.discard
                              /\ slot.frame <= q.lastFrame
            BY DEF Works
          <5>1. control'.slots[s].frame <= q.lastFrame
            BY <2>2, <3>1 DEF Works, ProducerTypes
          <5> QED
            BY <2>2, <5>1 DEF Works
        <4> QED
          BY <3>1, <4>1, <4>2
      <3>4. Awaited(p, q, control') => Untouched(control')
        <4>1. Awaited(p, q, control') => Awaited(p, q, control)
          BY <1>2, <2>1, StreamAssumption DEF Awaited
        <4> QED
          BY <2>2, <3>1, <4>1 DEF Untouched
      <3> QED
        BY <3>1, <3>2, <3>3, <3>4 DEF q
    <2>4. TakenInv'
      <3> SUFFICES ASSUME host'.life = "up", NEW p \in Producers
                   PROVE  LET q == producer[p] IN
                          /\ AtWork(q, control') =>
                                /\ host'.newest <= q.lastFrame
                                /\ \A s \in Slots : control'.slots[s].state = "Pending" =>
                                      control'.slots[s].frame > host'.newest \/ control'.slots[s].frame \in host'.late
                          /\ q.registered /\ Awaited(p, q, control') => host'.newest = 0
        BY DEF TakenInv
      <3> DEFINE q == producer[p]
      <3>1. /\ host.life = "up"
            /\ Takes(c, host, host')
            /\ q \in ProducerTypes
        BY <1>1, <1>6 DEF Serves, StreamTypes
      <3> HIDE DEF q
      <3>2. ASSUME AtWork(q, control')
            PROVE  /\ host'.newest <= q.lastFrame
                   /\ \A s \in Slots : control'.slots[s].state = "Pending" =>
                         control'.slots[s].frame > host'.newest \/ control'.slots[s].frame \in host'.late
        <4>1. AtWork(q, control) /\ q.registered
          BY <1>1, <2>1, <3>2 DEF AtWork, ProducerInv, Idles, q
        <4>2. /\ Works(q, control) /\ host.newest <= q.lastFrame
              /\ \A s \in Slots : control.slots[s].state = "Pending" =>
                    control.slots[s].frame > host.newest \/ control.slots[s].frame \in host.late
          BY <1>1, <3>1, <4>1 DEF ProducerInv, TakenInv, q
        <4>3. CASE Takes(c, host, host')
          <5>1. host'.newest <= q.lastFrame
            BY <1>2, <4>2, <4>3 DEF Takes, Works
          <5>2. ASSUME NEW s \in Slots, control'.slots[s].state = "Pending"
                PROVE  control'.slots[s].frame > host'.newest \/ control'.slots[s].frame \in host'.late
            <6>1. control'.slots[s] = control.slots[s] /\ control.slots[s].state = "Pending"
              BY <2>2, <5>2
            <6> QED
              BY <1>2, <4>2, <4>3, <6>1 DEF Takes
          <5> QED
            BY <5>1, <5>2
        <4> QED
          BY <3>1, <4>3
      <3>3. ASSUME q.registered, Awaited(p, q, control')
            PROVE  host'.newest = 0
        <4>1. Awaited(p, q, control)
          BY <1>2, <2>1, <3>3, StreamAssumption DEF Awaited
        <4>2. Untouched(control) /\ host.newest = 0
          BY <1>1, <3>1, <3>3, <4>1 DEF ProducerInv, TakenInv, q
        <4>3. \A s \in Slots : c.slots[s].state # "Ready"
          BY <1>2, <4>2 DEF Untouched, FreeSlot
        <4> QED
          BY <3>1, <4>2, <4>3 DEF Takes
      <3> QED
        BY <3>2, <3>3 DEF q
    <2>5. OrphanInv'
      <3>1. \A p \in Producers : /\ AtWork(producer[p], control') => AtWork(producer[p], control)
                                 /\ Awaited(p, producer[p], control') => Awaited(p, producer[p], control)
        BY <1>2, <2>1, StreamAssumption DEF AtWork, Awaited
      <3>2. orphans \in SUBSET (Nat \X Slots)
        BY <1>1 DEF StreamTypes
      <3> QED
        BY <1>1, <2>1, <2>2, <3>1, <3>2 DEF OrphanInv
    <2>6. PixelOwnership'
      <3>1. \A r \in Read' : r[2] = NoSlot \/ r[1] = control'.generation \/ r \in Read
        BY DEF Serves, Reaches, Read, Textures
      <3>2. Written' = Written
        BY <2>1 DEF Written, Held
      <3> QED
        BY <1>1, <1>3, <1>4, <2>3, <2>5, <3>1, <3>2, OwnershipStep
    <2> QED
      BY <1>3, <1>4, <2>3, <2>4, <2>5, <2>6 DEF IInv
  <1>7. CASE Succeeds(c, control')
    <2>1. /\ control'.session = control.session /\ control'.generation = control.generation + 1
          /\ control'.pid = c.pid /\ c.pid # NoOne /\ control.generation \in Nat
          /\ Untouched(control')
      BY <1>1, <1>2, <1>7 DEF Succeeds, SameHeader, Headers
    <2>2. \A p \in Producers : ~AtWork(producer[p], control')
      <3> SUFFICES ASSUME NEW p \in Producers, AtWork(producer[p], control')
                   PROVE  FALSE
        OBVIOUS
      <3>1. producer[p].registered
        BY <1>1, <2>1 DEF AtWork, ProducerInv, Idles
      <3>2. Placed(p, producer[p], control)
        BY <1>1, <3>1 DEF ProducerInv
      <3> QED
        BY <2>1, <3>2 DEF Placed, AtWork
    <2>3. ProducerInv'
      <3> SUFFICES ASSUME NEW p \in Producers, producer[p].registered
                   PROVE  Placed(p, producer[p], control')
        BY <1>1, <2>1, <2>2 DEF ProducerInv
      <3>1. Placed(p, producer[p], control) /\ producer[p] \in ProducerTypes
        BY <1>1 DEF ProducerInv, StreamTypes
      <3>2. producer[p].generation \in Nat
        BY <3>1 DEF ProducerTypes
      <3> QED
        BY <1>2, <2>1, <3>1, <3>2, StreamAssumption DEF Placed
    <2>4. TakenInv'
      BY <1>7, <2>2 DEF TakenInv, Serves
    <2>5. OrphanInv'
      <3>1. \A o \in orphans : o[1] < control'.generation
        BY <1>1, <2>1 DEF OrphanInv, StreamTypes
      <3>2. orphans \in SUBSET (Nat \X Slots)
        BY <1>1 DEF StreamTypes
      <3> QED
        BY <1>1, <2>1, <2>2, <3>1, <3>2 DEF OrphanInv
    <2>6. PixelOwnership'
      <3>1. \A r \in Read' : r[2] = NoSlot \/ r[1] = control'.generation \/ r \in Read
        BY DEF Serves, Reaches, Read, Textures
      <3>2. Written' = Written
        BY <2>1 DEF Written, Held
      <3> QED
        BY <1>1, <1>3, <1>4, <2>3, <2>5, <3>1, <3>2, OwnershipStep
    <2> QED
      BY <1>3, <1>4, <2>3, <2>4, <2>5, <2>6 DEF IInv
  <1> QED
    BY <1>6, <1>7 DEF Serves

LEMMA NewHeader ==
  ASSUME NEW n \in Nat, NEW alive \in BOOLEAN
  PROVE  LET d == Header(n, alive) IN
         /\ d \in Headers /\ d.session = n /\ d.generation = 0 /\ d.pid = NoOne /\ d.epoch = 1
         /\ Untouched(d)
  <1> DEFINE slots == [s \in Slots |-> FreeSlot]
  <1>1. slots \in [Slots -> SlotTypes] /\ \A s \in Slots : slots[s] = FreeSlot
    BY DEF SlotTypes, FreeSlot, SlotStates
  <1> HIDE DEF slots
  <1>2. Header(n, alive) =
          [session |-> n, host |-> alive, generation |-> 0, epoch |-> 1, pid |-> NoOne,
           wanted |-> FALSE, serial |-> 0, result |-> "Ok", slots |-> slots]
    BY DEF Header, slots
  <1> QED
    BY <1>1, <1>2 DEF Headers, Untouched

LEMMA FreshReceiver ==
  ASSUME NEW life \in {"absent", "up", "failed"}
  PROVE  LET k == NewReceiver(life) IN
         /\ k \in Hosts /\ k.life = life /\ k.mapped = (life = "up") /\ k.display = NoDisplay
         /\ k.hasImage = FALSE /\ k.fence = "none" /\ k.drawing = {} /\ k.copying = NoSlot /\ k.current = 0
         /\ k.cpu = FALSE /\ k.revision = 0 /\ k.seen = 0 /\ k.newest = 0
  BY DEF NewReceiver, Hosts, Displays, NoDisplay, SomeSlot, Modes

LEMMA FreshReads ==
  ASSUME NEW c \in Headers, c.generation = 0, Untouched(c)
  PROVE  Reads(c, NewReceiver("up"))
  <1> DEFINE k == NewReceiver("up")
  <1>1. k.display = NoDisplay /\ k.drawing = {} /\ k.copying = NoSlot /\ k.current = 0
    BY FreshReceiver
  <1> HIDE DEF k
  <1>2. Shown(k, 0) = {}
    BY <1>1, SlotsAreFinite DEF Shown, NoDisplay
  <1> QED
    BY <1>1, <1>2 DEF Reads, Untouched, FreeSlot, k

\* Without a receiver that has its textures only the producers matter.
LEMMA NobodyReads ==
  ASSUME StreamTypes', ProducerInv', host'.mapped = FALSE, host'.life # "up"
  PROVE  IInv'
  BY DEF IInv, HostInv, TakenInv, OrphanInv, PixelOwnership

LEMMA HostStartStep ==
  ASSUME IInv, HostStart
  PROVE  IInv'
  <1>1. /\ StreamTypes /\ ProducerInv /\ control \in Headers /\ lease' = lease /\ producer' = producer
        /\ wish' = wish /\ mutex' = "free"
    BY DEF IInv, StreamTypes, HostStart
  <1>2. CASE host' = NewReceiver("failed") /\ UNCHANGED <<control, orphans>>
    <2>1. host' \in Hosts /\ host'.life = "failed" /\ host'.mapped = FALSE
      BY <1>2, FreshReceiver
    <2>2. StreamTypes'
      BY <1>1, <1>2, <2>1 DEF StreamTypes
    <2>3. ProducerInv'
      BY <1>1, <1>2 DEF ProducerInv
    <2> QED
      BY <2>1, <2>2, <2>3, NobodyReads
  <1>3. CASE /\ control' = Header(control.session + 1, TRUE)
             /\ host' = NewReceiver("up")
             /\ orphans' = {}
    <2> DEFINE n == control.session + 1
    <2>1. n \in Nat /\ control.session \in Nat /\ control.session < n /\ n # 0
      BY <1>1 DEF Headers
    <2>2. /\ control' \in Headers /\ control'.session = n /\ control'.generation = 0
          /\ control'.pid = NoOne /\ control'.epoch = 1 /\ Untouched(control')
      BY <1>3, <2>1, NewHeader
    <2>3. /\ host' \in Hosts /\ host'.life = "up" /\ host'.mapped /\ host'.hasImage = FALSE
          /\ host'.display = NoDisplay /\ host'.copying = NoSlot /\ host'.cpu = FALSE
          /\ host'.revision = 0 /\ host'.seen = 0
      BY <1>3, FreshReceiver
    <2>4. StreamTypes'
      BY <1>1, <1>3, <2>2, <2>3 DEF StreamTypes
    <2>5. \A p \in Producers : producer[p] \in ProducerTypes /\ producer[p].session \in Nat
      BY <1>1 DEF StreamTypes, ProducerTypes
    <2>6. \A p \in Producers : ~AtWork(producer[p], control') /\ ~Awaited(p, producer[p], control')
      BY <2>2 DEF AtWork, Awaited
    <2>7. \A p \in Producers : producer[p].session < n
      <3> TAKE p \in Producers
      <3>1. producer[p].session <= control.session
        BY <1>1, <2>1, <2>5 DEF ProducerInv, Idles, Placed
      <3> QED
        BY <2>1, <2>5, <3>1
    <2> HIDE DEF n
    <2>8. ProducerInv'
      <3> SUFFICES ASSUME NEW p \in Producers, producer[p].registered
                   PROVE  Placed(p, producer[p], control')
        BY <1>1, <2>6 DEF ProducerInv
      <3> QED
        BY <2>1, <2>2, <2>5, <2>7 DEF Placed
    <2>9. HostInv'
      <3>1. Reads(control', host')
        BY <1>3, <2>2, FreshReads
      <3>2. Offers(control', host')
        BY <2>2 DEF Offers, Untouched, FreeSlot
      <3>3. Shows(host') /\ Apart(host') /\ Commands(host', wish')
        BY <1>1, <2>3, <2>4 DEF Shows, Apart, Commands, StreamTypes, Hosts, NoDisplay
      <3> QED
        BY <2>3, <3>1, <3>2, <3>3 DEF HostInv, Receiving
    <2>10. TakenInv' /\ OrphanInv'
      BY <1>1, <1>3, <2>6 DEF TakenInv, OrphanInv
    <2>11. Written' = {}
      <3>1. \A p \in Producers : producer'[p].session # control'.session
        BY <1>1, <2>1, <2>2, <2>5, <2>7
      <3> QED
        BY <1>3, <3>1 DEF Written
    <2>12. PixelOwnership'
      BY <2>11 DEF PixelOwnership
    <2> QED
      BY <2>4, <2>8, <2>9, <2>10, <2>12 DEF IInv
  <1> QED
    BY <1>2, <1>3 DEF HostStart

\* A header that changes where no producer looks, or one that nobody has mapped any more.
LEMMA ProducersKept ==
  ASSUME ProducerInv, NEW c, c.session = control.session, c.generation = control.generation,
         c.pid = control.pid, c.result = control.result, c.slots = control.slots,
         control' = KeepMapping(c, host'.mapped, producer), UNCHANGED <<lease, producer>>
  PROVE  ProducerInv'
  <1>1. CASE control' = c
    BY <1>1 DEF ProducerInv, Placed, AtWork, Works, Awaited, Untouched
  <1>2. CASE \A p \in Producers : ~producer[p].open
    BY <1>2 DEF ProducerInv
  <1> QED
    BY <1>1, <1>2 DEF KeepMapping, Mapped

LEMMA HostStopStep ==
  ASSUME IInv, HostStop
  PROVE  IInv'
  <1>1. /\ StreamTypes /\ ProducerInv /\ control \in Headers /\ UNCHANGED <<lease, producer, wish, orphans>>
        /\ host' = NewReceiver("absent")
    BY DEF IInv, StreamTypes, HostStop
  <1>2. host' \in Hosts /\ host'.life = "absent" /\ host'.mapped = FALSE
    BY <1>1, FreshReceiver
  <1>3. PICK cleared \in BOOLEAN, held \in BOOLEAN :
           /\ control' = KeepMapping(
                 [control EXCEPT !.host = @ /\ ~(host.mapped /\ (cleared \/ held))], FALSE, producer)
           /\ mutex' = IF held /\ Mapped(FALSE, producer) THEN "abandoned" ELSE
                       IF host.mapped THEN "free" ELSE mutex
    BY DEF HostStop
  <1> DEFINE alive == control.host /\ ~(host.mapped /\ (cleared \/ held))
             c == [control EXCEPT !.host = alive]
  <1>4. alive \in BOOLEAN
    OBVIOUS
  <1>5. control' = KeepMapping(c, FALSE, producer)
    BY <1>1, <1>3 DEF Headers
  <1> HIDE DEF alive
  <1>6. /\ c \in Headers /\ c.session = control.session /\ c.generation = control.generation
        /\ c.pid = control.pid /\ c.result = control.result /\ c.slots = control.slots
    BY <1>1, <1>4 DEF Headers
  <1> HIDE DEF c
  <1>7. ProducerInv'
    BY <1>1, <1>2, <1>5, <1>6, ProducersKept
  <1>8. StreamTypes'
    <2>1. Unmapped \in Headers
      BY NewHeader DEF Unmapped
    <2>2. control' \in Headers
      BY <1>5, <1>6, <2>1 DEF KeepMapping
    <2>3. mutex' \in {"free", "abandoned"}
      BY <1>1, <1>3 DEF StreamTypes
    <2> QED
      BY <1>1, <1>2, <2>2, <2>3 DEF StreamTypes
  <1> QED
    BY <1>2, <1>7, <1>8, NobodyReads

LEMMA CommandStep ==
  ASSUME IInv, NEW mode \in Modes, Command(mode)
  PROVE  IInv'
  <1>1. /\ wish' \in [mode : Modes, revision : Nat] /\ wish'.revision >= wish.revision
        /\ wish \in [mode : Modes, revision : Nat] /\ host \in Hosts
        /\ UNCHANGED <<control, mutex, lease, producer, host, orphans>>
    <2> DEFINE n == wish.revision + IF mode = "Stop" THEN 1 ELSE 0
    <2>1. wish \in [mode : Modes, revision : Nat] /\ host \in Hosts
      BY DEF IInv, StreamTypes
    <2>2. n \in Nat /\ n >= wish.revision
      BY <2>1
    <2>3. wish' = [mode |-> mode, revision |-> n] /\ UNCHANGED <<control, mutex, lease, producer, host, orphans>>
      BY DEF Command
    <2> HIDE DEF n
    <2> QED
      BY <2>1, <2>2, <2>3
  <1>2. StreamTypes'
    BY <1>1 DEF IInv, StreamTypes
  <1>3. host.life = "up" => Commands(host, wish')
    BY <1>1 DEF IInv, HostInv, Receiving, Commands, Hosts
  <1>4. HostInv'
    BY <1>1, <1>3 DEF IInv, HostInv, Receiving
  <1>5. ProducerInv' /\ TakenInv' /\ OrphanInv'
    BY <1>1 DEF IInv, ProducerInv, TakenInv, OrphanInv
  <1>6. PixelOwnership'
    BY <1>1 DEF IInv, PixelOwnership, Written, Read, Held
  <1> QED
    BY <1>2, <1>4, <1>5, <1>6 DEF IInv

LEMMA HostSteps ==
  ASSUME IInv, HostStep
  PROVE  IInv'
  <1>1. StreamTypes /\ HostInv
    BY DEF IInv
  <1>2. mutex \in {"free", "abandoned"} /\ control \in {Seen, control} /\ Seen \in {Seen, control}
    BY <1>1 DEF StreamTypes
  <1>3. ASSUME NEW visible \in BOOLEAN, NEW due \in BOOLEAN, NEW copied \in BOOLEAN,
               NEW gpu \in {"direct", "cpu", "short"}, Frame(visible, due, copied, gpu)
        PROVE  IInv'
    <2>1. host.mapped /\ UNCHANGED <<mutex, lease, producer, wish, orphans>>
      BY <1>1, <1>3 DEF Frame, HostInv
    <2>2. Serves(Seen, host, control', host')
      BY <1>1, <1>3, FrameServes
    <2> QED
      BY <1>2, <2>1, <2>2, ServedStep
  <1>4. ASSUME NEW visible \in BOOLEAN, FrameMissed(visible)
        PROVE  IInv'
    <2>1. host.mapped /\ UNCHANGED <<mutex, lease, producer, wish, orphans>>
      BY <1>1, <1>4 DEF FrameMissed, HostInv
    <2>2. Serves(control, host, control', host')
      BY <1>1, <1>4, FrameMissedServes
    <2> QED
      BY <1>2, <2>1, <2>2, ServedStep
  <1>5. CASE DrawsDone
    <2>1. UNCHANGED <<mutex, lease, producer, wish, orphans, control>>
      BY <1>5 DEF DrawsDone
    <2>2. CASE host.mapped
      <3>1. Serves(control, host, control', host')
        BY <1>1, <1>5, <2>2, DrawsDoneServes
      <3> QED
        BY <1>2, <2>1, <2>2, <3>1, ServedStep
    <2>3. CASE ~host.mapped
      <3> DEFINE fence == IF host.fence = "pending" THEN "done" ELSE host.fence
                 k == [host EXCEPT !.fence = fence, !.drawing = {}]
      <3>1. host' = k
        BY <1>5 DEF DrawsDone
      <3>2. fence \in {"none", "pending", "done"} /\ host \in Hosts /\ {} \in SUBSET (Nat \X SomeSlot)
        BY <1>1 DEF StreamTypes, Hosts
      <3> HIDE DEF fence
      <3>3. k \in Hosts /\ k.mapped = host.mapped /\ k.life = host.life
        BY <3>2 DEF Hosts
      <3> HIDE DEF k
      <3>4. StreamTypes'
        BY <1>1, <2>1, <3>1, <3>3 DEF StreamTypes
      <3>5. ProducerInv'
        BY <2>1 DEF IInv, ProducerInv
      <3>6. host'.mapped = FALSE /\ host'.life # "up"
        BY <1>1, <2>3, <3>1, <3>2, <3>3 DEF HostInv, Hosts
      <3> QED
        BY <3>4, <3>5, <3>6, NobodyReads
    <2> QED
      BY <2>2, <2>3
  <1>6. CASE HostFails
    <2>1. host.mapped /\ UNCHANGED <<lease, producer, wish, orphans>> /\ mutex' = "free"
      BY <1>1, <1>6 DEF HostFails, HostInv
    <2>2. \E c \in {Seen, control} : Serves(c, host, control', host')
      BY <1>1, <1>6, HostFailsServes
    <2> QED
      BY <2>1, <2>2, ServedStep
  <1> QED
    BY <1>3, <1>4, <1>5, <1>6, HostStartStep, HostStopStep DEF HostStep

-----------------------------------------------------------------------------
(* The invariant: steps of the producers.                                   *)

LEMMA OthersIdle ==
  ASSUME StreamTypes, ProducerInv, NEW p \in Producers, producer[p].registered
  PROVE  /\ lease = p
         /\ \A x \in Producers \ {p} : ~producer[x].registered /\ Idles(producer[x])
  BY DEF ProducerInv

LEMMA AbandonedIsWritten ==
  ASSUME StreamTypes, ProducerInv, NEW p \in Producers, NEW o \in Abandoned(p)
  PROVE  /\ o \in Written /\ o \in Nat \X Slots
         /\ producer[p].registered /\ producer[p].session = control.session
         /\ o[1] = producer[p].generation /\ o[1] # 0 /\ o[1] <= control.generation
         /\ control.pid = p
         /\ o[2] \in Held(p)
  <1> DEFINE q == producer[p]
  <1>1. q.session = control.session /\ o \in {<<q.generation, s>> : s \in Held(p)} /\ q \in ProducerTypes
    BY DEF Abandoned, StreamTypes
  <1>2. PICK s \in Held(p) : o = <<q.generation, s>>
    BY <1>1
  <1>3. s \in q.pending \/ (s = q.writing /\ s # NoSlot)
    BY <1>2 DEF Held
  <1>4. s \in Slots /\ q.generation \in Nat
    BY <1>1, <1>3 DEF ProducerTypes, SomeSlot
  <1>5. q.registered /\ Orderly(q) /\ Placed(p, q, control)
    BY <1>3 DEF ProducerInv, Idles
  <1>6. q.generation # 0
    BY <1>3, <1>5 DEF Orderly
  <1>7. q.generation <= control.generation /\ control.pid = p
    BY <1>1, <1>5, <1>6 DEF Placed
  <1> QED
    BY <1>1, <1>2, <1>4, <1>5, <1>6, <1>7, WrittenIs

WrittenBySomeone ==
    \A r \in Written :
        \/ r \in orphans
        \/ \E p \in Producers : /\ producer[p].session = control.session
                                /\ \E s \in Held(p) : r = <<producer[p].generation, s>>

LEMMA WrittenNext == WrittenBySomeone'
  <1>1. WrittenBySomeone
    BY WrittenIs DEF WrittenBySomeone
  <1> QED
    BY <1>1, PTL

\* A registered producer that goes on.
LEMMA ActiveStep ==
  ASSUME IInv, NEW p \in Producers, producer[p].registered,
         NEW q \in ProducerTypes, q.open, q.registered, producer' = [producer EXCEPT ![p] = q],
         control' \in Headers, control'.session = control.session, control'.generation = control.generation,
         control'.epoch = control.epoch,
         UNCHANGED <<lease, host, wish>>, mutex' \in {"free", "abandoned"},
         \A s \in Slots : control'.slots[s].state = "Reading" <=> control.slots[s].state = "Reading",
         host.life = "up" => Offers(control', host),
         Orderly(q), Placed(p, q, control'),
         AtWork(q, control') => Works(q, control'),
         Awaited(p, q, control') => Untouched(control'),
         host.life = "up" /\ AtWork(q, control') =>
            /\ host.newest <= q.lastFrame
            /\ \A s \in Slots : control'.slots[s].state = "Pending" =>
                  control'.slots[s].frame > host.newest \/ control'.slots[s].frame \in host.late,
         host.life = "up" /\ Awaited(p, q, control') => host.newest = 0,
         orphans' \in SUBSET (Nat \X Slots),
         host.mapped => \A o \in orphans' :
            /\ o[1] <= control'.generation
            /\ o[1] = control'.generation => control'.slots[o[2]].state \in {"Writing", "Pending"}
            /\ AtWork(q, control') \/ Awaited(p, q, control') => o[1] # control'.generation,
         orphans' \subseteq Written,
         q.session = control.session => \A s \in q.pending \cup ({q.writing} \ {NoSlot}) :
            \/ q.generation = control.generation
            \/ q.generation = producer[p].generation /\ q.session = producer[p].session /\ s \in Held(p)
  PROVE  IInv'
  <1>1. /\ StreamTypes /\ HostInv /\ ProducerInv /\ TakenInv /\ OrphanInv /\ PixelOwnership
        /\ producer \in [Producers -> ProducerTypes] /\ control \in Headers /\ host \in Hosts
    BY DEF IInv, StreamTypes
  <1>2. lease = p /\ \A x \in Producers \ {p} : ~producer[x].registered /\ Idles(producer[x])
    BY <1>1, OthersIdle
  <1>3. producer'[p] = q /\ \A x \in Producers \ {p} : producer'[x] = producer[x]
    BY <1>1
  <1>4. StreamTypes'
    BY <1>1 DEF StreamTypes
  <1>5. HostInv'
    BY <1>1 DEF HostInv, Receiving, Reads
  <1>6. \A x \in Producers \ {p} : ~AtWork(producer'[x], control') /\ ~producer'[x].registered
    BY <1>2, <1>3 DEF Idles, AtWork
  <1>7. ProducerInv'
    BY <1>2, <1>3 DEF ProducerInv
  <1>8. TakenInv'
    BY <1>3, <1>6 DEF TakenInv
  <1>9. OrphanInv'
    BY <1>3, <1>6 DEF OrphanInv
  <1>10. PixelOwnership'
    <2>1. \A r \in Written' : r[1] = control'.generation \/ r \in Written
      <3> TAKE r \in Written'
      <3>1. CASE r \in orphans'
        BY <3>1
      <3>2. ASSUME NEW x \in Producers, producer'[x].session = control'.session,
                   NEW s \in Held(x)', r = <<producer'[x].generation, s>>
            PROVE  r[1] = control'.generation \/ r \in Written
        <4>1. CASE x = p
          <5>1. s \in q.pending \cup ({q.writing} \ {NoSlot})
            BY <1>3, <3>2, <4>1 DEF Held
          <5> QED
            BY <1>3, <3>2, <4>1, <5>1, WrittenIs
        <4>2. CASE x # p
          <5>1. Held(x)' = Held(x)
            BY <1>3, <4>2 DEF Held
          <5> QED
            BY <1>3, <3>2, <4>2, <5>1, WrittenIs
        <4> QED
          BY <4>1, <4>2
      <3> QED
        BY <3>1, <3>2, WrittenNext DEF WrittenBySomeone
    <2>2. \A r \in Read' : r \in Read
      BY DEF Read
    <2> QED
      BY <1>1, <1>4, <1>5, <1>7, <1>9, <2>1, <2>2, OwnershipStep
  <1> QED
    BY <1>4, <1>5, <1>7, <1>8, <1>9, <1>10 DEF IInv

\* What is known of a registered producer before its step.
LEMMA ActiveParts ==
  ASSUME IInv, NEW p \in Producers, producer[p].registered
  PROVE  LET q == producer[p] IN
         /\ q \in ProducerTypes /\ q.open /\ Orderly(q) /\ Placed(p, q, control)
         /\ AtWork(q, control) => Works(q, control)
         /\ Awaited(p, q, control) => Untouched(control)
         /\ host.life = "up" => Offers(control, host)
         /\ host.life = "up" /\ AtWork(q, control) =>
               /\ host.newest <= q.lastFrame
               /\ \A s \in Slots : control.slots[s].state = "Pending" =>
                     control.slots[s].frame > host.newest \/ control.slots[s].frame \in host.late
         /\ host.life = "up" /\ Awaited(p, q, control) => host.newest = 0
         /\ orphans \in SUBSET (Nat \X Slots) /\ orphans \subseteq Written
         /\ host.mapped => \A o \in orphans :
               /\ o[1] <= control.generation
               /\ o[1] = control.generation => control.slots[o[2]].state \in {"Writing", "Pending"}
               /\ AtWork(q, control) \/ Awaited(p, q, control) => o[1] # control.generation
         /\ control \in Headers /\ \A s \in Slots : control.slots[s] \in SlotTypes
         /\ host \in Hosts
         /\ wish \in [mode : Modes, revision : Nat]
  <1>1. StreamTypes /\ HostInv /\ ProducerInv /\ TakenInv /\ OrphanInv
    BY DEF IInv
  <1>2. orphans \subseteq Written
    BY WrittenIs
  <1>3. control \in Headers /\ \A s \in Slots : control.slots[s] \in SlotTypes
    BY <1>1 DEF StreamTypes, Headers
  <1>4. host.life = "up" => Offers(control, host)
    BY <1>1 DEF HostInv, Receiving
  <1> QED
    BY <1>1, <1>2, <1>3, <1>4 DEF StreamTypes, ProducerInv, TakenInv, OrphanInv

LEMMA Unmoved ==
  ASSUME IInv, UNCHANGED vars
  PROVE  IInv'
  BY DEF IInv, vars, StreamTypes, HostInv, ProducerInv, TakenInv, OrphanInv, PixelOwnership, Written, Read, Held

LEMMA ReopenStep ==
  ASSUME IInv, NEW p \in Producers, producer[p].registered,
         Connected(p, control), control.result = "Ok", control.generation # 0,
         producer[p].generation # control.generation,
         control' = control, producer' = [producer EXCEPT ![p] = Reopened(producer[p], control)],
         orphans' = orphans \cup Abandoned(p), UNCHANGED <<lease, host, wish, mutex>>
  PROVE  IInv'
  <1> DEFINE x == producer[p]
             q == Reopened(x, control)
  <1>1. /\ x \in ProducerTypes /\ x.open /\ Orderly(x) /\ Placed(p, x, control)
        /\ Awaited(p, x, control) => Untouched(control)
        /\ host.life = "up" => Offers(control, host)
        /\ host.life = "up" /\ Awaited(p, x, control) => host.newest = 0
        /\ orphans \in SUBSET (Nat \X Slots) /\ orphans \subseteq Written
        /\ host.mapped => \A o \in orphans :
              /\ o[1] <= control.generation
              /\ Awaited(p, x, control) => o[1] # control.generation
        /\ control \in Headers
    BY ActiveParts
  <1>2. Awaited(p, x, control)
    BY DEF Awaited, Connected
  <1>3. control.session \in Nat /\ control.generation \in Nat
    BY <1>1 DEF Headers
  <1>4. /\ q \in ProducerTypes /\ q.open = x.open /\ q.registered = x.registered /\ q.session = control.session
        /\ q.generation = control.generation /\ q.writing = NoSlot /\ q.pending = {} /\ q.order = {}
        /\ q.discard = {} /\ q.acquiring = FALSE /\ q.lastFrame = x.lastFrame
    BY <1>1, <1>3 DEF Reopened, ProducerTypes, SomeSlot
  <1> HIDE DEF q
  <1>5. Orderly(q)
    BY <1>4 DEF Orderly
  <1>6. AtWork(q, control) /\ ~Awaited(p, q, control)
    BY <1>4 DEF AtWork, Awaited
  <1>7. Untouched(control) /\ Works(q, control)
    <2>1. \A s \in Slots : control.slots[s] = FreeSlot /\ s # NoSlot
      BY <1>1, <1>2, SlotsAreFinite DEF Untouched
    <2>2. q.lastFrame \in Nat
      BY <1>4 DEF ProducerTypes
    <2> QED
      BY <1>1, <1>2, <1>4, <2>1, <2>2 DEF Works, FreeSlot
  <1>8. Placed(p, q, control)
    BY <1>3, <1>4 DEF Placed, Connected
  <1>9. \A o \in Abandoned(p) : o \in Written /\ o \in Nat \X Slots /\ o[1] <= control.generation /\ o[1] # control.generation
    BY AbandonedIsWritten DEF IInv
  <1>10. /\ orphans' \in SUBSET (Nat \X Slots) /\ orphans' \subseteq Written
         /\ host.mapped => \A o \in orphans' : o[1] <= control.generation /\ o[1] # control.generation
    <2>1. Abandoned(p) \subseteq Nat \X Slots /\ Abandoned(p) \subseteq Written
      BY <1>9
    <2>2. host.mapped => \A o \in orphans : o[1] <= control.generation /\ o[1] # control.generation
      BY <1>1, <1>2
    <2> QED
      BY <1>1, <1>9, <2>1, <2>2
  <1>11. host.life = "up" => /\ host.newest <= q.lastFrame
                             /\ \A s \in Slots : control.slots[s].state # "Pending"
    <2>1. q.lastFrame \in Nat
      BY <1>4 DEF ProducerTypes
    <2> QED
      BY <1>1, <1>2, <1>7, <2>1 DEF Untouched, FreeSlot
  <1>12. mutex' \in {"free", "abandoned"}
    BY DEF IInv, StreamTypes
  <1> QED
    BY <1>1, <1>4, <1>5, <1>6, <1>7, <1>8, <1>10, <1>11, <1>12, ActiveStep DEF q

LEMMA CompleteStep ==
  ASSUME IInv, NEW p \in Producers, producer[p].registered, NEW S \in Completions(p), NEW acquire \in BOOLEAN,
         Connected(p, control), control.generation # 0,
         producer[p].generation = control.generation,
         control' = [control EXCEPT !.slots = [s \in Slots |->
                IF s \notin S THEN control.slots[s]
                ELSE IF CompletedState(producer[p], s, control) = "Free" THEN FreeSlot
                ELSE [control.slots[s] EXCEPT !.state = "Ready"]]],
         producer' = [producer EXCEPT ![p] =
                [producer[p] EXCEPT !.pending = @ \ S, !.discard = @ \ S,
                          !.order = @ \ {e \in @ : e[1] \in S \/ e[2] \in S},
                          !.acquiring = acquire /\ producer[p].writing = NoSlot]],
         UNCHANGED <<orphans, lease, host, wish, mutex>>
  PROVE  IInv'
  <1> DEFINE x == producer[p]
             slots == [s \in Slots |->
                IF s \notin S THEN control.slots[s]
                ELSE IF CompletedState(x, s, control) = "Free" THEN FreeSlot
                ELSE [control.slots[s] EXCEPT !.state = "Ready"]]
             order == x.order \ {e \in x.order : e[1] \in S \/ e[2] \in S}
             acquiring == acquire /\ x.writing = NoSlot
             pending == x.pending \ S
             discard == x.discard \ S
             q == [x EXCEPT !.pending = pending, !.discard = discard, !.order = order, !.acquiring = acquiring]
             d == [control EXCEPT !.slots = slots]
  <1>1. /\ x \in ProducerTypes /\ x.open /\ Orderly(x) /\ Placed(p, x, control)
        /\ AtWork(x, control) => Works(x, control)
        /\ host.life = "up" => Offers(control, host)
        /\ host.life = "up" /\ AtWork(x, control) =>
              /\ host.newest <= x.lastFrame
              /\ \A s \in Slots : control.slots[s].state = "Pending" =>
                    control.slots[s].frame > host.newest \/ control.slots[s].frame \in host.late
        /\ orphans \in SUBSET (Nat \X Slots) /\ orphans \subseteq Written
        /\ host.mapped => \A o \in orphans :
              /\ o[1] <= control.generation
              /\ AtWork(x, control) => o[1] # control.generation
        /\ control \in Headers /\ \A s \in Slots : control.slots[s] \in SlotTypes
    BY ActiveParts
  <1>2. AtWork(x, control) /\ Works(x, control)
    <2>1. AtWork(x, control)
      BY <1>1 DEF Placed, AtWork
    <2> QED
      BY <1>1, <2>1
  <1>3. S \subseteq x.pending /\ x.pending \subseteq Slots
    BY <1>1 DEF Completions, ProducerTypes
  <1>4. /\ order \subseteq pending \X pending /\ order \in SUBSET (Slots \X Slots)
        /\ acquiring \in BOOLEAN /\ (acquiring => x.writing = NoSlot)
        /\ pending \in SUBSET Slots /\ discard \in SUBSET Slots /\ discard \subseteq pending
    BY <1>1, <1>3 DEF Orderly, ProducerTypes
  <1>5. producer' = [producer EXCEPT ![p] = q] /\ control' = d
    BY <1>1 DEF ProducerTypes
  <1>6. \A s \in Slots : /\ slots[s] \in SlotTypes
                         /\ s \notin S => slots[s] = control.slots[s]
                         /\ s \in S => \/ slots[s] = FreeSlot
                                       \/ /\ s \notin x.discard /\ slots[s].state = "Ready"
                                          /\ slots[s].frame = control.slots[s].frame
                                          /\ slots[s].epoch = control.slots[s].epoch
                                          /\ slots[s].stops = control.slots[s].stops
    <2> TAKE s \in Slots
    <2>1. CASE s \notin S
      BY <1>1, <2>1
    <2>2. CASE s \in S /\ CompletedState(x, s, control) = "Free"
      BY <2>2 DEF FreeSlot, SlotTypes, SlotStates
    <2>3. CASE s \in S /\ CompletedState(x, s, control) # "Free"
      <3>1. s \notin x.discard
        BY <2>3 DEF CompletedState
      <3>2. slots[s] = [control.slots[s] EXCEPT !.state = "Ready"]
        BY <2>3
      <3> HIDE DEF slots
      <3> QED
        BY <1>1, <2>3, <3>1, <3>2 DEF SlotTypes, SlotStates
    <2> QED
      BY <2>1, <2>2, <2>3
  <1>7. slots \in [Slots -> SlotTypes]
    BY <1>6
  <1> HIDE DEF slots, order, acquiring, pending, discard
  <1>8. /\ q \in ProducerTypes /\ q.open = x.open /\ q.registered = x.registered /\ q.session = x.session
        /\ q.generation = x.generation /\ q.writing = x.writing /\ q.pending = pending /\ q.order = order
        /\ q.discard = discard /\ q.acquiring = acquiring /\ q.lastFrame = x.lastFrame
    BY <1>1, <1>4 DEF ProducerTypes
  <1>9. /\ d \in Headers /\ d.session = control.session /\ d.generation = control.generation
        /\ d.epoch = control.epoch /\ d.pid = control.pid /\ d.slots = slots
    BY <1>1, <1>7 DEF Headers
  <1> HIDE DEF q, d
  <1>10. Orderly(q)
    <2>1. pending \subseteq x.pending
      BY DEF pending
    <2> QED
      BY <1>1, <1>2, <1>4, <1>8, <2>1 DEF Orderly, AtWork
  <1>11. Placed(p, q, d) /\ AtWork(q, d) /\ ~Awaited(p, q, d)
    BY <1>1, <1>2, <1>8, <1>9 DEF Placed, AtWork, Awaited
  <1>12. \A s \in S : s # x.writing /\ control.slots[s].state \in {"Writing", "Pending"}
                      /\ (s \notin x.discard => control.slots[s].state = "Pending")
    <2> TAKE s \in S
    <2>1. s \in Slots /\ s \in x.pending /\ s # x.writing
      BY <1>1, <1>3 DEF Orderly
    <2> QED
      BY <1>2, <2>1 DEF Works
  <1>13. Works(q, d)
    <2> SUFFICES ASSUME NEW s \in Slots
                 PROVE  /\ slots[s].state = "Writing" <=> s = x.writing \/ s \in discard
                        /\ slots[s].state = "Pending" <=> s \in pending \ discard
                        /\ slots[s].frame <= x.lastFrame
      BY <1>8, <1>9 DEF Works
    <2>1. /\ control.slots[s].state = "Writing" <=> s = x.writing \/ s \in x.discard
          /\ control.slots[s].state = "Pending" <=> s \in x.pending \ x.discard
          /\ control.slots[s].frame <= x.lastFrame
      BY <1>2 DEF Works
    <2>2. x.lastFrame \in Nat
      BY <1>1 DEF ProducerTypes
    <2>3. CASE s \notin S
      BY <1>6, <2>1, <2>3 DEF pending, discard
    <2>4. CASE s \in S
      BY <1>6, <1>12, <2>1, <2>2, <2>4 DEF pending, discard, FreeSlot
    <2> QED
      BY <2>3, <2>4
  <1>14. \A s \in Slots : d.slots[s].state = "Reading" <=> control.slots[s].state = "Reading"
    BY <1>6, <1>9, <1>12 DEF FreeSlot
  <1>15. host.life = "up" => Offers(d, host)
    <2> SUFFICES ASSUME host.life = "up", NEW s \in Slots
                 PROVE  /\ slots[s].epoch <= control.epoch
                        /\ slots[s].epoch = control.epoch => slots[s].stops >= host.revision
                        /\ slots[s].state = "Ready" /\ slots[s].epoch = control.epoch
                           => slots[s].frame > host.newest \/ slots[s].frame \in host.late
      BY <1>9 DEF Offers
    <2>1. /\ control.slots[s].epoch <= control.epoch
          /\ control.slots[s].epoch = control.epoch => control.slots[s].stops >= host.revision
          /\ control.slots[s].state = "Ready" /\ control.slots[s].epoch = control.epoch
             => control.slots[s].frame > host.newest \/ control.slots[s].frame \in host.late
      BY <1>1 DEF Offers
    <2>2. CASE s \notin S
      BY <1>6, <2>1, <2>2
    <2>3. CASE s \in S /\ slots[s] = FreeSlot
      <3>1. control.epoch \in Nat \ {0}
        BY <1>1 DEF Headers
      <3> QED
        BY <2>3, <3>1 DEF FreeSlot
    <2>4. CASE s \in S /\ slots[s] # FreeSlot
      <3>1. control.slots[s].state = "Pending"
        BY <1>6, <1>12, <2>4
      <3>2. control.slots[s].frame > host.newest \/ control.slots[s].frame \in host.late
        BY <1>1, <1>2, <3>1
      <3> QED
        BY <1>6, <2>1, <2>4, <3>2
    <2> QED
      BY <2>2, <2>3, <2>4
  <1>16. host.life = "up" =>
            /\ host.newest <= q.lastFrame
            /\ \A s \in Slots : d.slots[s].state = "Pending" =>
                  d.slots[s].frame > host.newest \/ d.slots[s].frame \in host.late
    <2>1. \A s \in Slots : d.slots[s].state = "Pending" => d.slots[s] = control.slots[s]
      BY <1>6, <1>9 DEF FreeSlot
    <2> QED
      BY <1>1, <1>2, <1>8, <2>1
  <1>17. mutex' \in {"free", "abandoned"}
    BY DEF IInv, StreamTypes
  <1>18. host.mapped => \A o \in orphans : o[1] <= control.generation /\ o[1] # control.generation
    BY <1>1, <1>2
  <1>19. /\ control' \in Headers /\ control'.session = control.session /\ control'.generation = control.generation
         /\ control'.epoch = control.epoch
         /\ \A s \in Slots : control'.slots[s].state = "Reading" <=> control.slots[s].state = "Reading"
         /\ host.life = "up" => Offers(control', host)
         /\ Placed(p, q, control') /\ Works(q, control') /\ ~Awaited(p, q, control')
         /\ host.life = "up" =>
               /\ host.newest <= q.lastFrame
               /\ \A s \in Slots : control'.slots[s].state = "Pending" =>
                     control'.slots[s].frame > host.newest \/ control'.slots[s].frame \in host.late
    BY <1>5, <1>9, <1>11, <1>13, <1>14, <1>15, <1>16
  <1>20. /\ orphans' \in SUBSET (Nat \X Slots) /\ orphans' \subseteq Written
         /\ host.mapped => \A o \in orphans' : o[1] <= control'.generation /\ o[1] # control'.generation
    BY <1>1, <1>18, <1>19
  <1>21. q \in ProducerTypes /\ q.open /\ q.registered /\ q.generation = control.generation
    BY <1>1, <1>8
  <1> QED
    BY <1>5, <1>10, <1>17, <1>19, <1>20, <1>21, ActiveStep

LEMMA SynchronizeStep ==
  ASSUME IInv, NEW p \in Producers, producer[p].registered, NEW S \in Completions(p), NEW acquire \in BOOLEAN,
         Synchronize(p, control, producer[p], S, acquire), UNCHANGED <<lease, host, wish>>
  PROVE  IInv'
  <1>1. CASE /\ control' = control
             /\ producer' = [producer EXCEPT ![p] = producer[p]]
             /\ UNCHANGED orphans
    <2>1. producer' = producer
      BY <1>1 DEF IInv, StreamTypes
    <2> QED
      BY <1>1, <2>1, Unmoved DEF vars, Synchronize
  <1>2. CASE /\ Connected(p, control) /\ control.result = "Ok" /\ control.generation # 0
             /\ producer[p].generation # control.generation
             /\ control' = control
             /\ producer' = [producer EXCEPT ![p] = Reopened(producer[p], control)]
             /\ orphans' = orphans \cup Abandoned(p)
    BY <1>2, ReopenStep DEF Synchronize
  <1>3. CASE /\ Connected(p, control) /\ control.result = "Ok" /\ control.generation # 0
             /\ producer[p].generation = control.generation
             /\ control' = [control EXCEPT !.slots = [s \in Slots |->
                   IF s \notin S THEN control.slots[s]
                   ELSE IF CompletedState(producer[p], s, control) = "Free" THEN FreeSlot
                   ELSE [control.slots[s] EXCEPT !.state = "Ready"]]]
             /\ producer' = [producer EXCEPT ![p] =
                   [producer[p] EXCEPT !.pending = @ \ S, !.discard = @ \ S,
                             !.order = @ \ {e \in @ : e[1] \in S \/ e[2] \in S},
                             !.acquiring = acquire /\ producer[p].writing = NoSlot]]
             /\ UNCHANGED orphans
    BY <1>3, CompleteStep DEF Synchronize
  <1> QED
    BY <1>1, <1>2, <1>3 DEF Synchronize

LEMMA AcquireStep ==
  ASSUME IInv, NEW p \in Producers, Acquire(p)
  PROVE  IInv'
  <1> DEFINE x == producer[p]
             s0 == FindWritable(control)
  <1>1. x.acquiring /\ UNCHANGED <<lease, host, wish, orphans>>
    BY DEF Acquire
  <1>2. x.registered
    BY <1>1 DEF IInv, ProducerInv, Idles
  <1>3. /\ x \in ProducerTypes /\ x.open /\ Orderly(x) /\ Placed(p, x, control)
        /\ AtWork(x, control) => Works(x, control)
        /\ Awaited(p, x, control) => Untouched(control)
        /\ host.life = "up" => Offers(control, host)
        /\ host.life = "up" /\ AtWork(x, control) =>
              /\ host.newest <= x.lastFrame
              /\ \A s \in Slots : control.slots[s].state = "Pending" =>
                    control.slots[s].frame > host.newest \/ control.slots[s].frame \in host.late
        /\ host.life = "up" /\ Awaited(p, x, control) => host.newest = 0
        /\ orphans \in SUBSET (Nat \X Slots) /\ orphans \subseteq Written
        /\ host.mapped => \A o \in orphans :
              /\ o[1] <= control.generation
              /\ o[1] = control.generation => control.slots[o[2]].state \in {"Writing", "Pending"}
              /\ AtWork(x, control) \/ Awaited(p, x, control) => o[1] # control.generation
        /\ control \in Headers /\ \A s \in Slots : control.slots[s] \in SlotTypes
        /\ host \in Hosts
        /\ wish \in [mode : Modes, revision : Nat]
    BY <1>2, ActiveParts
  <1>4. x.writing = NoSlot /\ x.generation # 0
    BY <1>1, <1>3 DEF Orderly
  <1>5. CASE /\ producer' = [producer EXCEPT ![p].acquiring = FALSE]
             /\ mutex' = "free"
             /\ UNCHANGED control
    <2> DEFINE q == [x EXCEPT !.acquiring = FALSE]
    <2>1. producer' = [producer EXCEPT ![p] = q]
      BY <1>5
    <2>2. /\ q \in ProducerTypes /\ q.open = x.open /\ q.registered = x.registered /\ q.session = x.session
          /\ q.generation = x.generation /\ q.writing = x.writing /\ q.pending = x.pending /\ q.order = x.order
          /\ q.discard = x.discard /\ q.acquiring = FALSE /\ q.lastFrame = x.lastFrame
      BY <1>3 DEF ProducerTypes
    <2> HIDE DEF q
    <2>3. Orderly(q) /\ Placed(p, q, control)
      BY <1>3, <2>2 DEF Orderly, Placed
    <2>4. /\ AtWork(q, control) <=> AtWork(x, control)
          /\ Awaited(p, q, control) <=> Awaited(p, x, control)
          /\ Works(q, control) <=> Works(x, control)
      BY <2>2 DEF AtWork, Awaited, Works
    <2>5. \A s \in q.pending \cup ({q.writing} \ {NoSlot}) : s \in Held(p)
      BY <2>2 DEF Held
    <2> QED
      BY <1>1, <1>2, <1>3, <1>5, <2>1, <2>2, <2>3, <2>4, <2>5, ActiveStep
  <1>6. CASE /\ mutex = "free" /\ control.generation = x.generation /\ s0 # NoSlot
             /\ control' = [control EXCEPT !.slots[s0] =
                   [state |-> "Writing", frame |-> 0, epoch |-> control.epoch, stops |-> wish.revision]]
             /\ producer' = [producer EXCEPT ![p].acquiring = FALSE, ![p].writing = s0]
             /\ UNCHANGED mutex
    <2> DEFINE q == [x EXCEPT !.acquiring = FALSE, !.writing = s0]
               slot == [state |-> "Writing", frame |-> 0, epoch |-> control.epoch, stops |-> wish.revision]
               slots == [control.slots EXCEPT ![s0] = slot]
               d == [control EXCEPT !.slots = slots]
    <2>1. s0 \in Slots /\ control.slots[s0].state \in {"Free", "Ready"}
      BY <1>3, <1>6, WritableSlot
    <2> HIDE DEF s0
    <2>2. producer' = [producer EXCEPT ![p] = q] /\ control' = d
      BY <1>3, <1>6 DEF IInv, StreamTypes
    <2>3. slot \in SlotTypes /\ slot.state = "Writing" /\ slot.frame = 0 /\ slot.epoch = control.epoch
          /\ slot.stops = wish.revision
      BY <1>3 DEF SlotTypes, SlotStates, Headers
    <2> HIDE DEF slot
    <2>4. /\ slots \in [Slots -> SlotTypes] /\ slots[s0] = slot
          /\ \A s \in Slots \ {s0} : slots[s] = control.slots[s]
      BY <1>3, <2>1, <2>3 DEF Headers
    <2> HIDE DEF slots
    <2>5. /\ q \in ProducerTypes /\ q.open = x.open /\ q.registered = x.registered /\ q.session = x.session
          /\ q.generation = x.generation /\ q.writing = s0 /\ q.pending = x.pending /\ q.order = x.order
          /\ q.discard = x.discard /\ q.acquiring = FALSE /\ q.lastFrame = x.lastFrame
      BY <1>3, <2>1 DEF ProducerTypes, SomeSlot
    <2>6. /\ d \in Headers /\ d.session = control.session /\ d.generation = control.generation
          /\ d.epoch = control.epoch /\ d.pid = control.pid /\ d.slots = slots /\ d.result = control.result
      BY <1>3, <2>4 DEF Headers
    <2> HIDE DEF q, d
    <2>7. AtWork(x, control) /\ Works(x, control)
      <3>1. AtWork(x, control)
        BY <1>3, <1>4, <1>6 DEF Placed, AtWork
      <3> QED
        BY <1>3, <3>1
    <2>8. s0 \notin x.pending /\ s0 # NoSlot
      BY <1>6, <2>1, <2>7 DEF Works
    <2>9. Orderly(q) /\ Placed(p, q, d) /\ AtWork(q, d) /\ ~Awaited(p, q, d)
      BY <1>3, <1>4, <2>5, <2>6, <2>7, <2>8 DEF Orderly, Placed, AtWork, Awaited
    <2>10. Works(q, d)
      <3> SUFFICES ASSUME NEW s \in Slots
                   PROVE  /\ slots[s].state = "Writing" <=> s = s0 \/ s \in x.discard
                          /\ slots[s].state = "Pending" <=> s \in x.pending \ x.discard
                          /\ slots[s].frame <= x.lastFrame
        BY <2>5, <2>6 DEF Works
      <3>1. x.lastFrame \in Nat
        BY <1>3 DEF ProducerTypes
      <3>2. CASE s = s0
        BY <2>3, <2>4, <2>8, <3>1, <3>2
      <3>3. CASE s # s0
        BY <1>4, <2>4, <2>7, <3>3, SlotsAreFinite DEF Works
      <3> QED
        BY <3>2, <3>3
    <2>11. \A s \in Slots : d.slots[s].state = "Reading" <=> control.slots[s].state = "Reading"
      BY <2>1, <2>3, <2>4, <2>6
    <2>12. host.life = "up" => Offers(d, host)
      <3>1. host.life = "up" => wish.revision >= host.revision
        BY <1>3 DEF IInv, HostInv, Receiving, Commands, Hosts
      <3> SUFFICES ASSUME host.life = "up", NEW s \in Slots
                   PROVE  /\ slots[s].epoch <= control.epoch
                          /\ slots[s].epoch = control.epoch => slots[s].stops >= host.revision
                          /\ slots[s].state = "Ready" /\ slots[s].epoch = control.epoch
                             => slots[s].frame > host.newest \/ slots[s].frame \in host.late
        BY <2>6 DEF Offers
      <3>2. CASE s = s0
        <4>1. control.epoch \in Nat
          BY <1>3 DEF Headers
        <4> QED
          BY <2>3, <2>4, <3>1, <3>2, <4>1
      <3>3. CASE s # s0
        BY <1>3, <2>4, <3>3 DEF Offers
      <3> QED
        BY <3>2, <3>3
    <2>13. host.life = "up" =>
              /\ host.newest <= q.lastFrame
              /\ \A s \in Slots : d.slots[s].state = "Pending" =>
                    d.slots[s].frame > host.newest \/ d.slots[s].frame \in host.late
      <3>1. \A s \in Slots : d.slots[s].state = "Pending" => d.slots[s] = control.slots[s]
        BY <2>3, <2>4, <2>6
      <3> QED
        BY <1>3, <2>5, <2>7, <3>1
    <2>14. /\ control' \in Headers /\ control'.session = control.session /\ control'.generation = control.generation
           /\ control'.epoch = control.epoch
           /\ \A s \in Slots : control'.slots[s].state = "Reading" <=> control.slots[s].state = "Reading"
           /\ host.life = "up" => Offers(control', host)
           /\ Placed(p, q, control') /\ Works(q, control') /\ ~Awaited(p, q, control')
           /\ host.life = "up" =>
                 /\ host.newest <= q.lastFrame
                 /\ \A s \in Slots : control'.slots[s].state = "Pending" =>
                       control'.slots[s].frame > host.newest \/ control'.slots[s].frame \in host.late
      BY <2>2, <2>6, <2>9, <2>10, <2>11, <2>12, <2>13
    <2>15. /\ orphans' \in SUBSET (Nat \X Slots) /\ orphans' \subseteq Written
           /\ host.mapped => \A o \in orphans' : o[1] <= control'.generation /\ o[1] # control'.generation
      BY <1>1, <1>3, <2>7, <2>14
    <2>16. q \in ProducerTypes /\ q.open /\ q.registered /\ q.generation = control.generation
      BY <1>2, <1>3, <1>6, <2>5
    <2>17. mutex' \in {"free", "abandoned"}
      BY <1>6
    <2> QED
      BY <1>1, <1>2, <2>2, <2>9, <2>14, <2>15, <2>16, <2>17, ActiveStep
  <1> QED
    BY <1>5, <1>6 DEF Acquire

LEMMA SubmittedParts ==
  ASSUME NEW x \in ProducerTypes, x.writing # NoSlot, Orderly(x)
  PROVE  LET q == Submitted(x) IN
         /\ q \in ProducerTypes /\ q.open = x.open /\ q.registered = x.registered /\ q.session = x.session
         /\ q.generation = x.generation /\ q.writing = NoSlot /\ q.pending = x.pending \cup {x.writing}
         /\ q.order \subseteq q.pending \X q.pending
         /\ q.discard = x.discard /\ q.acquiring = FALSE /\ q.lastFrame = x.lastFrame
  <1> DEFINE pending == x.pending \cup {x.writing}
             order == x.order \cup (x.pending \X {x.writing})
             q == [x EXCEPT !.pending = pending, !.order = order, !.writing = NoSlot]
  <1>1. Submitted(x) = q
    BY DEF Submitted
  <1>2. pending \in SUBSET Slots
    BY DEF ProducerTypes, SomeSlot
  <1>3. order \subseteq pending \X pending
    BY DEF Orderly
  <1>4. order \in SUBSET (Slots \X Slots)
    BY <1>2, <1>3
  <1> HIDE DEF pending, order
  <1>5. /\ q \in ProducerTypes /\ q.open = x.open /\ q.registered = x.registered /\ q.session = x.session
        /\ q.generation = x.generation /\ q.writing = NoSlot /\ q.pending = pending /\ q.order = order
        /\ q.discard = x.discard /\ q.acquiring = x.acquiring /\ q.lastFrame = x.lastFrame
    BY <1>2, <1>4 DEF ProducerTypes, SomeSlot
  <1>6. x.acquiring = FALSE
    BY DEF Orderly, ProducerTypes
  <1> QED
    BY <1>1, <1>3, <1>5, <1>6 DEF pending

LEMMA CancelStep ==
  ASSUME IInv, NEW p \in Producers, Cancel(p)
  PROVE  IInv'
  <1> DEFINE x == producer[p]
             sent == Submitted(x)
             discard == sent.discard \cup {x.writing}
             q == [sent EXCEPT !.discard = discard]
  <1>1. /\ x.writing # NoSlot /\ UNCHANGED <<control, mutex, lease, host, wish, orphans>>
        /\ producer' = [producer EXCEPT ![p] = q]
    BY DEF Cancel
  <1>2. x.registered
    BY <1>1 DEF IInv, ProducerInv, Idles
  <1>3. /\ x \in ProducerTypes /\ x.open /\ Orderly(x) /\ Placed(p, x, control)
        /\ AtWork(x, control) => Works(x, control)
        /\ Awaited(p, x, control) => Untouched(control)
        /\ host.life = "up" => Offers(control, host)
        /\ host.life = "up" /\ AtWork(x, control) =>
              /\ host.newest <= x.lastFrame
              /\ \A s \in Slots : control.slots[s].state = "Pending" =>
                    control.slots[s].frame > host.newest \/ control.slots[s].frame \in host.late
        /\ host.life = "up" /\ Awaited(p, x, control) => host.newest = 0
        /\ orphans \in SUBSET (Nat \X Slots) /\ orphans \subseteq Written
        /\ host.mapped => \A o \in orphans :
              /\ o[1] <= control.generation
              /\ o[1] = control.generation => control.slots[o[2]].state \in {"Writing", "Pending"}
              /\ AtWork(x, control) \/ Awaited(p, x, control) => o[1] # control.generation
        /\ control \in Headers
    BY <1>2, ActiveParts
  <1>4. /\ sent \in ProducerTypes /\ sent.open = x.open /\ sent.registered = x.registered
        /\ sent.session = x.session
        /\ sent.generation = x.generation /\ sent.writing = NoSlot /\ sent.pending = x.pending \cup {x.writing}
        /\ sent.order \subseteq sent.pending \X sent.pending
        /\ sent.discard = x.discard /\ sent.acquiring = FALSE /\ sent.lastFrame = x.lastFrame
    BY <1>1, <1>3, SubmittedParts
  <1> HIDE DEF sent
  <1>5. x.writing \in Slots
    BY <1>1, <1>3 DEF ProducerTypes, SomeSlot
  <1>6. discard \in SUBSET Slots
    BY <1>4, <1>5 DEF ProducerTypes
  <1> HIDE DEF discard
  <1>7. /\ q \in ProducerTypes /\ q.open = x.open /\ q.registered = x.registered /\ q.session = x.session
        /\ q.generation = x.generation /\ q.writing = NoSlot /\ q.pending = x.pending \cup {x.writing}
        /\ q.order \subseteq q.pending \X q.pending
        /\ q.discard = discard /\ q.acquiring = FALSE /\ q.lastFrame = x.lastFrame
    BY <1>4, <1>6 DEF ProducerTypes
  <1> HIDE DEF q
  <1>8. discard = x.discard \cup {x.writing}
    BY <1>4 DEF discard
  <1>9. x.generation # 0
    BY <1>1, <1>3 DEF Orderly
  <1>10. Orderly(q) /\ Placed(p, q, control)
    BY <1>3, <1>5, <1>7, <1>8, <1>9, SlotsAreFinite DEF Orderly, Placed, ProducerTypes
  <1>11. Works(x, control) => Works(q, control)
    BY <1>3, <1>5, <1>7, <1>8, SlotsAreFinite DEF Works, Orderly
  <1>12. /\ AtWork(q, control) <=> AtWork(x, control)
         /\ Awaited(p, q, control) <=> Awaited(p, x, control)
    BY <1>7 DEF AtWork, Awaited
  <1>13. \A s \in q.pending \cup ({q.writing} \ {NoSlot}) : s \in Held(p)
    BY <1>1, <1>7 DEF Held
  <1>14. mutex' \in {"free", "abandoned"}
    BY <1>1 DEF IInv, StreamTypes
  <1> QED
    BY <1>1, <1>2, <1>3, <1>7, <1>10, <1>11, <1>12, <1>13, <1>14, ActiveStep

LEMMA PublishStep ==
  ASSUME IInv, NEW p \in Producers, Publish(p)
  PROVE  IInv'
  <1> DEFINE x == producer[p]
  <1>1. x.writing # NoSlot /\ mutex = "free" /\ UNCHANGED <<mutex, lease, host, wish>>
    BY DEF Publish
  <1>2. x.registered
    BY <1>1 DEF IInv, ProducerInv, Idles
  <1>3. /\ x \in ProducerTypes /\ x.open /\ Orderly(x) /\ Placed(p, x, control)
        /\ AtWork(x, control) => Works(x, control)
        /\ Awaited(p, x, control) => Untouched(control)
        /\ host.life = "up" => Offers(control, host)
        /\ host.life = "up" /\ AtWork(x, control) =>
              /\ host.newest <= x.lastFrame
              /\ \A s \in Slots : control.slots[s].state = "Pending" =>
                    control.slots[s].frame > host.newest \/ control.slots[s].frame \in host.late
        /\ host.life = "up" /\ Awaited(p, x, control) => host.newest = 0
        /\ orphans \in SUBSET (Nat \X Slots) /\ orphans \subseteq Written
        /\ host.mapped => \A o \in orphans :
              /\ o[1] <= control.generation
              /\ o[1] = control.generation => control.slots[o[2]].state \in {"Writing", "Pending"}
              /\ AtWork(x, control) \/ Awaited(p, x, control) => o[1] # control.generation
        /\ control \in Headers /\ \A s \in Slots : control.slots[s] \in SlotTypes
        /\ host \in Hosts
    BY <1>2, ActiveParts
  <1>4. x.generation # 0 /\ x.writing \in Slots /\ ~x.acquiring /\ x.lastFrame \in Nat
    BY <1>1, <1>3 DEF Orderly, ProducerTypes, SomeSlot
  <1>5. CASE /\ control.generation # x.generation
             /\ producer' = [producer EXCEPT ![p].writing = NoSlot]
             /\ orphans' = orphans \cup Abandoned(p)
             /\ UNCHANGED control
    <2> DEFINE q == [x EXCEPT !.writing = NoSlot]
    <2>1. producer' = [producer EXCEPT ![p] = q]
      BY <1>5
    <2>2. /\ q \in ProducerTypes /\ q.open = x.open /\ q.registered = x.registered /\ q.session = x.session
          /\ q.generation = x.generation /\ q.writing = NoSlot /\ q.pending = x.pending /\ q.order = x.order
          /\ q.discard = x.discard /\ q.acquiring = x.acquiring /\ q.lastFrame = x.lastFrame
      BY <1>3 DEF ProducerTypes, SomeSlot
    <2> HIDE DEF q
    <2>3. Orderly(q) /\ Placed(p, q, control)
      BY <1>3, <1>4, <2>2, SlotsAreFinite DEF Orderly, Placed, ProducerTypes
    <2>4. ~AtWork(q, control) /\ (Awaited(p, q, control) <=> Awaited(p, x, control))
      BY <1>5, <2>2 DEF AtWork, Awaited
    <2>5. \A s \in q.pending \cup ({q.writing} \ {NoSlot}) : s \in Held(p)
      BY <2>2 DEF Held
    <2>6. \A o \in Abandoned(p) : o \in Written /\ o \in Nat \X Slots /\ o[1] <= control.generation /\ o[1] # control.generation
      BY <1>5, AbandonedIsWritten DEF IInv
    <2>7. /\ orphans' \in SUBSET (Nat \X Slots) /\ orphans' \subseteq Written
          /\ host.mapped => \A o \in orphans' :
                /\ o[1] <= control.generation
                /\ o[1] = control.generation => control.slots[o[2]].state \in {"Writing", "Pending"}
                /\ AtWork(q, control) \/ Awaited(p, q, control) => o[1] # control.generation
      <3>1. Abandoned(p) \subseteq Nat \X Slots /\ Abandoned(p) \subseteq Written
        BY <2>6
      <3>2. host.mapped => \A o \in orphans :
                /\ o[1] <= control.generation
                /\ o[1] = control.generation => control.slots[o[2]].state \in {"Writing", "Pending"}
                /\ AtWork(q, control) \/ Awaited(p, q, control) => o[1] # control.generation
        BY <1>3, <2>4
      <3> QED
        BY <1>3, <1>5, <2>6, <3>1, <3>2
    <2>8. mutex' \in {"free", "abandoned"}
      BY <1>1
    <2> QED
      BY <1>1, <1>2, <1>3, <1>5, <2>1, <2>2, <2>3, <2>4, <2>5, <2>7, <2>8, ActiveStep
  <1>6. CASE /\ control.generation = x.generation
             /\ control' = [control EXCEPT !.slots[x.writing].state = "Pending",
                                           !.slots[x.writing].frame = x.lastFrame + 1]
             /\ producer' = [producer EXCEPT ![p] =
                   [Submitted(x) EXCEPT !.discard = @ \ {x.writing}, !.lastFrame = @ + 1]]
             /\ UNCHANGED orphans
    <2> DEFINE w == x.writing
               sent == Submitted(x)
               discard == x.discard \ {w}
               lastFrame == x.lastFrame + 1
               q == [sent EXCEPT !.discard = discard, !.lastFrame = lastFrame]
               slot == [control.slots[w] EXCEPT !.state = "Pending", !.frame = lastFrame]
               slots == [control.slots EXCEPT ![w] = slot]
               d == [control EXCEPT !.slots = slots]
    <2>1. /\ sent \in ProducerTypes /\ sent.open = x.open /\ sent.registered = x.registered
          /\ sent.session = x.session
          /\ sent.generation = x.generation /\ sent.writing = NoSlot /\ sent.pending = x.pending \cup {w}
          /\ sent.order \subseteq sent.pending \X sent.pending
          /\ sent.discard = x.discard /\ sent.acquiring = FALSE /\ sent.lastFrame = x.lastFrame
      BY <1>1, <1>3, SubmittedParts
    <2>2. producer' = [producer EXCEPT ![p] = q] /\ control' = d
      <3>1. control' = d
        BY <1>3, <1>4, <1>6 DEF Headers, SlotTypes
      <3>2. producer' = [producer EXCEPT ![p] = q]
        BY <1>6, <2>1 DEF ProducerTypes
      <3> QED
        BY <3>1, <3>2
    <2>3. w \in Slots /\ discard \in SUBSET Slots /\ lastFrame \in Nat /\ lastFrame = x.lastFrame + 1
      BY <1>3, <1>4 DEF ProducerTypes
    <2>4. \A s : s \in discard <=> s \in x.discard /\ s # w
      OBVIOUS
    <2>5. /\ slot \in SlotTypes /\ slot.state = "Pending" /\ slot.frame = lastFrame
          /\ slot.epoch = control.slots[w].epoch /\ slot.stops = control.slots[w].stops
      <3> HIDE DEF lastFrame
      <3> QED
        BY <1>3, <2>3 DEF SlotTypes, SlotStates
    <2> HIDE DEF w, sent, discard, lastFrame, slot
    <2>6. /\ slots \in [Slots -> SlotTypes] /\ slots[w] = slot
          /\ \A s \in Slots \ {w} : slots[s] = control.slots[s]
      BY <1>3, <2>3, <2>5 DEF Headers
    <2> HIDE DEF slots
    <2>7. /\ q \in ProducerTypes /\ q.open = x.open /\ q.registered = x.registered /\ q.session = x.session
          /\ q.generation = x.generation /\ q.writing = NoSlot /\ q.pending = x.pending \cup {w}
          /\ q.order \subseteq q.pending \X q.pending
          /\ q.discard = discard /\ q.acquiring = FALSE /\ q.lastFrame = lastFrame
      BY <2>1, <2>3 DEF ProducerTypes
    <2>8. /\ d \in Headers /\ d.session = control.session /\ d.generation = control.generation
          /\ d.epoch = control.epoch /\ d.pid = control.pid /\ d.slots = slots /\ d.result = control.result
      BY <1>3, <2>6 DEF Headers
    <2> HIDE DEF q, d
    <2>9. AtWork(x, control) /\ Works(x, control)
      <3>1. AtWork(x, control)
        BY <1>3, <1>4, <1>6 DEF Placed, AtWork
      <3> QED
        BY <1>3, <3>1
    <2>10. w \notin x.pending /\ w # NoSlot /\ control.slots[w].state = "Writing" /\ x.writing = w
      BY <1>1, <1>3, <1>4, <2>9 DEF Works, Orderly, w
    <2>11. Orderly(q)
      BY <1>3, <1>4, <2>3, <2>4, <2>7, SlotsAreFinite DEF Orderly, ProducerTypes
    <2>12. Placed(p, q, d) /\ AtWork(q, d) /\ ~Awaited(p, q, d)
      BY <1>3, <2>7, <2>8, <2>9 DEF Placed, AtWork, Awaited
    <2>13. Works(q, d)
      <3> SUFFICES ASSUME NEW s \in Slots
                   PROVE  /\ slots[s].state = "Writing" <=> s = NoSlot \/ s \in discard
                          /\ slots[s].state = "Pending" <=> s \in (x.pending \cup {w}) \ discard
                          /\ slots[s].frame <= lastFrame
        BY <2>7, <2>8 DEF Works
      <3>1. s # NoSlot
        BY SlotsAreFinite
      <3>2. CASE s = w
        BY <2>3, <2>4, <2>5, <2>6, <3>1, <3>2
      <3>3. CASE s # w
        <4>1. /\ control.slots[s].state = "Writing" <=> s = x.writing \/ s \in x.discard
              /\ control.slots[s].state = "Pending" <=> s \in x.pending \ x.discard
              /\ control.slots[s].frame <= x.lastFrame
          BY <2>9 DEF Works
        <4>2. slots[s] = control.slots[s]
          BY <2>6, <3>3
        <4>3. control.slots[s].frame <= lastFrame
          BY <1>3, <1>4, <2>3, <4>1 DEF SlotTypes
        <4> QED
          BY <2>4, <2>10, <3>1, <3>3, <4>1, <4>2, <4>3
      <3> QED
        BY <3>2, <3>3
    <2>14. \A s \in Slots : d.slots[s].state = "Reading" <=> control.slots[s].state = "Reading"
      BY <2>5, <2>6, <2>8, <2>10
    <2>15. host.life = "up" => Offers(d, host)
      <3> SUFFICES ASSUME host.life = "up", NEW s \in Slots
                   PROVE  /\ slots[s].epoch <= control.epoch
                          /\ slots[s].epoch = control.epoch => slots[s].stops >= host.revision
                          /\ slots[s].state = "Ready" /\ slots[s].epoch = control.epoch
                             => slots[s].frame > host.newest \/ slots[s].frame \in host.late
        BY <2>8 DEF Offers
      <3>1. CASE s = w
        BY <1>3, <2>5, <2>6, <3>1 DEF Offers
      <3>2. CASE s # w
        BY <1>3, <2>6, <3>2 DEF Offers
      <3> QED
        BY <3>1, <3>2
    <2>16. host.life = "up" =>
              /\ host.newest <= q.lastFrame
              /\ \A s \in Slots : d.slots[s].state = "Pending" =>
                    d.slots[s].frame > host.newest \/ d.slots[s].frame \in host.late
      <3>1. host.newest \in Nat
        BY <1>3 DEF Hosts
      <3>2. host.life = "up" => host.newest < lastFrame
        BY <1>3, <1>4, <2>3, <2>9, <3>1
      <3>3. \A s \in Slots \ {w} : d.slots[s] = control.slots[s]
        BY <2>6, <2>8
      <3>4. d.slots[w].frame = lastFrame
        BY <2>5, <2>6, <2>8
      <3> QED
        BY <1>3, <2>3, <2>7, <2>9, <3>1, <3>2, <3>3, <3>4
    <2>17. /\ control' \in Headers /\ control'.session = control.session /\ control'.generation = control.generation
           /\ control'.epoch = control.epoch
           /\ \A s \in Slots : control'.slots[s].state = "Reading" <=> control.slots[s].state = "Reading"
           /\ host.life = "up" => Offers(control', host)
           /\ Placed(p, q, control') /\ Works(q, control') /\ ~Awaited(p, q, control')
           /\ host.life = "up" =>
                 /\ host.newest <= q.lastFrame
                 /\ \A s \in Slots : control'.slots[s].state = "Pending" =>
                       control'.slots[s].frame > host.newest \/ control'.slots[s].frame \in host.late
      BY <2>2, <2>8, <2>12, <2>13, <2>14, <2>15, <2>16
    <2>18. /\ orphans' \in SUBSET (Nat \X Slots) /\ orphans' \subseteq Written
           /\ host.mapped => \A o \in orphans' : o[1] <= control'.generation /\ o[1] # control'.generation
      BY <1>3, <1>6, <2>9, <2>17
    <2>19. q \in ProducerTypes /\ q.open /\ q.registered /\ q.generation = control.generation
      BY <1>2, <1>3, <1>6, <2>7
    <2>20. mutex' \in {"free", "abandoned"}
      BY <1>1
    <2> QED
      BY <1>1, <1>2, <2>2, <2>11, <2>17, <2>18, <2>19, <2>20, ActiveStep
  <1> QED
    BY <1>5, <1>6 DEF Publish

\* What the receiver's part of the invariant depends on, when only a producer moves.
LEMMA BystanderStep ==
  ASSUME IInv, UNCHANGED <<host, wish>>, StreamTypes', ProducerInv',
         host.mapped => /\ control'.session = control.session /\ control'.generation = control.generation
                        /\ control'.epoch = control.epoch /\ control'.slots = control.slots,
         host.mapped => \A r \in Written' : r \in Written,
         host.mapped => \A p \in Producers : AtWork(producer'[p], control') =>
            AtWork(producer[p], control) /\ producer'[p].lastFrame = producer[p].lastFrame,
         host.mapped => \A p \in Producers : producer'[p].registered /\ Awaited(p, producer'[p], control') =>
            producer[p].registered /\ Awaited(p, producer[p], control),
         host.mapped => \A o \in orphans' : o \in orphans \/
            /\ o[1] <= control.generation
            /\ o[1] = control.generation => control.slots[o[2]].state \in {"Writing", "Pending"}
            /\ \A p \in Producers : producer'[p].registered => ~AtWork(producer'[p], control')
                                                               /\ ~Awaited(p, producer'[p], control')
  PROVE  IInv'
  <1>1. StreamTypes /\ HostInv /\ ProducerInv /\ TakenInv /\ OrphanInv /\ PixelOwnership
    BY DEF IInv
  <1>2. host.life = "up" => host.mapped
    BY <1>1 DEF HostInv
  <1>3. HostInv'
    BY <1>1, <1>2 DEF HostInv, Receiving, Reads, Offers
  <1>4. TakenInv'
    <2> SUFFICES ASSUME host.life = "up", NEW p \in Producers
                 PROVE  LET q == producer'[p] IN
                        /\ AtWork(q, control') =>
                              /\ host.newest <= q.lastFrame
                              /\ \A s \in Slots : control.slots[s].state = "Pending" =>
                                    control.slots[s].frame > host.newest \/ control.slots[s].frame \in host.late
                        /\ q.registered /\ Awaited(p, q, control') => host.newest = 0
      BY <1>2 DEF TakenInv
    <2>1. AtWork(producer'[p], control') =>
             AtWork(producer[p], control) /\ producer'[p].lastFrame = producer[p].lastFrame
      BY <1>2
    <2>2. producer'[p].registered /\ Awaited(p, producer'[p], control') =>
             producer[p].registered /\ Awaited(p, producer[p], control)
      BY <1>2
    <2> QED
      BY <1>1, <2>1, <2>2 DEF TakenInv
  <1>5. OrphanInv'
    <2> SUFFICES ASSUME host.mapped, NEW o \in orphans'
                 PROVE  /\ o[1] <= control.generation
                        /\ o[1] = control.generation => control.slots[o[2]].state \in {"Writing", "Pending"}
                        /\ \A p \in Producers :
                              LET q == producer'[p] IN
                              q.registered /\ (AtWork(q, control') \/ Awaited(p, q, control')) =>
                                  o[1] # control.generation
      BY DEF OrphanInv
    <2>1. CASE o \in orphans
      <3>1. \A p \in Producers : AtWork(producer'[p], control') => AtWork(producer[p], control) /\ producer[p].registered
        <4> TAKE p \in Producers
        <4>1. AtWork(producer'[p], control') => AtWork(producer[p], control)
          OBVIOUS
        <4>2. AtWork(producer[p], control) => producer[p].registered
          BY <1>1 DEF ProducerInv, Idles, AtWork
        <4> QED
          BY <4>1, <4>2
      <3> QED
        BY <1>1, <2>1, <3>1 DEF OrphanInv
    <2>2. CASE o \notin orphans
      BY <2>2
    <2> QED
      BY <2>1, <2>2
  <1>6. PixelOwnership'
    BY <1>1 DEF PixelOwnership, Read
  <1> QED
    BY <1>3, <1>4, <1>5, <1>6 DEF IInv

LEMMA OpenStep ==
  ASSUME IInv, NEW p \in Producers, Open(p)
  PROVE  IInv'
  <1> DEFINE x == producer[p]
             q == [x EXCEPT !.open = TRUE, !.registered = TRUE]
             c == Request(p)
  <1>1. /\ ~x.registered /\ lease \in {NoOne, p} /\ lease' = p /\ UNCHANGED <<host, wish>> /\ mutex' = mutex
        /\ Synchronize(p, c, q, {}, FALSE)
    BY DEF Open, Synchronize
  <1>2. /\ StreamTypes /\ ProducerInv /\ control \in Headers /\ x \in ProducerTypes
        /\ producer \in [Producers -> ProducerTypes]
    BY DEF IInv, StreamTypes
  <1>3. /\ c \in Headers /\ c.result = "Unavailable" /\ c.session = control.session
        /\ c.generation = control.generation /\ c.epoch = control.epoch /\ c.slots = control.slots
    <2> DEFINE n == control.serial + 1
    <2>1. n \in Nat /\ c = [control EXCEPT !.pid = p, !.wanted = TRUE, !.serial = n, !.result = "Unavailable"]
      BY <1>2 DEF Headers, Request
    <2> HIDE DEF n, c
    <2> QED
      BY <1>2, <2>1 DEF Headers
  <1>4. control' = c /\ producer' = [producer EXCEPT ![p] = q] /\ UNCHANGED orphans
    BY <1>1, <1>3 DEF Synchronize
  <1>5. Idles(x)
    BY <1>1, <1>2 DEF ProducerInv
  <1>6. /\ q \in ProducerTypes /\ q.open /\ q.registered /\ q.session = 0 /\ q.generation = 0
        /\ q.writing = NoSlot /\ q.pending = {} /\ q.order = {} /\ q.discard = {} /\ q.acquiring = FALSE
    BY <1>2, <1>5 DEF ProducerTypes, Idles
  <1> HIDE DEF q, c
  <1>7. producer'[p] = q /\ \A y \in Producers \ {p} : producer'[y] = producer[y] /\ ~producer[y].registered /\ Idles(producer[y])
    BY <1>1, <1>2, <1>4, StreamAssumption DEF ProducerInv
  <1>8. StreamTypes'
    BY <1>1, <1>2, <1>3, <1>4, <1>6 DEF StreamTypes
  <1>9. \A y \in Producers : ~AtWork(producer'[y], control') /\ ~Awaited(y, producer'[y], control')
    BY <1>3, <1>4, <1>6, <1>7 DEF AtWork, Awaited, Idles
  <1>10. ProducerInv'
    <2>1. Orderly(q)
      BY <1>6 DEF Orderly, ProducerTypes
    <2>2. Placed(p, q, control')
      BY <1>2, <1>3, <1>4, <1>6 DEF Placed, Headers
    <2> QED
      BY <1>1, <1>6, <1>7, <1>9, <2>1, <2>2 DEF ProducerInv
  <1>11. \A r \in Written' : r \in Written
    <2> TAKE r \in Written'
    <2>1. CASE r \in orphans'
      BY <1>4, <2>1, WrittenIs
    <2>2. ASSUME NEW y \in Producers, NEW s \in Held(y)'
          PROVE  FALSE
      BY <1>6, <1>7 DEF Held, Idles
    <2> QED
      BY <2>1, <2>2, WrittenNext DEF WrittenBySomeone
  <1> QED
    BY <1>1, <1>3, <1>4, <1>8, <1>9, <1>10, <1>11, BystanderStep

LEMMA OpenFailsStep ==
  ASSUME IInv, NEW p \in Producers, OpenFails(p)
  PROVE  IInv'
  <1> DEFINE x == producer[p]
             q == [x EXCEPT !.open = TRUE]
  <1>1. /\ ~x.registered /\ producer' = [producer EXCEPT ![p] = q]
        /\ lease' = (IF lease = NoOne THEN p ELSE lease)
        /\ mutex' = (IF lease' = p THEN "free" ELSE mutex)
        /\ UNCHANGED <<control, host, wish, orphans>>
    BY DEF OpenFails
  <1>2. /\ StreamTypes /\ ProducerInv /\ control \in Headers /\ x \in ProducerTypes
        /\ producer \in [Producers -> ProducerTypes]
    BY DEF IInv, StreamTypes
  <1>3. Idles(x)
    BY <1>1, <1>2 DEF ProducerInv
  <1>4. /\ q \in ProducerTypes /\ q.registered = x.registered /\ Idles(q)
        /\ q.pending = {} /\ q.writing = NoSlot /\ q.generation = 0
    BY <1>2, <1>3 DEF ProducerTypes, Idles
  <1> HIDE DEF q
  <1>5. producer'[p] = q /\ \A y \in Producers \ {p} : producer'[y] = producer[y]
    BY <1>1, <1>2
  <1>6. StreamTypes'
    BY <1>1, <1>2, <1>4 DEF StreamTypes
  <1>7. ProducerInv'
    <2> SUFFICES ASSUME NEW y \in Producers \ {p}, producer[y].registered
                 PROVE  lease' = y
      BY <1>1, <1>2, <1>4, <1>5 DEF ProducerInv
    <2> QED
      BY <1>1, <1>2, StreamAssumption DEF ProducerInv
  <1>8. \A r \in Written' : r \in Written
    <2> TAKE r \in Written'
    <2>1. CASE r \in orphans'
      BY <1>1, <2>1, WrittenIs
    <2>2. ASSUME NEW y \in Producers, producer'[y].session = control'.session,
                 NEW s \in Held(y)', r = <<producer'[y].generation, s>>
          PROVE  r \in Written
      <3>1. y # p
        BY <1>4, <1>5, <2>2 DEF Held
      <3>2. Held(y)' = Held(y)
        BY <1>5, <3>1 DEF Held
      <3> QED
        BY <1>1, <1>5, <2>2, <3>1, <3>2, WrittenIs
    <2> QED
      BY <2>1, <2>2, WrittenNext DEF WrittenBySomeone
  <1>9. \A y \in Producers :
           /\ AtWork(producer'[y], control') => AtWork(producer[y], control) /\ producer'[y].lastFrame = producer[y].lastFrame
           /\ producer'[y].registered /\ Awaited(y, producer'[y], control') =>
                producer[y].registered /\ Awaited(y, producer[y], control)
    BY <1>1, <1>4, <1>5 DEF AtWork
  <1> QED
    BY <1>1, <1>6, <1>7, <1>8, <1>9, BystanderStep

\* A producer lets go of everything, by its own will or because it dies.
LEMMA LeavingStep ==
  ASSUME IInv, NEW p \in Producers, NEW c \in Headers,
         c.session = control.session, c.generation = control.generation, c.epoch = control.epoch,
         c.slots = control.slots, c.result = control.result,
         c.pid = control.pid \/ (control.pid = p /\ c.pid \notin Producers),
         producer' = [producer EXCEPT ![p] = Closed],
         orphans' = orphans \cup Abandoned(p),
         lease' = (IF lease = p THEN NoOne ELSE lease),
         control' = KeepMapping(c, host.mapped, producer'),
         mutex' \in {"free", "abandoned"}, UNCHANGED <<host, wish>>
  PROVE  IInv'
  <1>1. /\ StreamTypes /\ ProducerInv /\ producer \in [Producers -> ProducerTypes]
        /\ lease \in Producers \cup {NoOne} /\ orphans \in SUBSET (Nat \X Slots)
    BY DEF IInv, StreamTypes
  <1>2. Closed \in ProducerTypes /\ Idles(Closed) /\ Closed.registered = FALSE
    BY DEF Closed, ProducerTypes, Idles, SomeSlot
  <1>3. producer'[p] = Closed /\ \A y \in Producers \ {p} : producer'[y] = producer[y]
    BY <1>1
  <1>4. \A o \in Abandoned(p) : /\ o \in Written /\ o \in Nat \X Slots /\ producer[p].registered
                                /\ o[1] = producer[p].generation /\ producer[p].session = control.session
                                /\ o[1] # 0 /\ o[1] <= control.generation /\ o[2] \in Held(p)
    BY <1>1, AbandonedIsWritten
  <1>5. host.mapped => control' = c
    BY DEF KeepMapping, Mapped
  <1>6. control' \in Headers
    BY NewHeader DEF KeepMapping, Unmapped
  <1>7. StreamTypes'
    <2>1. Abandoned(p) \subseteq Nat \X Slots
      BY <1>4
    <2> QED
      BY <1>1, <1>2, <1>6, <2>1 DEF StreamTypes
  <1>8. ASSUME NEW y \in Producers \ {p}, producer[y].registered
        PROVE  /\ control' = c /\ lease' = y /\ ~producer[p].registered
               /\ producer[y].open /\ Orderly(producer[y]) /\ Placed(y, producer[y], control')
               /\ AtWork(producer[y], control') => Works(producer[y], control')
               /\ Awaited(y, producer[y], control') => Untouched(control') /\ Awaited(y, producer[y], control)
    <2>1. /\ producer[y].open /\ lease = y /\ Orderly(producer[y]) /\ Placed(y, producer[y], control)
          /\ AtWork(producer[y], control) => Works(producer[y], control)
          /\ Awaited(y, producer[y], control) => Untouched(control)
      BY <1>1, <1>8 DEF ProducerInv
    <2>2. control' = c
      BY <1>3, <2>1 DEF KeepMapping, Mapped
    <2>3. ~producer[p].registered
      BY <1>1, <2>1 DEF ProducerInv
    <2>4. Placed(y, producer[y], c)
      BY <2>1, StreamAssumption DEF Placed
    <2>5. AtWork(producer[y], c) => Works(producer[y], c)
      BY <2>1 DEF AtWork, Works
    <2>6. Awaited(y, producer[y], c) => Awaited(y, producer[y], control)
      BY DEF Awaited
    <2>7. Untouched(control) => Untouched(c)
      BY DEF Untouched
    <2> QED
      BY <2>1, <2>2, <2>3, <2>4, <2>5, <2>6, <2>7
  <1>9. ProducerInv'
    <2> SUFFICES ASSUME NEW y \in Producers
                 PROVE  LET q == producer'[y] IN
                        IF ~q.registered THEN Idles(q)
                        ELSE /\ q.open /\ lease' = y
                             /\ Orderly(q) /\ Placed(y, q, control')
                             /\ AtWork(q, control') => Works(q, control')
                             /\ Awaited(y, q, control') => Untouched(control')
      BY DEF ProducerInv
    <2>1. CASE y = p
      BY <1>2, <1>3, <2>1
    <2>2. CASE y # p /\ ~producer[y].registered
      BY <1>1, <1>3, <2>2 DEF ProducerInv
    <2>3. CASE y # p /\ producer[y].registered
      BY <1>3, <1>8, <2>3
    <2> QED
      BY <2>1, <2>2, <2>3
  <1>10. host.mapped => \A r \in Written' : r \in Written
    <2> SUFFICES ASSUME host.mapped, NEW r \in Written'
                 PROVE  r \in Written
      OBVIOUS
    <2>1. CASE r \in orphans'
      BY <1>4, <2>1, WrittenIs
    <2>2. ASSUME NEW y \in Producers, producer'[y].session = control'.session,
                 NEW s \in Held(y)', r = <<producer'[y].generation, s>>
          PROVE  r \in Written
      <3>1. y # p
        BY <1>2, <1>3, <2>2 DEF Held, Idles
      <3>2. Held(y)' = Held(y)
        BY <1>3, <3>1 DEF Held
      <3> QED
        BY <1>3, <1>5, <2>2, <3>1, <3>2, WrittenIs
    <2> QED
      BY <2>1, <2>2, WrittenNext DEF WrittenBySomeone
  <1>11. host.mapped => \A y \in Producers : AtWork(producer'[y], control') =>
            AtWork(producer[y], control) /\ producer'[y].lastFrame = producer[y].lastFrame
    BY <1>2, <1>3, <1>5 DEF AtWork, Idles
  <1>12. \A y \in Producers : producer'[y].registered /\ Awaited(y, producer'[y], control') =>
            producer[y].registered /\ Awaited(y, producer[y], control)
    BY <1>2, <1>3, <1>8
  <1>13. host.mapped => \A o \in orphans' : o \in orphans \/
            /\ o[1] <= control.generation
            /\ o[1] = control.generation => control.slots[o[2]].state \in {"Writing", "Pending"}
            /\ \A y \in Producers : producer'[y].registered => ~AtWork(producer'[y], control')
                                                               /\ ~Awaited(y, producer'[y], control')
    <2> SUFFICES ASSUME NEW o \in Abandoned(p)
                 PROVE  /\ o[1] <= control.generation
                        /\ o[1] = control.generation => control.slots[o[2]].state \in {"Writing", "Pending"}
                        /\ \A y \in Producers : ~producer'[y].registered
      OBVIOUS
    <2>1. \A y \in Producers : ~producer'[y].registered
      BY <1>2, <1>3, <1>4, <1>8
    <2>2. ASSUME o[1] = control.generation
          PROVE  control.slots[o[2]].state \in {"Writing", "Pending"}
      <3>1. AtWork(producer[p], control)
        BY <1>4, <2>2 DEF AtWork
      <3>2. Works(producer[p], control)
        BY <1>1, <1>4, <3>1 DEF ProducerInv
      <3>3. o[2] \in Slots
        BY <1>4
      <3>4. o[2] \in producer[p].pending \/ o[2] = producer[p].writing
        BY <1>4 DEF Held
      <3> QED
        BY <3>2, <3>3, <3>4 DEF Works
    <2> QED
      BY <1>4, <2>1, <2>2
  <1> QED
    BY <1>5, <1>7, <1>9, <1>10, <1>11, <1>12, <1>13, BystanderStep

LEMMA CloseStep ==
  ASSUME IInv, NEW p \in Producers, Close(p)
  PROVE  IInv'
  <1> DEFINE closed == [producer EXCEPT ![p] = Closed]
             Withdrawn(tried) == IF tried /\ mutex = "free" /\ control.pid = p
                                 THEN [control EXCEPT !.pid = NoOne, !.wanted = FALSE] ELSE control
  <1>1. /\ producer' = closed /\ orphans' = orphans \cup Abandoned(p)
        /\ lease' = (IF lease = p THEN NoOne ELSE lease)
        /\ UNCHANGED <<host, wish>>
    BY DEF Close
  <1>2. PICK tried \in {FALSE, producer[p].registered} :
          /\ control' = KeepMapping(Withdrawn(tried), host.mapped, closed)
          /\ mutex' = IF tried \/ ~Mapped(host.mapped, closed) THEN "free" ELSE mutex
    BY DEF Close
  <1>3. mutex' \in {"free", "abandoned"}
    BY <1>2 DEF IInv, StreamTypes
  <1> DEFINE c == Withdrawn(tried)
  <1>4. /\ c \in Headers /\ c.session = control.session /\ c.generation = control.generation
        /\ c.epoch = control.epoch /\ c.slots = control.slots /\ c.result = control.result
        /\ c.pid = control.pid \/ (control.pid = p /\ c.pid \notin Producers)
    <2>1. control \in Headers
      BY DEF IInv, StreamTypes
    <2> QED
      BY <2>1, StreamAssumption DEF Headers
  <1>5. control' = KeepMapping(c, host.mapped, producer')
    BY <1>1, <1>2
  <1> HIDE DEF c
  <1> QED
    BY <1>1, <1>3, <1>4, <1>5, LeavingStep

LEMMA CrashStep ==
  ASSUME IInv, NEW p \in Producers, Crash(p)
  PROVE  IInv'
  <1> DEFINE pid == IF control.pid = p THEN Gone ELSE control.pid
             c == [control EXCEPT !.pid = pid]
  <1>1. /\ producer' = [producer EXCEPT ![p] = Closed] /\ orphans' = orphans \cup Abandoned(p)
        /\ lease' = (IF lease = p THEN NoOne ELSE lease)
        /\ UNCHANGED <<host, wish>>
        /\ control' = KeepMapping(c, host.mapped, producer')
    BY DEF Crash
  <1>2. mutex' \in {"free", "abandoned"}
    BY DEF Crash, IInv, StreamTypes
  <1>3. /\ c \in Headers /\ c.session = control.session /\ c.generation = control.generation
        /\ c.epoch = control.epoch /\ c.slots = control.slots /\ c.result = control.result
        /\ c.pid = control.pid \/ (control.pid = p /\ c.pid \notin Producers)
    <2>1. control \in Headers
      BY DEF IInv, StreamTypes
    <2>2. pid \in Producers \cup {NoOne, Gone} /\ (pid = control.pid \/ (control.pid = p /\ pid \notin Producers))
      BY <2>1, StreamAssumption DEF Headers
    <2> HIDE DEF pid
    <2> QED
      BY <2>1, <2>2 DEF Headers
  <1> HIDE DEF c
  <1> QED
    BY <1>1, <1>2, <1>3, LeavingStep

LEMMA TakeOverStep ==
  ASSUME IInv, NEW p \in Producers, TakeOver(p)
  PROVE  IInv'
  BY DEF TakeOver, IInv, StreamTypes, HostInv, ProducerInv, TakenInv, OrphanInv, PixelOwnership, Written, Read, Held

LEMMA ProducerSteps ==
  ASSUME IInv, NEW p \in Producers, ProducerStep(p)
  PROVE  IInv'
  <1>1. ASSUME NEW S \in Completions(p), Poll(p, S)
        PROVE  IInv'
    BY <1>1, SynchronizeStep DEF Poll
  <1>2. ASSUME NEW S \in Completions(p), TryAcquire(p, S)
        PROVE  IInv'
    BY <1>2, SynchronizeStep DEF TryAcquire
  <1> QED
    BY <1>1, <1>2, OpenStep, OpenFailsStep, TakeOverStep, AcquireStep, PublishStep, CancelStep, CloseStep, CrashStep
    DEF ProducerStep

LEMMA InitOK == Init => IInv
  <1> SUFFICES ASSUME Init
               PROVE  IInv
    OBVIOUS
  <1>1. control \in Headers
    BY NewHeader DEF Init, Unmapped
  <1>2. host \in Hosts /\ host.life = "absent" /\ host.mapped = FALSE
    BY FreshReceiver DEF Init
  <1>3. Closed \in ProducerTypes /\ Idles(Closed) /\ Closed.registered = FALSE
    BY DEF Closed, ProducerTypes, Idles, SomeSlot
  <1>4. StreamTypes
    BY <1>1, <1>2, <1>3 DEF Init, StreamTypes, Modes
  <1>5. ProducerInv
    BY <1>3 DEF Init, ProducerInv
  <1> QED
    BY <1>2, <1>4, <1>5 DEF IInv, HostInv, TakenInv, OrphanInv, PixelOwnership

LEMMA NextOK == IInv /\ [Next]_vars => IInv'
  <1> SUFFICES ASSUME IInv, [Next]_vars
               PROVE  IInv'
    OBVIOUS
  <1>1. CASE UNCHANGED vars
    BY <1>1, Unmoved
  <1>2. ASSUME NEW p \in Producers, ProducerStep(p)
        PROVE  IInv'
    BY <1>2, ProducerSteps
  <1>3. CASE HostStep
    BY <1>3, HostSteps
  <1>4. ASSUME NEW mode \in Modes, Command(mode)
        PROVE  IInv'
    BY <1>4, CommandStep
  <1> QED
    BY <1>1, <1>2, <1>3, <1>4 DEF Next

LEMMA Invariance == Spec => []IInv
  BY InitOK, NextOK, PTL DEF Spec

-----------------------------------------------------------------------------
(* Bounds of the counters. What a frame does to the epoch and to playback   *)
(* is done when it enters; a generation answers a request of its own.       *)

\* After playback has been applied nothing in a frame changes the epoch.
Steady(st, next) == next.c.epoch = st.c.epoch /\ next.h.playback = st.h.playback

LEMMA ReleaseDisplaySteady ==
  ASSUME NEW st \in States
  PROVE  ReleaseDisplay(st) \in States /\ Steady(st, ReleaseDisplay(st))
  <1> DEFINE h == st.h
             slot == h.display.slot
             k == [h EXCEPT !.display = NoDisplay, !.hasImage = FALSE, !.fence = "none"]
             c == IF h.display.generation = h.current /\ slot # NoSlot THEN Freed(st.c, slot) ELSE st.c
  <1>1. st.c \in Headers /\ h \in Hosts
    BY DEF States
  <1>2. CASE h.display = NoDisplay
    <2>1. ReleaseDisplay(st) = st
      BY <1>2 DEF ReleaseDisplay
    <2> QED
      BY <2>1 DEF Steady
  <1>3. CASE h.display # NoDisplay
    <2>1. ReleaseDisplay(st) = [c |-> c, h |-> k]
      BY <1>3 DEF ReleaseDisplay
    <2>2. k \in Hosts /\ k.playback = h.playback
      <3>1. NoDisplay \in Displays
        BY DEF Displays, NoDisplay, SomeSlot
      <3> HIDE DEF h
      <3> QED
        BY <1>1, <3>1 DEF Hosts
    <2>3. c \in Headers /\ c.epoch = st.c.epoch
      <3>1. slot \in Slots \cup {NoSlot}
        BY <1>1 DEF Hosts, Displays, SomeSlot
      <3> QED
        BY <1>1, <3>1, FreedParts
    <2> HIDE DEF c, k
    <2> QED
      BY <2>1, <2>2, <2>3 DEF States, Steady
  <1> QED
    BY <1>2, <1>3

LEMMA RetiredSteady ==
  ASSUME NEW st \in States, NEW slot \in Slots
  PROVE  Steady(st, [c |-> Freed(st.c, slot), h |-> [st.h EXCEPT !.copying = NoSlot]])
  <1> DEFINE k == [st.h EXCEPT !.copying = NoSlot]
             c == Freed(st.c, slot)
  <1>1. st.c \in Headers /\ st.h \in Hosts
    BY DEF States
  <1>2. k.playback = st.h.playback
    BY <1>1 DEF Hosts
  <1>3. c.epoch = st.c.epoch
    BY <1>1, FreedParts
  <1> HIDE DEF c, k
  <1> QED
    BY <1>2, <1>3 DEF Steady, c, k

LEMMA AdoptSteady ==
  ASSUME NEW st \in States, NEW slot \in Slots
  PROVE  Adopt(st, slot) \in States /\ Steady(st, Adopt(st, slot))
  <1> DEFINE d == [generation |-> st.h.current, slot |-> IF st.h.cpu THEN NoSlot ELSE slot,
                   frame |-> st.c.slots[slot].frame, stops |-> st.c.slots[slot].stops]
             k == [st.h EXCEPT !.display = d, !.hasImage = TRUE]
  <1>1. st.c \in Headers /\ st.h \in Hosts
    BY DEF States
  <1>2. Adopt(st, slot) = [c |-> st.c, h |-> k] /\ k \in Hosts
    BY AdoptIs
  <1>3. k.playback = st.h.playback
    <2> HIDE DEF d
    <2> QED
      BY <1>1 DEF Hosts
  <1> HIDE DEF k
  <1> QED
    BY <1>1, <1>2, <1>3 DEF States, Steady

LEMMA PollCopySteady ==
  ASSUME NEW st \in States, NEW consume \in BOOLEAN, NEW copied \in BOOLEAN
  PROVE  Steady(st, PollCopy(st, consume, copied))
  <1> DEFINE slot == st.h.copying
             given == ReleaseDisplay(st)
             shown == Adopt(given, slot)
             retired(x) == [c |-> Freed(x.c, slot), h |-> [x.h EXCEPT !.copying = NoSlot]]
  <1>1. CASE slot = NoSlot
    <2>1. PollCopy(st, consume, copied) = st
      BY <1>1 DEF PollCopy
    <2> QED
      BY <2>1 DEF Steady
  <1>2. CASE slot # NoSlot
    <2>1. slot \in Slots
      BY <1>2 DEF States, Hosts, SomeSlot
    <2>2. PollCopy(st, consume, copied) \in {st, retired(st), retired(shown)}
      BY DEF PollCopy
    <2>3. given \in States /\ Steady(st, given)
      BY ReleaseDisplaySteady
    <2> HIDE DEF given
    <2>4. shown \in States /\ Steady(given, shown)
      BY <2>1, <2>3, AdoptSteady
    <2> HIDE DEF shown
    <2>5. Steady(st, retired(st)) /\ Steady(shown, retired(shown))
      BY <2>1, <2>4, RetiredSteady
    <2> HIDE DEF retired
    <2> QED
      BY <2>2, <2>3, <2>4, <2>5 DEF Steady
  <1> QED
    BY <1>1, <1>2

\* A generation answers a request that has not been answered.
Answers(st, next) ==
    /\ next.c.serial = st.c.serial
    /\ \/ next.c.generation = st.c.generation /\ next.h.applied = st.h.applied
       \/ /\ next.c.generation = st.c.generation + 1
          /\ st.c.serial # st.h.applied /\ next.h.applied = st.c.serial

LEMMA ConfigureSteady ==
  ASSUME NEW st \in States, NEW due \in BOOLEAN, NEW gpu \in {"direct", "cpu", "short"}
  PROVE  Steady(st, Configure(st, due, gpu)) /\ Answers(st, Configure(st, due, gpu))
  <1>1. st.c \in Headers /\ st.h \in Hosts
    BY DEF States
  <1>2. CASE ~Requested(st, due)
    <2>1. Configure(st, due, gpu) = st
      BY <1>2 DEF Configure
    <2> QED
      BY <2>1 DEF Steady, Answers
  <1>3. CASE Requested(st, due) /\ gpu = "short"
    <2> DEFINE c == [st.c EXCEPT !.result = "Unavailable"]
               k == [st.h EXCEPT !.deferred = TRUE]
    <2>1. Configure(st, due, gpu) = [c |-> c, h |-> k]
      BY <1>3 DEF Configure
    <2>2. c.epoch = st.c.epoch /\ c.serial = st.c.serial /\ c.generation = st.c.generation
      BY <1>1 DEF Headers
    <2>3. k.playback = st.h.playback /\ k.applied = st.h.applied
      BY <1>1 DEF Hosts
    <2> HIDE DEF c, k
    <2> QED
      BY <2>1, <2>2, <2>3 DEF Steady, Answers
  <1>4. CASE Requested(st, due) /\ gpu # "short"
    <2> DEFINE slots == [s \in Slots |-> FreeSlot]
               cpu == gpu = "cpu"
               current == st.c.generation + 1
               c == [st.c EXCEPT !.generation = current, !.result = "Ok", !.slots = slots]
               k == [st.h EXCEPT !.current = current, !.cpu = cpu, !.rejected = FALSE,
                                 !.applied = st.c.serial, !.deferred = FALSE, !.newest = 0, !.late = {}]
    <2>1. Configure(st, due, gpu) = [c |-> c, h |-> k]
      BY <1>4 DEF Configure
    <2>2. st.c.serial # st.h.applied
      BY <1>4 DEF Requested
    <2> HIDE DEF slots, cpu
    <2>3. c.epoch = st.c.epoch /\ c.serial = st.c.serial /\ c.generation = current
      BY <1>1 DEF Headers
    <2>4. k.playback = st.h.playback /\ k.applied = st.c.serial
      BY <1>1 DEF Hosts
    <2> HIDE DEF c, k
    <2> QED
      BY <2>1, <2>2, <2>3, <2>4 DEF Steady, Answers
  <1> QED
    BY <1>2, <1>3, <1>4

LEMMA TakeSteady ==
  ASSUME NEW st \in States, NEW slot \in Slots
  PROVE  Steady(st, Take(st, slot))
  <1> DEFINE h == st.h
             pending == {s \in Slots : st.c.slots[s].state = "Pending"}
             newest == IF st.c.slots[slot].frame > h.newest THEN st.c.slots[slot].frame ELSE h.newest
             late == {st.c.slots[s].frame : s \in pending}
             c == [st.c EXCEPT !.slots[slot].state = "Reading"]
             k == [h EXCEPT !.newest = newest, !.late = late]
             reading == [c |-> c, h |-> k]
             begun == IF h.cpu THEN [reading EXCEPT !.h.copying = slot] ELSE Adopt(reading, slot)
  <1>1. st.c \in Headers /\ h \in Hosts /\ st.c.slots \in [Slots -> SlotTypes]
    BY DEF States, Headers
  <1>2. newest \in Nat /\ late \in SUBSET Nat
    BY <1>1 DEF Hosts, SlotTypes
  <1>3. Take(st, slot) = [begun EXCEPT !.c = AfterTaking(@)]
    BY <1>1 DEF Take, States
  <1>4. c \in Headers /\ c.epoch = st.c.epoch
    <2> DEFINE taken == [st.c.slots[slot] EXCEPT !.state = "Reading"]
               slots == [st.c.slots EXCEPT ![slot] = taken]
    <2>1. taken \in SlotTypes
      BY <1>1 DEF SlotTypes, SlotStates
    <2>2. c = [st.c EXCEPT !.slots = slots]
      BY <1>1 DEF Headers
    <2> HIDE DEF taken
    <2>3. slots \in [Slots -> SlotTypes]
      BY <1>1, <2>1
    <2> HIDE DEF slots, c
    <2> QED
      BY <1>1, <2>2, <2>3 DEF Headers
  <1> HIDE DEF newest, late, c, pending
  <1>5. k \in Hosts /\ k.playback = h.playback
    BY <1>1, <1>2 DEF Hosts
  <1> HIDE DEF k
  <1>6. reading \in States /\ Steady(st, reading)
    BY <1>4, <1>5 DEF States, Steady
  <1> HIDE DEF reading
  <1>7. begun \in States /\ Steady(reading, begun)
    <2>1. CASE h.cpu
      <3> DEFINE l == [reading.h EXCEPT !.copying = slot]
      <3>1. reading.h \in Hosts /\ reading.c \in Headers
        BY <1>6 DEF States
      <3>2. l \in Hosts /\ l.playback = reading.h.playback
        BY <3>1 DEF Hosts, SomeSlot
      <3>3. begun = [c |-> reading.c, h |-> l]
        <4>1. begun = [reading EXCEPT !.h = l]
          BY <1>6, <2>1 DEF States
        <4> QED
          BY <1>6, <4>1, ReceiverSet
      <3> HIDE DEF l, begun
      <3> QED
        BY <3>1, <3>2, <3>3 DEF States, Steady
    <2>2. CASE ~h.cpu
      BY <1>6, <2>2, AdoptSteady
    <2> QED
      BY <2>1, <2>2
  <1> HIDE DEF begun
  <1> DEFINE d == InvalidateReady(begun.c)
  <1>8. Take(st, slot) = [c |-> d, h |-> begun.h]
    BY <1>3, <1>7, HeaderSet DEF AfterTaking
  <1>9. d.epoch = begun.c.epoch
    BY <1>7, InvalidateReadyParts DEF States
  <1> HIDE DEF d
  <1> QED
    BY <1>6, <1>7, <1>8, <1>9 DEF Steady

LEMMA ConsumeSteady ==
  ASSUME NEW st \in States, NEW due \in BOOLEAN, NEW gpu \in {"direct", "cpu", "short"}
  PROVE  Steady(st, Consume(st, due, gpu))
  <1> DEFINE latest == FindLatest(st.c)
             given == ReleaseDisplay(st)
             next == Consume(st, due, gpu)
  <1>1. CASE next = st
    BY <1>1 DEF Steady
  <1>2. CASE next # st
    <2>1. latest # NoSlot /\ ~(st.h.copying # NoSlot \/ ~ReadCompleted(st.h))
      BY <1>2 DEF Consume
    <2>2. latest \in Slots
      BY <2>1, LatestSlot DEF States
    <2>3. next = IF st.h.cpu THEN Take(st, latest)
                 ELSE IF ~due THEN st
                 ELSE IF gpu = "short" THEN [given EXCEPT !.h.deferred = TRUE, !.h.rejected = TRUE]
                 ELSE IF gpu = "cpu" \/ st.h.rejected
                 THEN Take([given EXCEPT !.h.deferred = FALSE, !.h.cpu = TRUE], latest)
                 ELSE Take([given EXCEPT !.h.deferred = FALSE], latest)
      BY <2>1 DEF Consume
    <2>4. given \in States /\ Steady(st, given)
      BY ReleaseDisplaySteady
    <2> HIDE DEF next, given, latest
    <2>5. given.c \in Headers /\ given.h \in Hosts
      BY <2>4 DEF States
    <2>6. ASSUME NEW k \in Hosts, k.playback = given.h.playback
          PROVE  /\ Steady(st, [c |-> given.c, h |-> k])
                 /\ Steady(st, Take([c |-> given.c, h |-> k], latest))
      <3> DEFINE from == [c |-> given.c, h |-> k]
      <3>1. from \in States /\ Steady(st, from)
        BY <2>4, <2>5, <2>6 DEF States, Steady
      <3> HIDE DEF from
      <3>2. Steady(from, Take(from, latest))
        BY <2>2, <3>1, TakeSteady
      <3>3. Steady(st, from) /\ Steady(st, Take(from, latest))
        BY <3>1, <3>2 DEF Steady
      <3> QED
        BY <3>3 DEF from
    <2>7. CASE st.h.cpu
      BY <2>2, <2>3, <2>7, TakeSteady DEF next
    <2>8. CASE ~st.h.cpu /\ due /\ gpu = "short"
      <3> DEFINE k == [given.h EXCEPT !.deferred = TRUE, !.rejected = TRUE]
      <3>1. [given EXCEPT !.h.deferred = TRUE, !.h.rejected = TRUE] = [given EXCEPT !.h = k]
        BY <2>4, <2>5 DEF States, Hosts
      <3>2. k \in Hosts /\ k.playback = given.h.playback
        BY <2>5 DEF Hosts
      <3>3. next = [c |-> given.c, h |-> k]
        BY <2>3, <2>4, <2>8, <3>1, ReceiverSet
      <3> QED
        BY <2>6, <3>2, <3>3 DEF next
    <2>9. CASE ~st.h.cpu /\ due /\ gpu # "short" /\ (gpu = "cpu" \/ st.h.rejected)
      <3> DEFINE k == [given.h EXCEPT !.deferred = FALSE, !.cpu = TRUE]
      <3>1. [given EXCEPT !.h.deferred = FALSE, !.h.cpu = TRUE] = [given EXCEPT !.h = k]
        BY <2>4, <2>5 DEF States, Hosts
      <3>2. k \in Hosts /\ k.playback = given.h.playback
        BY <2>5 DEF Hosts
      <3>3. [given EXCEPT !.h.deferred = FALSE, !.h.cpu = TRUE] = [c |-> given.c, h |-> k]
        BY <2>4, <3>1, ReceiverSet
      <3>4. next = Take([c |-> given.c, h |-> k], latest)
        BY <2>3, <2>9, <3>3
      <3> QED
        BY <2>6, <3>2, <3>4 DEF next
    <2>10. CASE ~st.h.cpu /\ due /\ gpu # "short" /\ ~(gpu = "cpu" \/ st.h.rejected)
      <3> DEFINE k == [given.h EXCEPT !.deferred = FALSE]
      <3>1. [given EXCEPT !.h.deferred = FALSE] = [given EXCEPT !.h = k]
        BY <2>4, <2>5 DEF States, Hosts
      <3>2. k \in Hosts /\ k.playback = given.h.playback
        BY <2>5 DEF Hosts
      <3>3. [given EXCEPT !.h.deferred = FALSE] = [c |-> given.c, h |-> k]
        BY <2>4, <3>1, ReceiverSet
      <3>4. next = Take([c |-> given.c, h |-> k], latest)
        BY <2>3, <2>10, <3>3
      <3> QED
        BY <2>6, <3>2, <3>4 DEF next
    <2> QED
      BY <1>2, <2>3, <2>7, <2>8, <2>9, <2>10 DEF next
  <1> QED
    BY <1>1, <1>2

\* Steps of the epoch that the receiver still owes: one that is latched, one for leaving Stop.
Owed(h) == (IF h.invalidate THEN 1 ELSE 0) + (IF h.playback = "Stop" THEN 1 ELSE 0)

\* Every Stop makes two steps of the epoch at most: one when it is seen, one when Play follows it.
Paced(epoch, h, w) ==
    /\ epoch + Owed(h) <= 2 * h.seen + 1
    /\ h.seen = w.revision /\ w.mode = "Stop" => h.playback = "Stop"

LEMMA ObservePlaybackPaced ==
  ASSUME NEW h \in Hosts, NEW epoch \in Nat, wish \in [mode : Modes, revision : Nat],
         Commands(h, wish), Paced(epoch, h, wish)
  PROVE  LET k == ObservePlayback(h) IN
         Paced(epoch, k, wish) /\ k.playback = wish.mode /\ k.seen = wish.revision
  <1> DEFINE stopping == wish.revision # h.revision \/ wish.mode = "Stop"
             crossing == \/ wish.mode = "Stop" /\ h.playback # "Stop"
                         \/ wish.mode = "Play" /\ h.playback = "Stop"
             invalidate == h.invalidate \/ wish.revision # h.revision \/ crossing
             clear == h.clear \/ stopping
             hasImage == h.hasImage /\ ~stopping
             k == [h EXCEPT !.invalidate = invalidate, !.clear = clear, !.hasImage = hasImage,
                            !.playback = wish.mode, !.seen = wish.revision]
  <1>1. ObservePlayback(h) = k
    BY DEF ObservePlayback
  <1>2. invalidate \in BOOLEAN /\ clear \in BOOLEAN /\ hasImage \in BOOLEAN
    OBVIOUS
  <1>3. /\ h.revision \in Nat /\ h.seen \in Nat /\ wish.revision \in Nat
        /\ h.revision <= h.seen /\ h.seen <= wish.revision /\ (h.seen # h.revision => h.invalidate)
    BY DEF Hosts, Commands
  <1>4. k.seen = wish.revision /\ k.playback = wish.mode /\ (k.invalidate => invalidate)
    <2> HIDE DEF invalidate, clear, hasImage
    <2>1. k.invalidate = invalidate
      BY <1>2 DEF Hosts
    <2>2. k.seen = wish.revision /\ k.playback = wish.mode
      BY <1>2 DEF Hosts
    <2> HIDE DEF k
    <2> QED
      BY <2>1, <2>2
  <1> HIDE DEF k
  <1>5. epoch + Owed(k) <= 2 * wish.revision + 1
    <2>1. CASE h.seen # wish.revision
      <3>1. h.seen + 1 <= wish.revision
        BY <1>3, <2>1
      <3>2. epoch <= 2 * h.seen + 1 /\ Owed(k) <= 2 /\ Owed(k) \in Nat
        BY <1>3 DEF Paced, Owed
      <3> QED
        BY <1>3, <3>1, <3>2
    <2>2. CASE h.seen = wish.revision
      <3>1. wish.revision # h.revision => h.invalidate
        BY <1>3, <2>2
      <3>2. wish.mode = "Stop" => h.playback = "Stop"
        BY <2>2 DEF Paced
      <3>3. Owed(k) <= Owed(h)
        <4>1. k.invalidate => h.invalidate \/ (wish.mode = "Play" /\ h.playback = "Stop")
          BY <1>4, <3>1, <3>2
        <4>2. k.playback = wish.mode /\ (wish.mode = "Stop" => h.playback = "Stop")
          BY <1>4, <3>2
        <4>3. CASE h.invalidate
          BY <4>2, <4>3 DEF Owed
        <4>4. CASE ~h.invalidate /\ k.invalidate
          BY <4>1, <4>2, <4>4 DEF Owed
        <4>5. CASE ~h.invalidate /\ ~k.invalidate
          BY <4>2, <4>5 DEF Owed
        <4> QED
          BY <4>3, <4>4, <4>5
      <3>4. Owed(k) \in Nat /\ Owed(h) \in Nat
        BY DEF Owed
      <3>5. epoch + Owed(h) <= 2 * wish.revision + 1
        BY <2>2 DEF Paced
      <3> QED
        BY <1>3, <3>3, <3>4, <3>5
    <2> QED
      BY <2>1, <2>2
  <1> QED
    BY <1>1, <1>4, <1>5 DEF Paced

LEMMA ApplyPlaybackPaced ==
  ASSUME NEW st \in States, wish \in [mode : Modes, revision : Nat]
  PROVE  LET next == ApplyPlayback(st) IN
         /\ next.h.playback = st.h.playback
         /\ next.c.epoch = IF st.h.invalidate THEN st.c.epoch + 1 ELSE st.c.epoch
  <1> DEFINE h == st.h
             stopping == wish.revision # h.revision \/ wish.mode = "Stop"
             ready == InvalidateReady(st.c)
             epoch == ready.epoch + 1
             bumped == IF h.invalidate THEN [ready EXCEPT !.epoch = epoch] ELSE st.c
             c == IF stopping THEN InvalidateReady(bumped) ELSE bumped
             k == Applied(h)
             next == [c |-> c, h |-> k]
             given == ReleaseDisplay(next)
  <1>1. ApplyPlayback(st) = IF k.clear /\ ReadCompleted(k) THEN [given EXCEPT !.h.clear = FALSE] ELSE next
    BY DEF ApplyPlayback
  <1>2. st.c \in Headers /\ h \in Hosts
    BY DEF States
  <1>3. k \in Hosts /\ k.playback = h.playback
    BY <1>2 DEF Applied, Hosts
  <1> HIDE DEF k
  <1>4. bumped \in Headers /\ bumped.epoch = IF h.invalidate THEN st.c.epoch + 1 ELSE st.c.epoch
    <2>1. ready \in Headers /\ ready.epoch = st.c.epoch
      BY <1>2, InvalidateReadyParts
    <2> HIDE DEF ready
    <2>2. epoch \in Nat \ {0} /\ epoch = st.c.epoch + 1
      BY <2>1 DEF Headers
    <2> HIDE DEF epoch
    <2> QED
      BY <1>2, <2>1, <2>2 DEF Headers
  <1> HIDE DEF bumped
  <1>5. c \in Headers /\ c.epoch = bumped.epoch
    BY <1>4, InvalidateReadyParts
  <1> HIDE DEF c
  <1>6. next \in States /\ next.h.playback = h.playback /\ next.c.epoch = bumped.epoch
    BY <1>3, <1>5 DEF States
  <1> HIDE DEF next
  <1>7. given \in States /\ Steady(next, given)
    BY <1>6, ReleaseDisplaySteady
  <1> HIDE DEF given
  <1> DEFINE rest == [given.h EXCEPT !.clear = FALSE]
  <1>8. [given EXCEPT !.h.clear = FALSE] = [c |-> given.c, h |-> rest]
    BY <1>7, ReceiverSet
  <1>9. rest.playback = given.h.playback
    BY <1>7 DEF States, Hosts
  <1> HIDE DEF rest
  <1> QED
    BY <1>1, <1>4, <1>6, <1>7, <1>8, <1>9 DEF Steady

LEMMA EnteredPaced ==
  ASSUME StreamTypes, HostInv, host.life = "up", Paced(control.epoch, host, wish)
  PROVE  /\ Paced(Entered.c.epoch, Entered.h, wish) /\ Entered.h.seen = wish.revision
         /\ Entered.c.epoch \in Nat /\ control.epoch <= Entered.c.epoch
  <1> DEFINE observed == ObservePlayback(host)
             st == [c |-> Seen, h |-> observed]
             next == ApplyPlayback(st)
  <1>1. /\ host \in Hosts /\ wish \in [mode : Modes, revision : Nat] /\ control.epoch \in Nat
        /\ Commands(host, wish) /\ Receiving(Seen, host, wish) /\ Reads(Seen, host)
    BY SeenParts DEF StreamTypes, Headers, HostInv, Receiving, Reads, Offers
  <1>2. /\ Paced(control.epoch, observed, wish) /\ observed.playback = wish.mode
        /\ observed.seen = wish.revision
    BY <1>1, ObservePlaybackPaced
  <1>3. observed \in Hosts
    BY <1>1, SeenParts, ObservePlaybackParts
  <1>4. Entered = next
    BY DEF Entered, Seen
  <1> HIDE DEF observed
  <1>5. st \in States /\ st.h = observed /\ st.c.epoch = control.epoch
    BY <1>3, SeenParts DEF States
  <1> HIDE DEF st
  <1>6. /\ next.h.playback = observed.playback
        /\ next.c.epoch = IF observed.invalidate THEN control.epoch + 1 ELSE control.epoch
    BY <1>1, <1>5, ApplyPlaybackPaced
  <1>7. next.h.seen = wish.revision /\ ~next.h.invalidate
    BY <1>4, EnteredParts DEF Current
  <1> HIDE DEF next
  <1>8. next.c.epoch + Owed(next.h) = control.epoch + Owed(observed)
    BY <1>1, <1>6, <1>7 DEF Owed
  <1> QED
    BY <1>1, <1>2, <1>4, <1>6, <1>7, <1>8 DEF Paced

\* A slot is free, or keeps what was written of it when it was acquired and published.
Lasts(x, y) == y = FreeSlot \/ (y.frame = x.frame /\ y.epoch = x.epoch /\ y.stops = x.stops)

SlotBounds(c, w) ==
    \A s \in Slots : /\ c.slots[s].frame <= MaxFrame
                     /\ c.slots[s].epoch <= c.epoch
                     /\ c.slots[s].stops <= w.revision

HeaderBounds(c, w) ==
    /\ c.session + c.serial + w.revision <= MaxEvents
    /\ c.generation <= c.serial
    /\ c.epoch <= 2 * w.revision + 1
    /\ SlotBounds(c, w)

\* A request that has not been answered has no generation of its own yet.
Unanswered(c, h) == c.serial # h.applied => c.generation < c.serial

ProducerBounds(q) == q.lastFrame <= MaxFrame /\ q.generation <= MaxEvents /\ q.session <= MaxEvents

BoundsInv ==
    /\ HeaderBounds(control, wish)
    /\ host.life = "up" => Unanswered(control, host) /\ Paced(control.epoch, host, wish)
    /\ host.mapped => host.display.generation <= control.generation
    /\ ~host.mapped => host.drawing = {}
    /\ \A p \in Producers : ProducerBounds(producer[p])
    /\ \A o \in orphans : o[1] <= MaxEvents
    /\ wish.mode = "Stop" => wish.revision # 0

LEMMA SlotsLast ==
  ASSUME NEW c \in Headers, NEW d \in Headers, NEW w \in [mode : Modes, revision : Nat],
         SlotBounds(c, w), c.epoch <= d.epoch, \A s \in Slots : Lasts(c.slots[s], d.slots[s])
  PROVE  SlotBounds(d, w)
  <1> SUFFICES ASSUME NEW s \in Slots
               PROVE  /\ d.slots[s].frame <= MaxFrame /\ d.slots[s].epoch <= d.epoch
                      /\ d.slots[s].stops <= w.revision
    BY DEF SlotBounds
  <1>1. /\ c.epoch \in Nat /\ d.epoch \in Nat /\ w.revision \in Nat /\ MaxFrame \in Nat
        /\ c.slots[s] \in SlotTypes /\ d.slots[s] \in SlotTypes
    BY StreamAssumption DEF Headers
  <1>2. CASE d.slots[s] = FreeSlot
    BY <1>1, <1>2 DEF FreeSlot
  <1>3. CASE /\ d.slots[s].frame = c.slots[s].frame /\ d.slots[s].epoch = c.slots[s].epoch
             /\ d.slots[s].stops = c.slots[s].stops
    BY <1>1, <1>3 DEF SlotBounds, SlotTypes
  <1> QED
    BY <1>2, <1>3 DEF Lasts

LEMMA SlotMoveLasts ==
  ASSUME NEW x \in SlotTypes, NEW y, SlotMove(x, y)
  PROVE  Lasts(x, y)
  <1>1. CASE x.state = "Ready" /\ y = [x EXCEPT !.state = "Reading"]
    BY <1>1 DEF SlotTypes, Lasts
  <1> QED
    BY <1>1 DEF SlotMove, Lasts

\* Of a header of the receiver: its counters, once the slots last.
LEMMA ServedBounds ==
  ASSUME NEW c \in Headers, NEW d \in Headers, NEW w \in [mode : Modes, revision : Nat],
         HeaderBounds(c, w), SameHeader(c, d), d.generation <= d.serial,
         c.epoch <= d.epoch, d.epoch <= 2 * w.revision + 1,
         \/ \A s \in Slots : SlotMove(c.slots[s], d.slots[s])
         \/ Untouched(d)
  PROVE  HeaderBounds(d, w)
  <1>1. \A s \in Slots : Lasts(c.slots[s], d.slots[s])
    <2>1. \A s \in Slots : c.slots[s] \in SlotTypes
      BY DEF Headers
    <2> QED
      BY <2>1, SlotMoveLasts DEF Untouched, Lasts
  <1>2. SlotBounds(d, w)
    BY <1>1, SlotsLast DEF HeaderBounds
  <1> QED
    BY <1>2 DEF HeaderBounds, SameHeader

LEMMA EndFrameSteady ==
  ASSUME NEW h \in Hosts, NEW visible \in BOOLEAN
  PROVE  EndFrame(h, visible).playback = h.playback
  <1> DEFINE drawing == h.drawing \cup {<<h.display.generation, h.display.slot>>}
             k == [h EXCEPT !.fence = "pending", !.drawing = drawing]
  <1>1. EndFrame(h, visible) = h \/ EndFrame(h, visible) = k
    BY DEF EndFrame
  <1> HIDE DEF drawing
  <1>2. k.playback = h.playback
    BY DEF Hosts
  <1> QED
    BY <1>1, <1>2

LEMMA FrameCounts ==
  ASSUME StreamTypes, HostInv, Paced(control.epoch, host, wish),
         NEW visible \in BOOLEAN, NEW due \in BOOLEAN, NEW copied \in BOOLEAN,
         NEW gpu \in {"direct", "cpu", "short"}, Frame(visible, due, copied, gpu)
  PROVE  /\ Answers([c |-> control, h |-> host], [c |-> control', h |-> host'])
         /\ control.epoch <= control'.epoch
         /\ Paced(control'.epoch, host', wish) /\ host'.seen = wish.revision
  <1> DEFINE entered == Entered
             consume == visible /\ wish.mode = "Play" /\ ~entered.h.clear
             polled == PollCopy(entered, consume, copied)
             configured == Configure(polled, due, gpu)
             stillDue == due /\ ~(Requested(polled, due) /\ gpu = "short")
             consumed == IF consume /\ configured.h.current # 0
                         THEN Consume(configured, stillDue, gpu) ELSE configured
             st == [c |-> Seen, h |-> host]
             k == EndFrame(consumed.h, visible)
  <1>1. host.life = "up" /\ control' = consumed.c /\ host' = k
    BY DEF Frame
  <1>2. /\ Sound(entered) /\ Current(entered.h) /\ Same(st, entered)
        /\ Paced(entered.c.epoch, entered.h, wish)
        /\ control.epoch <= entered.c.epoch
    BY <1>1, EnteredParts, EnteredPaced
  <1>3. consume \in BOOLEAN /\ stillDue \in BOOLEAN
    OBVIOUS
  <1>4. st.c.serial = control.serial /\ st.c.generation = control.generation /\ st.h = host
    BY SeenParts DEF StreamTypes
  <1> HIDE DEF entered, consume, st
  <1>5. entered \in States
    BY <1>2 DEF Sound
  <1>6. Sound(polled) /\ Same(entered, polled) /\ Current(polled.h) /\ Steady(entered, polled)
    BY <1>2, <1>3, <1>5, PollCopyParts, PollCopySteady
  <1> HIDE DEF polled
  <1>7. polled \in States
    BY <1>6 DEF Sound
  <1>8. /\ Sound(configured) /\ Current(configured.h)
        /\ Steady(polled, configured) /\ Answers(polled, configured)
    BY <1>6, <1>7, ConfigureParts, ConfigureSteady
  <1> HIDE DEF configured, stillDue
  <1>9. configured \in States
    BY <1>8 DEF Sound
  <1>10. /\ Sound(consumed) /\ Same(configured, consumed) /\ Current(consumed.h)
         /\ Steady(configured, consumed)
    <2>1. CASE consume /\ configured.h.current # 0
      BY <1>3, <1>8, <1>9, <2>1, ConsumeParts, ConsumeSteady
    <2>2. CASE ~(consume /\ configured.h.current # 0)
      <3>1. consumed = configured
        BY <2>2
      <3> QED
        BY <1>8, <3>1 DEF Same, Kept, SameHeader, SlotMove, Takes, Steady
    <2> QED
      BY <2>1, <2>2
  <1> HIDE DEF consumed
  <1>11. consumed.c \in Headers /\ consumed.h \in Hosts /\ Reads(consumed.c, consumed.h)
    BY <1>10 DEF Sound, States
  <1>12. Elsewhere(consumed.h, k) /\ Settled(consumed.h, k) /\ k.playback = consumed.h.playback
    BY <1>11, EndFrameParts, EndFrameSteady
  <1> HIDE DEF k
  <1>13. consumed.c.epoch = entered.c.epoch /\ k.playback = entered.h.playback
    BY <1>6, <1>8, <1>10, <1>12 DEF Steady
  <1>14. /\ k.seen = wish.revision /\ entered.h.seen = wish.revision
         /\ ~k.invalidate /\ ~entered.h.invalidate
    BY <1>2, <1>10, <1>12 DEF Current, Settled
  <1>15. Paced(consumed.c.epoch, k, wish)
    BY <1>2, <1>13, <1>14 DEF Paced, Owed
  <1>16. Answers([c |-> control, h |-> host], [c |-> consumed.c, h |-> k])
    <2>1. polled.c.serial = control.serial /\ polled.c.generation = control.generation /\ polled.h.applied = host.applied
      BY <1>2, <1>4, <1>6 DEF Same, Kept, SameHeader
    <2>2. /\ consumed.c.serial = configured.c.serial /\ consumed.c.generation = configured.c.generation
          /\ k.applied = configured.h.applied
      BY <1>10, <1>12 DEF Same, Kept, SameHeader, Elsewhere
    <2> QED
      BY <1>8, <2>1, <2>2 DEF Answers
  <1> QED
    BY <1>1, <1>2, <1>13, <1>14, <1>15, <1>16

LEMMA CountersAreNat ==
  ASSUME NEW c \in Headers, NEW w \in [mode : Modes, revision : Nat], HeaderBounds(c, w)
  PROVE  /\ c.session \in 0 .. MaxEvents /\ c.generation \in 0 .. MaxEvents /\ c.serial \in 0 .. MaxEvents
         /\ w.revision \in 0 .. MaxEvents /\ c.epoch \in 1 .. 2 * MaxEvents + 2
         /\ MaxEvents \in Nat
  BY StreamAssumption DEF Headers, HeaderBounds

LEMMA FrameBounds ==
  ASSUME IInv, IInv', BoundsInv,
         NEW visible \in BOOLEAN, NEW due \in BOOLEAN, NEW copied \in BOOLEAN,
         NEW gpu \in {"direct", "cpu", "short"}, Frame(visible, due, copied, gpu)
  PROVE  BoundsInv'
  <1>1. /\ StreamTypes /\ HostInv /\ host.life = "up" /\ UNCHANGED <<producer, wish, orphans>>
        /\ Paced(control.epoch, host, wish) /\ Unanswered(control, host) /\ HeaderBounds(control, wish)
    BY DEF IInv, Frame, BoundsInv
  <1>2. /\ control \in Headers /\ control' \in Headers /\ Seen \in Headers
        /\ wish \in [mode : Modes, revision : Nat] /\ host' \in Hosts
    BY <1>1, SeenParts DEF IInv, StreamTypes
  <1>3. /\ Answers([c |-> control, h |-> host], [c |-> control', h |-> host'])
        /\ control.epoch <= control'.epoch
        /\ Paced(control'.epoch, host', wish) /\ host'.seen = wish.revision
    BY <1>1, FrameCounts
  <1>4. Serves(Seen, host, control', host') /\ host'.life = "up"
    BY <1>1, FrameServes
  <1>5. control'.generation <= control'.serial /\ Unanswered(control', host')
    BY <1>1, <1>2, <1>3 DEF Answers, Unanswered, HeaderBounds, Headers
  <1>6. control'.epoch <= 2 * wish.revision + 1
    <2>1. Owed(host') \in Nat
      BY DEF Owed
    <2> QED
      BY <1>2, <1>3, <2>1 DEF Paced, Headers
  <1>7. HeaderBounds(control', wish)
    <2>1. /\ HeaderBounds(Seen, wish) /\ Seen.epoch <= control'.epoch
          /\ SameHeader(Seen, control')
      BY <1>1, <1>3, <1>4, SeenParts DEF HeaderBounds, SlotBounds, Serves, Kept, Succeeds
    <2>2. \/ \A s \in Slots : SlotMove(Seen.slots[s], control'.slots[s])
          \/ Untouched(control')
      BY <1>4 DEF Serves, Kept, Succeeds
    <2> QED
      BY <1>2, <1>5, <1>6, <2>1, <2>2, ServedBounds
  <1>8. host'.mapped /\ host'.display.generation <= control'.generation
    BY <1>4 DEF IInv, HostInv, Receiving, Apart, Reads
  <1> QED
    BY <1>1, <1>3, <1>5, <1>7, <1>8 DEF BoundsInv

LEMMA FrameMissedBounds ==
  ASSUME IInv, IInv', BoundsInv, NEW visible \in BOOLEAN, FrameMissed(visible)
  PROVE  BoundsInv'
  <1> DEFINE observed == ObservePlayback(host)
             k == EndFrame(observed, visible)
  <1>1. /\ StreamTypes /\ HostInv /\ host.life = "up" /\ UNCHANGED <<control, producer, wish, orphans>>
        /\ host' = k
        /\ Paced(control.epoch, host, wish) /\ Unanswered(control, host)
    BY DEF IInv, FrameMissed, BoundsInv
  <1>2. /\ host \in Hosts /\ control \in Headers /\ wish \in [mode : Modes, revision : Nat]
        /\ Reads(control, host) /\ Receiving(control, host, wish) /\ control.epoch \in Nat
        /\ Commands(host, wish)
    BY <1>1 DEF StreamTypes, HostInv, Headers, Receiving
  <1>3. /\ observed \in Hosts /\ Reads(control, observed) /\ Elsewhere(host, observed)
        /\ Paced(control.epoch, observed, wish)
    BY <1>1, <1>2, ObservePlaybackParts, ObservePlaybackPaced
  <1> HIDE DEF observed
  <1>4. Elsewhere(observed, k) /\ Settled(observed, k) /\ k.playback = observed.playback
    BY <1>2, <1>3, EndFrameParts, EndFrameSteady
  <1> HIDE DEF k
  <1>5. Paced(control.epoch, k, wish) /\ Unanswered(control, k)
    BY <1>1, <1>3, <1>4 DEF Paced, Owed, Settled, Unanswered, Elsewhere
  <1>6. host'.life = "up"
    BY <1>1, <1>3, <1>4 DEF Elsewhere
  <1>7. host'.mapped /\ host'.display.generation <= control'.generation
    BY <1>6 DEF IInv, HostInv, Receiving, Apart, Reads
  <1> QED
    BY <1>1, <1>5, <1>7 DEF BoundsInv

LEMMA DrawsDoneBounds ==
  ASSUME IInv, BoundsInv, DrawsDone
  PROVE  BoundsInv'
  <1> DEFINE fence == IF host.fence = "pending" THEN "done" ELSE host.fence
             k == [host EXCEPT !.fence = fence, !.drawing = {}]
  <1>1. host' = k /\ UNCHANGED <<control, producer, wish, orphans>>
    BY DEF DrawsDone
  <1> HIDE DEF fence
  <1>2. /\ k.life = host.life /\ k.applied = host.applied /\ k.seen = host.seen
        /\ k.playback = host.playback /\ k.invalidate = host.invalidate
        /\ k.mapped = host.mapped /\ k.display = host.display /\ k.drawing = {}
    BY DEF IInv, StreamTypes, Hosts
  <1> HIDE DEF k
  <1> QED
    BY <1>1, <1>2 DEF BoundsInv, Unanswered, Paced, Owed

LEMMA HostFailsBounds ==
  ASSUME IInv, BoundsInv, HostFails
  PROVE  BoundsInv'
  <1> DEFINE entered == IF mutex = "free" THEN Entered ELSE [c |-> control, h |-> ObservePlayback(host)]
             k == FailedReceiver(entered.h)
  <1>1. /\ StreamTypes /\ HostInv /\ host.life = "up" /\ UNCHANGED <<producer, wish, orphans>>
        /\ Paced(control.epoch, host, wish) /\ HeaderBounds(control, wish)
        /\ host' = k
        /\ control' = [entered.c EXCEPT !.result = "Error"] \/ control' = entered.c
    BY DEF IInv, HostFails, BoundsInv
  <1>2. /\ host \in Hosts /\ control \in Headers /\ wish \in [mode : Modes, revision : Nat]
        /\ Reads(control, host) /\ Receiving(control, host, wish)
    BY <1>1 DEF StreamTypes, HostInv
  <1>3. /\ entered.c \in Headers /\ HeaderBounds(entered.c, wish)
        /\ entered.h.display.generation <= entered.c.generation
    <2>1. CASE mutex = "free"
      <3>1. entered = Entered
        BY <2>1
      <3>2. /\ Sound(Entered) /\ Same([c |-> Seen, h |-> host], Entered)
            /\ Paced(Entered.c.epoch, Entered.h, wish) /\ Entered.h.seen = wish.revision
            /\ Entered.c.epoch \in Nat /\ control.epoch <= Entered.c.epoch
        BY <1>1, EnteredParts, EnteredPaced
      <3>3. Entered.c \in Headers /\ Entered.h.display.generation <= Entered.c.generation
        BY <3>2 DEF Sound, States, Apart, Reads
      <3>4. Kept(Seen, Entered.c)
        BY <3>2 DEF Same
      <3>5. Seen \in Headers /\ HeaderBounds(Seen, wish) /\ Seen.epoch = control.epoch
        BY <1>1, SeenParts DEF HeaderBounds, SlotBounds
      <3>6. Entered.c.generation <= Entered.c.serial
        BY <3>4, <3>5 DEF HeaderBounds, Kept, SameHeader
      <3>7. Entered.c.epoch <= 2 * wish.revision + 1
        <4>1. Owed(Entered.h) \in Nat
          BY DEF Owed
        <4> QED
          BY <1>2, <3>2, <4>1 DEF Paced
      <3>8. HeaderBounds(Entered.c, wish)
        BY <1>2, <3>2, <3>3, <3>4, <3>5, <3>6, <3>7, ServedBounds DEF Kept
      <3> QED
        BY <3>1, <3>3, <3>8
    <2>2. CASE mutex # "free"
      <3> DEFINE observed == ObservePlayback(host)
      <3>1. entered = [c |-> control, h |-> observed]
        BY <2>2
      <3>2. Reads(control, observed) /\ Receiving(control, observed, wish)
        BY <1>2, ObservePlaybackParts
      <3> HIDE DEF observed, entered
      <3>3. observed.display.generation <= control.generation
        BY <3>2 DEF Receiving, Apart, Reads
      <3> QED
        BY <1>1, <1>2, <3>1, <3>3
    <2> QED
      BY <2>1, <2>2
  <1> HIDE DEF entered
  <1>4. k.life = "failed" /\ k.mapped = TRUE /\ k.display = entered.h.display
    BY DEF FailedReceiver, NewReceiver
  <1> HIDE DEF k
  <1>5. HeaderBounds(control', wish) /\ control'.generation = entered.c.generation
    <2> DEFINE d == [entered.c EXCEPT !.result = "Error"]
    <2>1. /\ d.session = entered.c.session /\ d.serial = entered.c.serial
          /\ d.generation = entered.c.generation /\ d.epoch = entered.c.epoch /\ d.slots = entered.c.slots
      BY <1>3 DEF Headers
    <2> HIDE DEF d
    <2>2. HeaderBounds(d, wish)
      BY <1>3, <2>1 DEF HeaderBounds, SlotBounds
    <2> QED
      BY <1>1, <1>3, <2>1, <2>2 DEF d
  <1> QED
    BY <1>1, <1>3, <1>4, <1>5 DEF BoundsInv

\* A header that nobody has mapped, and one that is written anew.
LEMMA NewHeaderBounds ==
  ASSUME NEW n \in Nat, NEW alive \in BOOLEAN, NEW w \in [mode : Modes, revision : Nat],
         n + w.revision <= MaxEvents
  PROVE  HeaderBounds(Header(n, alive), w) /\ Header(n, alive).serial = 0
  <1> DEFINE d == Header(n, alive)
  <1>1. d.session = n /\ d.generation = 0 /\ d.epoch = 1 /\ Untouched(d)
    BY NewHeader
  <1>2. d.serial = 0
    BY DEF Header
  <1> HIDE DEF d
  <1>3. w.revision \in Nat /\ MaxFrame \in Nat
    BY StreamAssumption
  <1>4. SlotBounds(d, w)
    BY <1>1, <1>3 DEF SlotBounds, Untouched, FreeSlot
  <1> QED
    BY <1>1, <1>2, <1>3, <1>4 DEF HeaderBounds, d

LEMMA KeptMappingBounds ==
  ASSUME NEW c \in Headers, NEW w \in [mode : Modes, revision : Nat], HeaderBounds(c, w),
         NEW mapped, NEW producers
  PROVE  HeaderBounds(KeepMapping(c, mapped, producers), w)
  <1>1. HeaderBounds(Unmapped, w)
    <2>1. 0 + w.revision <= MaxEvents
      BY CountersAreNat
    <2> QED
      BY <2>1, NewHeaderBounds DEF Unmapped
  <1> QED
    BY <1>1 DEF KeepMapping

LEMMA HostStartBounds ==
  ASSUME IInv, BoundsInv, HostStart
  PROVE  BoundsInv'
  <1>1. /\ control \in Headers /\ wish \in [mode : Modes, revision : Nat] /\ InBudget
        /\ UNCHANGED <<producer, wish>> /\ HeaderBounds(control, wish)
    BY DEF IInv, StreamTypes, HostStart, BoundsInv
  <1>2. CASE host' = NewReceiver("failed") /\ UNCHANGED <<control, orphans>>
    <2>1. host'.life = "failed" /\ host'.mapped = FALSE /\ host'.drawing = {}
      BY <1>2, FreshReceiver
    <2> QED
      BY <1>1, <1>2, <2>1 DEF BoundsInv
  <1>3. CASE /\ control' = Header(control.session + 1, TRUE)
             /\ host' = NewReceiver("up")
             /\ orphans' = {}
    <2> DEFINE n == control.session + 1
    <2>1. n \in Nat /\ n + wish.revision <= MaxEvents
      BY <1>1, CountersAreNat DEF InBudget
    <2>2. HeaderBounds(control', wish) /\ control'.serial = 0 /\ control'.generation = 0 /\ control'.epoch = 1
      BY <1>1, <1>3, <2>1, NewHeader, NewHeaderBounds
    <2>3. /\ host'.mapped /\ host'.display.generation = 0 /\ host'.applied = 0
          /\ host'.seen = 0 /\ host'.playback = "Play" /\ ~host'.invalidate
      BY <1>3 DEF NewReceiver, NoDisplay
    <2>4. Unanswered(control', host')
      BY <2>2, <2>3 DEF Unanswered
    <2>5. Paced(control'.epoch, host', wish)
      BY <2>2, <2>3 DEF Paced, Owed, BoundsInv
    <2>6. host'.display.generation <= control'.generation
      BY <2>2, <2>3
    <2>7. \A o \in orphans' : o[1] <= MaxEvents
      BY <1>3
    <2>8. \A p \in Producers : ProducerBounds(producer'[p])
      BY <1>1 DEF BoundsInv
    <2>9. wish'.mode = "Stop" => wish'.revision # 0
      BY <1>1 DEF BoundsInv
    <2>10. HeaderBounds(control', wish')
      BY <1>1, <2>2
    <2> QED
      BY <1>1, <2>3, <2>4, <2>5, <2>6, <2>7, <2>8, <2>9, <2>10 DEF BoundsInv
  <1> QED
    BY <1>2, <1>3 DEF HostStart

LEMMA HostStopBounds ==
  ASSUME IInv, BoundsInv, HostStop
  PROVE  BoundsInv'
  <1>1. /\ control \in Headers /\ wish \in [mode : Modes, revision : Nat] /\ HeaderBounds(control, wish)
        /\ UNCHANGED <<producer, wish, orphans>> /\ host' = NewReceiver("absent")
    BY DEF IInv, StreamTypes, HostStop, BoundsInv
  <1>2. host'.life = "absent" /\ host'.mapped = FALSE /\ host'.drawing = {}
    BY <1>1, FreshReceiver
  <1>3. PICK cleared \in BOOLEAN, held \in BOOLEAN :
           control' = KeepMapping(
                 [control EXCEPT !.host = @ /\ ~(host.mapped /\ (cleared \/ held))], FALSE, producer)
    BY DEF HostStop
  <1> DEFINE alive == control.host /\ ~(host.mapped /\ (cleared \/ held))
             c == [control EXCEPT !.host = alive]
  <1>4. alive \in BOOLEAN
    OBVIOUS
  <1>5. control' = KeepMapping(c, FALSE, producer)
    BY <1>1, <1>3 DEF Headers
  <1> HIDE DEF alive
  <1>6. /\ c \in Headers /\ c.session = control.session /\ c.generation = control.generation
        /\ c.serial = control.serial /\ c.epoch = control.epoch /\ c.slots = control.slots
    BY <1>1, <1>4 DEF Headers
  <1> HIDE DEF c
  <1>7. HeaderBounds(c, wish)
    BY <1>1, <1>6 DEF HeaderBounds, SlotBounds
  <1>8. HeaderBounds(control', wish)
    BY <1>1, <1>5, <1>6, <1>7, KeptMappingBounds
  <1> QED
    BY <1>1, <1>2, <1>8 DEF BoundsInv

LEMMA CommandBounds ==
  ASSUME IInv, BoundsInv, NEW mode \in Modes, Command(mode)
  PROVE  BoundsInv'
  <1> DEFINE n == wish.revision + IF mode = "Stop" THEN 1 ELSE 0
  <1>1. /\ control \in Headers /\ wish \in [mode : Modes, revision : Nat] /\ HeaderBounds(control, wish)
        /\ host \in Hosts /\ HostInv
        /\ UNCHANGED <<control, producer, host, orphans>> /\ wish' = [mode |-> mode, revision |-> n]
        /\ mode = "Stop" => InBudget
    BY DEF IInv, StreamTypes, Command, BoundsInv
  <1>2. n \in Nat /\ wish.revision <= n /\ (mode = "Stop" => n = wish.revision + 1) /\ (mode # "Stop" => n = wish.revision)
    BY <1>1
  <1> HIDE DEF n
  <1>3. HeaderBounds(control, wish')
    <2>1. control.session + control.serial + n <= MaxEvents
      BY <1>1, <1>2, CountersAreNat DEF InBudget, HeaderBounds
    <2>2. control.epoch <= 2 * n + 1
      BY <1>1, <1>2 DEF HeaderBounds, Headers
    <2>3. SlotBounds(control, wish')
      <3>1. \A s \in Slots : control.slots[s].stops \in Nat
        BY <1>1 DEF Headers, SlotTypes
      <3> QED
        BY <1>1, <1>2, <3>1 DEF HeaderBounds, SlotBounds
    <2> QED
      BY <1>1, <2>1, <2>2, <2>3 DEF HeaderBounds
  <1>4. host.life = "up" => Paced(control.epoch, host, wish')
    <2> SUFFICES ASSUME host.life = "up"
                 PROVE  Paced(control.epoch, host, wish')
      OBVIOUS
    <2>1. host.seen <= wish.revision /\ host.seen \in Nat
      BY <1>1 DEF HostInv, Receiving, Commands, Hosts
    <2>2. Paced(control.epoch, host, wish)
      BY DEF BoundsInv
    <2> QED
      BY <1>1, <1>2, <2>1, <2>2 DEF Paced
  <1>5. wish'.mode = "Stop" => wish'.revision # 0
    BY <1>1, <1>2
  <1> QED
    BY <1>1, <1>3, <1>4, <1>5 DEF BoundsInv

\* A step of one producer: a receiver that has the header mapped finds nothing of it changed but the
\* request and the slots.
SameForReceiver ==
    host.mapped => /\ control'.generation = control.generation /\ control'.epoch = control.epoch
                   /\ control.serial <= control'.serial

StaysBounded(p) == \E q : producer' = [producer EXCEPT ![p] = q] /\ ProducerBounds(q)

LEMMA ProducerBoundsStep ==
  ASSUME IInv, IInv', BoundsInv, NEW p \in Producers, host' = host, wish' = wish,
         StaysBounded(p), HeaderBounds(control', wish), SameForReceiver, \A o \in orphans' : o[1] <= MaxEvents
  PROVE  BoundsInv'
  <1>1. /\ control \in Headers /\ control' \in Headers /\ HeaderBounds(control, wish)
        /\ host.life = "up" => host.mapped
    BY DEF IInv, StreamTypes, HostInv, BoundsInv
  <1>2. host.life = "up" => Unanswered(control', host) /\ Paced(control'.epoch, host, wish)
    BY <1>1 DEF BoundsInv, Unanswered, HeaderBounds, Headers, SameForReceiver
  <1>3. PICK q : producer' = [producer EXCEPT ![p] = q] /\ ProducerBounds(q)
    BY DEF StaysBounded
  <1>4. \A x \in Producers : ProducerBounds(producer'[x])
    BY <1>3 DEF BoundsInv, IInv, StreamTypes
  <1> QED
    BY <1>1, <1>2, <1>4 DEF BoundsInv, SameForReceiver

LEMMA SameHeaderForReceiver ==
  ASSUME control \in Headers, control' = control
  PROVE  SameForReceiver
  BY DEF SameForReceiver, Headers

LEMMA AbandonedBounds ==
  ASSUME BoundsInv, NEW p \in Producers, NEW o \in orphans \cup Abandoned(p)
  PROVE  o[1] <= MaxEvents
  BY DEF BoundsInv, Abandoned, ProducerBounds

LEMMA SynchronizeBounds ==
  ASSUME IInv, BoundsInv, NEW p \in Producers, NEW c \in Headers, NEW q \in ProducerTypes, NEW S, NEW acquire,
         HeaderBounds(c, wish), ProducerBounds(q), Synchronize(p, c, q, S, acquire)
  PROVE  /\ HeaderBounds(control', wish) /\ control'.generation = c.generation
         /\ control'.epoch = c.epoch /\ control'.serial = c.serial
         /\ \A o \in orphans' : o[1] <= MaxEvents
         /\ StaysBounded(p)
  <1>1. wish \in [mode : Modes, revision : Nat] /\ c.epoch \in Nat /\ c.slots \in [Slots -> SlotTypes]
    BY DEF IInv, StreamTypes, Headers
  <1>2. CASE /\ control' = c /\ producer' = [producer EXCEPT ![p] = q] /\ UNCHANGED orphans
    BY <1>2 DEF BoundsInv, StaysBounded
  <1>3. CASE /\ control' = c /\ producer' = [producer EXCEPT ![p] = Reopened(q, c)]
             /\ orphans' = orphans \cup Abandoned(p)
    <2>1. /\ Reopened(q, c).lastFrame = q.lastFrame /\ Reopened(q, c).session = c.session
          /\ Reopened(q, c).generation = c.generation
      BY DEF Reopened, ProducerTypes
    <2>2. ProducerBounds(Reopened(q, c))
      <3>1. c.session <= MaxEvents /\ c.generation <= MaxEvents
        BY <1>1, CountersAreNat
      <3> QED
        BY <2>1, <3>1 DEF ProducerBounds
    <2> QED
      BY <1>3, <2>2, AbandonedBounds DEF StaysBounded
  <1>4. CASE /\ control' = [c EXCEPT !.slots = [s \in Slots |->
                   IF s \notin S THEN c.slots[s]
                   ELSE IF CompletedState(q, s, c) = "Free" THEN FreeSlot
                   ELSE [c.slots[s] EXCEPT !.state = "Ready"]]]
             /\ producer' = [producer EXCEPT ![p] =
                   [q EXCEPT !.pending = @ \ S, !.discard = @ \ S,
                             !.order = @ \ {e \in @ : e[1] \in S \/ e[2] \in S},
                             !.acquiring = acquire /\ q.writing = NoSlot]]
             /\ UNCHANGED orphans
    <2> DEFINE slots == [s \in Slots |->
                   IF s \notin S THEN c.slots[s]
                   ELSE IF CompletedState(q, s, c) = "Free" THEN FreeSlot
                   ELSE [c.slots[s] EXCEPT !.state = "Ready"]]
               d == [c EXCEPT !.slots = slots]
               acquiring == acquire /\ q.writing = NoSlot
               x == [q EXCEPT !.pending = @ \ S, !.discard = @ \ S,
                             !.order = @ \ {e \in @ : e[1] \in S \/ e[2] \in S},
                             !.acquiring = acquiring]
    <2>1. \A s \in Slots : Lasts(c.slots[s], slots[s]) /\ slots[s] \in SlotTypes
      <3> SUFFICES ASSUME NEW s \in Slots
                   PROVE  Lasts(c.slots[s], slots[s]) /\ slots[s] \in SlotTypes
        OBVIOUS
      <3>1. c.slots[s] \in SlotTypes /\ FreeSlot \in SlotTypes
        BY <1>1 DEF SlotTypes, FreeSlot, SlotStates
      <3>2. CASE slots[s] = c.slots[s] \/ slots[s] = FreeSlot
        BY <3>1, <3>2 DEF Lasts
      <3>3. CASE slots[s] = [c.slots[s] EXCEPT !.state = "Ready"]
        <4> HIDE DEF slots
        <4> QED
          BY <3>1, <3>3 DEF Lasts, SlotTypes, SlotStates
      <3>4. slots[s] \in {c.slots[s], FreeSlot, [c.slots[s] EXCEPT !.state = "Ready"]}
        OBVIOUS
      <3> HIDE DEF slots
      <3> QED
        BY <3>2, <3>3, <3>4
    <2>2. slots \in [Slots -> SlotTypes]
      BY <2>1
    <2> HIDE DEF slots, acquiring
    <2>3. /\ d \in Headers /\ d.session = c.session /\ d.generation = c.generation
          /\ d.epoch = c.epoch /\ d.serial = c.serial /\ d.slots = slots
      BY <2>2 DEF Headers
    <2>4. x.lastFrame = q.lastFrame /\ x.generation = q.generation /\ x.session = q.session
      BY DEF ProducerTypes
    <2>5. control' = d /\ producer' = [producer EXCEPT ![p] = x]
      BY <1>4 DEF slots, acquiring
    <2> HIDE DEF d, x
    <2>6. SlotBounds(d, wish)
      BY <1>1, <2>1, <2>3, SlotsLast DEF HeaderBounds
    <2>7. HeaderBounds(d, wish) /\ ProducerBounds(x)
      BY <2>3, <2>4, <2>6 DEF HeaderBounds, ProducerBounds
    <2> QED
      BY <1>4, <2>3, <2>5, <2>7 DEF BoundsInv, StaysBounded
  <1> QED
    BY <1>2, <1>3, <1>4 DEF Synchronize

LEMMA SynchronizesBounds ==
  ASSUME IInv, IInv', BoundsInv, NEW p \in Producers, NEW S, NEW acquire,
         Synchronize(p, control, producer[p], S, acquire), UNCHANGED <<host, wish>>
  PROVE  BoundsInv'
  <1>1. /\ control \in Headers /\ producer[p] \in ProducerTypes /\ HeaderBounds(control, wish)
        /\ ProducerBounds(producer[p]) /\ control.serial \in Nat
    BY DEF IInv, StreamTypes, BoundsInv, Headers
  <1>2. /\ HeaderBounds(control', wish) /\ control'.generation = control.generation
        /\ control'.epoch = control.epoch /\ control'.serial = control.serial
        /\ \A o \in orphans' : o[1] <= MaxEvents
        /\ StaysBounded(p)
    BY <1>1, SynchronizeBounds
  <1>3. SameForReceiver
    BY <1>1, <1>2 DEF SameForReceiver
  <1> QED
    BY <1>1, <1>2, <1>3, ProducerBoundsStep

LEMMA OpenBounds ==
  ASSUME IInv, IInv', BoundsInv, NEW p \in Producers, Open(p)
  PROVE  BoundsInv'
  <1> DEFINE n == control.serial + 1
             c == [control EXCEPT !.pid = p, !.wanted = TRUE, !.serial = n, !.result = "Unavailable"]
             q == [producer[p] EXCEPT !.open = TRUE, !.registered = TRUE]
  <1>1. /\ control \in Headers /\ producer[p] \in ProducerTypes /\ HeaderBounds(control, wish)
        /\ wish \in [mode : Modes, revision : Nat]
        /\ ProducerBounds(producer[p]) /\ InBudget /\ UNCHANGED <<host, wish>>
        /\ Synchronize(p, Request(p), q, {}, FALSE)
    BY DEF IInv, StreamTypes, BoundsInv, Open
  <1>2. n \in Nat /\ n > control.serial /\ control.session + n + wish.revision <= MaxEvents
    BY <1>1, CountersAreNat DEF InBudget
  <1>3. c = Request(p)
    BY <1>1 DEF Request, Headers
  <1> HIDE DEF n
  <1>4. /\ c \in Headers /\ c.session = control.session /\ c.generation = control.generation
        /\ c.epoch = control.epoch /\ c.slots = control.slots /\ c.serial = n
    BY <1>1, <1>2 DEF Headers
  <1>5. q \in ProducerTypes /\ ProducerBounds(q)
    BY <1>1 DEF ProducerTypes, ProducerBounds
  <1> HIDE DEF c, q
  <1>6. HeaderBounds(c, wish)
    BY <1>1, <1>2, <1>4 DEF HeaderBounds, SlotBounds, Headers
  <1>7. /\ HeaderBounds(control', wish) /\ control'.generation = c.generation
        /\ control'.epoch = c.epoch /\ control'.serial = c.serial
        /\ \A o \in orphans' : o[1] <= MaxEvents
        /\ StaysBounded(p)
    BY <1>1, <1>3, <1>4, <1>5, <1>6, SynchronizeBounds
  <1>8. SameForReceiver
    BY <1>1, <1>2, <1>4, <1>7 DEF SameForReceiver, Headers
  <1> QED
    BY <1>1, <1>7, <1>8, ProducerBoundsStep

LEMMA AcquireBounds ==
  ASSUME IInv, IInv', BoundsInv, NEW p \in Producers, Acquire(p)
  PROVE  BoundsInv'
  <1> DEFINE x == producer[p]
             s == FindWritable(control)
             slot == [state |-> "Writing", frame |-> 0, epoch |-> control.epoch, stops |-> wish.revision]
  <1>1. /\ control \in Headers /\ x \in ProducerTypes /\ producer \in [Producers -> ProducerTypes]
        /\ HeaderBounds(control, wish) /\ wish \in [mode : Modes, revision : Nat]
        /\ ProducerBounds(x) /\ UNCHANGED <<host, wish, orphans>> /\ control.serial \in Nat
        /\ \A o \in orphans : o[1] <= MaxEvents
    BY DEF IInv, StreamTypes, BoundsInv, Acquire, Headers
  <1>2. CASE /\ s # NoSlot
             /\ control' = [control EXCEPT !.slots[s] = slot]
             /\ producer' = [producer EXCEPT ![p].acquiring = FALSE, ![p].writing = s]
    <2> DEFINE slots == [control.slots EXCEPT ![s] = slot]
               d == [control EXCEPT !.slots = slots]
               q == [x EXCEPT !.acquiring = FALSE, !.writing = s]
    <2>1. s \in Slots
      BY <1>1, <1>2, WritableSlot
    <2>2. slot \in SlotTypes
      BY <1>1 DEF SlotTypes, SlotStates, Headers
    <2>3. control' = d /\ producer' = [producer EXCEPT ![p] = q]
      BY <1>1, <1>2 DEF Headers
    <2>4. slots \in [Slots -> SlotTypes] /\ slots[s] = slot /\ \A t \in Slots \ {s} : slots[t] = control.slots[t]
      BY <1>1, <2>1, <2>2 DEF Headers
    <2> HIDE DEF slots, s
    <2>5. /\ d.session = control.session /\ d.generation = control.generation
          /\ d.epoch = control.epoch /\ d.serial = control.serial /\ d.slots = slots
      BY <1>1, <2>4 DEF Headers
    <2>6. ProducerBounds(q)
      BY <1>1 DEF ProducerBounds, ProducerTypes
    <2> HIDE DEF d, q
    <2>7. SlotBounds(d, wish)
      <3>1. 0 <= MaxFrame /\ control.epoch <= control.epoch /\ wish.revision <= wish.revision
        BY <1>1, StreamAssumption DEF Headers
      <3>2. SlotBounds(control, wish)
        BY <1>1 DEF HeaderBounds
      <3> QED
        BY <2>4, <2>5, <3>1, <3>2 DEF SlotBounds
    <2>8. HeaderBounds(d, wish)
      BY <1>1, <2>5, <2>7 DEF HeaderBounds
    <2>9. StaysBounded(p) /\ SameForReceiver
      <3>1. StaysBounded(p)
        BY <2>3, <2>6 DEF StaysBounded
      <3>2. SameForReceiver
        BY <1>1, <2>3, <2>5 DEF SameForReceiver
      <3> QED
        BY <3>1, <3>2
    <2> QED
      BY <1>1, <2>3, <2>8, <2>9, ProducerBoundsStep
  <1>3. CASE producer' = [producer EXCEPT ![p].acquiring = FALSE] /\ UNCHANGED control
    <2> DEFINE q == [x EXCEPT !.acquiring = FALSE]
    <2>1. producer' = [producer EXCEPT ![p] = q]
      BY <1>3
    <2>2. ProducerBounds(q)
      BY <1>1 DEF ProducerBounds, ProducerTypes
    <2> HIDE DEF q
    <2> QED
      BY <1>1, <1>3, <2>1, <2>2, ProducerBoundsStep, SameHeaderForReceiver DEF StaysBounded
  <1> QED
    BY <1>2, <1>3 DEF Acquire

LEMMA SubmittedBounds ==
  ASSUME NEW q \in ProducerTypes, ProducerBounds(q)
  PROVE  LET x == Submitted(q) IN
         /\ x.lastFrame = q.lastFrame /\ x.generation = q.generation /\ x.session = q.session
         /\ x \in ProducerTypes \/ q.writing = NoSlot
  BY DEF Submitted, ProducerTypes, SomeSlot

LEMMA PublishBounds ==
  ASSUME IInv, IInv', BoundsInv, NEW p \in Producers, Publish(p)
  PROVE  BoundsInv'
  <1> DEFINE x == producer[p]
             s == x.writing
             n == x.lastFrame + 1
  <1>1. /\ control \in Headers /\ x \in ProducerTypes /\ producer \in [Producers -> ProducerTypes]
        /\ HeaderBounds(control, wish) /\ wish \in [mode : Modes, revision : Nat]
        /\ ProducerBounds(x) /\ UNCHANGED <<host, wish>> /\ control.serial \in Nat
        /\ s # NoSlot /\ x.lastFrame < MaxFrame
        /\ \A o \in orphans : o[1] <= MaxEvents
    BY DEF IInv, StreamTypes, BoundsInv, Publish, Headers
  <1>2. s \in Slots /\ n \in Nat /\ n <= MaxFrame
    BY <1>1, StreamAssumption DEF ProducerTypes, SomeSlot
  <1>3. CASE /\ control' = [control EXCEPT !.slots[s].state = "Pending", !.slots[s].frame = n]
             /\ producer' = [producer EXCEPT ![p] = [Submitted(x) EXCEPT !.discard = @ \ {s}, !.lastFrame = @ + 1]]
             /\ UNCHANGED orphans
    <2> DEFINE slot == [control.slots[s] EXCEPT !.state = "Pending", !.frame = n]
               slots == [control.slots EXCEPT ![s] = slot]
               d == [control EXCEPT !.slots = slots]
               q == [Submitted(x) EXCEPT !.discard = @ \ {s}, !.lastFrame = @ + 1]
    <2>1. control.slots \in [Slots -> SlotTypes] /\ control.slots[s] \in SlotTypes
      BY <1>1, <1>2 DEF Headers
    <2>2. /\ slot \in SlotTypes /\ slot.frame = n /\ slot.epoch = control.slots[s].epoch
          /\ slot.stops = control.slots[s].stops
      <3> HIDE DEF s, n
      <3> QED
        BY <1>2, <2>1 DEF SlotTypes, SlotStates
    <2>3. control' = d
      BY <1>1, <1>2, <1>3, <2>1 DEF Headers
    <2> HIDE DEF slot, s
    <2>4. slots \in [Slots -> SlotTypes] /\ slots[s] = slot /\ \A t \in Slots \ {s} : slots[t] = control.slots[t]
      BY <1>2, <2>1, <2>2
    <2> HIDE DEF slots
    <2>5. /\ d.session = control.session /\ d.generation = control.generation
          /\ d.epoch = control.epoch /\ d.serial = control.serial /\ d.slots = slots
      BY <1>1, <2>4 DEF Headers
    <2> HIDE DEF d
    <2>6. SlotBounds(d, wish)
      <3>1. SlotBounds(control, wish)
        BY <1>1 DEF HeaderBounds
      <3> QED
        BY <1>2, <2>2, <2>4, <2>5, <3>1 DEF SlotBounds
    <2>7. HeaderBounds(d, wish)
      BY <1>1, <2>5, <2>6 DEF HeaderBounds
    <2>8. ProducerBounds(q)
      <3> DEFINE y == Submitted(x)
      <3>1. /\ y \in ProducerTypes
            /\ y.lastFrame = x.lastFrame /\ y.generation = x.generation /\ y.session = x.session
        BY <1>1, SubmittedBounds DEF s
      <3> HIDE DEF y
      <3>2. q = [y EXCEPT !.discard = @ \ {s}, !.lastFrame = @ + 1]
        BY DEF y
      <3>3. q.lastFrame = y.lastFrame + 1 /\ q.generation = y.generation /\ q.session = y.session
        BY <3>1, <3>2 DEF ProducerTypes
      <3> HIDE DEF q
      <3> QED
        BY <1>1, <1>2, <3>1, <3>3 DEF ProducerBounds
    <2>9. StaysBounded(p)
      BY <1>3, <2>8 DEF StaysBounded
    <2>10. SameForReceiver
      BY <1>1, <2>3, <2>5 DEF SameForReceiver
    <2> HIDE DEF q
    <2> QED
      BY <1>1, <1>3, <2>3, <2>7, <2>9, <2>10, ProducerBoundsStep
  <1>4. CASE /\ producer' = [producer EXCEPT ![p].writing = NoSlot]
             /\ orphans' = orphans \cup Abandoned(p) /\ UNCHANGED control
    <2> DEFINE q == [x EXCEPT !.writing = NoSlot]
    <2>1. producer' = [producer EXCEPT ![p] = q]
      BY <1>4
    <2>2. ProducerBounds(q)
      BY <1>1 DEF ProducerBounds, ProducerTypes
    <2> HIDE DEF q
    <2>3. \A o \in orphans' : o[1] <= MaxEvents
      BY <1>4, AbandonedBounds
    <2> QED
      BY <1>1, <1>4, <2>1, <2>2, <2>3, ProducerBoundsStep, SameHeaderForReceiver DEF StaysBounded
  <1> QED
    BY <1>3, <1>4 DEF Publish

LEMMA CancelBounds ==
  ASSUME IInv, IInv', BoundsInv, NEW p \in Producers, Cancel(p)
  PROVE  BoundsInv'
  <1> DEFINE x == producer[p]
             y == Submitted(x)
             q == [y EXCEPT !.discard = @ \cup {x.writing}]
  <1>1. /\ control \in Headers /\ x \in ProducerTypes /\ control.serial \in Nat
        /\ HeaderBounds(control, wish) /\ ProducerBounds(x) /\ x.writing # NoSlot
        /\ UNCHANGED <<host, wish, control, orphans>> /\ producer' = [producer EXCEPT ![p] = q]
        /\ \A o \in orphans : o[1] <= MaxEvents
    BY DEF IInv, StreamTypes, BoundsInv, Cancel, Headers
  <1>2. /\ y \in ProducerTypes
        /\ y.lastFrame = x.lastFrame /\ y.generation = x.generation /\ y.session = x.session
    BY <1>1, SubmittedBounds
  <1> HIDE DEF y
  <1>3. ProducerBounds(q)
    BY <1>1, <1>2 DEF ProducerBounds, ProducerTypes
  <1> HIDE DEF q
  <1> QED
    BY <1>1, <1>3, ProducerBoundsStep, SameHeaderForReceiver DEF StaysBounded

\* Close and Crash: the producer is as new, and the header ends with its last mapping.
LEMMA LeavingBounds ==
  ASSUME IInv, IInv', BoundsInv, NEW p \in Producers, UNCHANGED <<host, wish>>,
         NEW c \in Headers, c.session = control.session, c.serial = control.serial,
         c.generation = control.generation, c.epoch = control.epoch, c.slots = control.slots,
         producer' = [producer EXCEPT ![p] = Closed],
         control' = KeepMapping(c, host.mapped, producer'), orphans' = orphans \cup Abandoned(p)
  PROVE  BoundsInv'
  <1>1. /\ control \in Headers /\ HeaderBounds(control, wish) /\ wish \in [mode : Modes, revision : Nat]
        /\ control.serial \in Nat
    BY DEF IInv, StreamTypes, BoundsInv, Headers
  <1>2. HeaderBounds(c, wish)
    BY <1>1 DEF HeaderBounds, SlotBounds
  <1>3. HeaderBounds(control', wish)
    BY <1>1, <1>2, KeptMappingBounds
  <1>4. host.mapped => control' = c
    BY DEF KeepMapping, Mapped
  <1>5. ProducerBounds(Closed)
    BY StreamAssumption DEF ProducerBounds, Closed
  <1>6. \A o \in orphans' : o[1] <= MaxEvents
    BY AbandonedBounds
  <1>7. StaysBounded(p)
    BY <1>5 DEF StaysBounded
  <1>8. SameForReceiver
    <2>1. control.serial <= c.serial
      BY <1>1
    <2> QED
      BY <1>4, <2>1 DEF SameForReceiver
  <1> QED
    BY <1>3, <1>6, <1>7, <1>8, ProducerBoundsStep

LEMMA CloseBounds ==
  ASSUME IInv, IInv', BoundsInv, NEW p \in Producers, Close(p)
  PROVE  BoundsInv'
  <1> DEFINE d == [control EXCEPT !.pid = NoOne, !.wanted = FALSE]
  <1>1. control \in Headers
    BY DEF IInv, StreamTypes
  <1>2. d \in Headers /\ d.session = control.session /\ d.serial = control.serial
        /\ d.generation = control.generation /\ d.epoch = control.epoch /\ d.slots = control.slots
    BY <1>1 DEF Headers
  <1>3. /\ UNCHANGED <<host, wish>> /\ producer' = [producer EXCEPT ![p] = Closed]
        /\ orphans' = orphans \cup Abandoned(p)
        /\ \E c \in {d, control} : control' = KeepMapping(c, host.mapped, producer')
    BY DEF Close
  <1> HIDE DEF d
  <1>4. PICK c \in {d, control} : control' = KeepMapping(c, host.mapped, producer')
    BY <1>3
  <1> QED
    BY <1>1, <1>2, <1>3, <1>4, LeavingBounds

LEMMA CrashBounds ==
  ASSUME IInv, IInv', BoundsInv, NEW p \in Producers, Crash(p)
  PROVE  BoundsInv'
  <1> DEFINE pid == IF control.pid = p THEN Gone ELSE control.pid
             c == [control EXCEPT !.pid = pid]
  <1>1. control \in Headers
    BY DEF IInv, StreamTypes
  <1>2. pid \in Producers \cup {NoOne, Gone}
    BY <1>1 DEF Headers
  <1>3. /\ UNCHANGED <<host, wish>> /\ producer' = [producer EXCEPT ![p] = Closed]
        /\ orphans' = orphans \cup Abandoned(p)
        /\ control' = KeepMapping(c, host.mapped, producer')
    BY <1>1 DEF Crash, Headers
  <1> HIDE DEF pid
  <1>4. c \in Headers /\ c.session = control.session /\ c.serial = control.serial
        /\ c.generation = control.generation /\ c.epoch = control.epoch /\ c.slots = control.slots
    BY <1>1, <1>2 DEF Headers
  <1> HIDE DEF c
  <1> QED
    BY <1>3, <1>4, LeavingBounds

LEMMA OpenFailsBounds ==
  ASSUME IInv, IInv', BoundsInv, NEW p \in Producers, OpenFails(p)
  PROVE  BoundsInv'
  <1> DEFINE q == [producer[p] EXCEPT !.open = TRUE]
  <1>1. /\ control \in Headers /\ HeaderBounds(control, wish) /\ control.serial \in Nat
        /\ producer[p] \in ProducerTypes /\ ProducerBounds(producer[p])
        /\ UNCHANGED <<control, host, wish, orphans>>
        /\ \A o \in orphans : o[1] <= MaxEvents
    BY DEF IInv, StreamTypes, BoundsInv, OpenFails, Headers
  <1>2. producer' = [producer EXCEPT ![p] = q]
    BY DEF OpenFails
  <1>3. ProducerBounds(q)
    BY <1>1 DEF ProducerBounds, ProducerTypes
  <1> HIDE DEF q
  <1> QED
    BY <1>1, <1>2, <1>3, ProducerBoundsStep, SameHeaderForReceiver DEF StaysBounded

LEMMA BoundsInit == Init => BoundsInv
  <1> SUFFICES ASSUME Init
               PROVE  BoundsInv
    OBVIOUS
  <1>1. wish = [mode |-> "Play", revision |-> 0] /\ wish \in [mode : Modes, revision : Nat]
    BY DEF Init, Modes
  <1>2. HeaderBounds(control, wish)
    <2>1. 0 \in Nat /\ 0 + wish.revision <= MaxEvents
      BY <1>1, StreamAssumption
    <2> QED
      BY <1>1, <2>1, NewHeaderBounds DEF Init, Unmapped
  <1>3. host.life = "absent" /\ host.mapped = FALSE /\ host.drawing = {}
    BY FreshReceiver DEF Init
  <1>4. \A p \in Producers : ProducerBounds(producer[p])
    BY StreamAssumption DEF Init, ProducerBounds, Closed
  <1> QED
    BY <1>1, <1>2, <1>3, <1>4 DEF Init, BoundsInv

LEMMA BoundsNext == IInv /\ IInv' /\ BoundsInv /\ [Next]_vars => BoundsInv'
  <1> SUFFICES ASSUME IInv, IInv', BoundsInv, [Next]_vars
               PROVE  BoundsInv'
    OBVIOUS
  <1>1. CASE UNCHANGED <<control, producer, host, wish, orphans>>
    BY <1>1 DEF BoundsInv
  <1>2. ASSUME NEW p \in Producers, ProducerStep(p)
        PROVE  BoundsInv'
    <2>1. ASSUME NEW S \in Completions(p), Poll(p, S)
          PROVE  BoundsInv'
      BY <2>1, SynchronizesBounds DEF Poll
    <2>2. ASSUME NEW S \in Completions(p), TryAcquire(p, S)
          PROVE  BoundsInv'
      BY <2>2, SynchronizesBounds DEF TryAcquire
    <2>3. CASE TakeOver(p)
      BY <1>1, <2>3 DEF TakeOver
    <2> QED
      BY <1>2, <2>1, <2>2, <2>3, OpenBounds, OpenFailsBounds, AcquireBounds, PublishBounds, CancelBounds,
         CloseBounds, CrashBounds
      DEF ProducerStep
  <1>3. CASE HostStep
    BY <1>3, FrameBounds, FrameMissedBounds, DrawsDoneBounds, HostFailsBounds, HostStartBounds, HostStopBounds
    DEF HostStep
  <1>4. ASSUME NEW mode \in Modes, Command(mode)
        PROVE  BoundsInv'
    BY <1>4, CommandBounds
  <1>5. CASE UNCHANGED vars
    BY <1>1, <1>5 DEF vars
  <1> QED
    BY <1>2, <1>3, <1>4, <1>5 DEF Next

LEMMA BoundsAlways == Spec => []BoundsInv
  BY BoundsInit, BoundsNext, Invariance, PTL DEF Spec

LEMMA TypesAndBounds == IInv /\ BoundsInv => TypeOK
  <1> SUFFICES ASSUME IInv, BoundsInv
               PROVE  TypeOK
    OBVIOUS
  <1>1. /\ StreamTypes /\ HostInv /\ ProducerInv /\ control \in Headers /\ host \in Hosts
        /\ wish \in [mode : Modes, revision : Nat] /\ HeaderBounds(control, wish)
    BY DEF IInv, StreamTypes, BoundsInv
  <1>2. /\ control.session \in 0 .. MaxEvents /\ control.generation \in 0 .. MaxEvents
        /\ control.serial \in 0 .. MaxEvents /\ wish.revision \in 0 .. MaxEvents
        /\ control.epoch \in 1 .. 2 * MaxEvents + 2 /\ MaxEvents \in Nat /\ MaxFrame \in Nat
    BY <1>1, CountersAreNat, StreamAssumption
  <1>3. control \in [session : 0 .. MaxEvents, host : BOOLEAN, generation : 0 .. MaxEvents,
                     epoch : 1 .. 2 * MaxEvents + 2, pid : Producers \cup {NoOne, Gone}, wanted : BOOLEAN,
                     serial : 0 .. MaxEvents, result : {"Ok", "Unavailable", "Error"},
                     slots : [Slots -> [state : {"Free", "Writing", "Pending", "Ready", "Reading"},
                                        frame : 0 .. MaxFrame, epoch : 0 .. 2 * MaxEvents + 2,
                                        stops : 0 .. MaxEvents]]]
    <2> DEFINE Bounded == [state : {"Free", "Writing", "Pending", "Ready", "Reading"},
                           frame : 0 .. MaxFrame, epoch : 0 .. 2 * MaxEvents + 2, stops : 0 .. MaxEvents]
    <2>1. \A s \in Slots : control.slots[s] \in Bounded
      <3> SUFFICES ASSUME NEW s \in Slots
                   PROVE  control.slots[s] \in Bounded
        OBVIOUS
      <3>1. control.slots[s] \in SlotTypes
        BY <1>1 DEF Headers
      <3>2. /\ control.slots[s].frame <= MaxFrame /\ control.slots[s].epoch <= control.epoch
            /\ control.slots[s].stops <= wish.revision
        BY <1>1 DEF HeaderBounds, SlotBounds
      <3>3. /\ control.slots[s].frame \in 0 .. MaxFrame /\ control.slots[s].epoch \in 0 .. 2 * MaxEvents + 2
            /\ control.slots[s].stops \in 0 .. MaxEvents
        BY <1>2, <3>1, <3>2 DEF SlotTypes
      <3> QED
        BY <3>1, <3>3 DEF SlotTypes, SlotStates
    <2> HIDE DEF Bounded
    <2>2. control.slots \in [Slots -> Bounded]
      BY <1>1, <2>1 DEF Headers
    <2> QED
      BY <1>1, <1>2, <2>2 DEF Headers, Bounded
  <1>4. ASSUME NEW p \in Producers
        PROVE  /\ producer[p].pending \subseteq Slots /\ producer[p].discard \subseteq producer[p].pending
               /\ producer[p].order \subseteq producer[p].pending \X producer[p].pending
               /\ producer[p].writing \in Slots \cup {NoSlot} /\ producer[p].lastFrame \in 0 .. MaxFrame
               /\ producer[p].generation \in 0 .. MaxEvents /\ producer[p].session \in 0 .. MaxEvents
    <2>1. producer[p] \in ProducerTypes /\ ProducerBounds(producer[p])
      BY <1>1 DEF StreamTypes, BoundsInv
    <2>2. /\ producer[p].discard \subseteq producer[p].pending
          /\ producer[p].order \subseteq producer[p].pending \X producer[p].pending
      BY <1>1 DEF ProducerInv, Idles, Orderly
    <2>3. /\ producer[p].pending \subseteq Slots /\ producer[p].writing \in Slots \cup {NoSlot}
          /\ producer[p].lastFrame \in Nat /\ producer[p].generation \in Nat /\ producer[p].session \in Nat
      BY <2>1 DEF ProducerTypes, SomeSlot
    <2> QED
      BY <1>2, <2>1, <2>2, <2>3 DEF ProducerBounds
  <1>5. host.drawing \subseteq (0 .. MaxEvents) \X (Slots \cup {NoSlot})
    <2>1. CASE ~host.mapped
      BY <2>1 DEF BoundsInv
    <2>2. CASE host.mapped
      <3>1. host.drawing \subseteq {<<host.display.generation, host.display.slot>>}
        BY <1>1, <2>2 DEF HostInv, Reads
      <3>2. host.display.generation \in Nat /\ host.display.slot \in Slots \cup {NoSlot}
        BY <1>1 DEF Hosts, Displays, SomeSlot
      <3>3. host.display.generation <= control.generation
        BY <2>2 DEF BoundsInv
      <3>4. host.display.generation \in 0 .. MaxEvents
        BY <1>2, <3>2, <3>3
      <3> QED
        BY <3>1, <3>2, <3>4
    <2> QED
      BY <2>1, <2>2
  <1>6. orphans \subseteq (0 .. MaxEvents) \X Slots
    <2> SUFFICES ASSUME NEW o \in orphans
                 PROVE  o \in (0 .. MaxEvents) \X Slots
      OBVIOUS
    <2>1. o \in Nat \X Slots /\ o[1] <= MaxEvents
      BY <1>1 DEF StreamTypes, BoundsInv
    <2>2. o[1] \in 0 .. MaxEvents
      BY <1>2, <2>1
    <2> QED
      BY <2>1, <2>2
  <1>7. /\ host.life \in {"absent", "up", "failed"} /\ host.fence \in {"none", "pending", "done"}
        /\ host.copying \in Slots \cup {NoSlot} /\ host.display.slot \in Slots \cup {NoSlot}
    BY <1>1 DEF Hosts, Displays, SomeSlot
  <1>8. wish \in [mode : Modes, revision : 0 .. MaxEvents]
    BY <1>1, <1>2
  <1> QED
    BY <1>1, <1>3, <1>4, <1>5, <1>6, <1>7, <1>8 DEF TypeOK, StreamTypes

-----------------------------------------------------------------------------
(* Theorems.                                                                *)

\* No texture is read while a producer, living, closed or dead, may still have the GPU write it:
\* StreamProducer and StreamReceiver, through the states of the slots and the generations.
THEOREM PixelOwnershipAlways == Spec => []PixelOwnership
  <1>1. IInv => PixelOwnership
    BY DEF IInv
  <1> QED
    BY <1>1, Invariance, PTL

\* Every slot of a producer at work that is neither free nor on offer has someone who will let go of
\* it: no slot is lost before the next generation.
THEOREM SlotsHaveOwnersAlways == Spec => []SlotsHaveOwners
  <1>1. IInv => SlotsHaveOwners
    <2> SUFFICES ASSUME IInv, NEW p \in Producers, host.mapped, producer[p].registered,
                        producer[p].session = control.session, producer[p].generation = control.generation,
                        control.generation # 0, NEW s \in Slots
                 PROVE  LET q == producer[p]
                            state == control.slots[s].state IN
                        /\ state = "Writing" <=> s = q.writing \/ s \in q.discard
                        /\ state = "Pending" <=> s \in q.pending \ q.discard
                        /\ state = "Reading" <=> <<control.generation, s>> \in Read
      BY DEF SlotsHaveOwners
    <2>1. Works(producer[p], control)
      BY DEF IInv, ProducerInv, AtWork
    <2>2. Reads(control, host)
      BY DEF IInv, HostInv
    <2>3. s \in Shown(host, control.generation) <=> <<control.generation, s>> \in Read
      BY <2>2 DEF Shown, Read, Reads
    <2> QED
      BY <2>1, <2>2, <2>3 DEF Works, Reads
  <1> QED
    BY <1>1, Invariance, PTL

\* A receiver that is not up has no image.
Dark == host.life # "up" => ~host.hasImage

LEMMA DarkStep == IInv /\ Dark /\ [Next]_vars => Dark'
  <1> SUFFICES ASSUME IInv, Dark, [Next]_vars
               PROVE  Dark'
    OBVIOUS
  <1>1. StreamTypes /\ HostInv
    BY DEF IInv
  <1>2. CASE UNCHANGED host
    BY <1>2 DEF Dark
  <1>3. ASSUME NEW visible \in BOOLEAN, NEW due \in BOOLEAN, NEW copied \in BOOLEAN,
               NEW gpu \in {"direct", "cpu", "short"}, Frame(visible, due, copied, gpu)
        PROVE  Dark'
    BY <1>1, <1>3, FrameServes DEF Dark
  <1>4. ASSUME NEW visible \in BOOLEAN, FrameMissed(visible)
        PROVE  Dark'
    BY <1>1, <1>4, FrameMissedServes DEF Dark
  <1>5. CASE DrawsDone
    BY <1>1, <1>5 DEF DrawsDone, Dark, StreamTypes, Hosts
  <1>6. CASE HostFails
    <2>1. \E h : host' = FailedReceiver(h)
      BY <1>6 DEF HostFails
    <2> QED
      BY <2>1 DEF FailedReceiver, NewReceiver, Dark
  <1>7. CASE HostStart \/ HostStop
    BY <1>7, FreshReceiver DEF HostStart, HostStop, Dark
  <1>8. ASSUME NEW p \in Producers, ProducerStep(p)
        PROVE  UNCHANGED host
    BY <1>8 DEF ProducerStep, Open, OpenFails, TakeOver, Poll, TryAcquire, Synchronize, Acquire, Publish, Cancel, Close, Crash
  <1>9. ASSUME NEW mode \in Modes, Command(mode)
        PROVE  UNCHANGED host
    BY <1>9 DEF Command
  <1> QED
    BY <1>2, <1>3, <1>4, <1>5, <1>6, <1>7, <1>8, <1>9 DEF Next, HostStep, vars

\* A frame whose texture was acquired before a Stop is never on display once the receiver has been
\* told of the Stop: ObservePlayback, ApplyPlayback and the epochs of the slots.
THEOREM StopIsFinalAlways == Spec => []StopIsFinal
  <1>1. IInv /\ Dark => StopIsFinal
    BY DEF IInv, Dark, StopIsFinal, HostInv, Receiving, Shows
  <1>2. Init => Dark
    BY FreshReceiver DEF Init, Dark
  <1> QED
    BY <1>1, <1>2, Invariance, DarkStep, PTL DEF Spec

\* A completed frame on offer is newer than every frame taken of its generation, or the GPU still had
\* it when a later one was taken: FindLatest, and what is dropped when a frame is taken.
THEOREM OnlyLateFramesGoBackAlways == Spec => []OnlyLateFramesGoBack
  <1>1. IInv => OnlyLateFramesGoBack
    BY DEF IInv, OnlyLateFramesGoBack, HostInv, Receiving, Offers
  <1> QED
    BY <1>1, Invariance, PTL

\* Every variable stays in its type and every counter within what asked for it: a generation answers
\* a request, a Stop moves the epoch twice at most (ObservePlayback, ApplyPlayback), and what a slot,
\* a producer or a draw remembers of them is not ahead of them.
THEOREM TypeOKAlways == Spec => []TypeOK
  BY BoundsAlways, Invariance, TypesAndBounds, PTL
=============================================================================
