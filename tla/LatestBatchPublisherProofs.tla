-------------------- MODULE LatestBatchPublisherProofs --------------------
(***************************************************************************)
(* Safety of LatestBatchPublisher for any number of threads, submissions,  *)
(* reticles, fields and mapping hashes. First come the lemmas about the    *)
(* merge of batches: it stays within the types, and showing a merged batch *)
(* is showing its two parts one after the other, unless the merge is one   *)
(* of those that Losses records.                                           *)
(***************************************************************************)
EXTENDS LatestBatchPublisher, SumTheorems, SequenceTheorems, TLAPS

-----------------------------------------------------------------------------
(* The merge of batches. *)

\* No batch of a client is mistaken for the empty queue.
LEMMA NoBatchIsNoBatch == NoBatch \notin Batch
  BY BatchAssumption DEF Batch

\* An element of a concatenation is one of its parts.
LEMMA ElementOfConcat ==
  ASSUME NEW S, NEW s \in Seq(S), NEW t \in Seq(S), NEW i \in DOMAIN (s \o t)
  PROVE  \/ i \in DOMAIN s /\ (s \o t)[i] = s[i]
         \/ i - Len(s) \in DOMAIN t /\ (s \o t)[i] = t[i - Len(s)]
  <1>1. /\ Len(s) \in Nat /\ DOMAIN s = 1 .. Len(s)
        /\ Len(t) \in Nat /\ DOMAIN t = 1 .. Len(t)
    BY LenProperties
  <1>2. i \in 1 .. Len(s) + Len(t)
    BY ConcatProperties, LenProperties
  <1>3. (s \o t)[i] = IF i <= Len(s) THEN s[i] ELSE t[i - Len(s)]
    BY <1>2, ConcatProperties
  <1>4. i <= Len(s) => i \in DOMAIN s
    BY <1>1, <1>2
  <1>5. ~(i <= Len(s)) => i - Len(s) \in DOMAIN t
    BY <1>1, <1>2
  <1> QED
    BY <1>3, <1>4, <1>5

\* Overlaying two patches over the same fields writes the same kind of value.
LEMMA OverlayType ==
  ASSUME NEW F, NEW newest \in [F -> Nat], NEW older \in [F -> Nat]
  PROVE  Overlay(newest, older) \in [F -> Nat]
  BY DEF Overlay

LEMMA BlankTypes == BlankStatics \in StaticState /\ BlankDynamic \in DynamicPatch
  BY DEF BlankStatics, StaticState, BlankDynamic, DynamicPatch, Absent

-----------------------------------------------------------------------------
(* The updates of one static target.                                         *)

LEMMA OverlayAt ==
  ASSUME NEW F, NEW newest \in [F -> Nat], NEW older \in [F -> Nat]
  PROVE  /\ Overlay(newest, older) \in [F -> Nat]
         /\ \A x \in F : Overlay(newest, older)[x] = IF newest[x] # 0 THEN newest[x] ELSE older[x]
  BY DEF Overlay, Absent

LEMMA PatchParts ==
  ASSUME NEW a \in StaticPatch
  PROVE  /\ a.fields \in [StaticFields -> Nat]
         /\ a.named \in [Entries -> Nat]
         /\ a.byId \in [Entries -> Nat]
  BY DEF StaticPatch

\* What is left of two patches, part by part.
LEMMA FilledParts ==
  ASSUME NEW a \in StaticPatch, NEW b \in StaticPatch
  PROVE  /\ Filled(a, b) \in StaticPatch
         /\ Filled(a, b).fields = Overlay(a.fields, b.fields)
         /\ MixesSpaces(a, b) => Filled(a, b).named = a.named /\ Filled(a, b).byId = a.byId
         /\ ~MixesSpaces(a, b) => /\ Filled(a, b).named = Overlay(a.named, b.named)
                                  /\ Filled(a, b).byId = Overlay(a.byId, b.byId)
  <1>1. /\ Overlay(a.fields, b.fields) \in [StaticFields -> Nat]
        /\ Overlay(a.named, b.named) \in [Entries -> Nat]
        /\ Overlay(a.byId, b.byId) \in [Entries -> Nat]
    BY PatchParts, OverlayAt
  <1> DEFINE scalars == [a EXCEPT !.fields = Overlay(@, b.fields)]
  <1>2. scalars \in StaticPatch /\ scalars.fields = Overlay(a.fields, b.fields)
        /\ scalars.named = a.named /\ scalars.byId = a.byId
    BY <1>1 DEF StaticPatch
  <1>3. CASE MixesSpaces(a, b)
    BY <1>2, <1>3 DEF Filled
  <1>4. CASE ~MixesSpaces(a, b)
    <2> DEFINE filled == [scalars EXCEPT !.named = Overlay(@, b.named), !.byId = Overlay(@, b.byId)]
    <2>1. Filled(a, b) = filled
      BY <1>4 DEF Filled
    <2> HIDE DEF scalars
    <2>2. filled \in StaticPatch /\ filled.fields = scalars.fields
          /\ filled.named = Overlay(scalars.named, b.named)
          /\ filled.byId = Overlay(scalars.byId, b.byId)
      BY <1>1, <1>2 DEF StaticPatch
    <2> QED
      BY <1>2, <1>4, <2>1, <2>2
  <1> QED
    BY <1>3, <1>4

LEMMA OnlyMapsParts ==
  ASSUME NEW a \in StaticPatch
  PROVE  /\ OnlyMaps(a) \in StaticPatch
         /\ OnlyMaps(a).fields = [f \in StaticFields |-> 0]
         /\ OnlyMaps(a).named = a.named
         /\ OnlyMaps(a).byId = a.byId
  BY DEF OnlyMaps, StaticPatch, Absent

LEMMA WrittenType ==
  ASSUME NEW a \in StaticPatch, NEW x \in StaticElements
  PROVE  Written(a, x) \in Nat
  BY PatchParts DEF Written, StaticElements

LEMMA WrittenParts ==
  ASSUME NEW a \in StaticPatch, NEW x \in StaticElements
  PROVE  /\ x \in StaticFields => Written(a, x) = a.fields[x]
         /\ x \notin StaticFields =>
               Written(a, x) = IF a.named[x] # 0 THEN a.named[x] ELSE a.byId[x]
  BY DEF Written, Absent

\* Two patches that do not mix names and ids fold into what they do one after the other.
LEMMA FilledWritten ==
  ASSUME NEW a \in StaticPatch, NEW b \in StaticPatch, ~MixesSpaces(a, b), NEW x \in StaticElements
  PROVE  Written(Filled(a, b), x) = IF Written(a, x) # 0 THEN Written(a, x) ELSE Written(b, x)
  <1>0. Filled(a, b) \in StaticPatch
    BY FilledParts
  <1>1. CASE x \in StaticFields
    <2>1. Filled(a, b).fields[x] = IF a.fields[x] # 0 THEN a.fields[x] ELSE b.fields[x]
      BY <1>1, FilledParts, PatchParts, OverlayAt
    <2> QED
      BY <1>0, <1>1, <2>1, WrittenParts
  <1>2. CASE x \notin StaticFields
    <2>1. x \in Entries
      BY <1>2 DEF StaticElements
    <2>2. /\ Filled(a, b).named[x] = IF a.named[x] # 0 THEN a.named[x] ELSE b.named[x]
          /\ Filled(a, b).byId[x] = IF a.byId[x] # 0 THEN a.byId[x] ELSE b.byId[x]
      BY <2>1, FilledParts, PatchParts, OverlayAt
    <2>3. /\ ~ (a.named[x] # 0 /\ b.byId[x] # 0)
          /\ ~ (a.byId[x] # 0 /\ b.named[x] # 0)
      <3>1. PICK family \in Families : x \in family
        BY <2>1 DEF Entries
      <3>2. x \in DOMAIN a.named /\ x \in DOMAIN a.byId /\ x \in DOMAIN b.named /\ x \in DOMAIN b.byId
        BY <2>1, PatchParts
      <3>3. /\ ~ (Writes(a.named) \cap family # {} /\ Writes(b.byId) \cap family # {})
            /\ ~ (Writes(a.byId) \cap family # {} /\ Writes(b.named) \cap family # {})
        BY <3>1 DEF MixesSpaces
      <3>4. /\ a.named[x] # 0 => x \in Writes(a.named) \cap family
            /\ a.byId[x] # 0 => x \in Writes(a.byId) \cap family
            /\ b.named[x] # 0 => x \in Writes(b.named) \cap family
            /\ b.byId[x] # 0 => x \in Writes(b.byId) \cap family
        BY <3>1, <3>2 DEF Writes, Absent
      <3> QED
        BY <3>3, <3>4
    <2>4. /\ Written(a, x) = IF a.named[x] # 0 THEN a.named[x] ELSE a.byId[x]
          /\ Written(b, x) = IF b.named[x] # 0 THEN b.named[x] ELSE b.byId[x]
          /\ Written(Filled(a, b), x) = IF Filled(a, b).named[x] # 0 THEN Filled(a, b).named[x]
                                                                      ELSE Filled(a, b).byId[x]
      BY <1>0, <1>2, WrittenParts
    <2> QED
      BY <2>2, <2>3, <2>4
  <1> QED
    BY <1>1, <1>2

\* Of two that mix, the fields of the older fill the newest and its maps stay apart.
LEMMA MixedWritten ==
  ASSUME NEW a \in StaticPatch, NEW b \in StaticPatch, MixesSpaces(a, b), NEW x \in StaticElements
  PROVE  (IF Written(Filled(a, b), x) # 0 THEN Written(Filled(a, b), x) ELSE Written(OnlyMaps(b), x))
           = IF Written(a, x) # 0 THEN Written(a, x) ELSE Written(b, x)
  <1>0. Filled(a, b) \in StaticPatch /\ OnlyMaps(b) \in StaticPatch
    BY FilledParts, OnlyMapsParts
  <1>1. CASE x \in StaticFields
    <2>1. Filled(a, b).fields[x] = IF a.fields[x] # 0 THEN a.fields[x] ELSE b.fields[x]
      BY <1>1, FilledParts, PatchParts, OverlayAt
    <2>2. OnlyMaps(b).fields[x] = 0
      BY <1>1, OnlyMapsParts
    <2>3. /\ Written(a, x) = a.fields[x] /\ Written(b, x) = b.fields[x]
          /\ Written(Filled(a, b), x) = Filled(a, b).fields[x]
          /\ Written(OnlyMaps(b), x) = OnlyMaps(b).fields[x]
      BY <1>0, <1>1, WrittenParts
    <2> QED
      BY <2>1, <2>2, <2>3
  <1>2. CASE x \notin StaticFields
    <2>1. Written(Filled(a, b), x) = Written(a, x)
      BY <1>0, <1>2, FilledParts, WrittenParts
    <2>2. Written(OnlyMaps(b), x) = Written(b, x)
      BY <1>0, <1>2, OnlyMapsParts, WrittenParts
    <2> QED
      BY <2>1, <2>2
  <1> QED
    BY <1>1, <1>2

\* The last update that writes an element decides it.
LEMMA AppliedAt ==
  ASSUME NEW u \in StaticUpdates, NEW shown \in [StaticElements -> Nat], NEW x \in StaticElements
  PROVE  /\ Applied(u, shown)[x] \in Nat
         /\ (\A i \in 1 .. Len(u) : Written(u[i], x) = 0) => Applied(u, shown)[x] = shown[x]
         /\ \A i \in 1 .. Len(u) :
               Written(u[i], x) # 0 /\ (\A j \in 1 .. Len(u) : j > i => Written(u[j], x) = 0)
               => Applied(u, shown)[x] = Written(u[i], x)
  <1>1. Len(u) \in Nat /\ DOMAIN u = 1 .. Len(u) /\ \A i \in 1 .. Len(u) : u[i] \in StaticPatch
    BY LenProperties, ElementOfSeq DEF StaticUpdates
  <1> DEFINE W == Writers(u, x)
             last == CHOOSE i \in W : \A j \in W : j <= i
  <1>2. W = {i \in 1 .. Len(u) : Written(u[i], x) # 0}
    BY <1>1 DEF Writers, Absent
  <1>3. Applied(u, shown)[x] = IF W = {} THEN shown[x] ELSE Written(u[last], x)
    BY DEF Applied
  <1>4. W # {} => last \in W /\ \A j \in W : j <= last
    <2>1. ASSUME W # {} PROVE \E i \in W : \A j \in W : j <= i
      <3>1. W \in SUBSET (0 .. Len(u))
        BY <1>1, <1>2
      <3>2. PICK i \in W : \A j \in W : i >= j
        BY <1>1, <2>1, <3>1, GreatestNatural
      <3> QED
        BY <1>1, <1>2, <3>2
    <2> QED
      BY <2>1
  <1> HIDE DEF W, last
  <1>5. Applied(u, shown)[x] \in Nat
    BY <1>1, <1>2, <1>3, <1>4, WrittenType
  <1>6. ASSUME \A i \in 1 .. Len(u) : Written(u[i], x) = 0
        PROVE  Applied(u, shown)[x] = shown[x]
    BY <1>2, <1>3, <1>6
  <1>7. ASSUME NEW i \in 1 .. Len(u), Written(u[i], x) # 0,
               \A j \in 1 .. Len(u) : j > i => Written(u[j], x) = 0
        PROVE  Applied(u, shown)[x] = Written(u[i], x)
    <2>1. i \in W /\ W # {}
      BY <1>2, <1>7
    <2>2. last \in W /\ i <= last
      BY <1>4, <2>1
    <2>3. last \in 1 .. Len(u) /\ ~ (last > i)
      BY <1>2, <1>7, <2>2
    <2>4. last = i
      BY <1>1, <2>2, <2>3
    <2> QED
      BY <1>3, <2>1, <2>4
  <1> QED
    BY <1>5, <1>6, <1>7

LEMMA AppliedType ==
  ASSUME NEW u \in StaticUpdates, NEW shown \in [StaticElements -> Nat]
  PROVE  Applied(u, shown) \in [StaticElements -> Nat]
  <1>1. \A x \in StaticElements : Applied(u, shown)[x] \in Nat
    BY AppliedAt
  <1>2. Applied(u, shown) = [x \in StaticElements |-> Applied(u, shown)[x]]
    BY DEF Applied
  <1> QED
    BY <1>1, <1>2

\* Two values of Applied are the same if they are for each element.
LEMMA AppliedEqual ==
  ASSUME NEW a \in [StaticElements -> Nat], NEW b \in [StaticElements -> Nat],
         \A x \in StaticElements : a[x] = b[x]
  PROVE  a = b
  OBVIOUS

LEMMA AppliedNothing ==
  ASSUME NEW shown \in [StaticElements -> Nat]
  PROVE  Applied(<<>>, shown) = shown
  <1>1. <<>> \in StaticUpdates /\ Len(<<>>) = 0
    BY EmptySeq DEF StaticUpdates
  <1>2. \A x \in StaticElements : Applied(<<>>, shown)[x] = shown[x]
    BY <1>1, AppliedAt
  <1> QED
    BY <1>1, <1>2, AppliedType, AppliedEqual

\* Applying a concatenation is applying its parts.
LEMMA AppliedConcat ==
  ASSUME NEW p \in StaticUpdates, NEW q \in StaticUpdates, NEW shown \in [StaticElements -> Nat]
  PROVE  p \o q \in StaticUpdates /\ Applied(p \o q, shown) = Applied(q, Applied(p, shown))
  <1> DEFINE m == Len(p) n == Len(q) middle == Applied(p, shown)
  <1>0. PICK r : r = p \o q
    OBVIOUS
  <1>1. /\ r \in StaticUpdates /\ m \in Nat /\ n \in Nat /\ Len(r) = m + n
        /\ \A i \in 1 .. m + n : r[i] = IF i <= m THEN p[i] ELSE q[i - m]
    BY <1>0, ConcatProperties, LenProperties DEF StaticUpdates
  <1>2. middle \in [StaticElements -> Nat]
    BY AppliedType
  <1>3. ASSUME NEW x \in StaticElements
        PROVE  Applied(r, shown)[x] = Applied(q, middle)[x]
    <2> DEFINE w(i) == Written(r[i], x)
               W == {i \in 1 .. m + n : w(i) # 0}
    <2>1. CASE W = {}
      <3>1. \A i \in 1 .. m : i \in 1 .. m + n /\ r[i] = p[i]
        BY <1>1
      <3>2. \A i \in 1 .. n : i + m \in 1 .. m + n /\ r[i + m] = q[i]
        BY <1>1
      <3>3. \A i \in 1 .. m + n : w(i) = 0
        BY <2>1
      <3>4. \A i \in 1 .. m : Written(p[i], x) = 0
        BY <3>1, <3>3
      <3>5. \A i \in 1 .. n : Written(q[i], x) = 0
        BY <3>2, <3>3
      <3>6. Applied(q, middle)[x] = middle[x] /\ middle[x] = shown[x]
        BY <1>2, <3>4, <3>5, AppliedAt
      <3>7. Applied(r, shown)[x] = shown[x]
        BY <1>1, <3>3, AppliedAt
      <3> QED
        BY <3>6, <3>7
    <2>2. CASE W # {}
      <3>1. PICK k \in W : \A j \in W : k >= j
        <4>1. W \in SUBSET (0 .. m + n) /\ m + n \in Nat
          BY <1>1
        <4> HIDE DEF W
        <4> QED
          BY <2>2, <4>1, GreatestNatural
      <3>2. k \in 1 .. m + n /\ w(k) # 0 /\ \A j \in 1 .. m + n : j > k => w(j) = 0
        <4>1. ASSUME NEW j \in 1 .. m + n, j > k, w(j) # 0 PROVE FALSE
          <5>1. j \in W /\ k \in 1 .. m + n
            BY <4>1
          <5>2. k >= j
            BY <3>1, <5>1
          <5> QED
            BY <1>1, <4>1, <5>1, <5>2
        <4> QED
          BY <4>1
      <3>3. Applied(r, shown)[x] = w(k)
        BY <1>1, <3>2, AppliedAt
      <3>4. CASE k <= m
        <4>1. k \in 1 .. m /\ r[k] = p[k]
          BY <1>1, <3>2, <3>4
        <4>2. \A j \in 1 .. m : j > k => Written(p[j], x) = 0
          <5>1. \A j \in 1 .. m : j \in 1 .. m + n /\ r[j] = p[j]
            BY <1>1
          <5> QED
            BY <3>2, <5>1
        <4>3. \A j \in 1 .. n : Written(q[j], x) = 0
          <5>1. \A j \in 1 .. n : j + m \in 1 .. m + n /\ r[j + m] = q[j] /\ j + m > k
            BY <1>1, <3>2, <3>4
          <5> QED
            BY <3>2, <5>1
        <4>4. middle[x] = Written(p[k], x)
          BY <3>2, <4>1, <4>2, AppliedAt
        <4>5. Applied(q, middle)[x] = middle[x]
          BY <1>2, <4>3, AppliedAt
        <4> QED
          BY <3>3, <4>1, <4>4, <4>5
      <3>5. CASE ~ (k <= m)
        <4>1. k - m \in 1 .. n /\ r[k] = q[k - m]
          BY <1>1, <3>2, <3>5
        <4>2. \A j \in 1 .. n : j > k - m => Written(q[j], x) = 0
          <5>1. ASSUME NEW j \in 1 .. n, j > k - m
                PROVE  j + m \in 1 .. m + n /\ ~ (j + m <= m) /\ j + m - m = j /\ j + m > k
            BY <1>1, <3>2, <5>1
          <5>2. \A j \in 1 .. n : j > k - m => r[j + m] = q[j]
            BY <1>1, <5>1
          <5> QED
            BY <3>2, <5>1, <5>2
        <4>3. Applied(q, middle)[x] = Written(q[k - m], x)
          BY <1>2, <3>2, <4>1, <4>2, AppliedAt
        <4> QED
          BY <3>3, <4>1, <4>3
      <3> QED
        BY <3>4, <3>5
    <2> QED
      BY <2>1, <2>2
  <1>4. Applied(r, shown) \in [StaticElements -> Nat] /\ Applied(q, middle) \in [StaticElements -> Nat]
    BY <1>1, <1>2, AppliedType
  <1> QED
    BY <1>0, <1>1, <1>3, <1>4, AppliedEqual

Joins(r, p, q) == r = p \o q

LEMMA AppliedJoin ==
  ASSUME NEW p \in StaticUpdates, NEW q \in StaticUpdates, NEW r, Joins(r, p, q),
         NEW shown \in [StaticElements -> Nat]
  PROVE  r \in StaticUpdates /\ Applied(r, shown) = Applied(q, Applied(p, shown))
  BY AppliedConcat DEF Joins

LEMMA OneUpdate ==
  ASSUME NEW a \in StaticPatch, NEW shown \in [StaticElements -> Nat]
  PROVE  /\ <<a>> \in StaticUpdates
         /\ \A x \in StaticElements :
               Applied(<<a>>, shown)[x] = IF Written(a, x) # 0 THEN Written(a, x) ELSE shown[x]
  <1>1. <<a>> \in StaticUpdates /\ Len(<<a>>) = 1 /\ <<a>>[1] = a
    BY DEF StaticUpdates
  <1>2. ASSUME NEW x \in StaticElements
        PROVE  Applied(<<a>>, shown)[x] = IF Written(a, x) # 0 THEN Written(a, x) ELSE shown[x]
    <2>1. \A i \in 1 .. Len(<<a>>) : i = 1
      BY <1>1
    <2>2. 1 \in 1 .. Len(<<a>>)
      BY <1>1
    <2>3. CASE Written(a, x) = 0
      BY <1>1, <2>1, <2>3, AppliedAt
    <2>4. CASE Written(a, x) # 0
      <3>1. \A j \in 1 .. Len(<<a>>) : ~ (j > 1)
        BY <2>1
      <3> QED
        BY <1>1, <2>2, <2>4, <3>1, AppliedAt
    <2> QED
      BY <2>3, <2>4
  <1> QED
    BY <1>1, <1>2

\* One update folded into another, or carried in front of it, does what both do.
LEMMA FilledApplied ==
  ASSUME NEW a \in StaticPatch, NEW b \in StaticPatch, NEW shown \in [StaticElements -> Nat]
  PROVE  /\ ~MixesSpaces(a, b) =>
               Applied(<<Filled(a, b)>>, shown) = Applied(<<a>>, Applied(<<b>>, shown))
         /\ MixesSpaces(a, b) =>
               Applied(<<Filled(a, b)>>, Applied(<<OnlyMaps(b)>>, shown))
                 = Applied(<<a>>, Applied(<<b>>, shown))
  <1> DEFINE F == Filled(a, b) O == OnlyMaps(b) older == Applied(<<b>>, shown) maps == Applied(<<O>>, shown)
  <1>1. F \in StaticPatch /\ O \in StaticPatch
    BY FilledParts, OnlyMapsParts
  <1>2. <<F>> \in StaticUpdates /\ <<O>> \in StaticUpdates /\ <<a>> \in StaticUpdates /\ <<b>> \in StaticUpdates
    BY <1>1 DEF StaticUpdates
  <1>3. older \in [StaticElements -> Nat] /\ maps \in [StaticElements -> Nat]
    BY <1>2, AppliedType
  <1>4. Applied(<<a>>, older) \in [StaticElements -> Nat]
    BY <1>2, <1>3, AppliedType
  <1>5. \A x \in StaticElements :
           /\ older[x] = IF Written(b, x) # 0 THEN Written(b, x) ELSE shown[x]
           /\ maps[x] = IF Written(O, x) # 0 THEN Written(O, x) ELSE shown[x]
    BY <1>1, OneUpdate
  <1>6. \A x \in StaticElements :
           Applied(<<a>>, older)[x] = IF Written(a, x) # 0 THEN Written(a, x) ELSE older[x]
    BY <1>3, OneUpdate
  <1>7. ASSUME ~MixesSpaces(a, b) PROVE Applied(<<F>>, shown) = Applied(<<a>>, older)
    <2>1. Applied(<<F>>, shown) \in [StaticElements -> Nat]
      BY <1>2, AppliedType
    <2>2. \A x \in StaticElements :
             Applied(<<F>>, shown)[x] = IF Written(F, x) # 0 THEN Written(F, x) ELSE shown[x]
      BY <1>1, OneUpdate
    <2>3. \A x \in StaticElements :
             Written(F, x) = IF Written(a, x) # 0 THEN Written(a, x) ELSE Written(b, x)
      BY <1>7, FilledWritten
    <2> HIDE DEF F, older
    <2>4. \A x \in StaticElements : Applied(<<F>>, shown)[x] = Applied(<<a>>, older)[x]
      BY <1>5, <1>6, <2>2, <2>3
    <2> QED
      BY <1>4, <2>1, <2>4, AppliedEqual
  <1>8. ASSUME MixesSpaces(a, b) PROVE Applied(<<F>>, maps) = Applied(<<a>>, older)
    <2>1. Applied(<<F>>, maps) \in [StaticElements -> Nat]
      BY <1>2, <1>3, AppliedType
    <2>2. \A x \in StaticElements :
             Applied(<<F>>, maps)[x] = IF Written(F, x) # 0 THEN Written(F, x) ELSE maps[x]
      BY <1>1, <1>3, OneUpdate
    <2>3. \A x \in StaticElements :
             (IF Written(F, x) # 0 THEN Written(F, x) ELSE Written(O, x))
               = IF Written(a, x) # 0 THEN Written(a, x) ELSE Written(b, x)
      BY <1>8, MixedWritten
    <2> HIDE DEF F, O, older, maps
    <2>4. \A x \in StaticElements : Applied(<<F>>, maps)[x] = Applied(<<a>>, older)[x]
      BY <1>5, <1>6, <2>2, <2>3
    <2> QED
      BY <1>4, <2>1, <2>4, AppliedEqual
  <1> QED
    BY <1>7, <1>8

LEMMA CoalescedType ==
  ASSUME NEW c \in StaticUpdates, NEW update \in StaticPatch
  PROVE  Coalesced(c, update) \in StaticUpdates
  <1>1. Append(c, update) \in StaticUpdates
    BY AppendProperties DEF StaticUpdates
  <1>2. CASE c = <<>> \/ MixesSpaces(c[Len(c)], update)
    BY <1>1, <1>2 DEF Coalesced
  <1>3. CASE ~ (c = <<>> \/ MixesSpaces(c[Len(c)], update))
    <2>1. Len(c) \in 1 .. Len(c)
      BY <1>3, EmptySeq DEF StaticUpdates
    <2>2. Filled(update, c[Len(c)]) \in StaticPatch
      BY <2>1, ElementOfSeq, FilledParts DEF StaticUpdates
    <2>3. Coalesced(c, update) = [c EXCEPT ![Len(c)] = Filled(update, c[Len(c)])]
      BY <1>3 DEF Coalesced
    <2> QED
      BY <2>1, <2>2, <2>3, ExceptSeq DEF StaticUpdates
  <1> QED
    BY <1>2, <1>3

\* Taking one more update up keeps what the updates do.
LEMMA CoalescedApplied ==
  ASSUME NEW c \in StaticUpdates, NEW update \in StaticPatch, NEW shown \in [StaticElements -> Nat]
  PROVE  Applied(Coalesced(c, update), shown) = Applied(<<update>>, Applied(c, shown))
  <1>1. <<update>> \in StaticUpdates
    BY OneUpdate
  <1>2. CASE c = <<>> \/ MixesSpaces(c[Len(c)], update)
    <2>1. Coalesced(c, update) = c \o <<update>>
      BY <1>2, AppendIsConcat DEF Coalesced, StaticUpdates
    <2> QED
      BY <1>1, <2>1, AppliedConcat
  <1>3. CASE ~ (c = <<>> \/ MixesSpaces(c[Len(c)], update))
    <2> DEFINE n == Len(c)
    <2>1. PICK front \in Seq(StaticPatch), last \in StaticPatch : c = Append(front, last)
      BY <1>3, SequenceEmptyOrAppend DEF StaticUpdates
    <2>2. /\ n = Len(front) + 1 /\ Len(front) \in Nat /\ c[n] = last
          /\ \A i \in 1 .. Len(front) : c[i] = front[i]
      BY <2>1, AppendProperties, LenProperties
    <2> DEFINE filled == Filled(update, last)
               merged == [c EXCEPT ![n] = filled]
    <2>3. filled \in StaticPatch
      BY FilledParts
    <2>4. ~MixesSpaces(update, last)
      BY <1>3, <2>2 DEF MixesSpaces
    <2>5. Coalesced(c, update) = merged
      BY <1>3, <2>2 DEF Coalesced
    <2>6. merged = front \o <<filled>>
      <3>1. /\ merged \in Seq(StaticPatch) /\ Len(merged) = n
            /\ \A j \in 1 .. n : merged[j] = IF j = n THEN filled ELSE c[j]
        <4>1. c \in Seq(StaticPatch) /\ n \in 1 .. Len(c)
          BY <2>2 DEF StaticUpdates
        <4> HIDE DEF filled
        <4> QED
          BY <2>3, <4>1, ExceptSeq
      <3>2. /\ Append(front, filled) \in Seq(StaticPatch)
            /\ Len(Append(front, filled)) = n
            /\ \A j \in 1 .. Len(front) : Append(front, filled)[j] = front[j]
            /\ Append(front, filled)[n] = filled
        BY <2>2, <2>3, AppendProperties
      <3> HIDE DEF merged, filled
      <3>3. ASSUME NEW j \in 1 .. n PROVE merged[j] = Append(front, filled)[j]
        <4>1. j = n \/ j \in 1 .. Len(front)
          BY <2>2
        <4>2. j \in 1 .. Len(front) => j # n
          BY <2>2
        <4> QED
          BY <2>2, <3>1, <3>2, <4>1, <4>2
      <3>4. merged = Append(front, filled)
        BY <3>1, <3>2, <3>3, SeqEqual
      <3> QED
        BY <2>3, <3>4, AppendIsConcat
    <2>7. c = front \o <<last>>
      BY <2>1, AppendIsConcat
    <2>8. <<last>> \in StaticUpdates /\ <<filled>> \in StaticUpdates /\ front \in StaticUpdates
      BY <2>3, OneUpdate DEF StaticUpdates
    <2>9. Applied(front, shown) \in [StaticElements -> Nat]
      BY <2>8, AppliedType
    <2>10. Applied(<<filled>>, Applied(front, shown))
             = Applied(<<update>>, Applied(<<last>>, Applied(front, shown)))
      BY <2>4, <2>9, FilledApplied
    <2>11. Applied(c, shown) = Applied(<<last>>, Applied(front, shown))
      BY <2>7, <2>8, AppliedConcat
    <2>12. Applied(merged, shown) = Applied(<<filled>>, Applied(front, shown))
      <3> HIDE DEF merged, filled
      <3>1. Joins(merged, front, <<filled>>)
        BY <2>6 DEF Joins
      <3> QED
        BY <2>8, <3>1, AppliedJoin
    <2> QED
      BY <2>5, <2>10, <2>11, <2>12
  <1> QED
    BY <1>2, <1>3

\* The recursion of Collected, step by step.
LEMMA CollectedSteps ==
  ASSUME NEW u \in StaticUpdates
  PROVE  \E g \in [0 .. Len(u) -> StaticUpdates] :
            /\ g[0] = <<>>
            /\ \A i \in 1 .. Len(u) : g[i] = Coalesced(g[i - 1], u[i])
            /\ Collected(u) = g[Len(u)]
  <1> DEFINE n == Len(u)
             step == [x \in StaticUpdates \X StaticPatch |-> Coalesced(x[1], x[2])]
             Solves(h) == h = [i \in 0 .. n |-> IF i = 0 THEN <<>> ELSE Coalesced(h[i - 1], u[i])]
             it == CHOOSE h : Solves(h)
  <1>1. n \in Nat /\ \A i \in 1 .. n : u[i] \in StaticPatch
    BY LenProperties, ElementOfSeq DEF StaticUpdates
  <1>2. step \in [StaticUpdates \X StaticPatch -> StaticUpdates]
    BY CoalescedType
  <1>3. <<>> \in StaticUpdates
    BY EmptySeq DEF StaticUpdates
  <1>4. PICK g \in [0 .. n -> StaticUpdates] :
          g[0] = <<>> /\ \A i \in 1 .. n : g[i] = step[<<g[i - 1], u[i]>>]
    <2> HIDE DEF step
    <2>1. \E g : Solution(g, StaticUpdates, step, <<>>, n, u)
      BY <1>1, <1>2, <1>3, FoldExists
    <2> QED
      BY <2>1 DEF Solution
  <1>5. \A i \in 1 .. n : g[i] = Coalesced(g[i - 1], u[i])
    <2>1. \A i \in 1 .. n : g[i - 1] \in StaticUpdates /\ u[i] \in StaticPatch
      BY <1>1, <1>4
    <2> QED
      BY <1>4, <2>1
  <1>6. Solves(g)
    <2>1. \A i \in 0 .. n : g[i] = IF i = 0 THEN <<>> ELSE Coalesced(g[i - 1], u[i])
      BY <1>1, <1>4, <1>5
    <2> QED
      BY <1>4, <2>1
  <1>7. Solves(it)
    BY <1>6
  <1>8. Collected(u) = it[n]
    BY DEF Collected
  <1> HIDE DEF it
  <1>9. it[n] = g[n]
    <2> DEFINE T == {i \in 0 .. n : it[i] = g[i]}
    <2>1. 0 \in T
      BY <1>1, <1>4, <1>7
    <2>2. ASSUME NEW i \in 1 .. n, i - 1 \in T PROVE i \in T
      <3>1. it[i] = Coalesced(it[i - 1], u[i])
        BY <1>1, <1>7
      <3> QED
        BY <1>5, <2>2, <3>1
    <2>3. T = 0 .. n
      <3>1. T \in SUBSET (0 .. n)
        OBVIOUS
      <3> HIDE DEF T
      <3> QED
        BY <1>1, <2>1, <2>2, <3>1, IndexInduction
    <2> QED
      BY <1>1, <2>3
  <1> QED
    BY <1>4, <1>5, <1>8, <1>9

\* Collecting updates keeps what they do.
LEMMA CollectedApplied ==
  ASSUME NEW u \in StaticUpdates, NEW shown \in [StaticElements -> Nat]
  PROVE  /\ Collected(u) \in StaticUpdates
         /\ Applied(Collected(u), shown) = Applied(u, shown)
  <1> DEFINE n == Len(u)
  <1>1. n \in Nat /\ u \in Seq(StaticPatch) /\ \A i \in 1 .. n : u[i] \in StaticPatch
    BY LenProperties, ElementOfSeq DEF StaticUpdates
  <1>2. PICK g \in [0 .. n -> StaticUpdates] :
          /\ g[0] = <<>>
          /\ \A i \in 1 .. n : g[i] = Coalesced(g[i - 1], u[i])
          /\ Collected(u) = g[n]
    BY CollectedSteps
  <1> DEFINE T == {i \in 0 .. n : Applied(g[i], shown) = Applied(SubSeq(u, 1, i), shown)}
  <1>3. 0 \in T
    <2>1. SubSeq(u, 1, 0) = <<>>
      BY SubSeqEmpty
    <2> QED
      BY <1>1, <1>2, <2>1
  <1>4. ASSUME NEW i \in 1 .. n, i - 1 \in T PROVE i \in T
    <2>1. i \in 0 .. n /\ i - 1 \in 0 .. n /\ g[i - 1] \in StaticUpdates /\ u[i] \in StaticPatch
      BY <1>1
    <2>2. SubSeq(u, 1, i) = SubSeq(u, 1, i - 1) \o <<u[i]>>
      <3>1. 1 \in 1 .. Len(u) /\ i \in 1 .. Len(u)
        BY <1>1
      <3> QED
        BY <1>1, <3>1, SubSeqRecursiveSecond
    <2>3. SubSeq(u, 1, i - 1) \in StaticUpdates
      <3>1. \A j \in 1 .. i - 1 : u[j] \in StaticPatch
        BY <1>1
      <3> QED
        BY <3>1, SubSeqProperties DEF StaticUpdates
    <2>4. <<u[i]>> \in StaticUpdates
      BY <2>1, OneUpdate
    <2>5. Applied(SubSeq(u, 1, i), shown) = Applied(<<u[i]>>, Applied(SubSeq(u, 1, i - 1), shown))
      <3>1. Joins(SubSeq(u, 1, i), SubSeq(u, 1, i - 1), <<u[i]>>)
        BY <2>2 DEF Joins
      <3> QED
        BY <2>3, <2>4, <3>1, AppliedJoin
    <2>6. Applied(g[i], shown) = Applied(<<u[i]>>, Applied(g[i - 1], shown))
      BY <1>2, <2>1, CoalescedApplied
    <2>7. Applied(g[i - 1], shown) = Applied(SubSeq(u, 1, i - 1), shown)
      BY <1>4
    <2> QED
      BY <2>1, <2>5, <2>6, <2>7
  <1>5. T = 0 .. n
    <2>1. T \in SUBSET (0 .. n)
      OBVIOUS
    <2> HIDE DEF T
    <2> QED
      BY <1>1, <1>3, <1>4, <2>1, IndexInduction
  <1>6. n \in 0 .. n
    BY <1>1
  <1>7. Applied(g[n], shown) = Applied(SubSeq(u, 1, n), shown)
    BY <1>5, <1>6
  <1>8. SubSeq(u, 1, n) = u
    BY <1>1, SubSeqFull
  <1> QED
    BY <1>2, <1>6, <1>7, <1>8

\* A fold of collected updates into the first of the newest ones.
StaticFold == [first : StaticPatch, carried : StaticUpdates]

LEMMA FoldedType ==
  ASSUME NEW fold \in StaticFold, NEW update \in StaticPatch
  PROVE  Folded(fold, update) \in StaticFold
  <1>1. Filled(fold.first, update) \in StaticPatch /\ OnlyMaps(update) \in StaticPatch
    BY FilledParts, OnlyMapsParts DEF StaticFold
  <1>2. Append(fold.carried, OnlyMaps(update)) \in StaticUpdates
    BY <1>1, AppendProperties DEF StaticFold, StaticUpdates
  <1> QED
    BY <1>1, <1>2 DEF Folded, StaticFold

LEMMA FoldSteps ==
  ASSUME NEW waiting \in StaticUpdates, NEW newest \in StaticUpdates, newest # <<>>
  PROVE  \E g \in [0 .. Len(Collected(waiting)) -> StaticFold] :
            /\ g[0] = [first |-> newest[1], carried |-> <<>>]
            /\ \A i \in 1 .. Len(Collected(waiting)) : g[i] = Folded(g[i - 1], Collected(waiting)[i])
            /\ MergeStaticUpdates(waiting, newest)
                 = (g[Len(Collected(waiting))].carried \o <<g[Len(Collected(waiting))].first>>) \o Tail(newest)
  <1>0. PICK u : u = Collected(waiting)
    OBVIOUS
  <1> DEFINE n == Len(u)
             base == [first |-> newest[1], carried |-> <<>>]
             step == [x \in StaticFold \X StaticPatch |-> Folded(x[1], x[2])]
             Solves(h) == h = [i \in 0 .. n |-> IF i = 0 THEN base ELSE Folded(h[i - 1], u[i])]
             it == CHOOSE h : Solves(h)
  <1>1. n \in Nat /\ \A i \in 1 .. n : u[i] \in StaticPatch
    <2>1. PICK shown \in [StaticElements -> Nat] : TRUE
      <3>1. [x \in StaticElements |-> 0] \in [StaticElements -> Nat]
        OBVIOUS
      <3> QED
        BY <3>1
    <2>2. u \in Seq(StaticPatch)
      BY <1>0, <2>1, CollectedApplied DEF StaticUpdates
    <2> QED
      BY <2>2, LenProperties, ElementOfSeq
  <1>2. step \in [StaticFold \X StaticPatch -> StaticFold]
    BY FoldedType
  <1>3. base \in StaticFold
    <2>1. 1 \in 1 .. Len(newest) /\ <<>> \in StaticUpdates
      BY EmptySeq DEF StaticUpdates
    <2>2. newest[1] \in StaticPatch
      BY <2>1, ElementOfSeq DEF StaticUpdates
    <2> QED
      BY <2>1, <2>2 DEF StaticFold
  <1>4. PICK g \in [0 .. n -> StaticFold] :
          g[0] = base /\ \A i \in 1 .. n : g[i] = step[<<g[i - 1], u[i]>>]
    <2> HIDE DEF step, base
    <2>1. \E g : Solution(g, StaticFold, step, base, n, u)
      BY <1>1, <1>2, <1>3, FoldExists
    <2> QED
      BY <2>1 DEF Solution
  <1>5. \A i \in 1 .. n : g[i] = Folded(g[i - 1], u[i])
    <2>1. \A i \in 1 .. n : g[i - 1] \in StaticFold /\ u[i] \in StaticPatch
      BY <1>1, <1>4
    <2> QED
      BY <1>4, <2>1
  <1>6. Solves(g)
    <2>1. \A i \in 0 .. n : g[i] = IF i = 0 THEN base ELSE Folded(g[i - 1], u[i])
      BY <1>1, <1>4, <1>5
    <2> QED
      BY <1>4, <2>1
  <1>7. Solves(it)
    BY <1>6
  <1>8. MergeStaticUpdates(waiting, newest) = (it[n].carried \o <<it[n].first>>) \o Tail(newest)
    BY <1>0 DEF MergeStaticUpdates
  <1> HIDE DEF it, base
  <1>9. it[n] = g[n]
    <2> DEFINE T == {i \in 0 .. n : it[i] = g[i]}
    <2>1. 0 \in T
      BY <1>1, <1>4, <1>7
    <2>2. ASSUME NEW i \in 1 .. n, i - 1 \in T PROVE i \in T
      <3>1. it[i] = Folded(it[i - 1], u[i])
        BY <1>1, <1>7
      <3> QED
        BY <1>5, <2>2, <3>1
    <2>3. T = 0 .. n
      <3>1. T \in SUBSET (0 .. n)
        OBVIOUS
      <3> HIDE DEF T
      <3> QED
        BY <1>1, <2>1, <2>2, <3>1, IndexInduction
    <2> QED
      BY <1>1, <2>3
  <1> QED
    BY <1>0, <1>4, <1>5, <1>8, <1>9 DEF base

LEMMA MergeStaticUpdatesType ==
  ASSUME NEW waiting \in StaticUpdates, NEW newest \in StaticUpdates
  PROVE  /\ Collected(waiting) \in StaticUpdates
         /\ MergeStaticUpdates(waiting, newest) \in StaticUpdates
  <1>1. Collected(waiting) \in StaticUpdates
    <2>1. [x \in StaticElements |-> 0] \in [StaticElements -> Nat]
      OBVIOUS
    <2> QED
      BY <2>1, CollectedApplied
  <1>2. CASE newest = <<>>
    BY <1>1, <1>2 DEF MergeStaticUpdates
  <1>3. CASE newest # <<>>
    <2>1. PICK fold \in StaticFold :
            MergeStaticUpdates(waiting, newest) = (fold.carried \o <<fold.first>>) \o Tail(newest)
      <3>1. Len(Collected(waiting)) \in 0 .. Len(Collected(waiting))
        BY <1>1, LenProperties DEF StaticUpdates
      <3> QED
        BY <1>3, <3>1, FoldSteps
    <2>2. fold.carried \in Seq(StaticPatch) /\ <<fold.first>> \in Seq(StaticPatch)
      BY DEF StaticFold, StaticUpdates
    <2>3. Tail(newest) \in Seq(StaticPatch)
      BY <1>3, HeadTailProperties DEF StaticUpdates
    <2>4. fold.carried \o <<fold.first>> \in Seq(StaticPatch)
      BY <2>2, ConcatProperties
    <2>5. (fold.carried \o <<fold.first>>) \o Tail(newest) \in Seq(StaticPatch)
      BY <2>3, <2>4, ConcatProperties
    <2> QED
      BY <1>1, <2>1, <2>5 DEF StaticUpdates
  <1> QED
    BY <1>2, <1>3

\* A merge does what the older updates and then the newest do, unless the newest meets
\* older ones that wait apart.
LEMMA MergeStaticUpdatesApplied ==
  ASSUME NEW waiting \in StaticUpdates, NEW newest \in StaticUpdates,
         NEW shown \in [StaticElements -> Nat],
         ~ (Len(Collected(waiting)) > 1 /\ newest # <<>>)
  PROVE  Applied(MergeStaticUpdates(waiting, newest), shown) = Applied(newest, Applied(waiting, shown))
  <1> DEFINE older == Applied(waiting, shown)
  <1>0. PICK u : u = Collected(waiting)
    OBVIOUS
  <1>1. u \in StaticUpdates /\ Applied(u, shown) = older
    BY <1>0, CollectedApplied
  <1>2. older \in [StaticElements -> Nat]
    BY AppliedType
  <1>3. CASE newest = <<>>
    <2>1. MergeStaticUpdates(waiting, newest) = u
      BY <1>0, <1>3 DEF MergeStaticUpdates
    <2> QED
      BY <1>1, <1>2, <1>3, <2>1, AppliedNothing
  <1>4. CASE newest # <<>>
    <2> DEFINE first == newest[1] rest == Tail(newest)
    <2>1. first \in StaticPatch /\ <<first>> \in StaticUpdates /\ rest \in StaticUpdates
          /\ newest = <<first>> \o rest
      <3>1. 1 \in 1 .. Len(newest) /\ Len(newest) \in 1 .. Len(newest)
        BY <1>4, EmptySeq DEF StaticUpdates
      <3>2. first \in StaticPatch
        BY <3>1, ElementOfSeq DEF StaticUpdates
      <3>3. rest \in StaticUpdates
        BY <1>4, HeadTailProperties DEF StaticUpdates
      <3>4. rest = SubSeq(newest, 2, Len(newest))
        BY <1>4, TailIsSubSeq DEF StaticUpdates
      <3>5. SubSeq(newest, 1, Len(newest)) = <<newest[1]>> \o SubSeq(newest, 1 + 1, Len(newest))
        BY <3>1, SubSeqRecursiveFirst DEF StaticUpdates
      <3>6. SubSeq(newest, 1, Len(newest)) = newest
        BY SubSeqFull DEF StaticUpdates
      <3> QED
        BY <3>2, <3>3, <3>4, <3>5, <3>6, OneUpdate
    <2>2. Len(u) \in Nat /\ Len(u) <= 1
      BY <1>0, <1>1, <1>4, LenProperties DEF StaticUpdates
    <2>3. PICK g \in [0 .. Len(u) -> StaticFold] :
            /\ g[0] = [first |-> first, carried |-> <<>>]
            /\ \A i \in 1 .. Len(u) : g[i] = Folded(g[i - 1], u[i])
            /\ MergeStaticUpdates(waiting, newest) = (g[Len(u)].carried \o <<g[Len(u)].first>>) \o rest
      BY <1>0, <1>4, FoldSteps
    <2>4. Applied(newest, older) = Applied(rest, Applied(<<first>>, older))
      <3> HIDE DEF older, first, rest
      <3>1. Joins(newest, <<first>>, rest)
        BY <2>1 DEF Joins
      <3> QED
        BY <1>2, <2>1, <3>1, AppliedJoin
    <2>5. ASSUME NEW front \in StaticUpdates, Applied(front, shown) = Applied(<<first>>, older),
                 MergeStaticUpdates(waiting, newest) = front \o rest
          PROVE  Applied(MergeStaticUpdates(waiting, newest), shown) = Applied(newest, older)
      BY <2>1, <2>4, <2>5, AppliedConcat
    <2>6. CASE Len(u) = 0
      <3>1. u = <<>>
        BY <1>1, <2>6, EmptySeq DEF StaticUpdates
      <3>2. older = shown
        BY <1>1, <3>1, AppliedNothing
      <3>3. g[Len(u)].carried = <<>> /\ g[Len(u)].first = first
        BY <2>3, <2>6
      <3>4. <<>> \o <<first>> = <<first>>
        BY <2>1, ConcatEmptySeq DEF StaticUpdates
      <3> QED
        BY <2>1, <2>3, <2>5, <3>2, <3>3, <3>4
    <2>7. CASE Len(u) = 1
      <3> DEFINE update == u[1] filled == Filled(first, update)
      <3>1. update \in StaticPatch /\ u = <<update>>
        <4>1. u[1] \in StaticPatch
          <5>1. 1 \in 1 .. Len(u)
            BY <2>7
          <5> QED
            BY <1>1, <5>1, ElementOfSeq DEF StaticUpdates
        <4>2. <<u[1]>> \in Seq(StaticPatch) /\ Len(<<u[1]>>) = 1 /\ <<u[1]>>[1] = u[1]
          BY <4>1
        <4>3. u = <<u[1]>>
          BY <1>1, <2>7, <4>2, SeqEqual DEF StaticUpdates
        <4> QED
          BY <4>1, <4>3
      <3>2. filled \in StaticPatch /\ <<filled>> \in StaticUpdates
        BY <2>1, <3>1, FilledParts, OneUpdate
      <3>3. older = Applied(<<update>>, shown)
        BY <1>1, <3>1
      <3>4. g[Len(u)] = Folded([first |-> first, carried |-> <<>>], update)
        BY <2>3, <2>7
      <3>5. g[Len(u)].first = filled
        BY <3>4 DEF Folded
      <3>6. CASE ~MixesSpaces(first, update)
        <4>1. g[Len(u)].carried = <<>>
          BY <3>4, <3>6 DEF Folded
        <4>2. <<>> \o <<filled>> = <<filled>>
          BY <3>2, ConcatEmptySeq DEF StaticUpdates
        <4>3. Applied(<<filled>>, shown) = Applied(<<first>>, older)
          BY <2>1, <3>1, <3>3, <3>6, FilledApplied
        <4> QED
          BY <2>3, <2>5, <3>2, <3>5, <4>1, <4>2, <4>3
      <3>7. CASE MixesSpaces(first, update)
        <4> DEFINE maps == OnlyMaps(update)
        <4>1. maps \in StaticPatch /\ <<maps>> \in StaticUpdates
          BY <3>1, OnlyMapsParts, OneUpdate
        <4>2. g[Len(u)].carried = <<maps>>
          <5>1. g[Len(u)].carried = Append(<<>>, maps)
            BY <3>4, <3>7 DEF Folded
          <5>2. <<>> \in Seq(StaticPatch) /\ Append(<<>>, maps) = <<>> \o <<maps>>
            BY <4>1, EmptySeq, AppendIsConcat
          <5>3. <<>> \o <<maps>> = <<maps>>
            BY <4>1, ConcatEmptySeq DEF StaticUpdates
          <5> QED
            BY <5>1, <5>2, <5>3
        <4>3. Applied(<<filled>>, Applied(<<maps>>, shown)) = Applied(<<first>>, older)
          BY <2>1, <3>1, <3>3, <3>7, FilledApplied
        <4>4. /\ <<maps>> \o <<filled>> \in StaticUpdates
              /\ Applied(<<maps>> \o <<filled>>, shown) = Applied(<<filled>>, Applied(<<maps>>, shown))
          BY <3>2, <4>1, AppliedConcat
        <4>5. MergeStaticUpdates(waiting, newest) = (<<maps>> \o <<filled>>) \o rest
          BY <2>3, <3>5, <4>2
        <4> HIDE DEF maps, filled
        <4>6. PICK front : front = <<maps>> \o <<filled>>
          OBVIOUS
        <4> QED
          BY <2>5, <4>3, <4>4, <4>5, <4>6
      <3> QED
        BY <3>6, <3>7
    <2>8. \A k \in Nat : k <= 1 => k = 0 \/ k = 1
      OBVIOUS
    <2> QED
      BY <2>2, <2>6, <2>7, <2>8
  <1> QED
    BY <1>3, <1>4

-----------------------------------------------------------------------------
(* Whole batches.                                                            *)

\* Merging two lifecycle operations of a dynamic reticle gives one operation.
LEMMA MergeDynamicOpType ==
  ASSUME NEW queued \in DynamicOp, NEW newest \in DynamicOp
  PROVE  MergeDynamicOp(queued, newest) \in DynamicOp
  <1>1. CarriedOp(queued) \in DynamicOp
    BY DEF CarriedOp, DynamicOp
  <1>2. CASE newest.kind = "none"
    BY <1>1, <1>2 DEF MergeDynamicOp, KeepsStreamControls
  <1>3. CASE newest.kind # "none" /\ KeepsStreamControls(queued, newest)
    <2>1. MergeDynamicOp(queued, newest) =
            [newest EXCEPT !.stream = IF @ # Absent THEN @ ELSE queued.stream]
      BY <1>3 DEF MergeDynamicOp
    <2> QED
      BY <2>1 DEF DynamicOp
  <1>4. CASE newest.kind # "none" /\ ~KeepsStreamControls(queued, newest)
    <2>1. MergeDynamicOp(queued, newest) = newest
      BY <1>4 DEF MergeDynamicOp
    <2> QED
      BY <2>1
  <1> QED
    BY <1>2, <1>3, <1>4

\* A merged batch is a batch of the newest one's mapping.
LEMMA MergePendingType ==
  ASSUME NEW queued \in Batch \cup {NoBatch}, NEW newest \in Batch
  PROVE  /\ MergePending(queued, newest) \in Batch
         /\ MergePending(queued, newest).hash = newest.hash
  <1>1. CASE Replaces(newest, queued)
    BY <1>1 DEF MergePending
  <1>2. CASE ~Replaces(newest, queued)
    <2>1. queued \in Batch
      BY <1>2 DEF Replaces
    <2>2. [t \in StaticTargets |-> MergeStaticUpdates(queued.statics[t], newest.statics[t])]
            \in [StaticTargets -> StaticUpdates]
      BY <2>1, MergeStaticUpdatesType DEF Batch
    <2>3. [d \in DynamicReticles |-> MergeDynamicOp(queued.dynamics[d], newest.dynamics[d])]
            \in [DynamicReticles -> DynamicOp]
      BY <2>1, MergeDynamicOpType DEF Batch
    <2>4. queued.widgets \o newest.widgets \in Seq(Stamp)
      BY <2>1, ConcatProperties DEF Batch
    <2> QED
      BY <1>2, <2>1, <2>2, <2>3, <2>4 DEF MergePending, Batch
  <1> QED
    BY <1>1, <1>2

\* Neither of the two losses of static deltas happens in the merge.
MergesWhole(older, newest) ==
    ~Replaces(newest, older) => ~DropsBehindReset(older, newest) /\ ~FoldsApart(older, newest)

\* Static deltas: showing the merge shows the queued batch and then the newest, unless
\* deltas were queued behind a reset or wait apart.
LEMMA MergePendingStatics ==
  ASSUME NEW queued \in Batch \cup {NoBatch}, NEW newest \in Batch,
         NEW statics \in StaticState,
         queued # NoBatch => queued.hash = newest.hash,
         MergesWhole(queued, newest)
  PROVE  StaticsAfter(MergePending(queued, newest), statics)
           = StaticsAfter(newest, StaticsAfter(queued, statics))
  <1>1. newest # NoBatch
    BY NoBatchIsNoBatch
  <1>2. CASE queued = NoBatch
    BY <1>2 DEF MergePending, Replaces, StaticsAfter
  <1>3. CASE queued # NoBatch /\ newest.reset
    BY <1>1, <1>3 DEF MergePending, Replaces, StaticsAfter
  <1>4. CASE queued # NoBatch /\ ~newest.reset
    <2> DEFINE base == IF queued.reset THEN BlankStatics ELSE statics
               merged == MergePending(queued, newest)
    <2>1. queued \in Batch /\ ~Replaces(newest, queued)
      BY <1>4 DEF Replaces
    <2>2. /\ merged.reset = queued.reset
          /\ merged.statics = IF queued.reset
                              THEN newest.statics
                              ELSE [t \in StaticTargets |->
                                      MergeStaticUpdates(queued.statics[t], newest.statics[t])]
      BY <2>1 DEF MergePending
    <2>3. merged # NoBatch
      BY MergePendingType, NoBatchIsNoBatch
    <2>4. /\ base \in StaticState
          /\ \A t \in StaticTargets : /\ base[t] \in [StaticElements -> Nat]
                                     /\ newest.statics[t] \in StaticUpdates
                                     /\ queued.statics[t] \in StaticUpdates
      BY <2>1, BlankTypes DEF Batch, StaticState
    <2>5. StaticsAfter(newest, StaticsAfter(queued, statics))
            = [t \in StaticTargets |-> Applied(newest.statics[t], Applied(queued.statics[t], base[t]))]
      BY <1>1, <1>4 DEF StaticsAfter
    <2>6. StaticsAfter(merged, statics)
            = [t \in StaticTargets |-> Applied(merged.statics[t], base[t])]
      BY <2>2, <2>3 DEF StaticsAfter
    <2>7. ASSUME NEW t \in StaticTargets
          PROVE  Applied(merged.statics[t], base[t])
                   = Applied(newest.statics[t], Applied(queued.statics[t], base[t]))
      <3> HIDE DEF base, merged
      <3>1. CASE queued.reset
        <4>1. queued.statics[t] = <<>>
          BY <2>1, <3>1 DEF MergesWhole, DropsBehindReset
        <4> QED
          BY <2>2, <2>4, <3>1, <4>1, AppliedNothing
      <3>2. CASE ~queued.reset
        <4>1. ~ (Len(Collected(queued.statics[t])) > 1 /\ newest.statics[t] # <<>>)
          BY <2>1, <3>2 DEF MergesWhole, FoldsApart
        <4>2. merged.statics[t] = MergeStaticUpdates(queued.statics[t], newest.statics[t])
          BY <2>2, <3>2
        <4> QED
          BY <2>4, <4>1, <4>2, MergeStaticUpdatesApplied
      <3> QED
        BY <3>1, <3>2
    <2> HIDE DEF base, merged
    <2> QED
      BY <2>5, <2>6, <2>7 DEF merged
  <1> QED
    BY <1>2, <1>3, <1>4

\* Widget confirmations: showing the merge shows those of the queued batch and then
\* those of the newest.
LEMMA MergePendingWidgets ==
  ASSUME NEW queued \in Batch \cup {NoBatch}, NEW newest \in Batch,
         NEW widgets \in Seq(Stamp),
         queued # NoBatch => queued.hash = newest.hash
  PROVE  WidgetsAfter(MergePending(queued, newest), widgets)
           = WidgetsAfter(newest, WidgetsAfter(queued, widgets))
  <1>1. newest # NoBatch
    BY NoBatchIsNoBatch
  <1>2. CASE queued = NoBatch
    BY <1>2 DEF MergePending, Replaces, WidgetsAfter
  <1>3. CASE queued # NoBatch /\ newest.reset
    BY <1>1, <1>3 DEF MergePending, Replaces, WidgetsAfter
  <1>4. CASE queued # NoBatch /\ ~newest.reset
    <2> DEFINE base == IF queued.reset THEN <<>> ELSE widgets
               merged == MergePending(queued, newest)
    <2>1. queued \in Batch /\ ~Replaces(newest, queued)
      BY <1>4 DEF Replaces
    <2>2. merged.reset = queued.reset /\ merged.widgets = queued.widgets \o newest.widgets
      BY <2>1 DEF MergePending
    <2>3. merged # NoBatch
      BY MergePendingType, NoBatchIsNoBatch
    <2>4. base \in Seq(Stamp) /\ newest.widgets \in Seq(Stamp) /\ queued.widgets \in Seq(Stamp)
      BY <2>1 DEF Batch
    <2>5. WidgetsAfter(newest, WidgetsAfter(queued, widgets))
            = (base \o queued.widgets) \o newest.widgets
      BY <1>1, <1>4 DEF WidgetsAfter
    <2>6. WidgetsAfter(merged, widgets) = base \o (queued.widgets \o newest.widgets)
      BY <2>2, <2>3 DEF WidgetsAfter
    <2>7. (base \o queued.widgets) \o newest.widgets = base \o (queued.widgets \o newest.widgets)
      <3>1. \A s, t, u \in Seq(Stamp) : (s \o t) \o u = s \o (t \o u)
        BY ConcatAssociative
      <3> QED
        BY <2>4, <3>1
    <2> QED
      BY <2>5, <2>6, <2>7
  <1> QED
    BY <1>2, <1>3, <1>4

\* A merge holds at most the confirmations of its two parts.
LEMMA MergePendingWidgetCount ==
  ASSUME NEW queued \in Batch \cup {NoBatch}, NEW newest \in Batch
  PROVE  /\ CountWidgetCommands(queued) \in Nat
         /\ CountWidgetCommands(newest) \in Nat
         /\ CountWidgetCommands(MergePending(queued, newest))
              <= CountWidgetCommands(queued) + CountWidgetCommands(newest)
  <1>1. newest # NoBatch /\ MergePending(queued, newest) # NoBatch
    BY NoBatchIsNoBatch, MergePendingType
  <1>2. CountWidgetCommands(newest) = Len(newest.widgets) /\ Len(newest.widgets) \in Nat
    BY <1>1, LenProperties DEF CountWidgetCommands, Batch
  <1>3. queued # NoBatch =>
           CountWidgetCommands(queued) = Len(queued.widgets) /\ Len(queued.widgets) \in Nat
    BY LenProperties DEF CountWidgetCommands, Batch
  <1>4. CountWidgetCommands(queued) \in Nat
    BY <1>3 DEF CountWidgetCommands
  <1>5. CASE Replaces(newest, queued)
    BY <1>1, <1>2, <1>4, <1>5 DEF MergePending
  <1>6. CASE ~Replaces(newest, queued)
    <2>1. queued \in Batch /\ queued # NoBatch
      BY <1>6 DEF Replaces
    <2>2. MergePending(queued, newest).widgets = queued.widgets \o newest.widgets
      BY <1>6 DEF MergePending
    <2>3. Len(queued.widgets \o newest.widgets) = Len(queued.widgets) + Len(newest.widgets)
      BY <2>1, ConcatProperties DEF Batch
    <2> QED
      BY <1>1, <1>2, <1>3, <2>1, <2>2, <2>3 DEF CountWidgetCommands
  <1> QED
    BY <1>2, <1>4, <1>5, <1>6

\* Showing a batch keeps the types of what the window shows.
LEMMA StaticsAfterType ==
  ASSUME NEW batch \in Batch \cup {NoBatch}, NEW statics \in StaticState
  PROVE  StaticsAfter(batch, statics) \in StaticState
  <1>1. CASE batch = NoBatch
    BY <1>1 DEF StaticsAfter
  <1>2. CASE batch # NoBatch
    <2> DEFINE base == IF batch.reset THEN BlankStatics ELSE statics
    <2>1. \A t \in StaticTargets :
             base[t] \in [StaticElements -> Nat] /\ batch.statics[t] \in StaticUpdates
      BY <1>2, BlankTypes DEF Batch, StaticState
    <2>2. \A t \in StaticTargets : Applied(batch.statics[t], base[t]) \in [StaticElements -> Nat]
      BY <2>1, AppliedType
    <2> QED
      BY <1>2, <2>2 DEF StaticsAfter, StaticState
  <1> QED
    BY <1>1, <1>2

LEMMA WidgetsAfterType ==
  ASSUME NEW batch \in Batch \cup {NoBatch}, NEW widgets \in Seq(Stamp)
  PROVE  WidgetsAfter(batch, widgets) \in Seq(Stamp)
  <1>1. CASE batch = NoBatch
    BY <1>1 DEF WidgetsAfter
  <1>2. CASE batch # NoBatch
    <2>1. batch.widgets \in Seq(Stamp)
      BY <1>2 DEF Batch
    <2> QED
      BY <1>2, <2>1, ConcatProperties DEF WidgetsAfter
  <1> QED
    BY <1>1, <1>2

LEMMA NoInstanceType == NoInstance \in Instance
  <1>1. (CHOOSE t \in Templates : TRUE) \in Templates
    BY BatchAssumption
  <1> QED
    BY <1>1, BlankTypes DEF NoInstance, Instance, Absent

LEMMA AfterOpType ==
  ASSUME NEW op \in DynamicOp, NEW instance \in Instance
  PROVE  AfterOp(op, instance) \in Instance
  <1>1. Instantiate(op) \in Instance
    BY DEF Instantiate, DynamicOp, Instance
  <1>2. Overlay(op.patch, instance.patch) \in DynamicPatch
    BY OverlayType DEF DynamicOp, Instance, DynamicPatch
  <1>3. [instance EXCEPT !.patch = Overlay(op.patch, @),
                         !.stream = IF op.stream # Absent THEN op.stream ELSE @] \in Instance
    BY <1>2 DEF Instance, DynamicOp
  <1>4. CASE op.kind = "none"
    BY <1>4 DEF AfterOp, Creates
  <1>5. CASE op.kind = "remove"
    BY <1>5, NoInstanceType DEF AfterOp, Creates
  <1>6. CASE Creates(op, instance)
    <2>1. AfterOp(op, instance) = Instantiate(op)
      BY <1>6 DEF AfterOp, Creates
    <2> QED
      BY <1>1, <2>1
  <1>7. CASE op.kind = "upsert" /\ instance.alive
    <2>1. AfterOp(op, instance) =
            [instance EXCEPT !.patch = Overlay(op.patch, @),
                             !.stream = IF op.stream # Absent THEN op.stream ELSE @]
      BY <1>7 DEF AfterOp, Creates
    <2> QED
      BY <1>3, <2>1
  <1> QED
    BY <1>4, <1>5, <1>6, <1>7 DEF Creates, DynamicOp

LEMMA DynamicsAfterType ==
  ASSUME NEW batch \in Batch \cup {NoBatch}, NEW dynamics \in [DynamicReticles -> Instance]
  PROVE  DynamicsAfter(batch, dynamics) \in [DynamicReticles -> Instance]
  <1>1. CASE batch = NoBatch
    BY <1>1 DEF DynamicsAfter
  <1>2. CASE batch # NoBatch
    <2>1. \A d \in DynamicReticles : batch.dynamics[d] \in DynamicOp
      BY <1>2 DEF Batch
    <2>2. \A d \in DynamicReticles :
            (IF batch.reset THEN NoInstance ELSE dynamics[d]) \in Instance
      BY NoInstanceType
    <2>3. \A d \in DynamicReticles :
            AfterOp(batch.dynamics[d], IF batch.reset THEN NoInstance ELSE dynamics[d]) \in Instance
      BY <2>1, <2>2, AfterOpType
    <2> QED
      BY <1>2, <2>3 DEF DynamicsAfter
  <1> QED
    BY <1>1, <1>2
-----------------------------------------------------------------------------
(* Lifecycles. What a batch does to one dynamic reticle, and how the batches  *)
(* that wait, lower below upper, account for the instance that is wanted and *)
(* for the submission that created it.                                       *)

AfterBatch(batch, d, x) ==
    IF batch = NoBatch THEN x
    ELSE AfterOp(batch.dynamics[d], IF batch.reset THEN NoInstance ELSE x)

Starts(op) == op.kind \in {"upsert", "recreate"}

\* No value of a patch was written before the creation.
Fresh(patch, creation) == \A f \in Writes(patch) : patch[f] >= creation

Matches(shown, wanted, creation) ==
    /\ shown.alive = wanted.alive
    /\ wanted.alive => SameInstance(shown, wanted, creation)

\* An instance that is alive is the wanted one, up to its stream control.
Current(shown, wanted, creation) ==
    shown.alive => shown.template = wanted.template /\ Fresh(shown.patch, creation)

\* The instance that an operation starts or goes on with is the wanted one.
OpFits(op, wanted, creation) ==
    Starts(op) => op.template = wanted.template /\ Fresh(op.patch, creation)

Fits(batch, d, wanted, creation) ==
    batch # NoBatch => OpFits(batch.dynamics[d], wanted, creation)

\* The batch goes on with the instance below it, if there is one.
Continues(batch, d) ==
    batch # NoBatch => ~batch.reset /\ batch.dynamics[d].kind \in {"none", "upsert"}

Follows(lower, upper, d, shown, wanted, creation) ==
    /\ Matches(AfterBatch(upper, d, AfterBatch(lower, d, shown)), wanted, creation)
    /\ Fits(upper, d, wanted, creation)
    /\ Continues(upper, d) => Fits(lower, d, wanted, creation)
    /\ Continues(upper, d) /\ Continues(lower, d) => Current(shown, wanted, creation)

LEMMA OverlayFresh ==
  ASSUME NEW newest \in DynamicPatch, NEW older \in DynamicPatch, NEW creation,
         Fresh(newest, creation), Fresh(older, creation)
  PROVE  Fresh(Overlay(newest, older), creation)
  <1>1. /\ Overlay(newest, older) \in DynamicPatch
        /\ \A f \in DynamicFields :
              Overlay(newest, older)[f] = IF newest[f] # 0 THEN newest[f] ELSE older[f]
    BY OverlayAt DEF DynamicPatch
  <1> QED
    BY <1>1 DEF Fresh, Writes, DynamicPatch, Absent

\* What an operation leaves of an instance.
LEMMA AfterOpParts ==
  ASSUME NEW op \in DynamicOp, NEW x \in Instance
  PROVE  /\ AfterOp(op, x) \in Instance
         /\ op.kind = "none" => AfterOp(op, x) = x
         /\ op.kind = "remove" => AfterOp(op, x) = NoInstance /\ ~NoInstance.alive
         /\ Starts(op) => AfterOp(op, x).alive
         /\ Starts(op) /\ (op.kind = "recreate" \/ ~x.alive) =>
               /\ AfterOp(op, x).stream = op.stream
               /\ AfterOp(op, x).template = op.template
               /\ AfterOp(op, x).patch = op.patch
         /\ op.kind = "upsert" /\ x.alive =>
               /\ AfterOp(op, x).stream = IF op.stream # 0 THEN op.stream ELSE x.stream
               /\ AfterOp(op, x).template = x.template
               /\ AfterOp(op, x).patch = Overlay(op.patch, x.patch)
  <1>1. AfterOp(op, x) \in Instance
    BY AfterOpType
  <1>2. op.kind = "none" => AfterOp(op, x) = x
    BY DEF AfterOp, Creates
  <1>3. op.kind = "remove" => AfterOp(op, x) = NoInstance
    BY DEF AfterOp, Creates
  <1>4. ~NoInstance.alive
    BY DEF NoInstance
  <1>5. Starts(op) /\ (op.kind = "recreate" \/ ~x.alive) => AfterOp(op, x) = Instantiate(op)
    BY DEF AfterOp, Creates, Starts
  <1>6. /\ Instantiate(op).alive
        /\ Instantiate(op).stream = op.stream
        /\ Instantiate(op).template = op.template
        /\ Instantiate(op).patch = op.patch
    BY DEF Instantiate
  <1>7. ASSUME op.kind = "upsert", x.alive
        PROVE  /\ AfterOp(op, x).alive
               /\ AfterOp(op, x).stream = IF op.stream # 0 THEN op.stream ELSE x.stream
               /\ AfterOp(op, x).template = x.template
               /\ AfterOp(op, x).patch = Overlay(op.patch, x.patch)
    <2>1. AfterOp(op, x) =
            [x EXCEPT !.patch = Overlay(op.patch, @),
                      !.stream = IF op.stream # Absent THEN op.stream ELSE @]
      BY <1>7 DEF AfterOp, Creates
    <2>2. x \in [alive : BOOLEAN, template : Templates, patch : DynamicPatch, stream : Nat]
      BY DEF Instance
    <2> QED
      BY <1>7, <2>1, <2>2 DEF Absent
  <1> QED
    BY <1>1, <1>2, <1>3, <1>4, <1>5, <1>6, <1>7 DEF Starts

\* What a merged operation keeps of its two parts.
LEMMA MergedOpParts ==
  ASSUME NEW p \in DynamicOp, NEW n \in DynamicOp
  PROVE  LET m == MergeDynamicOp(p, n) IN
         /\ m \in DynamicOp
         /\ n.kind = "none" =>
               /\ m.kind = IF p.kind = "recreate" THEN "upsert" ELSE p.kind
               /\ p.kind # "recreate" => m = p
         /\ n.kind # "none" =>
               /\ m.kind = n.kind
               /\ m.template = n.template
               /\ m.patch = n.patch
               /\ m.stream = IF KeepsStreamControls(p, n) /\ n.stream = 0 THEN p.stream ELSE n.stream
  <1> DEFINE m == MergeDynamicOp(p, n)
  <1>1. m \in DynamicOp
    BY MergeDynamicOpType
  <1>2. CASE n.kind = "none"
    <2>1. m = CarriedOp(p)
      BY <1>2 DEF MergeDynamicOp, KeepsStreamControls
    <2>2. /\ CarriedOp(p).kind = IF p.kind = "recreate" THEN "upsert" ELSE p.kind
          /\ p.kind # "recreate" => CarriedOp(p) = p
      BY DEF CarriedOp, DynamicOp
    <2> QED
      BY <1>1, <1>2, <2>1, <2>2
  <1>3. CASE n.kind # "none" /\ KeepsStreamControls(p, n)
    <2>1. m = [n EXCEPT !.stream = IF @ # Absent THEN @ ELSE p.stream]
      BY <1>3 DEF MergeDynamicOp
    <2>2. n \in [kind : {"none", "upsert", "remove", "recreate"}, template : Templates,
                 patch : DynamicPatch, stream : Nat]
      BY DEF DynamicOp
    <2>3. /\ m.kind = n.kind /\ m.template = n.template /\ m.patch = n.patch
          /\ m.stream = IF n.stream # 0 THEN n.stream ELSE p.stream
      BY <2>1, <2>2 DEF Absent
    <2> QED
      BY <1>1, <1>3, <2>3
  <1>4. CASE n.kind # "none" /\ ~KeepsStreamControls(p, n)
    <2>1. m = n
      BY <1>4 DEF MergeDynamicOp
    <2> QED
      BY <1>1, <1>4, <2>1
  <1> QED
    BY <1>2, <1>3, <1>4

\* What a batch leaves of an instance.
LEMMA AfterBatchType ==
  ASSUME NEW batch \in Batch \cup {NoBatch}, NEW d \in DynamicReticles, NEW x \in Instance
  PROVE  AfterBatch(batch, d, x) \in Instance
  BY AfterOpType, NoInstanceType DEF AfterBatch, Batch

\* An operation that fits leaves the wanted instance, if it leaves any.
LEMMA AfterOpCurrent ==
  ASSUME NEW op \in DynamicOp, NEW x \in Instance, NEW wanted \in Instance, NEW creation,
         OpFits(op, wanted, creation),
         op.kind \in {"none", "upsert"} => Current(x, wanted, creation)
  PROVE  Current(AfterOp(op, x), wanted, creation)
  <1>0. op.patch \in DynamicPatch /\ x.patch \in DynamicPatch
    BY DEF DynamicOp, Instance
  <1>1. CASE op.kind = "none"
    BY <1>1, AfterOpParts
  <1>2. CASE op.kind = "remove"
    BY <1>2, AfterOpParts DEF Current
  <1>3. CASE Starts(op) /\ (op.kind = "recreate" \/ ~x.alive)
    BY <1>3, AfterOpParts DEF Current, OpFits
  <1>4. CASE op.kind = "upsert" /\ x.alive
    <2>1. /\ AfterOp(op, x).template = x.template
          /\ AfterOp(op, x).patch = Overlay(op.patch, x.patch)
      BY <1>4, AfterOpParts
    <2>2. Fresh(op.patch, creation) /\ Fresh(x.patch, creation) /\ x.template = wanted.template
      BY <1>4 DEF Current, OpFits, Starts
    <2> QED
      BY <1>0, <2>1, <2>2, OverlayFresh DEF Current
  <1> QED
    BY <1>1, <1>2, <1>3, <1>4 DEF DynamicOp, Starts

\* Under a batch that goes on, the one below leaves the wanted instance, if any.
LEMMA LowerCurrent ==
  ASSUME NEW lower \in Batch \cup {NoBatch}, NEW upper \in Batch \cup {NoBatch},
         NEW d \in DynamicReticles, NEW shown \in Instance, NEW wanted \in Instance, NEW creation,
         Follows(lower, upper, d, shown, wanted, creation), Continues(upper, d)
  PROVE  Current(AfterBatch(lower, d, shown), wanted, creation)
  <1>1. CASE lower = NoBatch
    BY <1>1 DEF Follows, AfterBatch, Continues
  <1>2. CASE lower # NoBatch
    <2> DEFINE op == lower.dynamics[d]
               base == IF lower.reset THEN NoInstance ELSE shown
    <2>1. op \in DynamicOp /\ base \in Instance
      BY <1>2, NoInstanceType DEF Batch
    <2>2. AfterBatch(lower, d, shown) = AfterOp(op, base)
      BY <1>2 DEF AfterBatch
    <2>3. OpFits(op, wanted, creation)
      BY <1>2 DEF Follows, Fits
    <2>4. op.kind \in {"none", "upsert"} => Current(base, wanted, creation)
      <3>1. lower.reset => ~base.alive
        BY DEF NoInstance
      <3>2. ~lower.reset /\ op.kind \in {"none", "upsert"} => Continues(lower, d)
        BY DEF Continues
      <3> QED
        BY <3>1, <3>2 DEF Follows, Current
    <2> HIDE DEF op, base
    <2> QED
      BY <2>1, <2>2, <2>3, <2>4, AfterOpCurrent
  <1> QED
    BY <1>1, <1>2

\* A reticle that the lower batch handed over is not delivered twice.
LEMMA FollowsSent ==
  ASSUME NEW lower \in Batch \cup {NoBatch}, NEW upper \in Batch \cup {NoBatch},
         NEW d \in DynamicReticles, NEW shown \in Instance, NEW wanted \in Instance, NEW creation,
         Follows(lower, upper, d, shown, wanted, creation)
  PROVE  Follows(NoBatch, upper, d, AfterBatch(lower, d, shown), wanted, creation)
  <1>1. Continues(upper, d) => Current(AfterBatch(lower, d, shown), wanted, creation)
    BY LowerCurrent
  <1> QED
    BY <1>1 DEF Follows, AfterBatch, Fits, Continues

LEMMA FollowsTaken ==
  ASSUME NEW batch \in Batch \cup {NoBatch},
         NEW d \in DynamicReticles, NEW shown \in Instance, NEW wanted \in Instance, NEW creation,
         Follows(NoBatch, batch, d, shown, wanted, creation)
  PROVE  Follows(batch, NoBatch, d, shown, wanted, creation)
  BY DEF Follows, AfterBatch, Fits, Continues

\* What a merge that keeps its older part does to one reticle.
LEMMA MergedBatchParts ==
  ASSUME NEW queued \in Batch, NEW newest \in Batch, NEW d \in DynamicReticles,
         ~Replaces(newest, queued)
  PROVE  LET merged == MergePending(queued, newest) IN
         /\ merged.reset = queued.reset /\ ~newest.reset
         /\ queued.reset => merged.dynamics[d] = newest.dynamics[d]
         /\ ~queued.reset =>
               merged.dynamics[d] = MergeDynamicOp(queued.dynamics[d], newest.dynamics[d])
  BY DEF MergePending, Replaces

\* Neither of the two losses of lifecycles happens in the merge.
KeepsLifecycles(older, newest) ==
    ~Replaces(newest, older) => ~DropsBehindReset(older, newest) /\ ~DropsRemoval(older, newest)

\* An operation merged into the one that follows it leaves the same instance.
LEMMA MergedOpMatches ==
  ASSUME NEW p \in DynamicOp, NEW n \in DynamicOp, NEW x \in Instance, NEW wanted \in Instance,
         NEW creation,
         ~(p.kind \in {"remove", "recreate"} /\ MergeDynamicOp(p, n).kind = "upsert"),
         Matches(AfterOp(n, AfterOp(p, x)), wanted, creation),
         OpFits(n, wanted, creation),
         n.kind \in {"none", "upsert"} => OpFits(p, wanted, creation),
         n.kind \in {"none", "upsert"} /\ p.kind \in {"none", "upsert"} => Current(x, wanted, creation)
  PROVE  LET m == MergeDynamicOp(p, n) IN
         /\ Matches(AfterOp(m, x), wanted, creation)
         /\ OpFits(m, wanted, creation)
         /\ m.kind \in {"none", "upsert"} => p.kind \in {"none", "upsert"} /\ n.kind \in {"none", "upsert"}
  <1> DEFINE m == MergeDynamicOp(p, n)
  <1>0. m \in DynamicOp /\ n.patch \in DynamicPatch /\ x.patch \in DynamicPatch /\ p.stream \in Nat
        /\ x.stream \in Nat /\ n.stream \in Nat
    BY MergedOpParts DEF DynamicOp, Instance
  <1>1. CASE n.kind = "none"
    <2>1. p.kind # "recreate" /\ m = p
      BY <1>1, MergedOpParts
    <2>2. AfterOp(n, AfterOp(p, x)) = AfterOp(p, x)
      BY <1>1, AfterOpParts
    <2> QED
      BY <1>1, <2>1, <2>2
  <1>2. CASE n.kind = "remove"
    <2>1. m.kind = "remove"
      BY <1>2, MergedOpParts
    <2>2. AfterOp(m, x) = NoInstance /\ AfterOp(n, AfterOp(p, x)) = NoInstance
      BY <1>0, <1>2, <2>1, AfterOpParts
    <2> QED
      BY <2>1, <2>2 DEF OpFits, Starts
  <1>3. CASE n.kind = "recreate"
    <2>1. m.kind = "recreate" /\ m.template = n.template /\ m.patch = n.patch /\ m.stream = n.stream
      BY <1>3, MergedOpParts DEF KeepsStreamControls
    <2> DEFINE y == AfterOp(p, x)
    <2>2. y \in Instance
      BY AfterOpParts
    <2> HIDE DEF y, m
    <2>3. /\ AfterOp(m, x).alive /\ AfterOp(n, y).alive
          /\ AfterOp(m, x).template = AfterOp(n, y).template
          /\ AfterOp(m, x).patch = AfterOp(n, y).patch
          /\ AfterOp(m, x).stream = AfterOp(n, y).stream
      BY <1>0, <1>3, <2>1, <2>2, AfterOpParts DEF Starts
    <2>4. Matches(AfterOp(n, y), wanted, creation)
      BY DEF y
    <2>5. Matches(AfterOp(m, x), wanted, creation)
      BY <2>3, <2>4 DEF Matches, SameInstance
    <2>6. OpFits(m, wanted, creation)
      BY <1>3, <2>1 DEF OpFits, Starts
    <2> QED
      BY <2>1, <2>5, <2>6 DEF m
  <1>4. CASE n.kind = "upsert"
    <2>1. m.kind = "upsert" /\ m.template = n.template /\ m.patch = n.patch
      BY <1>4, MergedOpParts
    <2>2. p.kind \in {"none", "upsert"} /\ Current(x, wanted, creation)
      BY <1>4, <2>1 DEF DynamicOp
    <2>3. n.template = wanted.template /\ Fresh(n.patch, creation)
      BY <1>4 DEF OpFits, Starts
    <2>4. OpFits(m, wanted, creation)
      BY <2>1, <2>3 DEF OpFits
    <2>5. AfterOp(m, x).alive /\ Current(AfterOp(m, x), wanted, creation)
      <3> HIDE DEF m
      <3> QED
        BY <1>0, <2>1, <2>2, <2>4, AfterOpParts, AfterOpCurrent DEF Starts
    <2> DEFINE y == AfterOp(p, x)
    <2>6. y \in Instance /\ Matches(AfterOp(n, y), wanted, creation)
      BY AfterOpParts
    <2>7. AfterOp(n, y).alive
      <3> HIDE DEF y
      <3> QED
        BY <1>4, <2>6, AfterOpParts DEF Starts
    <2>8. AfterOp(m, x).stream = AfterOp(n, y).stream
      <3>1. CASE p.kind = "none"
        <4>1. y = x /\ m.stream = n.stream
          BY <1>4, <3>1, AfterOpParts, MergedOpParts DEF KeepsStreamControls
        <4> HIDE DEF y, m
        <4> QED
          BY <1>0, <1>4, <2>1, <4>1, AfterOpParts DEF Starts
      <3>2. CASE p.kind = "upsert"
        <4>1. p.template = n.template
          BY <1>4, <2>3, <3>2 DEF OpFits, Starts
        <4>2. m.stream = IF n.stream = 0 THEN p.stream ELSE n.stream
          BY <1>4, <3>2, <4>1, MergedOpParts DEF KeepsStreamControls
        <4>3. y.alive /\ y.stream = IF x.alive /\ p.stream = 0 THEN x.stream ELSE p.stream
          BY <1>0, <3>2, AfterOpParts DEF Starts
        <4> HIDE DEF y, m
        <4>4. AfterOp(n, y).stream = IF n.stream # 0 THEN n.stream ELSE y.stream
          BY <1>4, <2>6, <4>3, AfterOpParts
        <4>5. AfterOp(m, x).stream = IF x.alive /\ m.stream = 0 THEN x.stream ELSE m.stream
          BY <1>0, <2>1, AfterOpParts DEF Starts
        <4> QED
          BY <4>2, <4>3, <4>4, <4>5
      <3> QED
        BY <2>2, <3>1, <3>2
    <2>9. Matches(AfterOp(m, x), wanted, creation)
      <3> HIDE DEF m, y
      <3> QED
        BY <2>5, <2>6, <2>7, <2>8 DEF Matches, SameInstance, Current, Fresh
    <2> QED
      BY <1>4, <2>1, <2>2, <2>4, <2>9
  <1> QED
    BY <1>1, <1>2, <1>3, <1>4 DEF DynamicOp

\* A merge accounts for the wanted instance as its two parts did, one below the other.
LEMMA MergeFollows ==
  ASSUME NEW queued \in Batch \cup {NoBatch}, NEW newest \in Batch, NEW d \in DynamicReticles,
         NEW x \in Instance, NEW wanted \in Instance, NEW creation,
         queued # NoBatch => queued.hash = newest.hash,
         KeepsLifecycles(queued, newest),
         Follows(queued, newest, d, x, wanted, creation)
  PROVE  LET merged == MergePending(queued, newest) IN
         /\ Follows(NoBatch, merged, d, x, wanted, creation)
         /\ Continues(merged, d) => Continues(queued, d) /\ Continues(newest, d)
  <1> DEFINE merged == MergePending(queued, newest)
             p == queued.dynamics[d]
             n == newest.dynamics[d]
             m == merged.dynamics[d]
  <1>1. newest # NoBatch /\ merged # NoBatch /\ merged \in Batch
    BY NoBatchIsNoBatch, MergePendingType
  <1>2. n \in DynamicOp /\ m \in DynamicOp /\ NoInstance \in Instance
    BY <1>1, NoInstanceType DEF Batch
  <1>3. CASE queued = NoBatch
    <2>1. merged = newest
      BY <1>3 DEF MergePending, Replaces
    <2> QED
      BY <1>3, <2>1 DEF Follows, AfterBatch, Fits, Continues
  <1>4. CASE queued # NoBatch /\ Replaces(newest, queued)
    <2>1. merged = newest /\ newest.reset
      BY <1>4 DEF MergePending, Replaces
    <2>2. AfterBatch(newest, d, AfterBatch(queued, d, x)) = AfterBatch(newest, d, x)
      BY <2>1, <1>1 DEF AfterBatch
    <2>3. ~Continues(newest, d)
      BY <1>1, <2>1 DEF Continues
    <2> QED
      BY <2>1, <2>2, <2>3 DEF Follows, AfterBatch
  <1>5. CASE ~Replaces(newest, queued)
    <2>1. queued \in Batch /\ queued # NoBatch /\ p \in DynamicOp
      BY <1>5 DEF Replaces, Batch
    <2>2. merged.reset = queued.reset /\ ~newest.reset
      BY <1>5, <2>1, MergedBatchParts
    <2>3. CASE queued.reset
      <3>1. p.kind = "none" /\ m = n
        <4>1. m = n
          BY <1>5, <2>1, <2>3, MergedBatchParts
        <4>2. p.kind = "none"
          BY <1>5, <2>3 DEF KeepsLifecycles, DropsBehindReset
        <4> QED
          BY <4>1, <4>2
      <3>2. /\ AfterBatch(merged, d, x) = AfterOp(n, NoInstance)
            /\ AfterBatch(newest, d, AfterBatch(queued, d, x)) = AfterOp(n, AfterOp(p, NoInstance))
        BY <1>1, <2>1, <2>2, <2>3, <3>1 DEF AfterBatch
      <3>3. AfterOp(p, NoInstance) = NoInstance
        BY <1>2, <2>1, <3>1, AfterOpParts
      <3>4. ~Continues(merged, d)
        BY <1>1, <2>2, <2>3 DEF Continues
      <3>5. Fits(merged, d, wanted, creation)
        BY <1>1, <3>1 DEF Follows, Fits
      <3>6. Matches(AfterBatch(merged, d, AfterBatch(NoBatch, d, x)), wanted, creation)
        BY <3>2, <3>3 DEF Follows, AfterBatch
      <3> QED
        BY <3>4, <3>5, <3>6 DEF Follows
    <2>4. CASE ~queued.reset
      <3>1. m = MergeDynamicOp(p, n)
        BY <1>5, <2>1, <2>4, MergedBatchParts
      <3>2. /\ AfterBatch(merged, d, x) = AfterOp(m, x)
            /\ AfterBatch(newest, d, AfterBatch(queued, d, x)) = AfterOp(n, AfterOp(p, x))
        BY <1>1, <2>1, <2>2, <2>4 DEF AfterBatch
      <3>3. ~(p.kind \in {"remove", "recreate"} /\ m.kind = "upsert")
        BY <1>5, <2>4, <3>1 DEF KeepsLifecycles, DropsRemoval
      <3>4. /\ n.kind \in {"none", "upsert"} <=> Continues(newest, d)
            /\ p.kind \in {"none", "upsert"} <=> Continues(queued, d)
            /\ m.kind \in {"none", "upsert"} <=> Continues(merged, d)
        BY <1>1, <2>1, <2>2, <2>4 DEF Continues
      <3>5. /\ Matches(AfterOp(n, AfterOp(p, x)), wanted, creation)
            /\ OpFits(n, wanted, creation)
            /\ n.kind \in {"none", "upsert"} => OpFits(p, wanted, creation)
            /\ n.kind \in {"none", "upsert"} /\ p.kind \in {"none", "upsert"} =>
                  Current(x, wanted, creation)
        BY <1>1, <2>1, <3>2, <3>4 DEF Follows, Fits
      <3>6. /\ Matches(AfterOp(m, x), wanted, creation)
            /\ OpFits(m, wanted, creation)
            /\ m.kind \in {"none", "upsert"} =>
                  p.kind \in {"none", "upsert"} /\ n.kind \in {"none", "upsert"}
        <4> HIDE DEF p, n, m
        <4> QED
          BY <1>2, <2>1, <3>1, <3>3, <3>5, MergedOpMatches
      <3>7. Continues(merged, d) => Continues(queued, d) /\ Continues(newest, d)
        BY <3>4, <3>6
      <3>8. Fits(merged, d, wanted, creation)
        BY <3>6 DEF Fits
      <3>9. Matches(AfterBatch(merged, d, AfterBatch(NoBatch, d, x)), wanted, creation)
        BY <3>2, <3>6 DEF AfterBatch
      <3>10. Continues(merged, d) => Current(x, wanted, creation)
        BY <3>7 DEF Follows
      <3> QED
        BY <3>7, <3>8, <3>9, <3>10 DEF Follows, Fits
    <2> QED
      BY <2>1, <2>3, <2>4 DEF Batch
  <1> QED
    BY <1>3, <1>4, <1>5

\* The submission that created a reticle once the newest batch was applied as the n-th.
Creation(newest, d, wanted, creation, n) ==
    IF Creates(newest.dynamics[d], IF newest.reset THEN NoInstance ELSE wanted) THEN n ELSE creation

\* A batch that goes on with a live wanted instance leaves its template and creation alone.
LEMMA WantedPersists ==
  ASSUME NEW newest \in Batch, NEW d \in DynamicReticles, NEW wanted \in Instance,
         NEW creation, NEW number, Continues(newest, d), wanted.alive
  PROVE  /\ AfterBatch(newest, d, wanted).template = wanted.template
         /\ Creation(newest, d, wanted, creation, number) = creation
  <1>1. newest # NoBatch /\ newest.dynamics[d] \in DynamicOp
    BY NoBatchIsNoBatch DEF Batch
  <1>2. ~newest.reset /\ newest.dynamics[d].kind \in {"none", "upsert"}
    BY <1>1 DEF Continues
  <1> QED
    BY <1>1, <1>2, AfterOpParts DEF AfterBatch, Creation, Creates

\* A submission that fits the instance its client wants, put above what waits.
LEMMA FollowsNewest ==
  ASSUME NEW queued \in Batch \cup {NoBatch},
         NEW newest \in Batch, NEW d \in DynamicReticles,
         NEW y \in Instance, NEW wanted \in Instance, NEW creation \in Nat, NEW number \in Nat,
         creation <= number,
         \A f \in Writes(newest.dynamics[d].patch) : newest.dynamics[d].patch[f] = number,
         OpApplies(newest.dynamics[d], IF newest.reset THEN NoInstance ELSE wanted),
         Follows(NoBatch, queued, d, y, wanted, creation)
  PROVE  Follows(queued, newest, d, y, AfterBatch(newest, d, wanted),
                 Creation(newest, d, wanted, creation, number))
  <1> DEFINE n == newest.dynamics[d]
             base == IF newest.reset THEN NoInstance ELSE wanted
             z == AfterBatch(queued, d, y)
             below == IF newest.reset THEN NoInstance ELSE z
             after == AfterBatch(newest, d, wanted)
             birth == Creation(newest, d, wanted, creation, number)
  <1>1. newest # NoBatch /\ n \in DynamicOp /\ base \in Instance /\ z \in Instance
        /\ below \in Instance
    BY NoBatchIsNoBatch, NoInstanceType, AfterBatchType DEF Batch
  <1>2. /\ after = AfterOp(n, base) /\ OpApplies(n, base)
        /\ AfterBatch(newest, d, z) = AfterOp(n, below)
        /\ birth = IF Creates(n, base) THEN number ELSE creation
    BY <1>1 DEF AfterBatch, Creation
  <1>3. Matches(z, wanted, creation)
    BY DEF Follows, AfterBatch
  <1>4. Matches(below, base, creation)
    <2>1. ~NoInstance.alive
      BY DEF NoInstance
    <2> QED
      BY <1>3, <2>1 DEF Matches
  <1>5. Fresh(n.patch, number) /\ Fresh(n.patch, creation)
    <2>1. \A f \in Writes(n.patch) : n.patch[f] = number
      OBVIOUS
    <2> HIDE DEF n
    <2> QED
      BY <2>1 DEF Fresh
  <1>6. Matches(AfterOp(n, below), after, birth) /\ OpFits(n, after, birth)
    <2> HIDE DEF n, base, below, after, birth, z
    <2>1. n.patch \in DynamicPatch /\ below.patch \in DynamicPatch
      BY <1>1 DEF DynamicOp, Instance
    <2>2. CASE n.kind = "none"
      BY <1>1, <1>2, <1>4, <2>2, AfterOpParts DEF Creates, OpFits, Starts
    <2>3. CASE n.kind = "remove"
      BY <1>1, <1>2, <2>3, AfterOpParts DEF Matches, OpFits, Starts
    <2>4. CASE Starts(n) /\ (n.kind = "recreate" \/ ~base.alive)
      <3>1. n.kind = "recreate" \/ ~below.alive
        BY <1>4, <2>4 DEF Matches
      <3>2. birth = number
        BY <1>2, <2>4 DEF Creates, Starts
      <3>3. /\ after.alive /\ after.template = n.template /\ after.stream = n.stream
            /\ AfterOp(n, below).alive /\ AfterOp(n, below).template = n.template
            /\ AfterOp(n, below).stream = n.stream /\ AfterOp(n, below).patch = n.patch
        BY <1>1, <1>2, <2>4, <3>1, AfterOpParts
      <3> QED
        BY <1>5, <3>2, <3>3 DEF Matches, SameInstance, OpFits, Fresh
    <2>5. CASE n.kind = "upsert" /\ base.alive
      <3>1. below.alive /\ SameInstance(below, base, creation)
        BY <1>4, <2>5 DEF Matches
      <3>2. birth = creation
        BY <1>2, <2>5 DEF Creates
      <3>3. base.template = n.template
        BY <1>2, <2>5 DEF OpApplies
      <3>4. /\ after.alive /\ after.template = base.template
            /\ after.stream = IF n.stream # 0 THEN n.stream ELSE base.stream
            /\ AfterOp(n, below).alive /\ AfterOp(n, below).template = below.template
            /\ AfterOp(n, below).stream = IF n.stream # 0 THEN n.stream ELSE below.stream
            /\ AfterOp(n, below).patch = Overlay(n.patch, below.patch)
        BY <1>1, <1>2, <2>5, <3>1, AfterOpParts DEF Starts
      <3>5. Fresh(Overlay(n.patch, below.patch), creation)
        BY <1>5, <2>1, <3>1, OverlayFresh DEF SameInstance, Fresh
      <3> QED
        BY <1>5, <3>1, <3>2, <3>3, <3>4, <3>5 DEF Matches, SameInstance, OpFits, Fresh
    <2> QED
      BY <1>1, <2>2, <2>3, <2>4, <2>5 DEF DynamicOp, Starts
  <1>7. wanted.alive /\ Continues(newest, d) => after.template = wanted.template /\ birth = creation
    BY WantedPersists
  <1>8. ASSUME Continues(newest, d) PROVE Fits(queued, d, after, birth)
    <2> SUFFICES ASSUME queued # NoBatch, Starts(queued.dynamics[d])
                 PROVE  OpFits(queued.dynamics[d], after, birth)
      BY DEF Fits, OpFits
    <2>1. queued.dynamics[d] \in DynamicOp /\ z.alive
      BY AfterOpParts, NoInstanceType DEF AfterBatch, Batch
    <2>2. wanted.alive
      BY <1>3, <2>1 DEF Matches
    <2>3. OpFits(queued.dynamics[d], wanted, creation)
      BY DEF Follows, Fits
    <2> HIDE DEF after, birth
    <2> QED
      BY <1>7, <1>8, <2>2, <2>3 DEF OpFits
  <1>9. ASSUME Continues(newest, d), Continues(queued, d) PROVE Current(y, after, birth)
    <2> SUFFICES ASSUME y.alive PROVE Current(y, after, birth)
      BY DEF Current
    <2>1. z.alive
      <3>1. CASE queued = NoBatch
        BY <3>1 DEF AfterBatch
      <3>2. CASE queued # NoBatch
        <4>1. queued.dynamics[d] \in DynamicOp /\ z = AfterOp(queued.dynamics[d], y)
              /\ queued.dynamics[d].kind \in {"none", "upsert"}
          BY <1>9, <3>2 DEF AfterBatch, Batch, Continues
        <4> QED
          BY <4>1, AfterOpParts DEF Starts
      <3> QED
        BY <3>1, <3>2
    <2>2. wanted.alive
      BY <1>3, <2>1 DEF Matches
    <2>3. Current(y, wanted, creation)
      BY <1>9 DEF Follows, Continues
    <2> HIDE DEF after, birth
    <2> QED
      BY <1>7, <1>9, <2>2, <2>3 DEF Current
  <1>10. Fits(newest, d, after, birth)
    BY <1>6 DEF Fits
  <1>11. Matches(AfterBatch(newest, d, z), after, birth)
    BY <1>2, <1>6
  <1> QED
    BY <1>8, <1>9, <1>10, <1>11 DEF Follows

\* An accepted submission, merged into what waits, leads to what its client wants then.
LEMMA FollowsAccepted ==
  ASSUME NEW lower \in Batch \cup {NoBatch}, NEW queued \in Batch \cup {NoBatch},
         NEW newest \in Batch, NEW d \in DynamicReticles,
         NEW shown \in Instance, NEW wanted \in Instance,
         NEW creation \in Nat, NEW number \in Nat, creation <= number,
         \A f \in Writes(newest.dynamics[d].patch) : newest.dynamics[d].patch[f] = number,
         queued # NoBatch => queued.hash = newest.hash,
         KeepsLifecycles(queued, newest),
         OpApplies(newest.dynamics[d], IF newest.reset THEN NoInstance ELSE wanted),
         Follows(lower, queued, d, shown, wanted, creation)
  PROVE  Follows(lower, MergePending(queued, newest), d, shown, AfterBatch(newest, d, wanted),
                 Creation(newest, d, wanted, creation, number))
  <1> DEFINE merged == MergePending(queued, newest)
             after == AfterBatch(newest, d, wanted)
             birth == Creation(newest, d, wanted, creation, number)
             y == AfterBatch(lower, d, shown)
  <1>1. y \in Instance /\ after \in Instance
    BY AfterBatchType
  <1>2. Follows(NoBatch, queued, d, y, wanted, creation)
    BY FollowsSent
  <1>3. Follows(queued, newest, d, y, after, birth)
    <2> HIDE DEF y
    <2> QED
      BY <1>1, <1>2, FollowsNewest
  <1>4. /\ Follows(NoBatch, merged, d, y, after, birth)
        /\ Continues(merged, d) => Continues(queued, d) /\ Continues(newest, d)
    <2> HIDE DEF y, after, birth
    <2> QED
      BY <1>1, <1>3, MergeFollows
  <1>5. y.alive /\ Continues(queued, d) => wanted.alive
    <2> SUFFICES ASSUME y.alive, Continues(queued, d) PROVE wanted.alive
      OBVIOUS
    <2>1. CASE queued = NoBatch
      BY <1>2, <2>1 DEF Follows, AfterBatch, Matches
    <2>2. CASE queued # NoBatch
      <3> HIDE DEF y
      <3>1. queued.dynamics[d] \in DynamicOp /\ AfterBatch(queued, d, y) = AfterOp(queued.dynamics[d], y)
            /\ queued.dynamics[d].kind \in {"none", "upsert"}
        BY <2>2 DEF AfterBatch, Batch, Continues
      <3>2. AfterOp(queued.dynamics[d], y).alive
        BY <1>1, <3>1, AfterOpParts DEF Starts
      <3> QED
        BY <1>2, <3>1, <3>2 DEF Follows, AfterBatch, Matches
    <2> QED
      BY <2>1, <2>2
  <1>6. wanted.alive /\ Continues(newest, d) => after.template = wanted.template /\ birth = creation
    BY WantedPersists
  <1>7. ASSUME Continues(merged, d) PROVE Fits(lower, d, after, birth)
    <2> SUFFICES ASSUME lower # NoBatch, Starts(lower.dynamics[d])
                 PROVE  OpFits(lower.dynamics[d], after, birth)
      BY DEF Fits, OpFits
    <2>1. y.alive
      BY AfterOpParts, NoInstanceType DEF AfterBatch, Batch
    <2>2. OpFits(lower.dynamics[d], wanted, creation)
      BY <1>4, <1>7 DEF Follows, Fits
    <2> HIDE DEF after, birth
    <2> QED
      BY <1>4, <1>5, <1>6, <1>7, <2>1, <2>2 DEF OpFits
  <1>8. ASSUME Continues(merged, d), Continues(lower, d) PROVE Current(shown, after, birth)
    <2> SUFFICES ASSUME shown.alive PROVE Current(shown, after, birth)
      BY DEF Current
    <2>1. y.alive
      <3>1. CASE lower = NoBatch
        BY <3>1 DEF AfterBatch
      <3>2. CASE lower # NoBatch
        <4>1. lower.dynamics[d] \in DynamicOp /\ y = AfterOp(lower.dynamics[d], shown)
              /\ lower.dynamics[d].kind \in {"none", "upsert"}
          BY <1>8, <3>2 DEF AfterBatch, Batch, Continues
        <4> QED
          BY <4>1, AfterOpParts DEF Starts
      <3> QED
        BY <3>1, <3>2
    <2>2. Current(shown, wanted, creation)
      BY <1>4, <1>8 DEF Follows
    <2> HIDE DEF after, birth
    <2> QED
      BY <1>4, <1>5, <1>6, <1>8, <2>1, <2>2 DEF Current
  <1>9. AfterBatch(NoBatch, d, y) = y
    BY DEF AfterBatch
  <1>10. Matches(AfterBatch(merged, d, y), after, birth) /\ Fits(merged, d, after, birth)
    BY <1>4, <1>9 DEF Follows
  <1> QED
    BY <1>7, <1>8, <1>10 DEF Follows

\* A failed batch, merged with what arrived meanwhile, still leads to what is wanted.
LEMMA FollowsRetried ==
  ASSUME NEW failed \in Batch, NEW queued \in Batch \cup {NoBatch}, NEW d \in DynamicReticles,
         NEW shown \in Instance, NEW wanted \in Instance, NEW creation,
         queued # NoBatch => failed.hash = queued.hash,
         queued # NoBatch => KeepsLifecycles(failed, queued),
         Follows(failed, queued, d, shown, wanted, creation)
  PROVE  Follows(NoBatch, IF queued = NoBatch THEN failed ELSE MergePending(failed, queued),
                 d, shown, wanted, creation)
  <1>1. CASE queued = NoBatch
    BY <1>1 DEF Follows, AfterBatch, Fits, Continues
  <1>2. CASE queued # NoBatch
    BY <1>2, MergeFollows
  <1> QED
    BY <1>1, <1>2

-----------------------------------------------------------------------------
(* Type correctness. *)

LEMMA StampsType ==
  ASSUME NEW all, NEW written, NEW n \in Nat
  PROVE  Stamps(all, written, n) \in [all -> Nat]
  BY DEF Stamps, Absent

LEMMA StampedType ==
  ASSUME NEW shape \in Shapes, NEW n \in Nat
  PROVE  Stamped(shape, n + 1) \in Batch /\ Stamped(shape, n + 1).hash = shape.hash
  <1>1. shape \in Shape /\ n + 1 \in Stamp /\ n + 1 \in Nat
    BY PublisherAssumption DEF Stamp, Absent
  <1>2. ASSUME NEW t \in StaticTargets
        PROVE  Stamped(shape, n + 1).statics[t] \in StaticUpdates
    <2> DEFINE update == shape.statics[t]
               patch == [fields |-> Stamps(StaticFields, update.fields, n + 1),
                         named |-> Stamps(Entries, update.named, n + 1),
                         byId |-> Stamps(Entries, update.byId, n + 1)]
    <2>1. patch \in StaticPatch
      BY <1>1, StampsType DEF StaticPatch
    <2>2. Stamped(shape, n + 1).statics[t] \in {<<>>, <<patch>>}
      BY DEF Stamped
    <2> HIDE DEF patch
    <2>3. <<>> \in StaticUpdates /\ <<patch>> \in StaticUpdates
      BY <2>1, EmptySeq DEF StaticUpdates
    <2> QED
      BY <2>2, <2>3
  <1>3. [i \in 1..shape.widgets |-> n + 1] \in Seq(Stamp)
    BY <1>1, IsASeq DEF Shape
  <1>4. ASSUME NEW d \in DynamicReticles
        PROVE  Stamped(shape, n + 1).dynamics[d] \in DynamicOp
    <2>1. shape.dynamics[d] \in [kind : {"none", "upsert", "remove", "recreate"},
                                 template : Templates,
                                 fields : SUBSET DynamicFields,
                                 stream : BOOLEAN]
      BY <1>1 DEF Shape
    <2>2. Stamps(DynamicFields, shape.dynamics[d].fields, n + 1) \in DynamicPatch
      BY <1>1, StampsType DEF DynamicPatch
    <2>3. (IF shape.dynamics[d].stream THEN n + 1 ELSE Absent) \in Nat
      BY <1>1 DEF Absent
    <2> QED
      BY <2>1, <2>2, <2>3 DEF Stamped, DynamicOp
  <1>5. shape.hash \in MappingHashes /\ shape.reset \in BOOLEAN
    BY <1>1 DEF Shape
  <1>6. /\ Stamped(shape, n + 1).statics \in [StaticTargets -> StaticUpdates]
        /\ Stamped(shape, n + 1).dynamics \in [DynamicReticles -> DynamicOp]
    BY <1>2, <1>4 DEF Stamped
  <1>7. Stamped(shape, n + 1) = [hash |-> shape.hash, reset |-> shape.reset,
                                 statics |-> Stamped(shape, n + 1).statics,
                                 dynamics |-> Stamped(shape, n + 1).dynamics,
                                 widgets |-> [i \in 1..shape.widgets |-> n + 1]]
    BY DEF Stamped
  <1>8. ASSUME NEW statics \in [StaticTargets -> StaticUpdates],
               NEW dynamics \in [DynamicReticles -> DynamicOp], NEW widgets \in Seq(Stamp)
        PROVE  [hash |-> shape.hash, reset |-> shape.reset, statics |-> statics,
                dynamics |-> dynamics, widgets |-> widgets] \in Batch
    BY <1>5, <1>8 DEF Batch
  <1>9. Stamped(shape, n + 1) \in Batch
    BY <1>3, <1>6, <1>7, <1>8
  <1> QED
    BY <1>9 DEF Stamped

LEMMA ShowType ==
  ASSUME NEW batch \in Batch \cup {NoBatch}, NEW state \in WindowState
  PROVE  Show(batch, state) \in WindowState
  BY StaticsAfterType, DynamicsAfterType, WidgetsAfterType DEF Show, WindowState

LEMMA AuthoredWindowType == AuthoredWindow \in WindowState
  BY BlankTypes, NoInstanceType DEF AuthoredWindow, WindowState, NoInstances

LEMMA CountType ==
  ASSUME NEW batch \in Batch \cup {NoBatch}
  PROVE  CountWidgetCommands(batch) \in Nat
  BY LenProperties DEF CountWidgetCommands, Batch

LEMMA WakeFlushersType ==
  ASSUME NEW clients \in [Clients -> ClientStates]
  PROVE  WakeFlushers(clients) \in [Clients -> ClientStates]
  BY DEF WakeFlushers, ClientStates

LEMMA InitTypeOK == Init => TypeOK
  <1> SUFFICES ASSUME Init PROVE TypeOK
    OBVIOUS
  <1>1. accepted \in Seq(MappingHashes)
    BY EmptySeq DEF Init
  <1>2. sendingWidgets = CountWidgetCommands(inflight) /\ (sending <=> inflight # NoBatch)
    BY DEF Init, CountWidgetCommands
  <1>3. window \in WindowState /\ desired \in WindowState
    BY AuthoredWindowType DEF Init
  <1> QED
    BY <1>1, <1>2, <1>3 DEF Init, TypeOK, WorkerStates, ClientStates

LEMMA SubmitTypeOK ==
  ASSUME TypeOK, NEW c \in Clients, NEW shape \in Shapes, SubmitLatest(c, shape)
  PROVE  TypeOK'
  <1> DEFINE batch == Stamped(shape, Len(accepted) + 1)
  <1>1. batch \in Batch /\ batch.hash \in MappingHashes
    <2>1. Len(accepted) \in Nat
      BY LenProperties DEF TypeOK
    <2>2. shape.hash \in MappingHashes
      BY PublisherAssumption DEF Shape
    <2> QED
      BY <2>1, <2>2, StampedType
  <1>2. CASE stopRequested \/ OverWidgetBudget(batch)
    <2>1. RefuseSubmission(c)
      BY <1>2 DEF SubmitLatest
    <2> QED
      BY <2>1 DEF SubmitLatest, RefuseSubmission, TypeOK, ClientStates, workerVars, joinVars, ghostVars
  <1>3. CASE ~(stopRequested \/ OverWidgetBudget(batch))
    <2>1. AcceptSubmission(c, batch)
      BY <1>3 DEF SubmitLatest
    <2>2. pending' \in Batch
      BY <1>1, <2>1, MergePendingType DEF AcceptSubmission, TypeOK
    <2>3. desired' \in WindowState
      BY <1>1, <2>1, ShowType DEF AcceptSubmission, TypeOK
    <2>4. accepted' \in Seq(MappingHashes)
      BY <1>1, <2>1, AppendProperties DEF AcceptSubmission, TypeOK
    <2>5. client' \in [Clients -> ClientStates]
      BY <2>1 DEF AcceptSubmission, TypeOK, ClientStates
    <2>6. losses' \subseteq LossKinds
      BY <2>1 DEF AcceptSubmission, TypeOK, Losses
    <2>7. retryBlocked' \in BOOLEAN /\ UNCHANGED lastError
      BY <2>1 DEF AcceptSubmission
    <2>8. created' \in [DynamicReticles -> Nat]
      <3>1. Len(accepted') \in Nat
        BY <2>4, LenProperties
      <3> QED
        BY <2>1, <3>1 DEF AcceptSubmission, TypeOK, CreatedBy
    <2> QED
      BY <2>2, <2>3, <2>4, <2>5, <2>6, <2>7, <2>8 DEF SubmitLatest, TypeOK, workerVars, joinVars
  <1> QED
    BY <1>2, <1>3

LEMMA SendReturnsTypeOK ==
  ASSUME TypeOK, NEW ok \in BOOLEAN, SendReturns(ok)
  PROVE  TypeOK'
  <1>1. window' \in WindowState /\ rejected' \in BOOLEAN
    BY ShowType DEF SendReturns, TypeOK
  <1> QED
    BY <1>1 DEF SendReturns, TypeOK, WorkerStates, joinVars, ghostVars

LEMMA CompleteTypeOK ==
  ASSUME TypeOK, WorkerComplete
  PROVE  TypeOK'
  <1>1. /\ pending' \in Batch \cup {NoBatch}
        /\ retryBlocked' \in BOOLEAN
        /\ losses' \subseteq LossKinds
    <2>1. CASE Retries
      <3>1. KeepForRetry
        BY <2>1 DEF WorkerComplete
      <3>2. pending # NoBatch => MergePending(inflight, pending) \in Batch
        BY MergePendingType DEF TypeOK
      <3> QED
        BY <3>1, <3>2 DEF KeepForRetry, TypeOK, Losses
    <2>2. CASE ~Retries
      BY <2>2 DEF WorkerComplete, TypeOK
    <2> QED
      BY <2>1, <2>2
  <1>2. lastError' \in BOOLEAN /\ worker' \in WorkerStates
    BY DEF WorkerComplete, TypeOK, WorkerStates
  <1>3. sendingWidgets' = CountWidgetCommands(inflight') /\ (sending' <=> inflight' # NoBatch)
        /\ inflight' \in Batch \cup {NoBatch} /\ sending' \in BOOLEAN
    BY DEF WorkerComplete, EndSend, CountWidgetCommands
  <1> QED
    BY <1>1, <1>2, <1>3 DEF WorkerComplete, TypeOK, joinVars, ghostVars

LEMMA ClientTypeOK ==
  ASSUME TypeOK, NEW c \in Clients, ClientStep(c)
  PROVE  TypeOK'
  <1> USE DEF workerVars, joinVars, ghostVars
  <1>1. CASE BeginBuild(c)
    BY <1>1 DEF BeginBuild, TypeOK, ClientStates
  <1>2. CASE BuildThrows(c)
    BY <1>2 DEF BuildThrows, TypeOK, ClientStates
  <1>3. CASE \E shape \in Shapes : SubmitLatest(c, shape)
    BY <1>3, SubmitTypeOK
  <1>4. CASE BeginFlush(c)
    BY <1>4 DEF BeginFlush, TypeOK, ClientStates
  <1>5. CASE RequestStop(c)
    BY <1>5 DEF RequestStop, TypeOK, ClientStates
  <1>6. CASE NotifyWorker(c)
    BY <1>6 DEF NotifyWorker, WokenWorker, TypeOK, ClientStates, WorkerStates
  <1>7. CASE CheckFlush(c)
    BY <1>7 DEF CheckFlush, TypeOK, ClientStates
  <1>8. CASE NotifyStop(c)
    <2>1. client' \in [Clients -> ClientStates]
      BY <1>8, WakeFlushersType DEF NotifyStop, TypeOK, ClientStates
    <2> QED
      BY <1>8, <2>1 DEF NotifyStop, WokenWorker, TypeOK, WorkerStates
  <1>9. CASE LockJoin(c)
    BY <1>9 DEF LockJoin, TypeOK, ClientStates
  <1>10. CASE Join(c)
    BY <1>10 DEF Join, TypeOK, ClientStates
  <1> QED
    BY <1>1, <1>2, <1>3, <1>4, <1>5, <1>6, <1>7, <1>8, <1>9, <1>10
    DEF ClientStep, ClientContinue

LEMMA WorkerTypeOK ==
  ASSUME TypeOK, WorkerContinue \/ WorkerRequestStop
  PROVE  TypeOK'
  <1> USE DEF joinVars, ghostVars
  <1>1. CASE WorkerSleep
    BY <1>1 DEF WorkerSleep, TypeOK, WorkerStates
  <1>2. CASE WorkerTake
    BY <1>2 DEF WorkerTake, TypeOK, WorkerStates
  <1>3. CASE WorkerRequestStop
    BY <1>3 DEF WorkerRequestStop, TypeOK, WorkerStates
  <1>4. CASE WorkerNotifyStop
    BY <1>4, WakeFlushersType DEF WorkerNotifyStop, TypeOK, WorkerStates
  <1>5. CASE \E ok \in BOOLEAN : SendReturns(ok)
    BY <1>5, SendReturnsTypeOK
  <1>6. CASE WorkerComplete
    BY <1>6, CompleteTypeOK
  <1>7. CASE WorkerNotifyIdle
    BY <1>7, WakeFlushersType DEF WorkerNotifyIdle, TypeOK, WorkerStates
  <1>8. CASE WorkerLeave
    BY <1>8 DEF WorkerLeave, TypeOK, WorkerStates
  <1>9. CASE WorkerExit
    BY <1>9, WakeFlushersType DEF WorkerExit, TypeOK, WorkerStates
  <1> QED
    BY <1>1, <1>2, <1>3, <1>4, <1>5, <1>6, <1>7, <1>8, <1>9 DEF WorkerContinue

LEMMA NextTypeOK == TypeOK /\ [Next]_vars => TypeOK'
  <1> SUFFICES ASSUME TypeOK, [Next]_vars PROVE TypeOK'
    OBVIOUS
  <1>1. CASE Next
    BY <1>1, ClientTypeOK, WorkerTypeOK DEF Next
  <1>2. CASE UNCHANGED vars
    BY <1>2 DEF vars, TypeOK
  <1> QED
    BY <1>1, <1>2

\* The publisher's state keeps its types, and the sending flag and widget count always
\* describe the batch in the worker's hands.
THEOREM TypeCorrect == Spec => []TypeOK
  BY InitTypeOK, NextTypeOK, PTL DEF Spec

-----------------------------------------------------------------------------
(* The inductive invariant. Besides the properties it says where the worker   *)
(* holds a batch, that every held batch has an accepted mapping hash, and      *)
(* what blocks a retry.                                                        *)

WorkerHolds == worker \in {"sending", "selfStopped", "returned"} <=> sending

HashesAccepted ==
    \A batch \in {pending, inflight} \ {NoBatch} :
        \E i \in 1..Len(accepted) : accepted[i] = batch.hash

RetryExplained == retryBlocked => pending # NoBatch /\ lastError /\ ~sending

StopEmpties == stopRequested => pending = NoBatch /\ ~retryBlocked

IInv ==
    /\ TypeOK
    /\ WorkerHolds
    /\ HashesAccepted
    /\ RetryExplained
    /\ StopEmpties
    /\ StaticDeltasSurvive
    /\ WidgetsOnceInOrder
    /\ WidgetBudgetHeld

HeldBatches == {pending, inflight} \ {NoBatch}

ProjectedStatics == StaticsAfter(pending, StaticsAfter(Outstanding, window.statics))
ProjectedWidgets == WidgetsAfter(pending, WidgetsAfter(Outstanding, window.widgets))

LEMMA ProjectedParts ==
  Projected.statics = ProjectedStatics /\ Projected.widgets = ProjectedWidgets
  BY DEF Projected, Show, ProjectedStatics, ProjectedWidgets

LEMMA ProjectedPartsNext ==
  Projected'.statics = ProjectedStatics' /\ Projected'.widgets = ProjectedWidgets'
  BY DEF Projected, Show, ProjectedStatics, ProjectedWidgets

\* While only one mapping was used, two held batches share it.
LEMMA SameHash ==
  ASSUME TypeOK, HashesAccepted, ~MixedMappings,
         NEW a \in HeldBatches, NEW b \in HeldBatches
  PROVE  a.hash = b.hash
  BY DEF HashesAccepted, MixedMappings, HeldBatches

LEMMA InitIInv == Init => IInv
  <1> SUFFICES ASSUME Init PROVE IInv
    OBVIOUS
  <1>1. TypeOK
    BY InitTypeOK
  <1>2. WorkerHolds /\ RetryExplained /\ StopEmpties
    BY DEF Init, WorkerHolds, RetryExplained, StopEmpties
  <1>3. HashesAccepted
    BY DEF Init, HashesAccepted
  <1>4. ProjectedStatics = desired.statics /\ ProjectedWidgets = desired.widgets
    BY DEF Init, ProjectedStatics, ProjectedWidgets, Outstanding, StaticsAfter, WidgetsAfter
  <1>5. StaticDeltasSurvive /\ WidgetsOnceInOrder
    BY <1>4, ProjectedParts DEF StaticDeltasSurvive, WidgetsOnceInOrder
  <1>6. WidgetBudgetHeld
    BY PublisherAssumption DEF Init, WidgetBudgetHeld, CountWidgetCommands
  <1> QED
    BY <1>1, <1>2, <1>3, <1>5, <1>6 DEF IInv

-----------------------------------------------------------------------------
(* Steps that move threads but neither batches nor the window.              *)

dataVars == <<pending, inflight, sending, sendOk, retryBlocked, stopRequested,
              window, desired, accepted, created, losses, rejected>>

LEMMA ThreadStepIInv ==
  ASSUME IInv, TypeOK', UNCHANGED dataVars,
         lastError => lastError',
         worker' = "returned" <=> worker = "returned",
         worker' \in {"sending", "selfStopped", "returned"}
            <=> worker \in {"sending", "selfStopped", "returned"}
  PROVE  IInv'
  <1> USE DEF IInv, dataVars
  <1>1. WorkerHolds' /\ RetryExplained' /\ StopEmpties'
    BY DEF WorkerHolds, RetryExplained, StopEmpties
  <1>2. HashesAccepted' /\ WidgetBudgetHeld'
    BY DEF HashesAccepted, WidgetBudgetHeld
  <1>3. Outstanding' = Outstanding
    BY DEF Outstanding
  <1>4. ProjectedStatics' = ProjectedStatics /\ ProjectedWidgets' = ProjectedWidgets
    BY <1>3 DEF ProjectedStatics, ProjectedWidgets
  <1>5. Undisturbed' <=> Undisturbed
    BY DEF Undisturbed, MixedMappings
  <1>6. StaticDeltasSurvive' /\ WidgetsOnceInOrder'
    BY <1>4, <1>5, ProjectedParts, ProjectedPartsNext
    DEF StaticDeltasSurvive, WidgetsOnceInOrder, DeltasMergedWhole
  <1> QED
    BY <1>1, <1>2, <1>6

-----------------------------------------------------------------------------
(* SubmitLatest.                                                            *)

\* While no static delta was lost, none was lost before and none in the last merge.
LEMMA NoNewLosses ==
  ASSUME NEW older, NEW newest, losses' = losses \cup Losses(older, newest), DeltasMergedWhole'
  PROVE  DeltasMergedWhole /\ MergesWhole(older, newest)
  <1>1. losses \cap {"behind reset", "apart"} = {}
    BY DEF DeltasMergedWhole
  <1>2. "behind reset" \notin Losses(older, newest) /\ "apart" \notin Losses(older, newest)
    BY DEF DeltasMergedWhole
  <1>3. MergesWhole(older, newest)
    BY <1>2 DEF MergesWhole, Losses, LossKinds
  <1> QED
    BY <1>1, <1>3 DEF DeltasMergedWhole

LEMMA AcceptIInv ==
  ASSUME IInv, TypeOK', NEW c \in Clients, NEW batch \in Batch,
         AcceptSubmission(c, batch), ~stopRequested, ~OverWidgetBudget(batch),
         UNCHANGED <<sending, sendingWidgets, stopRequested, window, rejected, worker,
                     inflight, sendOk>>
  PROVE  IInv'
  <1> USE DEF IInv, AcceptSubmission
  <1>1. pending' \in Batch /\ pending'.hash = batch.hash /\ pending' # NoBatch
    BY MergePendingType, NoBatchIsNoBatch DEF TypeOK
  <1>2. accepted \in Seq(MappingHashes) /\ batch.hash \in MappingHashes
    BY DEF TypeOK, Batch
  <1>3. /\ Len(accepted') = Len(accepted) + 1
        /\ \A i \in 1..Len(accepted) : accepted'[i] = accepted[i]
        /\ accepted'[Len(accepted) + 1] = batch.hash
        /\ Len(accepted) \in Nat
    BY <1>2, AppendProperties, LenProperties
  <1>4. WorkerHolds' /\ RetryExplained' /\ StopEmpties'
    BY DEF WorkerHolds, RetryExplained, StopEmpties
  <1>5. HashesAccepted'
    <2>1. \E i \in 1..Len(accepted') : accepted'[i] = pending'.hash
      BY <1>1, <1>3
    <2>2. inflight # NoBatch => \E i \in 1..Len(accepted') : accepted'[i] = inflight.hash
      BY <1>3 DEF HashesAccepted
    <2> QED
      BY <2>1, <2>2 DEF HashesAccepted
  <1>6. WidgetBudgetHeld'
    <2>1. CountWidgetCommands(pending') <= CountWidgetCommands(pending) + CountWidgetCommands(batch)
          /\ CountWidgetCommands(pending) \in Nat /\ CountWidgetCommands(batch) \in Nat
      BY MergePendingWidgetCount DEF TypeOK
    <2>2. CountWidgetCommands(pending') \in Nat /\ CountWidgetCommands(inflight) \in Nat
      BY <1>1, CountType DEF TypeOK
    <2>3. CountWidgetCommands(batch) = Len(batch.widgets)
      BY NoBatchIsNoBatch DEF CountWidgetCommands
    <2>4. CountWidgetCommands(pending) + CountWidgetCommands(inflight)
            + CountWidgetCommands(batch) <= WidgetBudget
      BY <2>1, <2>2, <2>3, PublisherAssumption DEF OverWidgetBudget, TypeOK
    <2>5. CountWidgetCommands(pending') + CountWidgetCommands(inflight) <= WidgetBudget
      BY <2>1, <2>2, <2>4, PublisherAssumption
    <2> QED
      BY <2>5 DEF WidgetBudgetHeld
  <1>7. ASSUME Undisturbed'
        PROVE  Undisturbed /\ (pending # NoBatch => pending.hash = batch.hash)
    <2>1. ~MixedMappings'
      BY <1>7 DEF Undisturbed
    <2>2. \A i \in 1..Len(accepted) : accepted[i] = batch.hash
      BY <1>3, <2>1 DEF MixedMappings
    <2>3. ~MixedMappings
      BY <2>2 DEF MixedMappings
    <2>4. pending # NoBatch => \E i \in 1..Len(accepted) : accepted[i] = pending.hash
      BY DEF HashesAccepted
    <2> QED
      BY <1>7, <2>2, <2>3, <2>4 DEF Undisturbed
  <1>8. Outstanding' = Outstanding /\ Outstanding \in Batch \cup {NoBatch}
    BY DEF Outstanding, TypeOK
  <1>9. StaticDeltasSurvive'
    <2> SUFFICES ASSUME Undisturbed', DeltasMergedWhole'
                 PROVE  ProjectedStatics' = desired'.statics
      BY ProjectedPartsNext DEF StaticDeltasSurvive
    <2> DEFINE shown == StaticsAfter(Outstanding, window.statics)
    <2>0. DeltasMergedWhole /\ MergesWhole(pending, batch)
      BY NoNewLosses
    <2>1. shown \in StaticState
      BY <1>8, StaticsAfterType DEF TypeOK, WindowState
    <2>2. StaticsAfter(pending, shown) = desired.statics
      BY <1>7, <2>0, ProjectedParts DEF StaticDeltasSurvive, ProjectedStatics
    <2>4. StaticsAfter(MergePending(pending, batch), shown)
            = StaticsAfter(batch, StaticsAfter(pending, shown))
      BY <1>7, <2>0, <2>1, MergePendingStatics DEF TypeOK
    <2>5. ProjectedStatics' = StaticsAfter(pending', shown)
      BY <1>8 DEF ProjectedStatics
    <2> QED
      BY <2>2, <2>4, <2>5 DEF Show
  <1>10. WidgetsOnceInOrder'
    <2> SUFFICES ASSUME Undisturbed'
                 PROVE  ProjectedWidgets' = desired'.widgets
      BY ProjectedPartsNext DEF WidgetsOnceInOrder
    <2> DEFINE shown == WidgetsAfter(Outstanding, window.widgets)
    <2>1. shown \in Seq(Stamp)
      BY <1>8, WidgetsAfterType DEF TypeOK, WindowState
    <2>2. WidgetsAfter(pending, shown) = desired.widgets
      BY <1>7, ProjectedParts DEF WidgetsOnceInOrder, ProjectedWidgets
    <2>3. WidgetsAfter(MergePending(pending, batch), shown)
            = WidgetsAfter(batch, WidgetsAfter(pending, shown))
      BY <1>7, <2>1, MergePendingWidgets DEF TypeOK
    <2>4. ProjectedWidgets' = WidgetsAfter(pending', shown)
      BY <1>8 DEF ProjectedWidgets
    <2> QED
      BY <2>2, <2>3, <2>4 DEF Show
  <1> QED
    BY <1>4, <1>5, <1>6, <1>9, <1>10

LEMMA SubmitIInv ==
  ASSUME IInv, TypeOK', NEW c \in Clients, NEW shape \in Shapes, SubmitLatest(c, shape)
  PROVE  IInv'
  <1> DEFINE batch == Stamped(shape, Len(accepted) + 1)
  <1>1. batch \in Batch
    BY StampedType, LenProperties DEF IInv, TypeOK
  <1>2. CASE stopRequested \/ OverWidgetBudget(batch)
    <2>1. RefuseSubmission(c)
      BY <1>2 DEF SubmitLatest
    <2> QED
      BY <2>1, ThreadStepIInv DEF SubmitLatest, RefuseSubmission, dataVars, workerVars, ghostVars
  <1>3. CASE ~(stopRequested \/ OverWidgetBudget(batch))
    <2>1. AcceptSubmission(c, batch)
      BY <1>3 DEF SubmitLatest
    <2>2. UNCHANGED <<sending, sendingWidgets, stopRequested, window, rejected, worker,
                      inflight, sendOk>>
      BY DEF SubmitLatest, workerVars
    <2> QED
      BY <1>1, <1>3, <2>1, <2>2, AcceptIInv
  <1> QED
    BY <1>2, <1>3

-----------------------------------------------------------------------------
(* Stop requests empty the queue; everything else they leave alone.         *)

LEMMA StopIInv ==
  ASSUME IInv, TypeOK', stopRequested', pending' = NoBatch, ~retryBlocked',
         UNCHANGED <<sending, inflight, accepted>>,
         worker' \in {"sending", "selfStopped", "returned"}
            <=> worker \in {"sending", "selfStopped", "returned"}
  PROVE  IInv'
  <1> USE DEF IInv
  <1>1. WorkerHolds' /\ RetryExplained' /\ StopEmpties'
    BY DEF WorkerHolds, RetryExplained, StopEmpties
  <1>2. HashesAccepted'
    BY DEF HashesAccepted
  <1>3. WidgetBudgetHeld'
    <2>1. CountWidgetCommands(pending) \in Nat /\ CountWidgetCommands(inflight) \in Nat
      BY CountType DEF TypeOK
    <2>2. CountWidgetCommands(NoBatch) = 0
      BY DEF CountWidgetCommands
    <2> QED
      BY <2>1, <2>2, PublisherAssumption DEF WidgetBudgetHeld
  <1>4. StaticDeltasSurvive' /\ WidgetsOnceInOrder'
    BY DEF StaticDeltasSurvive, WidgetsOnceInOrder, Undisturbed
  <1> QED
    BY <1>1, <1>2, <1>3, <1>4

-----------------------------------------------------------------------------
(* The worker's steps on the batches.                                       *)

LEMMA TakeIInv ==
  ASSUME IInv, TypeOK', WorkerTake
  PROVE  IInv'
  <1> USE DEF IInv, WorkerTake
  <1>1. ~sending /\ inflight = NoBatch
    BY DEF WorkerHolds, TypeOK
  <1>2. WorkerHolds' /\ RetryExplained' /\ StopEmpties'
    BY DEF WorkerHolds, RetryExplained, StopEmpties
  <1>3. HashesAccepted'
    BY DEF HashesAccepted, ghostVars
  <1>4. WidgetBudgetHeld'
    BY <1>1, CountType DEF WidgetBudgetHeld, CountWidgetCommands, TypeOK
  <1>5. Outstanding = NoBatch /\ Outstanding' = pending
    BY <1>1 DEF Outstanding
  <1>6. ProjectedStatics' = ProjectedStatics /\ ProjectedWidgets' = ProjectedWidgets
    BY <1>5 DEF ProjectedStatics, ProjectedWidgets, StaticsAfter, WidgetsAfter
  <1>7. Undisturbed' <=> Undisturbed
    BY DEF Undisturbed, MixedMappings, ghostVars
  <1>8. StaticDeltasSurvive' /\ WidgetsOnceInOrder'
    BY <1>6, <1>7, ProjectedParts, ProjectedPartsNext
    DEF StaticDeltasSurvive, WidgetsOnceInOrder, DeltasMergedWhole, ghostVars
  <1> QED
    BY <1>2, <1>3, <1>4, <1>8

LEMMA SendReturnsIInv ==
  ASSUME IInv, TypeOK', NEW ok \in BOOLEAN, SendReturns(ok)
  PROVE  IInv'
  <1> USE DEF IInv, SendReturns, ghostVars, joinVars
  <1>1. WorkerHolds' /\ RetryExplained' /\ StopEmpties'
    BY DEF WorkerHolds, RetryExplained, StopEmpties
  <1>2. HashesAccepted' /\ WidgetBudgetHeld'
    BY DEF HashesAccepted, WidgetBudgetHeld
  <1>3. Outstanding = inflight
    BY DEF Outstanding
  <1>4. ASSUME Undisturbed'
        PROVE  Undisturbed /\ ProjectedStatics' = ProjectedStatics
                           /\ ProjectedWidgets' = ProjectedWidgets
    <2>1. ~rejected' /\ Undisturbed
      BY <1>4 DEF Undisturbed, MixedMappings, TypeOK
    <2>2. CASE ok
      <3>1. window' = Show(inflight, window)
        BY <2>1, <2>2
      <3>2. Outstanding' = NoBatch
        BY <2>2 DEF Outstanding
      <3> QED
        BY <1>3, <2>1, <3>1, <3>2
        DEF Show, ProjectedStatics, ProjectedWidgets, StaticsAfter, WidgetsAfter
    <2>3. CASE ~ok
      <3>1. window' = window
        BY <2>3
      <3>2. Outstanding' = inflight
        BY <2>3 DEF Outstanding
      <3> QED
        BY <1>3, <2>1, <3>1, <3>2 DEF ProjectedStatics, ProjectedWidgets
    <2> QED
      BY <2>2, <2>3
  <1>5. StaticDeltasSurvive' /\ WidgetsOnceInOrder'
    BY <1>4, ProjectedParts, ProjectedPartsNext
    DEF StaticDeltasSurvive, WidgetsOnceInOrder, DeltasMergedWhole
  <1> QED
    BY <1>1, <1>2, <1>5

\* A failed batch goes back to the front of the queue.
LEMMA RetryIInv ==
  ASSUME IInv, TypeOK', WorkerComplete, Retries
  PROVE  IInv'
  <1> USE DEF IInv
  <1>1. /\ KeepForRetry /\ EndSend /\ lastError' = ~sendOk /\ worker = "returned"
        /\ worker' = "completed" /\ ~sendOk /\ ~stopRequested
        /\ UNCHANGED <<stopRequested, window, rejected, desired, accepted>>
    BY DEF WorkerComplete, Retries, ghostVars
  <1>2. inflight \in Batch /\ sending
    BY <1>1 DEF WorkerHolds, TypeOK
  <1>3. /\ pending' \in Batch /\ pending' # NoBatch
        /\ pending'.hash \in {batch.hash : batch \in HeldBatches}
    <2>1. CASE pending = NoBatch
      BY <1>1, <1>2, <2>1, NoBatchIsNoBatch DEF KeepForRetry, HeldBatches
    <2>2. CASE pending # NoBatch
      <3>1. pending \in Batch
        BY <2>2 DEF TypeOK
      <3>2. pending' = MergePending(inflight, pending)
        BY <1>1, <2>2 DEF KeepForRetry
      <3> QED
        BY <1>2, <2>2, <3>1, <3>2, MergePendingType, NoBatchIsNoBatch DEF HeldBatches
    <2> QED
      BY <2>1, <2>2
  <1>4. inflight' = NoBatch /\ ~sending' /\ Outstanding' = NoBatch
    BY <1>1 DEF EndSend, Outstanding
  <1>5. WorkerHolds' /\ RetryExplained' /\ StopEmpties'
    BY <1>1, <1>3, <1>4 DEF WorkerHolds, RetryExplained, StopEmpties
  <1>6. HashesAccepted'
    BY <1>1, <1>3, <1>4 DEF HashesAccepted, HeldBatches
  <1>7. WidgetBudgetHeld'
    <2>1. CountWidgetCommands(inflight') = 0
      BY <1>4 DEF CountWidgetCommands
    <2>2. CountWidgetCommands(pending') <= CountWidgetCommands(pending) + CountWidgetCommands(inflight)
      <3>1. CASE pending = NoBatch
        BY <1>1, <1>2, <3>1, CountType DEF KeepForRetry, CountWidgetCommands
      <3>2. CASE pending # NoBatch
        <4>1. pending' = MergePending(inflight, pending) /\ pending \in Batch
          BY <1>1, <3>2 DEF KeepForRetry, TypeOK
        <4> QED
          BY <1>2, <4>1, MergePendingWidgetCount
      <3> QED
        BY <3>1, <3>2
    <2>3. /\ CountWidgetCommands(pending) \in Nat /\ CountWidgetCommands(inflight) \in Nat
          /\ CountWidgetCommands(pending') \in Nat
      BY <1>3, CountType DEF TypeOK
    <2> QED
      BY <2>1, <2>2, <2>3, PublisherAssumption DEF WidgetBudgetHeld
  <1>8. Outstanding = inflight
    BY <1>1 DEF Outstanding
  <1>9. ASSUME Undisturbed'
        PROVE  Undisturbed /\ (pending # NoBatch => inflight.hash = pending.hash)
    <2>1. Undisturbed
      BY <1>1, <1>9 DEF Undisturbed, MixedMappings
    <2>2. ~MixedMappings
      BY <2>1 DEF Undisturbed
    <2>3. pending # NoBatch => inflight.hash = pending.hash
      BY <1>2, <2>2, SameHash, NoBatchIsNoBatch DEF HeldBatches
    <2> QED
      BY <2>1, <2>3
  <1>10. StaticDeltasSurvive'
    <2> SUFFICES ASSUME Undisturbed', DeltasMergedWhole'
                 PROVE  ProjectedStatics' = desired.statics
      BY <1>1, ProjectedPartsNext DEF StaticDeltasSurvive
    <2>1. ProjectedStatics' = StaticsAfter(pending', window.statics)
      BY <1>1, <1>4 DEF ProjectedStatics, StaticsAfter
    <2>2. DeltasMergedWhole /\ (pending # NoBatch => MergesWhole(inflight, pending))
      BY <1>1, NoNewLosses DEF KeepForRetry, DeltasMergedWhole
    <2>3. StaticsAfter(pending, StaticsAfter(inflight, window.statics)) = desired.statics
      BY <1>8, <1>9, <2>2, ProjectedParts DEF StaticDeltasSurvive, ProjectedStatics
    <2>4. CASE pending = NoBatch
      BY <1>1, <2>1, <2>3, <2>4 DEF KeepForRetry, StaticsAfter
    <2>5. CASE pending # NoBatch
      <3>1. pending \in Batch /\ pending' = MergePending(inflight, pending)
        BY <1>1, <2>5 DEF KeepForRetry, TypeOK
      <3>3. window.statics \in StaticState
        BY DEF TypeOK, WindowState
      <3>4. StaticsAfter(MergePending(inflight, pending), window.statics)
              = StaticsAfter(pending, StaticsAfter(inflight, window.statics))
        BY <1>2, <1>9, <2>2, <2>5, <3>1, <3>3, MergePendingStatics
      <3> QED
        BY <2>1, <2>3, <3>1, <3>4
    <2> QED
      BY <2>4, <2>5
  <1>11. WidgetsOnceInOrder'
    <2> SUFFICES ASSUME Undisturbed'
                 PROVE  ProjectedWidgets' = desired.widgets
      BY <1>1, ProjectedPartsNext DEF WidgetsOnceInOrder
    <2>1. ProjectedWidgets' = WidgetsAfter(pending', window.widgets)
      BY <1>1, <1>4 DEF ProjectedWidgets, WidgetsAfter
    <2>2. WidgetsAfter(pending, WidgetsAfter(inflight, window.widgets)) = desired.widgets
      BY <1>8, <1>9, ProjectedParts DEF WidgetsOnceInOrder, ProjectedWidgets
    <2>3. CASE pending = NoBatch
      BY <1>1, <2>1, <2>2, <2>3 DEF KeepForRetry, WidgetsAfter
    <2>4. CASE pending # NoBatch
      <3>1. pending \in Batch /\ pending' = MergePending(inflight, pending)
        BY <1>1, <2>4 DEF KeepForRetry, TypeOK
      <3>2. window.widgets \in Seq(Stamp)
        BY DEF TypeOK, WindowState
      <3>3. WidgetsAfter(MergePending(inflight, pending), window.widgets)
              = WidgetsAfter(pending, WidgetsAfter(inflight, window.widgets))
        BY <1>2, <1>9, <2>4, <3>1, <3>2, MergePendingWidgets
      <3> QED
        BY <2>1, <2>2, <3>1, <3>3
    <2> QED
      BY <2>3, <2>4
  <1> QED
    BY <1>5, <1>6, <1>7, <1>10, <1>11

\* A delivered batch, or a failed one after a stop, is dropped from the worker's hands.
LEMMA DoneIInv ==
  ASSUME IInv, TypeOK', WorkerComplete, ~Retries
  PROVE  IInv'
  <1> USE DEF IInv
  <1>1. /\ EndSend /\ lastError' = ~sendOk /\ worker = "returned" /\ worker' = "completed"
        /\ UNCHANGED <<pending, losses, retryBlocked, stopRequested, window,
                        rejected, desired, accepted>>
    BY DEF WorkerComplete, ghostVars
  <1>2. sending /\ ~retryBlocked /\ (sendOk \/ stopRequested)
    BY <1>1 DEF WorkerHolds, RetryExplained, Retries, TypeOK
  <1>3. inflight' = NoBatch /\ ~sending' /\ Outstanding' = NoBatch
    BY <1>1 DEF EndSend, Outstanding
  <1>4. WorkerHolds' /\ RetryExplained' /\ StopEmpties'
    BY <1>1, <1>2, <1>3 DEF WorkerHolds, RetryExplained, StopEmpties
  <1>5. HashesAccepted'
    BY <1>1, <1>3 DEF HashesAccepted
  <1>6. WidgetBudgetHeld'
    <2>1. CountWidgetCommands(inflight') = 0
      BY <1>3 DEF CountWidgetCommands
    <2>2. CountWidgetCommands(pending) \in Nat /\ CountWidgetCommands(inflight) \in Nat
      BY CountType DEF TypeOK
    <2> QED
      BY <1>1, <2>1, <2>2, PublisherAssumption DEF WidgetBudgetHeld
  <1>7. ASSUME Undisturbed'
        PROVE  Undisturbed /\ Outstanding = NoBatch
    BY <1>1, <1>2, <1>7 DEF Undisturbed, MixedMappings, Outstanding
  <1>8. StaticDeltasSurvive' /\ WidgetsOnceInOrder'
    <2> SUFFICES ASSUME Undisturbed'
                 PROVE  ProjectedStatics' = ProjectedStatics /\ ProjectedWidgets' = ProjectedWidgets
      BY <1>1, <1>7, ProjectedParts, ProjectedPartsNext
      DEF StaticDeltasSurvive, WidgetsOnceInOrder, DeltasMergedWhole
    <2> QED
      BY <1>1, <1>3, <1>7 DEF ProjectedStatics, ProjectedWidgets
  <1> QED
    BY <1>4, <1>5, <1>6, <1>8

-----------------------------------------------------------------------------
LEMMA ClientIInv ==
  ASSUME IInv, TypeOK', NEW c \in Clients, ClientStep(c)
  PROVE  IInv'
  <1> USE DEF dataVars, workerVars, ghostVars
  <1>1. CASE BeginBuild(c)
    BY <1>1, ThreadStepIInv DEF BeginBuild
  <1>2. CASE BuildThrows(c)
    BY <1>2, ThreadStepIInv DEF BuildThrows
  <1>3. CASE \E shape \in Shapes : SubmitLatest(c, shape)
    BY <1>3, SubmitIInv
  <1>4. CASE BeginFlush(c)
    BY <1>4, ThreadStepIInv DEF BeginFlush
  <1>5. CASE RequestStop(c)
    BY <1>5, StopIInv DEF RequestStop
  <1>6. CASE NotifyWorker(c)
    BY <1>6, ThreadStepIInv DEF NotifyWorker, WokenWorker
  <1>7. CASE CheckFlush(c)
    BY <1>7, ThreadStepIInv DEF CheckFlush
  <1>8. CASE NotifyStop(c)
    BY <1>8, ThreadStepIInv DEF NotifyStop, WokenWorker
  <1>9. CASE LockJoin(c)
    BY <1>9, ThreadStepIInv DEF LockJoin
  <1>10. CASE Join(c)
    BY <1>10, ThreadStepIInv DEF Join
  <1> QED
    BY <1>1, <1>2, <1>3, <1>4, <1>5, <1>6, <1>7, <1>8, <1>9, <1>10
    DEF ClientStep, ClientContinue

LEMMA WorkerIInv ==
  ASSUME IInv, TypeOK', WorkerContinue \/ WorkerRequestStop
  PROVE  IInv'
  <1> USE DEF dataVars, ghostVars
  <1>1. CASE WorkerSleep
    BY <1>1, ThreadStepIInv DEF WorkerSleep
  <1>2. CASE WorkerTake
    BY <1>2, TakeIInv
  <1>3. CASE WorkerRequestStop
    BY <1>3, StopIInv DEF WorkerRequestStop
  <1>4. CASE WorkerNotifyStop
    BY <1>4, ThreadStepIInv DEF WorkerNotifyStop
  <1>5. CASE \E ok \in BOOLEAN : SendReturns(ok)
    BY <1>5, SendReturnsIInv
  <1>6. CASE WorkerComplete
    BY <1>6, RetryIInv, DoneIInv
  <1>7. CASE WorkerNotifyIdle
    BY <1>7, ThreadStepIInv DEF WorkerNotifyIdle
  <1>8. CASE WorkerLeave
    BY <1>8, ThreadStepIInv DEF WorkerLeave
  <1>9. CASE WorkerExit
    BY <1>9, ThreadStepIInv DEF WorkerExit
  <1> QED
    BY <1>1, <1>2, <1>3, <1>4, <1>5, <1>6, <1>7, <1>8, <1>9 DEF WorkerContinue

LEMMA NextIInv == IInv /\ [Next]_vars => IInv'
  <1> SUFFICES ASSUME IInv, [Next]_vars PROVE IInv'
    OBVIOUS
  <1>1. TypeOK'
    BY NextTypeOK DEF IInv
  <1>2. CASE Next
    BY <1>1, <1>2, ClientIInv, WorkerIInv DEF Next
  <1>3. CASE UNCHANGED vars
    BY <1>1, <1>3, ThreadStepIInv DEF vars, dataVars
  <1> QED
    BY <1>2, <1>3

LEMMA Invariance == Spec => []IInv
  BY InitIInv, NextIInv, PTL DEF Spec

\* Whatever threads submit, whenever sends fail and however batches are merged, the
\* window ends up with exactly the static deltas that were accepted.
THEOREM StaticDeltasSurviveAlways == Spec => []StaticDeltasSurvive
  <1>1. IInv => StaticDeltasSurvive
    BY DEF IInv
  <1> QED
    BY <1>1, Invariance, PTL

\* Confirmations reach the window once each, in submission order.
THEOREM WidgetsDeliveredOnceInOrder == Spec => []WidgetsOnceInOrder
  <1>1. IInv => WidgetsOnceInOrder
    BY DEF IInv
  <1> QED
    BY <1>1, Invariance, PTL

\* The budget also holds when a failed batch returns to a queue that filled up again.
THEOREM BudgetHolds == Spec => []WidgetBudgetHeld
  <1>1. IInv => WidgetBudgetHeld
    BY DEF IInv
  <1> QED
    BY <1>1, Invariance, PTL

\* Nothing is queued once a stop was requested.
THEOREM NothingQueuedAfterStopAlways == Spec => []NothingQueuedAfterStop
  <1>1. IInv => NothingQueuedAfterStop
    BY DEF IInv, StopEmpties, NothingQueuedAfterStop
  <1> QED
    BY <1>1, Invariance, PTL

\* A Flush that returns while no error is recorded has delivered everything accepted.
THEOREM FlushDeliversAlways == Spec => FlushDelivers
  <1> DEFINE Returns(c) == client[c] = "flushing" /\ client'[c] = "idle"
             Shown == window.statics = desired.statics /\ window.widgets = desired.widgets
  <1>1. ASSUME IInv, [Next]_vars, NEW c \in Clients, Returns(c),
               ~lastError, Undisturbed, DeltasMergedWhole
        PROVE  Shown
    <2>1. Idle
      <3>1. client' # client /\ client[c] = "flushing" /\ client'[c] = "idle"
        BY <1>1 DEF Returns
      <3>2. CASE \E d \in Clients : ClientStep(d)
        <4>1. PICK d \in Clients : ClientStep(d)
          BY <3>2
        <4>2. client[d] # "flushing" \/ CheckFlush(d)
          BY <4>1 DEF ClientStep, ClientContinue, BeginBuild, BuildThrows, SubmitLatest,
             BeginFlush, RequestStop, NotifyWorker, NotifyStop, LockJoin, Join
        <4>3. client[d] # "flushing" => client'[c] # "idle"
          <5>1. client \in [Clients -> ClientStates]
            BY <1>1 DEF IInv, TypeOK
          <5> SUFFICES ASSUME client[d] # "flushing" PROVE client'[c] = "flushing"
            OBVIOUS
          <5>2. c # d
            BY <3>1
          <5> QED
            BY <3>1, <4>1, <5>1, <5>2
            DEF ClientStep, ClientContinue, BeginBuild, BuildThrows, SubmitLatest,
                RefuseSubmission, AcceptSubmission, BeginFlush, RequestStop, NotifyWorker,
                CheckFlush, NotifyStop, WakeFlushers, LockJoin, Join
        <4>4. CheckFlush(d) /\ client[d] = "flushing"
          BY <3>1, <4>2, <4>3
        <4>5. c = d
          BY <1>1, <3>1, <4>4 DEF CheckFlush, IInv, TypeOK
        <4> QED
          BY <1>1, <3>1, <4>4, <4>5 DEF CheckFlush, IInv, TypeOK
      <3>3. CASE WorkerContinue \/ WorkerRequestStop
        <4>1. client' = client \/ client' = WakeFlushers(client)
          BY <3>3 DEF WorkerContinue, WorkerRequestStop, WorkerSleep, WorkerTake,
             WorkerNotifyStop, SendReturns, WorkerComplete, WorkerNotifyIdle, WorkerLeave,
             WorkerExit
        <4> QED
          BY <3>1, <4>1 DEF WakeFlushers
      <3>4. CASE UNCHANGED vars
        BY <3>1, <3>4 DEF vars
      <3> QED
        BY <1>1, <3>2, <3>3, <3>4 DEF Next
    <2>2. pending = NoBatch /\ inflight = NoBatch
      BY <1>1, <2>1 DEF Idle, IInv, RetryExplained, TypeOK
    <2>3. ProjectedStatics = window.statics /\ ProjectedWidgets = window.widgets
      BY <2>2 DEF ProjectedStatics, ProjectedWidgets, Outstanding, StaticsAfter, WidgetsAfter
    <2> QED
      BY <1>1, <2>3, ProjectedParts DEF IInv, StaticDeltasSurvive, WidgetsOnceInOrder
  <1>2. IInv /\ [Next]_vars =>
          [\A c \in Clients :
             /\ client[c] = "flushing" /\ client'[c] = "idle"
             /\ ~lastError /\ Undisturbed /\ DeltasMergedWhole
             => /\ window.statics = desired.statics
                /\ window.widgets = desired.widgets]_vars
    BY <1>1
  <1> QED
    BY <1>2, Invariance, PTL DEF Spec, FlushDelivers

-----------------------------------------------------------------------------
(* Stopping. A thread that joins holds the join mutex while the worker is     *)
(* still joinable, and a worker that was joined has exited for good.          *)

JoinInv ==
    /\ TypeOK
    /\ \A c \in Clients : client[c] = "joining" => joinable /\ joiner = c
    /\ ~joinable => worker = "exited"

\* Every step but those on the join mutex leaves who joins alone.
LEMMA KeepsJoining ==
  ASSUME JoinInv, TypeOK', UNCHANGED joinVars,
         worker = "exited" => worker' = "exited",
         \A c \in Clients : client'[c] = "joining" => client[c] = "joining"
  PROVE  JoinInv'
  BY DEF JoinInv, joinVars

\* Nothing runs in the worker once it has exited, and no notification revives it.
LEMMA ExitIsFinal == worker = "exited" /\ [Next]_vars => worker' = "exited"
  <1> SUFFICES ASSUME worker = "exited", [Next]_vars PROVE worker' = "exited"
    OBVIOUS
  <1>1. ASSUME NEW c \in Clients, ClientStep(c) PROVE worker' = "exited"
    BY <1>1 DEF ClientStep, ClientContinue, BeginBuild, BuildThrows, SubmitLatest, BeginFlush,
       RequestStop, NotifyWorker, CheckFlush, NotifyStop, LockJoin, Join, WokenWorker, workerVars
  <1>2. ~WorkerContinue /\ ~WorkerRequestStop
    BY DEF WorkerContinue, WorkerRequestStop, WorkerSleep, WorkerTake, WorkerNotifyStop,
       SendReturns, WorkerComplete, WorkerNotifyIdle, WorkerLeave, WorkerExit
  <1> QED
    BY <1>1, <1>2 DEF Next, vars

LEMMA WakingJoinsNobody ==
  ASSUME TypeOK, NEW c \in Clients
  PROVE  /\ WakeFlushers(client)[c] = "joining" <=> client[c] = "joining"
         /\ WakeFlushers(client)[c] = "locking" <=> client[c] = "locking"
         /\ WakeFlushers(client)[c] # "idle" \/ client[c] = "idle"
  BY DEF WakeFlushers

LEMMA ClientJoinInv ==
  ASSUME JoinInv, TypeOK', NEW c \in Clients, ClientStep(c), worker = "exited" => worker' = "exited"
  PROVE  JoinInv'
  <1>1. client \in [Clients -> ClientStates]
    BY DEF JoinInv, TypeOK
  <1>2. CASE LockJoin(c)
    <2>1. ASSUME joinable PROVE JoinInv'
      <3>1. /\ joiner = NoClient /\ joiner' = c /\ joinable' = joinable
            /\ client' = [client EXCEPT ![c] = "joining"]
        BY <1>2, <2>1 DEF LockJoin, JoinMutexFree
      <3>2. \A d \in Clients : client[d] # "joining"
        BY <3>1, PublisherAssumption DEF JoinInv
      <3> QED
        BY <1>1, <2>1, <3>1, <3>2 DEF JoinInv
    <2>2. ASSUME ~joinable PROVE JoinInv'
      BY <1>1, <1>2, <2>2 DEF LockJoin, JoinInv, workerVars
    <2> QED
      BY <2>1, <2>2
  <1>3. CASE Join(c)
    <2>1. /\ client[c] = "joining" /\ worker' = "exited" /\ joinable' = FALSE
          /\ client' = [client EXCEPT ![c] = "idle"]
      BY <1>3 DEF Join, WorkerFinished, workerVars
    <2>2. \A d \in Clients : client[d] = "joining" => d = c
      BY <2>1 DEF JoinInv
    <2> QED
      BY <1>1, <2>1, <2>2 DEF JoinInv
  <1>4. CASE ~LockJoin(c) /\ ~Join(c)
    <2>1. UNCHANGED joinVars
      BY <1>4 DEF ClientStep, ClientContinue, BeginBuild, BuildThrows, SubmitLatest, BeginFlush,
         RequestStop, NotifyWorker, CheckFlush, NotifyStop, joinVars
    <2>2. CASE NotifyStop(c)
      BY <1>1, <2>1, <2>2, KeepsJoining, WakingJoinsNobody DEF NotifyStop, JoinInv
    <2>3. CASE ~NotifyStop(c)
      <3>1. \A d \in Clients : client'[d] = "joining" => client[d] = "joining"
        BY <1>1, <1>4, <2>3 DEF ClientStep, ClientContinue, BeginBuild, BuildThrows, SubmitLatest,
           RefuseSubmission, AcceptSubmission, BeginFlush, RequestStop, NotifyWorker, CheckFlush
      <3> QED
        BY <2>1, <3>1, KeepsJoining
    <2> QED
      BY <2>2, <2>3
  <1> QED
    BY <1>2, <1>3, <1>4

LEMMA JoinInvariance == Spec => []JoinInv
  <1>1. Init => JoinInv
    BY InitTypeOK DEF Init, JoinInv
  <1>2. JoinInv /\ [Next]_vars => JoinInv'
    <2> SUFFICES ASSUME JoinInv, [Next]_vars PROVE JoinInv'
      OBVIOUS
    <2>1. TypeOK' /\ (worker = "exited" => worker' = "exited")
      BY NextTypeOK, ExitIsFinal DEF JoinInv
    <2>2. CASE \E c \in Clients : ClientStep(c)
      BY <2>1, <2>2, ClientJoinInv
    <2>3. CASE WorkerContinue \/ WorkerRequestStop
      <3>1. UNCHANGED joinVars
        BY <2>3 DEF WorkerContinue, WorkerRequestStop, WorkerSleep, WorkerTake, WorkerNotifyStop,
           SendReturns, WorkerComplete, WorkerNotifyIdle, WorkerLeave, WorkerExit
      <3>2. client' = client \/ client' = WakeFlushers(client)
        BY <2>3 DEF WorkerContinue, WorkerRequestStop, WorkerSleep, WorkerTake,
           WorkerNotifyStop, SendReturns, WorkerComplete, WorkerNotifyIdle, WorkerLeave, WorkerExit
      <3> QED
        BY <2>1, <3>1, <3>2, KeepsJoining, WakingJoinsNobody DEF JoinInv
    <2>4. CASE UNCHANGED vars
      BY <2>1, <2>4, KeepsJoining DEF vars, joinVars
    <2> QED
      BY <2>2, <2>3, <2>4 DEF Next
  <1> QED
    BY <1>1, <1>2, PTL DEF Spec

\* However many threads call Stop(), at most one is ever inside the join, and the worker
\* is joined only while it is joinable.
THEOREM JoinedOnceAlways == Spec => []JoinedOnce
  <1>1. JoinInv => JoinedOnce
    BY DEF JoinInv, JoinedOnce
  <1> QED
    BY <1>1, JoinInvariance, PTL

\* A Stop() of a client returns only when the worker has exited, also when another thread
\* joined it: no callback runs any more.
THEOREM StopReturnsQuiescentAlways == Spec => StopReturnsQuiescent
  <1>1. ASSUME JoinInv, [Next]_vars, NEW c \in Clients,
               client[c] \in {"locking", "joining"}, client'[c] = "idle"
        PROVE  worker = "exited"
    <2>1. client \in [Clients -> ClientStates]
      BY <1>1 DEF JoinInv, TypeOK
    <2>2. CASE \E d \in Clients : ClientStep(d)
      <3>1. PICK d \in Clients : ClientStep(d)
        BY <2>2
      <3>2. CASE c = d
        <4>1. LockJoin(c) \/ Join(c)
          BY <1>1, <3>1, <3>2 DEF ClientStep, ClientContinue, BeginBuild, BuildThrows,
             SubmitLatest, BeginFlush, RequestStop, NotifyWorker, CheckFlush, NotifyStop
        <4>2. LockJoin(c) => ~joinable
          BY <1>1, <2>1 DEF LockJoin
        <4> QED
          BY <1>1, <4>1, <4>2 DEF Join, WorkerFinished, JoinInv
      <3>3. CASE c # d
        <4>1. client'[c] = client[c] \/ client'[c] = WakeFlushers(client)[c]
          BY <2>1, <3>1, <3>3 DEF ClientStep, ClientContinue, BeginBuild, BuildThrows,
             SubmitLatest, RefuseSubmission, AcceptSubmission, BeginFlush, RequestStop,
             NotifyWorker, CheckFlush, NotifyStop, WakeFlushers, LockJoin, Join
        <4> QED
          BY <1>1, <4>1, WakingJoinsNobody DEF JoinInv
      <3> QED
        BY <3>2, <3>3
    <2>3. CASE WorkerContinue \/ WorkerRequestStop
      <3>1. client' = client \/ client' = WakeFlushers(client)
        BY <2>3 DEF WorkerContinue, WorkerRequestStop, WorkerSleep, WorkerTake,
           WorkerNotifyStop, SendReturns, WorkerComplete, WorkerNotifyIdle, WorkerLeave, WorkerExit
      <3> QED
        BY <1>1, <3>1, WakingJoinsNobody DEF JoinInv
    <2>4. CASE UNCHANGED vars
      BY <1>1, <2>4 DEF vars
    <2> QED
      BY <1>1, <2>2, <2>3, <2>4 DEF Next
  <1>2. JoinInv /\ [Next]_vars =>
          [\A c \in Clients :
             client[c] \in {"locking", "joining"} /\ client'[c] = "idle" => worker = "exited"]_vars
    BY <1>1
  <1> QED
    BY <1>2, JoinInvariance, PTL DEF Spec, StopReturnsQuiescent

-----------------------------------------------------------------------------
(* Mapping hashes. Every value in a held batch was written by an accepted     *)
(* submission with the hash of the batch.                                     *)

Labels(hashes, hash) == {n \in DOMAIN hashes : hashes[n] = hash}

\* The patches with values of a set.
PatchesIn(V) == [fields : [StaticFields -> V], named : [Entries -> V], byId : [Entries -> V]]

Labelled(batch, hashes) ==
    LET own == Labels(hashes, batch.hash) \cup {Absent} IN
    /\ \A t \in StaticTargets : batch.statics[t] \in Seq(PatchesIn(own))
    /\ \A i \in DOMAIN batch.widgets : batch.widgets[i] \in own
    /\ \A d \in DynamicReticles : \A f \in DynamicFields : batch.dynamics[d].patch[f] \in own

LabelInv ==
    /\ TypeOK
    /\ \A batch \in HeldBatches : Labelled(batch, accepted)

\* What was accepted keeps its number.
LEMMA AppendKeepsLabels ==
  ASSUME NEW hashes \in Seq(MappingHashes), NEW hash \in MappingHashes, NEW other
  PROVE  /\ Labels(hashes, other) \subseteq Labels(Append(hashes, hash), other)
         /\ Len(hashes) + 1 \in Labels(Append(hashes, hash), hash)
  BY AppendProperties, LenProperties DEF Labels

LEMMA StampedLabelled ==
  ASSUME NEW shape \in Shapes, NEW hashes \in Seq(MappingHashes)
  PROVE  Labelled(Stamped(shape, Len(hashes) + 1), Append(hashes, shape.hash))
  <1> DEFINE n == Len(hashes) + 1
             batch == Stamped(shape, n)
             own == Labels(Append(hashes, shape.hash), shape.hash) \cup {Absent}
  <1>1. n \in own /\ Absent \in own
    BY PublisherAssumption, AppendKeepsLabels DEF Shape
  <1>2. batch.hash = shape.hash
    BY DEF Stamped
  <1>3. ASSUME NEW t \in StaticTargets PROVE batch.statics[t] \in Seq(PatchesIn(own))
    <2> DEFINE update == shape.statics[t]
               patch == [fields |-> Stamps(StaticFields, update.fields, n),
                         named |-> Stamps(Entries, update.named, n),
                         byId |-> Stamps(Entries, update.byId, n)]
    <2>1. patch \in PatchesIn(own)
      <3> HIDE DEF own, n
      <3> QED
        BY <1>1 DEF PatchesIn, Stamps
    <2>2. batch.statics[t] \in {<<>>, <<patch>>}
      BY DEF Stamped
    <2> HIDE DEF patch, own
    <2>3. <<>> \in Seq(PatchesIn(own)) /\ <<patch>> \in Seq(PatchesIn(own))
      BY <2>1, EmptySeq
    <2> QED
      BY <2>2, <2>3
  <1>4. \A i \in DOMAIN batch.widgets : batch.widgets[i] \in own
    BY <1>1 DEF Stamped
  <1>5. \A d \in DynamicReticles : \A f \in DynamicFields : batch.dynamics[d].patch[f] \in own
    BY <1>1 DEF Stamped, Stamps
  <1> QED
    BY <1>2, <1>3, <1>4, <1>5 DEF Labelled

LEMMA AppendKeepsLabelled ==
  ASSUME NEW batch, NEW hashes \in Seq(MappingHashes), NEW hash \in MappingHashes,
         Labelled(batch, hashes)
  PROVE  Labelled(batch, Append(hashes, hash))
  <1> DEFINE own == Labels(hashes, batch.hash) \cup {Absent}
             more == Labels(Append(hashes, hash), batch.hash) \cup {Absent}
  <1>1. own \subseteq more
    BY AppendKeepsLabels
  <1>2. PatchesIn(own) \subseteq PatchesIn(more)
    <2> HIDE DEF own, more
    <2> QED
      BY <1>1 DEF PatchesIn
  <1>3. ASSUME NEW t \in StaticTargets PROVE batch.statics[t] \in Seq(PatchesIn(more))
    <2>1. batch.statics[t] \in Seq(PatchesIn(own))
      BY DEF Labelled
    <2> HIDE DEF own, more
    <2>2. \A i \in 1 .. Len(batch.statics[t]) : batch.statics[t][i] \in PatchesIn(more)
      BY <1>2, <2>1, ElementOfSeq
    <2>3. /\ Len(batch.statics[t]) \in Nat
          /\ batch.statics[t] = [i \in 1 .. Len(batch.statics[t]) |-> batch.statics[t][i]]
      BY <2>1, LenProperties
    <2>4. [i \in 1 .. Len(batch.statics[t]) |-> batch.statics[t][i]] \in Seq(PatchesIn(more))
      BY <2>2, <2>3, IsASeq
    <2> QED
      BY <2>3, <2>4
  <1> QED
    BY <1>1, <1>3 DEF Labelled

(* A merge of updates writes no value but those of its parts.               *)

LEMMA FilledIn ==
  ASSUME NEW V, Absent \in V, NEW a \in PatchesIn(V), NEW b \in PatchesIn(V)
  PROVE  Filled(a, b) \in PatchesIn(V) /\ OnlyMaps(a) \in PatchesIn(V)
  <1>1. /\ Overlay(a.fields, b.fields) \in [StaticFields -> V]
        /\ Overlay(a.named, b.named) \in [Entries -> V]
        /\ Overlay(a.byId, b.byId) \in [Entries -> V]
    BY DEF PatchesIn, Overlay
  <1> DEFINE scalars == [a EXCEPT !.fields = Overlay(@, b.fields)]
  <1>2. scalars \in PatchesIn(V) /\ scalars.named = a.named /\ scalars.byId = a.byId
    BY <1>1 DEF PatchesIn
  <1>3. Filled(a, b) \in {scalars, [scalars EXCEPT !.named = Overlay(a.named, b.named),
                                                   !.byId = Overlay(a.byId, b.byId)]}
    BY <1>2 DEF Filled
  <1>4. [scalars EXCEPT !.named = Overlay(a.named, b.named),
                        !.byId = Overlay(a.byId, b.byId)] \in PatchesIn(V)
    <2> HIDE DEF scalars
    <2> QED
      BY <1>1, <1>2 DEF PatchesIn
  <1>5. OnlyMaps(a) \in PatchesIn(V)
    BY DEF OnlyMaps, PatchesIn
  <1> QED
    BY <1>2, <1>3, <1>4, <1>5

LEMMA CoalescedIn ==
  ASSUME NEW V, Absent \in V, NEW c \in Seq(PatchesIn(V)), NEW update \in PatchesIn(V)
  PROVE  Coalesced(c, update) \in Seq(PatchesIn(V))
  <1>1. Append(c, update) \in Seq(PatchesIn(V))
    BY AppendProperties
  <1>2. CASE c = <<>> \/ MixesSpaces(c[Len(c)], update)
    BY <1>1, <1>2 DEF Coalesced
  <1>3. CASE ~ (c = <<>> \/ MixesSpaces(c[Len(c)], update))
    <2>1. Len(c) \in 1 .. Len(c)
      BY <1>3, EmptySeq
    <2>2. Filled(update, c[Len(c)]) \in PatchesIn(V)
      BY <2>1, ElementOfSeq, FilledIn
    <2>3. Coalesced(c, update) = [c EXCEPT ![Len(c)] = Filled(update, c[Len(c)])]
      BY <1>3 DEF Coalesced
    <2> QED
      BY <2>1, <2>2, <2>3, ExceptSeq
  <1> QED
    BY <1>2, <1>3

LEMMA CollectedIn ==
  ASSUME NEW V, Absent \in V, NEW u \in StaticUpdates, u \in Seq(PatchesIn(V))
  PROVE  Collected(u) \in Seq(PatchesIn(V))
  <1> DEFINE n == Len(u)
  <1>1. n \in Nat /\ \A i \in 1 .. n : u[i] \in PatchesIn(V)
    BY LenProperties, ElementOfSeq
  <1>2. PICK g \in [0 .. n -> StaticUpdates] :
          /\ g[0] = <<>>
          /\ \A i \in 1 .. n : g[i] = Coalesced(g[i - 1], u[i])
          /\ Collected(u) = g[n]
    BY CollectedSteps
  <1> DEFINE T == {i \in 0 .. n : g[i] \in Seq(PatchesIn(V))}
  <1>3. 0 \in T
    <2>1. 0 \in 0 .. n /\ <<>> \in Seq(PatchesIn(V))
      BY <1>1, EmptySeq
    <2> QED
      BY <1>2, <2>1
  <1>4. ASSUME NEW i \in 1 .. n, i - 1 \in T PROVE i \in T
    <2>1. i \in 0 .. n /\ u[i] \in PatchesIn(V) /\ g[i - 1] \in Seq(PatchesIn(V))
      BY <1>1, <1>4
    <2> QED
      BY <1>2, <2>1, CoalescedIn
  <1>5. T = 0 .. n
    <2>1. T \in SUBSET (0 .. n)
      OBVIOUS
    <2> HIDE DEF T
    <2> QED
      BY <1>1, <1>3, <1>4, <2>1, IndexInduction
  <1> QED
    BY <1>1, <1>2, <1>5

LEMMA MergeStaticUpdatesIn ==
  ASSUME NEW V, Absent \in V,
         NEW waiting \in StaticUpdates, waiting \in Seq(PatchesIn(V)),
         NEW newest \in StaticUpdates, newest \in Seq(PatchesIn(V))
  PROVE  MergeStaticUpdates(waiting, newest) \in Seq(PatchesIn(V))
  <1>0. PICK u : u = Collected(waiting)
    OBVIOUS
  <1> DEFINE n == Len(u)
             Folds == [first : PatchesIn(V), carried : Seq(PatchesIn(V))]
  <1>1. u \in Seq(PatchesIn(V)) /\ n \in Nat /\ \A i \in 1 .. n : u[i] \in PatchesIn(V)
    BY <1>0, CollectedIn, LenProperties, ElementOfSeq
  <1>2. CASE newest = <<>>
    BY <1>0, <1>1, <1>2 DEF MergeStaticUpdates
  <1>3. CASE newest # <<>>
    <2>1. PICK g \in [0 .. n -> StaticFold] :
            /\ g[0] = [first |-> newest[1], carried |-> <<>>]
            /\ \A i \in 1 .. n : g[i] = Folded(g[i - 1], u[i])
            /\ MergeStaticUpdates(waiting, newest) = (g[n].carried \o <<g[n].first>>) \o Tail(newest)
      BY <1>0, <1>3, FoldSteps
    <2> DEFINE T == {i \in 0 .. n : g[i] \in Folds}
    <2>2. 0 \in T
      <3>1. 1 \in 1 .. Len(newest) /\ <<>> \in Seq(PatchesIn(V))
        BY <1>3, EmptySeq
      <3>2. newest[1] \in PatchesIn(V)
        BY <3>1, ElementOfSeq
      <3>3. [first |-> newest[1], carried |-> <<>>] \in Folds /\ 0 \in 0 .. n
        BY <1>1, <3>1, <3>2
      <3> QED
        BY <2>1, <3>3
    <2>3. ASSUME NEW i \in 1 .. n, i - 1 \in T PROVE i \in T
      <3>1. i \in 0 .. n /\ u[i] \in PatchesIn(V) /\ g[i - 1] \in Folds
        BY <1>1, <2>3
      <3>2. /\ Filled(g[i - 1].first, u[i]) \in PatchesIn(V)
            /\ OnlyMaps(u[i]) \in PatchesIn(V)
        BY <3>1, FilledIn
      <3>3. Append(g[i - 1].carried, OnlyMaps(u[i])) \in Seq(PatchesIn(V))
        BY <3>1, <3>2, AppendProperties
      <3>4. Folded(g[i - 1], u[i]) \in Folds
        BY <3>1, <3>2, <3>3 DEF Folded
      <3> QED
        BY <2>1, <3>1, <3>4
    <2>4. T = 0 .. n
      <3>1. T \in SUBSET (0 .. n)
        OBVIOUS
      <3> HIDE DEF T
      <3> QED
        BY <1>1, <2>2, <2>3, <3>1, IndexInduction
    <2>5. g[n].carried \in Seq(PatchesIn(V)) /\ <<g[n].first>> \in Seq(PatchesIn(V))
      BY <1>1, <2>4
    <2>6. Tail(newest) \in Seq(PatchesIn(V))
      BY <1>3, HeadTailProperties
    <2>7. g[n].carried \o <<g[n].first>> \in Seq(PatchesIn(V))
      BY <2>5, ConcatProperties
    <2>8. (g[n].carried \o <<g[n].first>>) \o Tail(newest) \in Seq(PatchesIn(V))
      BY <2>6, <2>7, ConcatProperties
    <2> QED
      BY <2>1, <2>8
  <1> QED
    BY <1>2, <1>3

\* A merge takes its values from batches of its own hash.
LEMMA MergeLabelled ==
  ASSUME NEW older \in Batch \cup {NoBatch}, NEW newest \in Batch, NEW hashes,
         older # NoBatch => Labelled(older, hashes), Labelled(newest, hashes)
  PROVE  Labelled(MergePending(older, newest), hashes)
  <1>1. CASE Replaces(newest, older)
    BY <1>1 DEF MergePending
  <1>2. CASE ~Replaces(newest, older)
    <2> DEFINE merged == MergePending(older, newest)
               own == Labels(hashes, newest.hash) \cup {Absent}
    <2>1. older \in Batch /\ older.hash = newest.hash /\ Labelled(older, hashes)
      BY <1>2 DEF Replaces
    <2>2. merged.hash = newest.hash
      BY <1>2 DEF MergePending
    <2>3. ASSUME NEW t \in StaticTargets PROVE merged.statics[t] \in Seq(PatchesIn(own))
      <3>1. merged.statics[t] = IF older.reset THEN newest.statics[t]
                                ELSE MergeStaticUpdates(older.statics[t], newest.statics[t])
        BY <1>2 DEF MergePending
      <3>2. older.statics[t] \in StaticUpdates /\ newest.statics[t] \in StaticUpdates
        BY <2>1 DEF Batch
      <3>3. /\ older.statics[t] \in Seq(PatchesIn(own))
            /\ newest.statics[t] \in Seq(PatchesIn(own))
        BY <2>1 DEF Labelled
      <3>4. Absent \in own
        OBVIOUS
      <3> HIDE DEF own, merged
      <3> QED
        BY <3>1, <3>2, <3>3, <3>4, MergeStaticUpdatesIn
    <2>4. \A i \in DOMAIN merged.widgets : merged.widgets[i] \in own
      <3>1. merged.widgets = older.widgets \o newest.widgets
        BY <1>2 DEF MergePending
      <3>2. older.widgets \in Seq(Stamp) /\ newest.widgets \in Seq(Stamp)
        BY <2>1 DEF Batch
      <3>3. ASSUME NEW s \in Seq(Stamp), NEW t \in Seq(Stamp), NEW i \in DOMAIN (s \o t),
                   \A j \in DOMAIN s : s[j] \in own, \A j \in DOMAIN t : t[j] \in own
            PROVE  (s \o t)[i] \in own
        BY <3>3, ElementOfConcat
      <3> QED
        BY <2>1, <3>1, <3>2, <3>3 DEF Labelled
    <2>5. \A d \in DynamicReticles : \A f \in DynamicFields : merged.dynamics[d].patch[f] \in own
      <3>1. TAKE d \in DynamicReticles
      <3>2. older.dynamics[d] \in DynamicOp /\ newest.dynamics[d] \in DynamicOp
        BY <2>1 DEF Batch
      <3>3. merged.dynamics[d] = IF older.reset THEN newest.dynamics[d]
                                 ELSE MergeDynamicOp(older.dynamics[d], newest.dynamics[d])
        BY <1>2 DEF MergePending
      <3>4. merged.dynamics[d].patch \in {older.dynamics[d].patch, newest.dynamics[d].patch}
        BY <3>2, <3>3 DEF MergeDynamicOp, CarriedOp, KeepsStreamControls, DynamicOp
      <3> QED
        BY <2>1, <3>4 DEF Labelled
    <2> QED
      BY <2>2, <2>3, <2>4, <2>5 DEF Labelled
  <1> QED
    BY <1>1, <1>2

LEMMA SubmitLabelInv ==
  ASSUME LabelInv, TypeOK', NEW c \in Clients, NEW shape \in Shapes, SubmitLatest(c, shape)
  PROVE  LabelInv'
  <1> DEFINE batch == Stamped(shape, Len(accepted) + 1)
  <1>1. accepted \in Seq(MappingHashes) /\ inflight' = inflight
    BY DEF LabelInv, TypeOK, SubmitLatest, workerVars
  <1>2. batch \in Batch /\ batch.hash = shape.hash /\ shape.hash \in MappingHashes
    BY <1>1, StampedType, LenProperties, PublisherAssumption DEF Shape
  <1>3. CASE RefuseSubmission(c)
    BY <1>1, <1>3 DEF RefuseSubmission, LabelInv, HeldBatches, ghostVars
  <1>4. CASE AcceptSubmission(c, batch)
    <2>1. pending' = MergePending(pending, batch) /\ accepted' = Append(accepted, shape.hash)
      BY <1>2, <1>4 DEF AcceptSubmission
    <2>2. Labelled(batch, accepted')
      BY <1>1, <2>1, StampedLabelled
    <2>3. \A held \in HeldBatches : Labelled(held, accepted')
      BY <1>1, <1>2, <2>1, AppendKeepsLabelled DEF LabelInv
    <2>4. Labelled(pending', accepted')
      BY <1>2, <2>1, <2>2, <2>3, MergeLabelled DEF LabelInv, TypeOK, HeldBatches
    <2> QED
      BY <1>1, <2>3, <2>4 DEF LabelInv, HeldBatches
  <1> QED
    BY <1>3, <1>4 DEF SubmitLatest

LEMMA LabelInvariance == Spec => []LabelInv
  <1>1. Init => LabelInv
    BY InitTypeOK DEF Init, LabelInv, HeldBatches
  <1>2. LabelInv /\ [Next]_vars => LabelInv'
    <2> SUFFICES ASSUME LabelInv, [Next]_vars PROVE LabelInv'
      OBVIOUS
    <2>1. TypeOK'
      BY NextTypeOK DEF LabelInv
    <2>2. ASSUME HeldBatches' \subseteq HeldBatches, accepted' = accepted PROVE LabelInv'
      BY <2>1, <2>2 DEF LabelInv
    <2>3. ASSUME NEW c \in Clients, ClientStep(c) PROVE LabelInv'
      <3>1. CASE \E shape \in Shapes : SubmitLatest(c, shape)
        BY <2>1, <3>1, SubmitLabelInv
      <3>2. CASE RequestStop(c)
        BY <2>2, <3>2 DEF RequestStop, HeldBatches, workerVars, ghostVars
      <3>3. CASE ~RequestStop(c) /\ ~\E shape \in Shapes : SubmitLatest(c, shape)
        BY <2>2, <2>3, <3>3 DEF ClientStep, ClientContinue, BeginBuild, BuildThrows, BeginFlush,
           NotifyWorker, CheckFlush, NotifyStop, LockJoin, Join, HeldBatches, workerVars, ghostVars
      <3> QED
        BY <3>1, <3>2, <3>3
    <2>4. CASE WorkerComplete /\ Retries /\ pending # NoBatch
      <3>1. /\ pending' = MergePending(inflight, pending) /\ inflight' = NoBatch
            /\ accepted' = accepted
        BY <2>4 DEF WorkerComplete, KeepForRetry, EndSend, ghostVars
      <3>2. Labelled(pending', accepted')
        BY <2>4, <3>1, MergeLabelled DEF LabelInv, TypeOK, HeldBatches
      <3> QED
        BY <2>1, <3>1, <3>2 DEF LabelInv, HeldBatches
    <2>5. CASE WorkerComplete /\ ~(Retries /\ pending # NoBatch)
      BY <2>2, <2>5 DEF WorkerComplete, KeepForRetry, EndSend, HeldBatches, ghostVars
    <2>6. CASE (WorkerContinue \/ WorkerRequestStop) /\ ~WorkerComplete
      BY <2>2, <2>6 DEF WorkerContinue, WorkerRequestStop, WorkerSleep, WorkerTake,
         WorkerNotifyStop, SendReturns, WorkerNotifyIdle, WorkerLeave, WorkerExit, HeldBatches,
         ghostVars
    <2>7. CASE UNCHANGED vars
      BY <2>2, <2>7 DEF vars, HeldBatches
    <2> QED
      BY <2>3, <2>4, <2>5, <2>6, <2>7 DEF Next
  <1> QED
    BY <1>1, <1>2, PTL DEF Spec

\* Values of two mappings never meet in a batch that is held, whatever is merged with what
\* after a failure and however the client switches between its user interfaces.
THEOREM OneMappingPerBatchAlways == Spec => []OneMappingPerBatch
  <1>1. LabelInv => OneMappingPerBatch
    <2> SUFFICES ASSUME LabelInv, NEW batch \in HeldBatches
                 PROVE  LET stamps == (UNION {StampsOf(batch.statics[t]) : t \in StaticTargets})
                              \cup {batch.widgets[i] : i \in DOMAIN batch.widgets}
                              \cup UNION {{batch.dynamics[d].patch[f] : f \in Writes(batch.dynamics[d].patch)}
                                           : d \in DynamicReticles}
                        IN  \A n \in stamps : accepted[n] = batch.hash
      BY DEF OneMappingPerBatch, HeldBatches
    <2> DEFINE ofStatics == UNION {StampsOf(batch.statics[t]) : t \in StaticTargets}
               ofWidgets == {batch.widgets[i] : i \in DOMAIN batch.widgets}
               ofDynamics == UNION {{batch.dynamics[d].patch[f] : f \in Writes(batch.dynamics[d].patch)}
                                     : d \in DynamicReticles}
    <2>1. batch \in Batch /\ Labelled(batch, accepted)
      BY DEF LabelInv, TypeOK, HeldBatches
    <2>2. ASSUME NEW t \in StaticTargets, NEW n \in StampsOf(batch.statics[t])
          PROVE  accepted[n] = batch.hash
      <3> DEFINE u == batch.statics[t]
                 own == Labels(accepted, batch.hash) \cup {Absent}
      <3>1. u \in Seq(PatchesIn(own))
        BY <2>1 DEF Labelled
      <3>2. PICK i \in DOMAIN u : n \in {u[i].fields[f] : f \in Writes(u[i].fields)}
                                          \cup {u[i].named[e] : e \in Writes(u[i].named)}
                                          \cup {u[i].byId[e] : e \in Writes(u[i].byId)}
        BY <2>2 DEF StampsOf
      <3>3. u[i] \in PatchesIn(own)
        <4> HIDE DEF u, own
        <4> QED
          BY <3>1, <3>2, ElementOfSeq, LenProperties
      <3>4. n \in own /\ n # Absent
        <4> HIDE DEF u, own
        <4> QED
          BY <3>2, <3>3 DEF PatchesIn, Writes
      <3> QED
        BY <3>4 DEF Labels
    <2>3. \A i \in DOMAIN batch.widgets : accepted[batch.widgets[i]] = batch.hash
      <3>1. TAKE i \in DOMAIN batch.widgets
      <3>2. batch.widgets[i] \in Stamp
        BY <2>1, ElementOfSeq, LenProperties DEF Batch
      <3> QED
        BY <2>1, <3>2 DEF Labelled, Labels, Stamp
    <2>4. \A d \in DynamicReticles : \A f \in Writes(batch.dynamics[d].patch) :
            accepted[batch.dynamics[d].patch[f]] = batch.hash
      <3>1. TAKE d \in DynamicReticles
      <3>2. DOMAIN batch.dynamics[d].patch = DynamicFields
        BY <2>1 DEF Batch, DynamicOp, DynamicPatch
      <3> QED
        BY <2>1, <3>2 DEF Labelled, Labels, Writes
    <2>5. \A n \in ofStatics : accepted[n] = batch.hash
      BY <2>2
    <2>6. \A n \in ofWidgets : accepted[n] = batch.hash
      BY <2>3
    <2>7. \A n \in ofDynamics : accepted[n] = batch.hash
      BY <2>4
    <2>8. \A n \in ofStatics \cup ofWidgets \cup ofDynamics : accepted[n] = batch.hash
      <3> HIDE DEF ofStatics, ofWidgets, ofDynamics
      <3> QED
        BY <2>5, <2>6, <2>7
    <2> QED
      BY <2>8
  <1> QED
    BY <1>1, LabelInvariance, PTL

-----------------------------------------------------------------------------
(* Lifecycles of dynamic reticles. The invariant follows every reticle through *)
(* the batch in the worker's hands and the pending one.                        *)

LifecyclesKept == losses \cap {"behind reset", "removal"} = {}

LifeInv ==
    /\ \A d \in DynamicReticles : created[d] <= Len(accepted)
    /\ Undisturbed /\ LifecyclesKept =>
        \A d \in DynamicReticles :
            Follows(Outstanding, pending, d, window.dynamics[d], desired.dynamics[d], created[d])

LEMMA DynamicsAfterEach ==
  ASSUME NEW batch \in Batch \cup {NoBatch}, NEW dynamics \in [DynamicReticles -> Instance],
         NEW d \in DynamicReticles
  PROVE  DynamicsAfter(batch, dynamics)[d] = AfterBatch(batch, d, dynamics[d])
  BY DEF DynamicsAfter, AfterBatch

\* While no lifecycle was lost, none was lost before and none in the last merge.
LEMMA NoNewLifecycleLosses ==
  ASSUME NEW older, NEW newest, losses' = losses \cup Losses(older, newest), LifecyclesKept'
  PROVE  LifecyclesKept /\ KeepsLifecycles(older, newest)
  <1>1. losses \cap {"behind reset", "removal"} = {}
    BY DEF LifecyclesKept
  <1>2. "behind reset" \notin Losses(older, newest) /\ "removal" \notin Losses(older, newest)
    BY DEF LifecyclesKept
  <1>3. KeepsLifecycles(older, newest)
    BY <1>2 DEF KeepsLifecycles, Losses, LossKinds
  <1> QED
    BY <1>1, <1>3 DEF LifecyclesKept

LEMMA AuthoredIsFollowed ==
  ASSUME NEW d \in DynamicReticles
  PROVE  Follows(NoBatch, NoBatch, d, NoInstance, NoInstance, 0)
  <1>1. ~NoInstance.alive
    BY DEF NoInstance
  <1> QED
    BY <1>1 DEF Follows, AfterBatch, Matches, Fits, Current

LEMMA LifeTypes ==
  ASSUME TypeOK
  PROVE  /\ window.dynamics \in [DynamicReticles -> Instance]
         /\ desired.dynamics \in [DynamicReticles -> Instance]
         /\ Outstanding \in Batch \cup {NoBatch}
         /\ created \in [DynamicReticles -> Nat]
         /\ Len(accepted) \in Nat
  BY LenProperties DEF TypeOK, WindowState, Outstanding

LEMMA InitLifeInv == Init => LifeInv
  <1> SUFFICES ASSUME Init, NEW d \in DynamicReticles
               PROVE  /\ created[d] <= Len(accepted)
                      /\ Follows(Outstanding, pending, d, window.dynamics[d], desired.dynamics[d],
                                 created[d])
    BY DEF LifeInv
  <1>1. Outstanding = NoBatch /\ pending = NoBatch
    BY DEF Init, Outstanding
  <1>2. window.dynamics[d] = NoInstance /\ desired.dynamics[d] = NoInstance
    BY DEF Init, AuthoredWindow, NoInstances
  <1>3. created[d] = 0 /\ Len(accepted) = 0
    BY DEF Init
  <1> QED
    BY <1>1, <1>2, <1>3, AuthoredIsFollowed

\* Steps that move threads only.
LEMMA ThreadStepLifeInv ==
  ASSUME LifeInv, UNCHANGED dataVars, worker' = "returned" <=> worker = "returned"
  PROVE  LifeInv'
  <1>1. Outstanding' = Outstanding /\ (Undisturbed' <=> Undisturbed)
        /\ (LifecyclesKept' <=> LifecyclesKept)
    BY DEF Outstanding, Undisturbed, MixedMappings, LifecyclesKept, dataVars
  <1> QED
    BY <1>1 DEF LifeInv, dataVars

\* Every value that a submission writes carries its number.
LEMMA StampedNumbers ==
  ASSUME NEW shape \in Shapes, NEW n \in Nat, NEW d \in DynamicReticles,
         NEW f \in Writes(Stamped(shape, n).dynamics[d].patch)
  PROVE  Stamped(shape, n).dynamics[d].patch[f] = n
  BY DEF Stamped, Stamps, Writes

LEMMA AcceptLifeInv ==
  ASSUME IInv, LifeInv, NEW c \in Clients, NEW batch \in Batch,
         \A d \in DynamicReticles : \A f \in Writes(batch.dynamics[d].patch) :
            batch.dynamics[d].patch[f] = Len(accepted) + 1,
         Consistent(batch), AcceptSubmission(c, batch),
         UNCHANGED <<stopRequested, window, rejected, worker, inflight, sendOk>>
  PROVE  LifeInv'
  <1> USE DEF AcceptSubmission
  <1>0. /\ Len(accepted') = Len(accepted) + 1 /\ Len(accepted) \in Nat
        /\ \A i \in 1..Len(accepted) : accepted'[i] = accepted[i]
        /\ accepted'[Len(accepted) + 1] = batch.hash
    <2>1. accepted \in Seq(MappingHashes) /\ batch.hash \in MappingHashes
      BY DEF IInv, TypeOK, Batch
    <2> QED
      BY <2>1, AppendProperties, LenProperties
  <1>1. ASSUME NEW d \in DynamicReticles
        PROVE  /\ created[d] \in Nat /\ created[d] <= Len(accepted)
               /\ created'[d] = Creation(batch, d, desired.dynamics[d], created[d], Len(accepted) + 1)
    <2>1. created[d] \in Nat /\ created[d] <= Len(accepted)
      BY LifeTypes DEF IInv, LifeInv
    <2>2. created' = CreatedBy(batch, Len(accepted) + 1)
      BY <1>0
    <2> QED
      BY <2>1, <2>2 DEF CreatedBy, Creation
  <1>2. ASSUME NEW d \in DynamicReticles PROVE created'[d] <= Len(accepted')
    BY <1>0, <1>1, <1>2 DEF Creation
  <1> SUFFICES ASSUME Undisturbed', LifecyclesKept', NEW d \in DynamicReticles
               PROVE  Follows(Outstanding, pending, d, window.dynamics[d], desired.dynamics[d],
                              created[d])'
    BY <1>2 DEF LifeInv
  <1>3. Undisturbed /\ (pending # NoBatch => pending.hash = batch.hash)
    <2>1. \A i \in 1..Len(accepted) : accepted[i] = batch.hash
      BY <1>0 DEF Undisturbed, MixedMappings
    <2>2. pending # NoBatch => \E i \in 1..Len(accepted) : accepted[i] = pending.hash
      BY DEF IInv, HashesAccepted
    <2> QED
      BY <2>1, <2>2 DEF Undisturbed, MixedMappings
  <1>4. /\ pending \in Batch \cup {NoBatch}
        /\ Outstanding' = Outstanding /\ Outstanding \in Batch \cup {NoBatch}
        /\ window.dynamics[d] \in Instance /\ desired.dynamics[d] \in Instance
    BY LifeTypes DEF IInv, TypeOK, Outstanding
  <1>5. LifecyclesKept /\ KeepsLifecycles(pending, batch)
    BY NoNewLifecycleLosses
  <1>6. OpApplies(batch.dynamics[d], IF batch.reset THEN NoInstance ELSE desired.dynamics[d])
    BY DEF Consistent, Accepts
  <1>7. Follows(Outstanding, pending, d, window.dynamics[d], desired.dynamics[d], created[d])
    BY <1>3, <1>5 DEF LifeInv
  <1>8. /\ Len(accepted) + 1 \in Nat /\ created[d] <= Len(accepted) + 1 /\ created[d] \in Nat
        /\ \A f \in Writes(batch.dynamics[d].patch) : batch.dynamics[d].patch[f] = Len(accepted) + 1
    BY <1>0, <1>1
  <1>9. Follows(Outstanding, MergePending(pending, batch), d, window.dynamics[d],
                AfterBatch(batch, d, desired.dynamics[d]),
                Creation(batch, d, desired.dynamics[d], created[d], Len(accepted) + 1))
    BY <1>3, <1>4, <1>5, <1>6, <1>7, <1>8, FollowsAccepted
  <1>10. desired'.dynamics[d] = AfterBatch(batch, d, desired.dynamics[d])
    BY LifeTypes, DynamicsAfterEach DEF Show, IInv
  <1> QED
    BY <1>1, <1>4, <1>9, <1>10

LEMMA TakeLifeInv ==
  ASSUME IInv, LifeInv, WorkerTake
  PROVE  LifeInv'
  <1> USE DEF WorkerTake, ghostVars
  <1> SUFFICES ASSUME Undisturbed', LifecyclesKept', NEW d \in DynamicReticles
               PROVE  Follows(Outstanding, pending, d, window.dynamics[d], desired.dynamics[d],
                              created[d])'
    BY DEF LifeInv
  <1>1. Undisturbed /\ LifecyclesKept
    BY DEF Undisturbed, MixedMappings, LifecyclesKept
  <1>2. inflight = NoBatch
    BY DEF IInv, WorkerHolds, TypeOK
  <1>3. Outstanding = NoBatch /\ Outstanding' = pending /\ pending' = NoBatch
    BY <1>2 DEF Outstanding
  <1>4. Follows(NoBatch, pending, d, window.dynamics[d], desired.dynamics[d], created[d])
    BY <1>1, <1>3 DEF LifeInv
  <1>5. Follows(pending, NoBatch, d, window.dynamics[d], desired.dynamics[d], created[d])
    BY <1>4, FollowsTaken, LifeTypes DEF IInv, TypeOK
  <1> QED
    BY <1>3, <1>5

LEMMA SendReturnsLifeInv ==
  ASSUME IInv, LifeInv, NEW ok \in BOOLEAN, SendReturns(ok)
  PROVE  LifeInv'
  <1> USE DEF SendReturns, ghostVars, joinVars
  <1> SUFFICES ASSUME Undisturbed', LifecyclesKept', NEW d \in DynamicReticles
               PROVE  Follows(Outstanding, pending, d, window.dynamics[d], desired.dynamics[d],
                              created[d])'
    BY DEF LifeInv
  <1>1. Undisturbed /\ ~rejected' /\ LifecyclesKept
    BY DEF Undisturbed, MixedMappings, IInv, TypeOK, LifecyclesKept
  <1>2. Outstanding = inflight /\ inflight \in Batch \cup {NoBatch}
    BY DEF Outstanding, IInv, TypeOK
  <1>3. Follows(inflight, pending, d, window.dynamics[d], desired.dynamics[d], created[d])
    BY <1>1, <1>2 DEF LifeInv
  <1>4. CASE ok
    <2>1. window' = Show(inflight, window) /\ Outstanding' = NoBatch
      BY <1>1, <1>4 DEF Outstanding
    <2>2. window'.dynamics[d] = AfterBatch(inflight, d, window.dynamics[d])
      BY <1>2, <2>1, LifeTypes, DynamicsAfterEach DEF Show, IInv
    <2>3. Follows(NoBatch, pending, d, AfterBatch(inflight, d, window.dynamics[d]),
                  desired.dynamics[d], created[d])
      BY <1>2, <1>3, FollowsSent, LifeTypes DEF IInv, TypeOK
    <2> QED
      BY <2>1, <2>2, <2>3
  <1>5. CASE ~ok
    <2>1. window' = window /\ Outstanding' = inflight
      BY <1>5 DEF Outstanding
    <2> QED
      BY <1>3, <2>1
  <1> QED
    BY <1>4, <1>5

LEMMA RetryLifeInv ==
  ASSUME IInv, LifeInv, WorkerComplete, Retries
  PROVE  LifeInv'
  <1>1. /\ KeepForRetry /\ EndSend /\ worker = "returned" /\ ~sendOk
        /\ UNCHANGED <<stopRequested, window, rejected, desired, accepted, created>>
    BY DEF WorkerComplete, Retries, ghostVars
  <1> SUFFICES ASSUME Undisturbed', LifecyclesKept', NEW d \in DynamicReticles
               PROVE  Follows(Outstanding, pending, d, window.dynamics[d], desired.dynamics[d],
                              created[d])'
    BY <1>1 DEF LifeInv
  <1>2. inflight \in Batch /\ pending \in Batch \cup {NoBatch}
    BY <1>1 DEF WorkerHolds, IInv, TypeOK
  <1>3. Undisturbed /\ LifecyclesKept
    <2>1. LifecyclesKept
      BY <1>1 DEF KeepForRetry, LifecyclesKept
    <2> QED
      BY <1>1, <2>1 DEF Undisturbed, MixedMappings
  <1>4. pending # NoBatch => inflight.hash = pending.hash
    <2>1. ~MixedMappings
      BY <1>3 DEF Undisturbed
    <2> QED
      BY <1>2, <2>1, SameHash, NoBatchIsNoBatch DEF HeldBatches, IInv
  <1>5. pending # NoBatch => KeepsLifecycles(inflight, pending)
    BY <1>1, NoNewLifecycleLosses DEF KeepForRetry
  <1>6. Outstanding = inflight /\ Outstanding' = NoBatch
    BY <1>1 DEF Outstanding, EndSend
  <1>7. Follows(inflight, pending, d, window.dynamics[d], desired.dynamics[d], created[d])
    BY <1>3, <1>6 DEF LifeInv
  <1>8. Follows(NoBatch,
                IF pending = NoBatch THEN inflight ELSE MergePending(inflight, pending),
                d, window.dynamics[d], desired.dynamics[d], created[d])
    BY <1>2, <1>4, <1>5, <1>7, FollowsRetried, LifeTypes DEF IInv
  <1> QED
    BY <1>1, <1>6, <1>8 DEF KeepForRetry

LEMMA DoneLifeInv ==
  ASSUME IInv, LifeInv, WorkerComplete, ~Retries
  PROVE  LifeInv'
  <1>1. /\ EndSend /\ worker = "returned" /\ worker' = "completed"
        /\ UNCHANGED <<pending, losses, stopRequested, window, rejected, desired, accepted, created>>
    BY DEF WorkerComplete, ghostVars
  <1> SUFFICES ASSUME Undisturbed', LifecyclesKept', NEW d \in DynamicReticles
               PROVE  Follows(Outstanding, pending, d, window.dynamics[d], desired.dynamics[d],
                              created[d])'
    BY <1>1 DEF LifeInv
  <1>2. Undisturbed /\ LifecyclesKept /\ Outstanding = NoBatch
    BY <1>1 DEF Undisturbed, MixedMappings, Outstanding, Retries, LifecyclesKept
  <1>3. Outstanding' = NoBatch
    BY <1>1 DEF EndSend, Outstanding
  <1> QED
    BY <1>1, <1>2, <1>3 DEF LifeInv

LEMMA SubmitLifeInv ==
  ASSUME IInv, LifeInv, NEW c \in Clients, NEW shape \in Shapes, SubmitLatest(c, shape)
  PROVE  LifeInv'
  <1> DEFINE batch == Stamped(shape, Len(accepted) + 1)
  <1>0. Len(accepted) \in Nat
    BY LifeTypes DEF IInv
  <1>1. batch \in Batch /\ Consistent(batch)
    BY <1>0, StampedType DEF SubmitLatest
  <1>2. \A d \in DynamicReticles : \A f \in Writes(batch.dynamics[d].patch) :
            batch.dynamics[d].patch[f] = Len(accepted) + 1
    BY <1>0, StampedNumbers
  <1>3. CASE RefuseSubmission(c)
    BY <1>3, ThreadStepLifeInv DEF SubmitLatest, RefuseSubmission, dataVars, workerVars, ghostVars
  <1>4. CASE AcceptSubmission(c, batch)
    <2>1. UNCHANGED <<stopRequested, window, rejected, worker, inflight, sendOk>>
      BY DEF SubmitLatest, workerVars
    <2> HIDE DEF batch
    <2> QED
      BY <1>1, <1>2, <1>4, <2>1, AcceptLifeInv
  <1> QED
    BY <1>3, <1>4 DEF SubmitLatest

LEMMA NextLifeInv == IInv /\ LifeInv /\ [Next]_vars => LifeInv'
  <1> SUFFICES ASSUME IInv, LifeInv, [Next]_vars PROVE LifeInv'
    OBVIOUS
  <1> USE DEF dataVars, workerVars, ghostVars
  <1>1. ASSUME stopRequested', UNCHANGED <<created, accepted>> PROVE LifeInv'
    BY <1>1 DEF LifeInv, Undisturbed
  <1>2. ASSUME NEW c \in Clients, ClientStep(c) PROVE LifeInv'
    <2>1. CASE \E shape \in Shapes : SubmitLatest(c, shape)
      BY <2>1, SubmitLifeInv
    <2>2. CASE RequestStop(c)
      BY <1>1, <2>2 DEF RequestStop
    <2>3. CASE NotifyWorker(c) \/ NotifyStop(c)
      BY <2>3, ThreadStepLifeInv DEF NotifyWorker, NotifyStop, WokenWorker
    <2>4. CASE BeginBuild(c) \/ BuildThrows(c) \/ BeginFlush(c) \/ CheckFlush(c) \/ LockJoin(c) \/ Join(c)
      BY <2>4, ThreadStepLifeInv DEF BeginBuild, BuildThrows, BeginFlush, CheckFlush, LockJoin, Join
    <2> QED
      BY <1>2, <2>1, <2>2, <2>3, <2>4 DEF ClientStep, ClientContinue
  <1>3. CASE WorkerTake
    BY <1>3, TakeLifeInv
  <1>4. CASE \E ok \in BOOLEAN : SendReturns(ok)
    BY <1>4, SendReturnsLifeInv
  <1>5. CASE WorkerComplete
    BY <1>5, RetryLifeInv, DoneLifeInv
  <1>6. CASE WorkerRequestStop
    BY <1>1, <1>6 DEF WorkerRequestStop
  <1>7. CASE WorkerSleep \/ WorkerNotifyStop \/ WorkerNotifyIdle \/ WorkerLeave \/ WorkerExit
    BY <1>7, ThreadStepLifeInv
    DEF WorkerSleep, WorkerNotifyStop, WorkerNotifyIdle, WorkerLeave, WorkerExit
  <1>8. CASE UNCHANGED vars
    BY <1>8, ThreadStepLifeInv DEF vars
  <1> QED
    BY <1>2, <1>3, <1>4, <1>5, <1>6, <1>7, <1>8 DEF Next, WorkerContinue

\* Whatever is merged, fails or is sent again, the window ends up with the instance of
\* each reticle that was created last, its template and its newest stream control, and
\* with no value of an instance that was removed before it, unless a merge dropped what
\* was queued behind a reset or a removal that a creation followed.
THEOREM LifecycleSurvivesAlways == Spec => []LifecycleSurvives
  <1>1. Spec => []LifeInv
    BY InitLifeInv, NextLifeInv, Invariance, PTL DEF Spec
  <1>2. IInv /\ LifeInv => LifecycleSurvives
    <2> SUFFICES ASSUME IInv, LifeInv, Undisturbed, LifecyclesKept, NEW d \in DynamicReticles
                 PROVE  Matches(Projected.dynamics[d], desired.dynamics[d], created[d])
      BY DEF LifecycleSurvives, LifecyclesKept, Matches
    <2>1. /\ window.dynamics \in [DynamicReticles -> Instance]
          /\ Outstanding \in Batch \cup {NoBatch} /\ pending \in Batch \cup {NoBatch}
      BY LifeTypes DEF IInv, TypeOK
    <2>2. Projected.dynamics = DynamicsAfter(pending, DynamicsAfter(Outstanding, window.dynamics))
      BY DEF Projected, Show
    <2>3. Projected.dynamics[d] = AfterBatch(pending, d, AfterBatch(Outstanding, d, window.dynamics[d]))
      <3> DEFINE middle == DynamicsAfter(Outstanding, window.dynamics)
      <3>1. /\ middle \in [DynamicReticles -> Instance]
            /\ middle[d] = AfterBatch(Outstanding, d, window.dynamics[d])
        BY <2>1, DynamicsAfterEach, DynamicsAfterType
      <3>2. DynamicsAfter(pending, middle)[d] = AfterBatch(pending, d, middle[d])
        <4> HIDE DEF middle
        <4> QED
          BY <2>1, <3>1, DynamicsAfterEach
      <3> QED
        BY <2>2, <3>1, <3>2
    <2> QED
      BY <2>3 DEF LifeInv, Follows
  <1> QED
    BY <1>1, <1>2, Invariance, PTL
=============================================================================
