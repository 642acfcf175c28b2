----------------------- MODULE UdpRuntimeBridgeProofs -----------------------
(***************************************************************************)
(* Proofs about UdpRuntimeBridge, for any packets, budgets and limits and  *)
(* any number of calls: the running totals are what the queue costs, the   *)
(* commands come out in order and once, a frame never meets a head that    *)
(* it cannot take, feedback leaves in order and before the worker ends,    *)
(* and the worker does not sleep on feedback.                              *)
(***************************************************************************)
EXTENDS UdpRuntimeBridge, SumTheorems, SequenceTheorems, TLAPS

-----------------------------------------------------------------------------
(* The inbound queue. *)

\* The stamp after those of a batch.
End(batch) == batch.first + Len(batch.works)

BatchOK(batch) ==
    /\ batch \in QueuedBatch
    /\ batch.cost = Cost(batch.works, batch.capacity, batch.cost["wire"])
    /\ batch.cost["work"] <= MaxAtomicWork

\* Batches within the limits, and exact totals for them.
Priced(queue, amounts) ==
    /\ queue \in Seq(QueuedBatch)
    /\ \A i \in DOMAIN queue : BatchOK(queue[i])
    /\ amounts = CostOf(queue)
    /\ \A q \in Quantities : amounts[q] <= Limit[q]
    /\ Len(queue) <= MaxQueuedBatches

\* Every stamp is before those that are queued after it, and before the next one.
Lined(queue, out, next) ==
    /\ out \in Seq(Nat) /\ Increasing(out)
    /\ next \in Nat \ {0}
    /\ \A i \in DOMAIN queue :
        /\ End(queue[i]) <= next
        /\ \A j \in DOMAIN queue : i < j => End(queue[i]) <= queue[j].first
    /\ \A k \in DOMAIN out :
        /\ out[k] < next
        /\ \A i \in DOMAIN queue : out[k] < queue[i].first

-----------------------------------------------------------------------------
(* Costs. *)

LEMMA SumWorks ==
  ASSUME NEW works \in Seq(Nat)
  PROVE  /\ SumFunction(works) \in Nat
         /\ \A n \in 0 .. Len(works) :
                /\ SubSeq(works, n + 1, Len(works)) \in Seq(Nat)
                /\ SumFunction(SubSeq(works, n + 1, Len(works))) <= SumFunction(works)
  <1>1. DOMAIN works = 1 .. Len(works) /\ Len(works) \in Nat /\ \A i \in DOMAIN works : works[i] \in Nat
    OBVIOUS
  <1>2. IsFiniteSet(DOMAIN works)
    BY <1>1, FS_Interval
  <1>3. SumFunction(works) \in Nat
    BY <1>1, <1>2, SumNat DEF SumFunction
  <1>4. ASSUME NEW n \in 0 .. Len(works)
        PROVE  /\ SubSeq(works, n + 1, Len(works)) \in Seq(Nat)
               /\ SumFunction(SubSeq(works, n + 1, Len(works))) <= SumFunction(works)
    <2> DEFINE rest == SubSeq(works, n + 1, Len(works)) k == Len(works) - n
               g == [i \in 1 .. n |-> works[i]]
    <2>1. /\ rest \in Seq(Nat) /\ k \in Nat /\ n \in Nat /\ Len(works) = n + k
          /\ DOMAIN rest = 1 .. k /\ \A i \in 1 .. k : rest[i] = works[n + i]
      BY <1>1
    <2>2. \A i \in 1 .. n : g[i] = works[i] /\ g[i] \in Nat
      BY <1>1
    <2> HIDE DEF rest, k, g
    <2>3. DOMAIN g = 1 .. n
      BY DEF g
    <2>4. Joined(n, k, works, g, rest)
      BY <1>1, <2>1, <2>2, <2>3 DEF Joined
    <2>5. SumFunction(works) = SumFunction(g) + SumFunction(rest)
      BY <2>1, <2>4, SumJoined
    <2>6. IsFiniteSet(DOMAIN g) /\ IsFiniteSet(DOMAIN rest)
      BY <2>1, <2>3, FS_Interval
    <2>7. SumFunction(g) \in Nat /\ SumFunction(rest) \in Nat
      <3>1. (\A i \in DOMAIN rest : rest[i] \in Nat) /\ \A i \in DOMAIN g : g[i] \in Nat
        BY <2>1, <2>2, <2>3
      <3> QED
        BY <2>6, <3>1, SumNat DEF SumFunction
    <2>8. SumFunction(rest) <= SumFunction(works)
      BY <2>5, <2>7
    <2> QED
      BY <2>1, <2>8 DEF rest
  <1> QED
    BY <1>3, <1>4

LEMMA CostTyped ==
  ASSUME NEW works \in Seq(Nat), NEW capacity \in Nat, NEW size \in Nat
  PROVE  LET cost == Cost(works, capacity, size) IN
         /\ cost \in Amount
         /\ cost["commands"] = Len(works) /\ cost["work"] = SumFunction(works)
         /\ cost["wire"] = size /\ cost["memory"] = BatchBytes + capacity * CommandBytes + size
  <1>1. SumFunction(works) \in Nat
    BY SumWorks
  <1>2. BatchBytes \in Nat /\ CommandBytes \in Nat
    BY BridgeAssumption
  <1>3. BatchBytes + capacity * CommandBytes + size \in Nat
    BY <1>2
  <1> QED
    BY <1>1, <1>3 DEF Cost, Amount, Quantities

LEMMA CostOfTyped ==
  ASSUME NEW s \in Seq(QueuedBatch)
  PROVE  CostOf(s) \in Amount
  <1>1. ASSUME NEW q \in Quantities PROVE SumFunction([i \in DOMAIN s |-> s[i].cost[q]]) \in Nat
    <2> DEFINE f == [i \in DOMAIN s |-> s[i].cost[q]]
    <2>1. DOMAIN f = 1 .. Len(s) /\ \A i \in DOMAIN f : f[i] \in Nat
      <3>1. DOMAIN s = 1 .. Len(s) /\ \A i \in DOMAIN s : s[i] \in QueuedBatch
        OBVIOUS
      <3>2. \A b \in QueuedBatch : b.cost[q] \in Nat
        BY DEF QueuedBatch, Amount
      <3> QED
        BY <3>1, <3>2
    <2>2. IsFiniteSet(1 .. Len(s))
      BY FS_Interval
    <2>3. SumFunction(f) \in Nat
      <3> HIDE DEF f
      <3> QED
        BY <2>1, <2>2, SumNat DEF SumFunction
    <2> QED
      BY <2>3
  <1> QED
    BY <1>1 DEF CostOf, Amount

LEMMA CostOfConcat ==
  ASSUME NEW s \in Seq(QueuedBatch), NEW t \in Seq(QueuedBatch)
  PROVE  CostOf(s \o t) = Plus(CostOf(s), CostOf(t))
  <1> DEFINE n == Len(s) k == Len(t) u == s \o t
  <1>1. /\ n \in Nat /\ k \in Nat
        /\ DOMAIN u = 1 .. n + k /\ DOMAIN s = 1 .. n /\ DOMAIN t = 1 .. k
        /\ (\A i \in DOMAIN s : u[i] = s[i] /\ i \in DOMAIN u)
        /\ \A i \in DOMAIN t : u[n + i] = t[i] /\ n + i \in DOMAIN u
    OBVIOUS
  <1>2. \A i \in DOMAIN u : u[i] \in QueuedBatch
    <2>1. u \in Seq(QueuedBatch)
      OBVIOUS
    <2> HIDE DEF u
    <2> QED
      BY <2>1
  <1> HIDE DEF n, k, u
  <1>3. ASSUME NEW q \in Quantities
        PROVE  SumFunction([i \in DOMAIN u |-> u[i].cost[q]]) =
                 SumFunction([i \in DOMAIN s |-> s[i].cost[q]]) + SumFunction([i \in DOMAIN t |-> t[i].cost[q]])
    <2> DEFINE f == [i \in DOMAIN u |-> u[i].cost[q]] g == [i \in DOMAIN s |-> s[i].cost[q]]
               h == [i \in DOMAIN t |-> t[i].cost[q]]
    <2>1. \A b \in QueuedBatch : b.cost[q] \in Nat
      BY DEF QueuedBatch, Amount
    <2>2. DOMAIN f = DOMAIN u /\ \A i \in DOMAIN u : f[i] \in Int
      BY <1>2, <2>1
    <2>3. DOMAIN g = DOMAIN s /\ \A i \in DOMAIN s : g[i] = f[i]
      BY <1>1
    <2>4. DOMAIN h = DOMAIN t /\ \A i \in DOMAIN t : h[i] = f[n + i]
      BY <1>1
    <2> HIDE DEF f, g, h
    <2>5. Joined(n, k, f, g, h)
      BY <1>1, <2>2, <2>3, <2>4 DEF Joined
    <2>6. SumFunction(f) = SumFunction(g) + SumFunction(h)
      BY <1>1, <2>5, SumJoined
    <2> QED
      BY <2>6 DEF f, g, h
  <1>4. CostOf(u) = Plus(CostOf(s), CostOf(t))
    BY <1>3 DEF CostOf, Plus
  <1> QED
    BY <1>4 DEF u

LEMMA CostOfFew ==
  /\ CostOf(<<>>) = Zero
  /\ \A b \in QueuedBatch : CostOf(<<b>>) = b.cost
  <1>1. \A q \in Quantities : SumFunction([i \in DOMAIN <<>> |-> <<>>[i].cost[q]]) = 0
    <2> TAKE q \in Quantities
    <2> DEFINE f == [i \in DOMAIN <<>> |-> <<>>[i].cost[q]]
    <2>1. DOMAIN f = {}
      OBVIOUS
    <2>2. SumFunction(f) = 0
      <3> HIDE DEF f
      <3> QED
        BY <2>1, SumEmpty DEF SumFunction
    <2> QED
      BY <2>2
  <1>2. ASSUME NEW b \in QueuedBatch, NEW q \in Quantities
        PROVE  SumFunction([i \in DOMAIN <<b>> |-> <<b>>[i].cost[q]]) = b.cost[q]
    <2> DEFINE f == [i \in DOMAIN <<b>> |-> <<b>>[i].cost[q]]
    <2>1. DOMAIN f = {1} /\ f[1] = b.cost[q] /\ f[1] \in Int
      BY DEF QueuedBatch, Amount
    <2>2. SumFunction(f) = b.cost[q]
      <3> HIDE DEF f
      <3>1. SumFunctionOnSet(f, {1}) = f[1]
        BY <2>1, SumSingleton
      <3> QED
        BY <2>1, <3>1 DEF SumFunction
    <2> QED
      BY <2>2
  <1>3. ASSUME NEW b \in QueuedBatch PROVE CostOf(<<b>>) = b.cost
    <2>1. b.cost = [q \in Quantities |-> b.cost[q]]
      BY DEF QueuedBatch, Amount
    <2> QED
      BY <1>2, <2>1 DEF CostOf
  <1> QED
    BY <1>1, <1>3 DEF CostOf, Zero

LEMMA AmountsAdd ==
  ASSUME NEW a \in Amount, NEW b \in Amount
  PROVE  /\ Plus(a, b) \in Amount /\ Minus(Plus(a, b), a) = b /\ Minus(Plus(a, b), b) = a
         /\ \A q \in Quantities : /\ Plus(a, b)[q] = a[q] + b[q] /\ Minus(a, b)[q] = a[q] - b[q]
                                  /\ a[q] \in Nat /\ b[q] \in Nat
  BY DEF Plus, Minus, Amount

LEMMA Cut ==
  ASSUME NEW S, NEW s \in Seq(S), NEW n \in 0 .. Len(s)
  PROVE  LET front == SubSeq(s, 1, n) rest == SubSeq(s, n + 1, Len(s)) IN
         /\ s = front \o rest /\ front \in Seq(S) /\ rest \in Seq(S)
         /\ Len(front) = n /\ Len(rest) = Len(s) - n
         /\ \A i \in 1 .. n : front[i] = s[i]
         /\ \A i \in 1 .. Len(s) - n : rest[i] = s[n + i]
  <1> DEFINE front == SubSeq(s, 1, n) rest == SubSeq(s, n + 1, Len(s))
  <1>1. front \in Seq(S) /\ Len(front) = n /\ \A i \in 1 .. n : front[i] = s[i]
    OBVIOUS
  <1>2. rest \in Seq(S) /\ Len(rest) = Len(s) - n /\ \A i \in 1 .. Len(s) - n : rest[i] = s[n + i]
    OBVIOUS
  <1> HIDE DEF front, rest
  <1>3. Len(front \o rest) = Len(s) /\ front \o rest \in Seq(S) /\ Len(s) \in Nat
    BY <1>1, <1>2
  <1>4. ASSUME NEW i \in 1 .. Len(s) PROVE (front \o rest)[i] = s[i]
    <2>1. (front \o rest)[i] = IF i <= n THEN front[i] ELSE rest[i - n]
      BY <1>1, <1>2, <1>3, ConcatProperties
    <2>2. CASE i <= n
      BY <1>1, <1>3, <2>1, <2>2
    <2>3. CASE ~(i <= n)
      <3>1. i - n \in 1 .. Len(s) - n /\ n + (i - n) = i
        BY <1>3, <2>3
      <3> QED
        BY <1>2, <2>1, <2>3, <3>1
    <2> QED
      BY <2>2, <2>3
  <1>5. s = front \o rest
    BY <1>3, <1>4, SeqEqual
  <1> QED
    BY <1>1, <1>2, <1>5 DEF front, rest

-----------------------------------------------------------------------------
(* What is done to the queue and its totals. *)

LEMMA QueuedOK ==
  ASSUME NEW packet \in Packets, NEW first \in Nat \ {0}
  PROVE  /\ Queued(packet, first) \in QueuedBatch
         /\ Queued(packet, first).cost =
                Cost(Queued(packet, first).works, Queued(packet, first).capacity,
                     Queued(packet, first).cost["wire"])
         /\ Queued(packet, first).first = first /\ Queued(packet, first).works = packet.works
  <1> DEFINE batch == Queued(packet, first)
  <1>1. packet.works \in Seq(Nat \ {0}) /\ packet.works \in Seq(Nat) /\ packet.capacity \in Nat
        /\ packet.wire \in Nat /\ packet.fragment \in BOOLEAN
    <2>1. packet \in Packet
      BY BridgeAssumption
    <2>2. packet.works \in Seq(Nat \ {0}) /\ packet.capacity \in Nat
          /\ packet.wire \in Nat /\ packet.fragment \in BOOLEAN
      BY <2>1 DEF Packet
    <2> QED
      BY <2>2
  <1>2. batch.cost = Cost(packet.works, packet.capacity, packet.wire) /\ batch.works = packet.works
        /\ batch.capacity = packet.capacity /\ batch.first = first
    BY DEF Queued
  <1>3. batch.cost \in Amount /\ batch.cost["wire"] = packet.wire
    BY <1>1, <1>2, CostTyped
  <1>4. batch \in QueuedBatch
    BY <1>1, <1>3 DEF Queued, QueuedBatch
  <1> HIDE DEF batch
  <1> QED
    BY <1>2, <1>3, <1>4 DEF batch

\* The n oldest batches leave.
LEMMA PricedDrop ==
  ASSUME NEW queue, NEW amounts, Priced(queue, amounts), NEW n \in 0 .. Len(queue)
  PROVE  LET left == Minus(amounts, CostOf(SubSeq(queue, 1, n))) IN
         /\ Priced(SubSeq(queue, n + 1, Len(queue)), left)
         /\ left = CostOf(SubSeq(queue, n + 1, Len(queue)))
         /\ left \in Amount
  <1> DEFINE front == SubSeq(queue, 1, n) rest == SubSeq(queue, n + 1, Len(queue))
             left == Minus(amounts, CostOf(front))
  <1>0. queue \in Seq(QueuedBatch) /\ Len(queue) \in Nat /\ DOMAIN queue = 1 .. Len(queue) /\ n \in Nat
    BY DEF Priced
  <1>1. /\ queue = front \o rest /\ front \in Seq(QueuedBatch) /\ rest \in Seq(QueuedBatch)
        /\ Len(rest) = Len(queue) - n
        /\ \A i \in 1 .. Len(queue) - n : rest[i] = queue[n + i]
    BY <1>0, Cut
  <1> HIDE DEF front, rest
  <1>2. amounts = Plus(CostOf(front), CostOf(rest))
    BY <1>1, CostOfConcat DEF Priced
  <1>3. CostOf(front) \in Amount /\ CostOf(rest) \in Amount
    BY <1>1, CostOfTyped
  <1>4. left = CostOf(rest) /\ \A q \in Quantities : CostOf(rest)[q] <= amounts[q]
    BY <1>2, <1>3, AmountsAdd
  <1>5. \A q \in Quantities : CostOf(rest)[q] <= Limit[q]
    <2>1. \A q \in Quantities : amounts[q] <= Limit[q] /\ Limit[q] \in Nat
      BY BridgeAssumption DEF Priced, Amount
    <2>2. \A q \in Quantities : amounts[q] \in Nat /\ CostOf(rest)[q] \in Nat
      <3>1. amounts \in Amount
        BY <1>2, <1>3, AmountsAdd
      <3> QED
        BY <1>3, <3>1 DEF Amount
    <2> QED
      BY <1>4, <2>1, <2>2
  <1>6. \A i \in DOMAIN rest : BatchOK(rest[i])
    <2>1. DOMAIN rest = 1 .. Len(queue) - n
      BY <1>1
    <2>2. \A i \in 1 .. Len(queue) - n : n + i \in DOMAIN queue
      BY <1>0
    <2> QED
      BY <1>1, <2>1, <2>2 DEF Priced
  <1>7. Len(rest) <= MaxQueuedBatches
    BY <1>0, <1>1, BridgeAssumption DEF Priced
  <1>8. Priced(rest, left)
    BY <1>1, <1>4, <1>5, <1>6, <1>7 DEF Priced
  <1> QED
    BY <1>3, <1>4, <1>8 DEF front, rest

\* A batch comes last.
LEMMA PricedAppend ==
  ASSUME NEW queue, NEW amounts, Priced(queue, amounts), NEW batch, BatchOK(batch),
         \A q \in Quantities : amounts[q] <= Limit[q] - batch.cost[q],
         Len(queue) < MaxQueuedBatches
  PROVE  Priced(Append(queue, batch), Plus(amounts, batch.cost))
  <1> DEFINE more == Append(queue, batch)
  <1>1. batch \in QueuedBatch /\ queue \in Seq(QueuedBatch) /\ <<batch>> \in Seq(QueuedBatch)
    BY DEF Priced, BatchOK
  <1>2. more = queue \o <<batch>> /\ more \in Seq(QueuedBatch) /\ Len(more) = Len(queue) + 1
        /\ Len(queue) \in Nat
    BY <1>1
  <1>3. CostOf(more) = Plus(amounts, batch.cost)
    BY <1>1, <1>2, CostOfConcat, CostOfFew DEF Priced
  <1>4. \A i \in DOMAIN more : BatchOK(more[i])
    BY <1>1 DEF Priced
  <1>5. \A q \in Quantities : Plus(amounts, batch.cost)[q] <= Limit[q]
    <2>1. amounts \in Amount /\ batch.cost \in Amount /\ Limit \in Amount
      BY <1>1, CostOfTyped, BridgeAssumption DEF Priced, QueuedBatch
    <2>2. \A q \in Quantities : Plus(amounts, batch.cost)[q] = amounts[q] + batch.cost[q]
                                /\ amounts[q] \in Nat /\ batch.cost[q] \in Nat /\ Limit[q] \in Nat
      BY <2>1, AmountsAdd DEF Amount
    <2> QED
      BY <2>2
  <1>6. Len(more) <= MaxQueuedBatches
    BY <1>2, BridgeAssumption
  <1> HIDE DEF more
  <1>7. Priced(more, Plus(amounts, batch.cost))
    BY <1>2, <1>3, <1>4, <1>5, <1>6 DEF Priced
  <1> QED
    BY <1>7 DEF more

\* What is left of a batch costs no more than the batch.
LEMMA WithoutFirstOK ==
  ASSUME NEW batch, BatchOK(batch), NEW n \in 0 .. Len(batch.works)
  PROVE  LET front == WithoutFirst(batch, n) IN
         /\ BatchOK(front)
         /\ front.first = batch.first + n /\ Len(front.works) = Len(batch.works) - n
         /\ \A q \in Quantities : front.cost[q] <= batch.cost[q]
  <1> DEFINE works == batch.works rest == SubSeq(works, n + 1, Len(works))
             cost == Cost(rest, batch.capacity, batch.cost["wire"])
             front == WithoutFirst(batch, n) first == batch.first + n
  <1>1. /\ works \in Seq(Nat \ {0}) /\ batch.capacity \in Nat /\ batch.cost \in Amount
        /\ batch.cost["wire"] \in Nat /\ batch.first \in Nat \ {0}
    BY DEF BatchOK, QueuedBatch, Amount, Quantities
  <1>2. works \in Seq(Nat)
    BY <1>1
  <1>3. rest \in Seq(Nat \ {0}) /\ Len(rest) = Len(works) - n /\ n \in Nat /\ Len(works) \in Nat
    <2>1. works \in Seq(Nat \ {0}) /\ n \in 0 .. Len(works)
      BY <1>1
    <2> HIDE DEF works
    <2> QED
      BY <2>1
  <1>4. rest \in Seq(Nat) /\ SumFunction(rest) <= SumFunction(works) /\ SumFunction(works) \in Nat
    <2> HIDE DEF works
    <2> QED
      BY <1>2, SumWorks DEF works
  <1> HIDE DEF rest, works
  <1>5. /\ cost \in Amount /\ cost["commands"] = Len(rest) /\ cost["work"] = SumFunction(rest)
        /\ cost["wire"] = batch.cost["wire"]
        /\ cost["memory"] = BatchBytes + batch.capacity * CommandBytes + batch.cost["wire"]
    BY <1>1, <1>4, CostTyped
  <1>6. /\ batch.cost["commands"] = Len(works) /\ batch.cost["work"] = SumFunction(works)
        /\ batch.cost["memory"] = BatchBytes + batch.capacity * CommandBytes + batch.cost["wire"]
    <2>1. batch.cost = Cost(works, batch.capacity, batch.cost["wire"])
      BY DEF BatchOK, works
    <2> QED
      BY <1>1, <1>2, <2>1, CostTyped
  <1>7. \A q \in Quantities : cost[q] <= batch.cost[q]
    <2>1. cost["commands"] <= batch.cost["commands"]
      BY <1>3, <1>5, <1>6
    <2>2. cost["work"] <= batch.cost["work"]
      BY <1>4, <1>5, <1>6
    <2>3. cost["wire"] <= batch.cost["wire"] /\ cost["memory"] <= batch.cost["memory"]
      <3>1. batch.cost["memory"] \in Nat
        BY <1>1 DEF Amount, Quantities
      <3> QED
        BY <1>1, <1>5, <1>6, <3>1
    <2> HIDE DEF cost
    <2> QED
      BY <2>1, <2>2, <2>3 DEF Quantities
  <1>8. front = [batch EXCEPT !.first = first, !.works = rest, !.cost = cost]
    BY DEF WithoutFirst, rest, works
  <1>9. first \in Nat \ {0}
    BY <1>1, <1>3
  <1> HIDE DEF cost, front, first
  <1>10. front \in QueuedBatch
    BY <1>3, <1>5, <1>8, <1>9 DEF BatchOK, QueuedBatch
  <1>11. front.first = first /\ front.works = rest /\ front.cost = cost /\ front.capacity = batch.capacity
    BY <1>8 DEF BatchOK, QueuedBatch
  <1>12. front.cost = Cost(front.works, front.capacity, front.cost["wire"])
    BY <1>5, <1>11 DEF cost
  <1>13. front.cost["work"] <= MaxAtomicWork
    <2>1. front.cost["work"] <= batch.cost["work"] /\ batch.cost["work"] <= MaxAtomicWork
      BY <1>7, <1>11 DEF BatchOK, Quantities
    <2>2. front.cost["work"] \in Nat /\ batch.cost["work"] \in Nat /\ MaxAtomicWork \in Nat
      BY <1>1, <1>5, <1>11, BridgeAssumption DEF Amount, Quantities
    <2> QED
      BY <2>1, <2>2
  <1>14. BatchOK(front)
    BY <1>10, <1>12, <1>13 DEF BatchOK
  <1> QED
    BY <1>3, <1>7, <1>11, <1>14 DEF front, first, works

\* The first batch is replaced by what is left of it.
LEMMA PricedFront ==
  ASSUME NEW queue, NEW amounts, Priced(queue, amounts), queue # <<>>,
         NEW front, BatchOK(front), \A q \in Quantities : front.cost[q] <= Head(queue).cost[q]
  PROVE  Priced(<<front>> \o Tail(queue), Plus(Minus(amounts, Head(queue).cost), front.cost))
  <1> DEFINE head == Head(queue) tail == Tail(queue) new == <<front>> \o tail
  <1>1. /\ queue \in Seq(QueuedBatch) /\ head \in QueuedBatch /\ tail \in Seq(QueuedBatch)
        /\ queue = <<head>> \o tail /\ Len(queue) = Len(tail) + 1 /\ front \in QueuedBatch
        /\ \A i \in DOMAIN tail : i + 1 \in DOMAIN queue /\ tail[i] = queue[i + 1]
    <2>1. queue \in Seq(QueuedBatch) /\ front \in QueuedBatch
      BY DEF Priced, BatchOK
    <2> QED
      BY <2>1
  <1> HIDE DEF head, tail
  <1>2. /\ new \in Seq(QueuedBatch) /\ Len(new) = Len(queue)
        /\ \A i \in DOMAIN new : new[i] = IF i = 1 THEN front ELSE tail[i - 1]
        /\ \A i \in DOMAIN new : i # 1 => i - 1 \in DOMAIN tail
        /\ new = <<front>> \o tail
    BY <1>1
  <1> HIDE DEF new
  <1>3. CostOf(queue) = Plus(head.cost, CostOf(tail)) /\ CostOf(new) = Plus(front.cost, CostOf(tail))
    <2>1. <<head>> \in Seq(QueuedBatch) /\ <<front>> \in Seq(QueuedBatch)
      BY <1>1
    <2>2. CostOf(<<head>>) = head.cost /\ CostOf(<<front>>) = front.cost
      BY <1>1, CostOfFew
    <2> QED
      BY <1>1, <1>2, <2>1, <2>2, CostOfConcat
  <1>4. head.cost \in Amount /\ front.cost \in Amount /\ CostOf(tail) \in Amount /\ amounts = CostOf(queue)
    BY <1>1, CostOfTyped DEF QueuedBatch, Priced
  <1>5. Plus(Minus(amounts, head.cost), front.cost) = CostOf(new)
    <2>1. Minus(amounts, head.cost) = CostOf(tail)
      BY <1>3, <1>4, AmountsAdd
    <2>2. Plus(CostOf(tail), front.cost) = Plus(front.cost, CostOf(tail))
      BY <1>4 DEF Plus, Amount
    <2> QED
      BY <1>3, <2>1, <2>2
  <1>6. \A q \in Quantities : CostOf(new)[q] <= Limit[q]
    <2> TAKE q \in Quantities
    <2>1. CostOf(new)[q] = front.cost[q] + CostOf(tail)[q] /\ amounts[q] = head.cost[q] + CostOf(tail)[q]
      BY <1>3, <1>4 DEF Plus
    <2>2. front.cost[q] <= head.cost[q] /\ amounts[q] <= Limit[q]
      BY DEF Priced, head
    <2>3. front.cost[q] \in Nat /\ head.cost[q] \in Nat /\ CostOf(tail)[q] \in Nat /\ Limit[q] \in Nat
      BY <1>4, BridgeAssumption DEF Amount
    <2> QED
      BY <2>1, <2>2, <2>3
  <1>7. \A i \in DOMAIN new : BatchOK(new[i])
    BY <1>1, <1>2 DEF Priced
  <1>8. Priced(new, CostOf(new))
    BY <1>2, <1>6, <1>7 DEF Priced
  <1> QED
    BY <1>5, <1>8 DEF new, tail, head

-----------------------------------------------------------------------------
(* The order of the stamps. *)

\* Later stamps after earlier ones.
LEMMA IncreasingConcat ==
  ASSUME NEW s \in Seq(Nat), Increasing(s), NEW t \in Seq(Nat), Increasing(t),
         \A i \in DOMAIN s, j \in DOMAIN t : s[i] < t[j]
  PROVE  /\ s \o t \in Seq(Nat) /\ Increasing(s \o t)
         /\ \A k \in DOMAIN (s \o t) : \/ \E i \in DOMAIN s : (s \o t)[k] = s[i]
                                       \/ \E j \in DOMAIN t : (s \o t)[k] = t[j]
  <1> DEFINE u == s \o t n == Len(s)
  <1>1. /\ u \in Seq(Nat) /\ n \in Nat /\ Len(t) \in Nat /\ Len(u) = n + Len(t)
        /\ DOMAIN s = 1 .. n /\ DOMAIN t = 1 .. Len(t) /\ DOMAIN u = 1 .. n + Len(t)
        /\ \A i \in 1 .. n + Len(t) : u[i] = IF i <= n THEN s[i] ELSE t[i - n]
    BY ConcatProperties
  <1> HIDE DEF u, n
  <1>2. \A k \in DOMAIN u : /\ k \in DOMAIN s => u[k] = s[k]
                            /\ k \notin DOMAIN s => k - n \in DOMAIN t /\ u[k] = t[k - n]
    BY <1>1
  <1>3. ASSUME NEW i \in DOMAIN u, NEW j \in DOMAIN u, i < j PROVE u[i] < u[j]
    <2>1. CASE j \in DOMAIN s
      <3>1. i \in DOMAIN s
        BY <1>1, <1>3, <2>1
      <3> QED
        BY <1>2, <1>3, <2>1, <3>1 DEF Increasing
    <2>2. CASE i \in DOMAIN s /\ j \notin DOMAIN s
      BY <1>2, <2>2
    <2>3. CASE i \notin DOMAIN s /\ j \notin DOMAIN s
      <3>1. /\ i - n \in DOMAIN t /\ u[i] = t[i - n] /\ j - n \in DOMAIN t /\ u[j] = t[j - n]
            /\ i \in Int /\ j \in Int
        BY <1>1, <1>2, <2>3
      <3>2. i - n < j - n
        BY <1>1, <1>3, <3>1
      <3> QED
        BY <3>1, <3>2 DEF Increasing
    <2>4. CASE i \notin DOMAIN s /\ j \in DOMAIN s
      BY <1>1, <1>3, <2>4
    <2> QED
      BY <2>1, <2>2, <2>3, <2>4
  <1>4. Increasing(u)
    BY <1>3 DEF Increasing
  <1>5. \A k \in DOMAIN u : (\E i \in DOMAIN s : u[k] = s[i]) \/ \E j \in DOMAIN t : u[k] = t[j]
    BY <1>2
  <1> QED
    BY <1>1, <1>4, <1>5 DEF u

\* The stamps of a batch.
Within(stamp, batch) == batch.first <= stamp /\ stamp < End(batch)

LEMMA StampsOrdered ==
  ASSUME NEW batch \in QueuedBatch
  PROVE  /\ Stamps(batch) \in Seq(Nat) /\ Increasing(Stamps(batch))
         /\ Len(Stamps(batch)) = Len(batch.works)
         /\ \A k \in DOMAIN Stamps(batch) : /\ Within(Stamps(batch)[k], batch)
                                            /\ Stamps(batch)[k] = batch.first + k - 1
         /\ batch.first \in Nat /\ End(batch) \in Nat /\ batch.first <= End(batch)
  <1> DEFINE n == Len(batch.works) s == Stamps(batch) first == batch.first
  <1>1. batch.works \in Seq(Nat \ {0}) /\ first \in Nat /\ first > 0
    BY DEF QueuedBatch
  <1>2. n \in Nat /\ DOMAIN batch.works = 1 .. n
    BY <1>1
  <1>3. s = [i \in 1 .. n |-> first + i - 1]
    BY <1>2 DEF Stamps
  <1> HIDE DEF n, s, first
  <1>4. \A i \in 1 .. n : first + i - 1 \in Nat
    BY <1>1, <1>2
  <1>5. s \in Seq(Nat) /\ Len(s) = n /\ DOMAIN s = 1 .. n /\ \A i \in 1 .. n : s[i] = first + i - 1
    BY <1>2, <1>3, <1>4
  <1>6. Increasing(s)
    BY <1>1, <1>2, <1>5 DEF Increasing
  <1>7. End(batch) = first + n
    BY DEF End, first, n
  <1>8. \A k \in DOMAIN s : Within(s[k], batch)
    BY <1>1, <1>2, <1>5, <1>7 DEF Within, first
  <1> QED
    BY <1>1, <1>2, <1>5, <1>6, <1>7, <1>8 DEF s, n, first

\* Batches that follow each other.
Rowed(batches) ==
    /\ batches \in Seq(QueuedBatch)
    /\ \A i, j \in DOMAIN batches : i < j => End(batches[i]) <= batches[j].first

\* The stamps of the first n batches.
Ordered(s, batches, n) ==
    /\ s \in Seq(Nat) /\ Increasing(s)
    /\ \A k \in DOMAIN s : \E i \in 1 .. n : Within(s[k], batches[i])

LEMMA StampsOfOrdered ==
  ASSUME NEW batches, Rowed(batches)
  PROVE  Ordered(StampsOf(batches), batches, Len(batches))
  <1> DEFINE n == Len(batches) seqs == [i \in DOMAIN batches |-> Stamps(batches[i])]
             it == CHOOSE g : Flattening(g, seqs)
  <1>1. n \in Nat /\ DOMAIN batches = 1 .. n /\ \A i \in 1 .. n : batches[i] \in QueuedBatch
    BY DEF Rowed
  <1>2. seqs \in Seq(Seq(Nat)) /\ Len(seqs) = n /\ \A i \in 1 .. n : seqs[i] = Stamps(batches[i])
    <2>1. \A i \in 1 .. n : Stamps(batches[i]) \in Seq(Nat)
      BY <1>1, StampsOrdered
    <2> QED
      BY <1>1, <2>1
  <1>3. StampsOf(batches) = IF n = 0 THEN seqs ELSE it[n]
    <2>1. StampsOf(batches) = FlattenSeq(seqs)
      BY DEF StampsOf
    <2> HIDE DEF seqs
    <2>2. FlattenSeq(seqs) = IF Len(seqs) = 0 THEN seqs ELSE it[Len(seqs)]
      BY DEF FlattenSeq, Flattening
    <2> QED
      BY <1>2, <2>1, <2>2
  <1> HIDE DEF seqs
  <1>4. Flattening(it, seqs)
    BY <1>1, <1>2, FlatteningExists
  <1> HIDE DEF it
  <1>5. \A i \in 1 .. n : it[i] = IF i = 1 THEN seqs[i] ELSE it[i - 1] \o seqs[i]
    BY <1>2, <1>4 DEF Flattening
  <1> DEFINE Bad == {m \in 1 .. n : ~ Ordered(it[m], batches, m)}
  <1>6. Bad = {}
    <2>1. SUFFICES ASSUME Bad # {} PROVE FALSE
      OBVIOUS
    <2>2. PICK m \in Bad : \A k \in Bad : m <= k
      <3>1. Bad \in SUBSET Nat
        BY <1>1
      <3> HIDE DEF Bad
      <3> QED
        BY <2>1, <3>1, LeastNatural
    <2>3. m \in 1 .. n /\ m \in Nat /\ batches[m] \in QueuedBatch /\ seqs[m] = Stamps(batches[m])
      BY <1>1, <1>2, <2>2
    <2>4. /\ seqs[m] \in Seq(Nat) /\ Increasing(seqs[m])
          /\ \A k \in DOMAIN seqs[m] : Within(seqs[m][k], batches[m])
      BY <2>3, StampsOrdered
    <2>5. CASE m = 1
      <3>1. it[m] = seqs[m] /\ m \in 1 .. m
        BY <1>5, <2>3, <2>5
      <3>2. \A k \in DOMAIN it[m] : \E i \in 1 .. m : Within(it[m][k], batches[i])
        BY <2>4, <3>1
      <3>3. Ordered(it[m], batches, m)
        BY <2>4, <3>1, <3>2 DEF Ordered
      <3> QED
        BY <2>2, <3>3
    <2>6. CASE m # 1
      <3>1. m - 1 \in 1 .. n /\ it[m] = it[m - 1] \o seqs[m]
        <4> HIDE DEF n
        <4>1. n \in Nat
          BY <1>1
        <4>2. m - 1 \in 1 .. n
          BY <2>3, <2>6, <4>1
        <4>3. it[m] = it[m - 1] \o seqs[m]
          BY <1>5, <2>3, <2>6
        <4> QED
          BY <4>2, <4>3
      <3>2. Ordered(it[m - 1], batches, m - 1)
        <4>1. m - 1 \notin Bad
          <5>1. ~ (m <= m - 1)
            BY <2>3
          <5> HIDE DEF Bad
          <5> QED
            BY <2>2, <5>1
        <4> QED
          BY <3>1, <4>1
      <3> DEFINE s == it[m - 1] t == seqs[m]
      <3> HIDE DEF s, t
      <3>3. s \in Seq(Nat) /\ Increasing(s) /\ \A k \in DOMAIN s : \E i \in 1 .. m - 1 : Within(s[k], batches[i])
        BY <3>2 DEF Ordered, s
      <3>4. t \in Seq(Nat) /\ Increasing(t) /\ \A k \in DOMAIN t : Within(t[k], batches[m])
        BY <2>4 DEF t
      <3>5. ASSUME NEW k \in DOMAIN s, NEW j \in DOMAIN t PROVE s[k] < t[j]
        <4>1. PICK i \in 1 .. m - 1 : Within(s[k], batches[i])
          BY <3>3
        <4>2. i \in DOMAIN batches /\ m \in DOMAIN batches /\ i < m
          BY <1>1, <2>3
        <4>3. End(batches[i]) <= batches[m].first
          BY <4>2 DEF Rowed
        <4>4. batches[i].first \in Nat /\ End(batches[i]) \in Nat /\ batches[m].first \in Nat
          BY <1>1, <2>3, <4>2, StampsOrdered
        <4>5. s[k] \in Nat /\ t[j] \in Nat
          BY <3>3, <3>4
        <4>6. s[k] < End(batches[i]) /\ batches[m].first <= t[j]
          BY <3>4, <4>1 DEF Within
        <4> QED
          BY <4>3, <4>4, <4>5, <4>6
      <3>6. /\ s \o t \in Seq(Nat) /\ Increasing(s \o t)
            /\ \A k \in DOMAIN (s \o t) : \/ \E i \in DOMAIN s : (s \o t)[k] = s[i]
                                          \/ \E j \in DOMAIN t : (s \o t)[k] = t[j]
        BY <3>3, <3>4, <3>5, IncreasingConcat
      <3>7. ASSUME NEW k \in DOMAIN (s \o t) PROVE \E i \in 1 .. m : Within((s \o t)[k], batches[i])
        <4>1. CASE \E i \in DOMAIN s : (s \o t)[k] = s[i]
          <5>1. PICK i \in 1 .. m - 1 : Within((s \o t)[k], batches[i])
            BY <3>3, <4>1
          <5> QED
            BY <2>3, <5>1
        <4>2. CASE \E j \in DOMAIN t : (s \o t)[k] = t[j]
          <5>1. Within((s \o t)[k], batches[m]) /\ m \in 1 .. m
            BY <2>3, <3>4, <4>2
          <5> QED
            BY <5>1
        <4> QED
          BY <3>6, <4>1, <4>2
      <3>8. Ordered(s \o t, batches, m)
        BY <3>6, <3>7 DEF Ordered
      <3> QED
        BY <2>2, <3>1, <3>8 DEF s, t
    <2> QED
      BY <2>5, <2>6
  <1>7. CASE n = 0
    <2>1. seqs \in Seq(Nat) /\ DOMAIN seqs = {}
      BY <1>2, <1>7
    <2> QED
      BY <1>3, <1>7, <2>1 DEF Ordered, Increasing
  <1>8. CASE n # 0
    <2>1. n \in 1 .. n
      BY <1>1, <1>8
    <2>2. Ordered(it[n], batches, n)
      BY <1>6, <2>1
    <2> QED
      BY <1>3, <1>8, <2>2
  <1> QED
    BY <1>7, <1>8

-----------------------------------------------------------------------------
(* What is done to the order. *)

LEMMA LineTyped ==
  ASSUME NEW queue \in Seq(QueuedBatch), NEW out, NEW next, Lined(queue, out, next)
  PROVE  /\ out \in Seq(Nat) /\ next \in Nat
         /\ \A k \in DOMAIN out : out[k] \in Nat
         /\ \A i \in DOMAIN queue : /\ queue[i] \in QueuedBatch
                                    /\ queue[i].first \in Nat /\ End(queue[i]) \in Nat
                                    /\ queue[i].first <= End(queue[i])
  <1>1. out \in Seq(Nat) /\ next \in Nat
    BY DEF Lined
  <1>2. \A i \in DOMAIN queue : queue[i] \in QueuedBatch
    OBVIOUS
  <1> QED
    BY <1>1, <1>2, StampsOrdered

LEMMA LineMore ==
  ASSUME NEW queue \in Seq(QueuedBatch), NEW out, NEW next, Lined(queue, out, next),
         NEW more \in Seq(Nat), Increasing(more),
         \A k \in DOMAIN more : /\ more[k] < next
                                /\ \A i \in DOMAIN queue : more[k] < queue[i].first
                                /\ \A j \in DOMAIN out : out[j] < more[k]
  PROVE  Lined(queue, out \o more, next)
  <1>1. out \in Seq(Nat) /\ Increasing(out)
    BY DEF Lined
  <1> DEFINE both == out \o more
  <1>2. /\ both \in Seq(Nat) /\ Increasing(both)
        /\ \A k \in DOMAIN both : \/ \E i \in DOMAIN out : both[k] = out[i]
                                  \/ \E j \in DOMAIN more : both[k] = more[j]
    BY <1>1, IncreasingConcat
  <1> HIDE DEF both
  <1>3. \A k \in DOMAIN both : both[k] < next /\ \A i \in DOMAIN queue : both[k] < queue[i].first
    BY <1>2 DEF Lined
  <1>4. Lined(queue, both, next)
    BY <1>2, <1>3 DEF Lined
  <1> QED
    BY <1>4 DEF both

\* The n oldest batches leave, uncounted or to the caller.
LEMMA LineDrop ==
  ASSUME NEW queue \in Seq(QueuedBatch), NEW out, NEW next, Lined(queue, out, next),
         NEW n \in 0 .. Len(queue)
  PROVE  LET front == SubSeq(queue, 1, n) rest == SubSeq(queue, n + 1, Len(queue)) IN
         /\ Lined(rest, out, next)
         /\ Lined(rest, out \o StampsOf(front), next)
  <1> DEFINE front == SubSeq(queue, 1, n) rest == SubSeq(queue, n + 1, Len(queue))
  <1>1. /\ front \in Seq(QueuedBatch) /\ rest \in Seq(QueuedBatch)
        /\ Len(front) = n /\ Len(rest) = Len(queue) - n
        /\ \A i \in 1 .. n : front[i] = queue[i]
        /\ \A i \in 1 .. Len(queue) - n : rest[i] = queue[n + i]
    BY Cut
  <1>2. n \in Nat /\ Len(queue) \in Nat /\ DOMAIN queue = 1 .. Len(queue)
    OBVIOUS
  <1> HIDE DEF front, rest
  <1>3. DOMAIN front = 1 .. n /\ DOMAIN rest = 1 .. Len(queue) - n
    BY <1>1
  <1>4. \A i \in DOMAIN front : front[i] = queue[i] /\ i \in DOMAIN queue
    BY <1>1, <1>2, <1>3
  <1>5. \A i \in DOMAIN rest : rest[i] = queue[n + i] /\ n + i \in DOMAIN queue
    BY <1>1, <1>2, <1>3
  <1>6. Lined(rest, out, next)
    <2>1. \A i, j \in DOMAIN rest : i < j => n + i < n + j
      BY <1>2, <1>3
    <2> QED
      BY <1>5, <2>1 DEF Lined
  <1>7. Rowed(front)
    BY <1>1, <1>4 DEF Rowed, Lined
  <1> DEFINE more == StampsOf(front)
  <1>8. /\ more \in Seq(Nat) /\ Increasing(more)
        /\ \A k \in DOMAIN more : \E i \in 1 .. n : Within(more[k], front[i])
    BY <1>1, <1>7, StampsOfOrdered DEF Ordered
  <1> HIDE DEF more
  <1>9. ASSUME NEW k \in DOMAIN more
        PROVE  /\ more[k] < next
               /\ \A i \in DOMAIN rest : more[k] < rest[i].first
               /\ \A j \in DOMAIN out : out[j] < more[k]
    <2>1. PICK i \in 1 .. n : Within(more[k], front[i])
      BY <1>8
    <2>2. i \in DOMAIN queue /\ front[i] = queue[i] /\ more[k] \in Nat
      <3>1. more[k] \in Nat
        BY <1>8
      <3>2. i \in DOMAIN front
        BY <1>3
      <3> QED
        BY <1>4, <3>1, <3>2
    <2>3. queue[i].first <= more[k] /\ more[k] < End(queue[i])
      BY <2>1, <2>2 DEF Within
    <2>4. /\ queue[i].first \in Nat /\ End(queue[i]) \in Nat /\ next \in Nat
          /\ \A j \in DOMAIN out : out[j] \in Nat
          /\ \A j \in DOMAIN queue : queue[j].first \in Nat
      BY <2>2, LineTyped
    <2>5. /\ End(queue[i]) <= next
          /\ \A j \in DOMAIN queue : i < j => End(queue[i]) <= queue[j].first
          /\ \A j \in DOMAIN out : out[j] < queue[i].first
      BY <2>2 DEF Lined
    <2>6. more[k] < next /\ \A j \in DOMAIN out : out[j] < more[k]
      BY <2>2, <2>3, <2>4, <2>5
    <2>7. ASSUME NEW j \in DOMAIN rest PROVE more[k] < rest[j].first
      <3>1. n + j \in DOMAIN queue /\ rest[j] = queue[n + j] /\ i < n + j
        BY <1>2, <1>3, <1>5
      <3> QED
        BY <2>2, <2>3, <2>4, <2>5, <3>1
    <2> QED
      BY <2>6, <2>7
  <1>10. Lined(rest, out \o more, next)
    BY <1>1, <1>6, <1>8, <1>9, LineMore
  <1> QED
    BY <1>6, <1>10 DEF front, rest, more

\* A part of the first batch leaves.
LEMMA LineSplit ==
  ASSUME NEW queue \in Seq(QueuedBatch), NEW out, NEW next, Lined(queue, out, next),
         queue # <<>>, NEW n \in 0 .. Len(Head(queue).works),
         NEW front \in QueuedBatch, front.first = Head(queue).first + n,
         Len(front.works) = Len(Head(queue).works) - n
  PROVE  Lined(<<front>> \o Tail(queue), out \o SubSeq(Stamps(Head(queue)), 1, n), next)
  <1> DEFINE head == Head(queue) tail == Tail(queue) new == <<front>> \o tail
             all == Stamps(head) more == SubSeq(all, 1, n)
  <1>1. /\ head \in QueuedBatch /\ tail \in Seq(QueuedBatch) /\ head = queue[1] /\ 1 \in DOMAIN queue
        /\ \A i \in DOMAIN tail : i + 1 \in DOMAIN queue /\ tail[i] = queue[i + 1]
    OBVIOUS
  <1>2. head.works \in Seq(Nat \ {0}) /\ head.first \in Nat /\ n \in Nat /\ Len(head.works) \in Nat
        /\ n <= Len(head.works)
    <2>1. head.works \in Seq(Nat \ {0}) /\ head.first \in Nat
      BY <1>1 DEF QueuedBatch
    <2> QED
      BY <2>1
  <1>3. End(front) = End(head)
    BY <1>2 DEF End
  <1>4. /\ all \in Seq(Nat) /\ Increasing(all) /\ Len(all) = Len(head.works)
        /\ \A k \in DOMAIN all : all[k] = head.first + k - 1
    BY <1>1, StampsOrdered
  <1> HIDE DEF all
  <1>5. /\ more \in Seq(Nat) /\ DOMAIN more = 1 .. n
        /\ \A k \in 1 .. n : more[k] = head.first + k - 1
    <2>1. n \in 0 .. Len(all)
      BY <1>2, <1>4
    <2>2. more \in Seq(Nat) /\ Len(more) = n /\ \A k \in 1 .. n : more[k] = all[k]
      BY <1>4, <2>1, Cut
    <2>3. \A k \in 1 .. n : k \in DOMAIN all
      BY <1>4, <2>1
    <2> QED
      BY <1>4, <2>2, <2>3
  <1>6. Increasing(more)
    <2> HIDE DEF more, head
    <2>1. ASSUME NEW i \in DOMAIN more, NEW j \in DOMAIN more, i < j PROVE more[i] < more[j]
      <3>1. i \in 1 .. n /\ j \in 1 .. n
        BY <1>5
      <3>2. more[i] = head.first + i - 1 /\ more[j] = head.first + j - 1
        BY <1>5, <3>1
      <3> QED
        BY <1>2, <2>1, <3>1, <3>2
    <2> QED
      BY <2>1 DEF Increasing
  <1>7. /\ new \in Seq(QueuedBatch) /\ 1 \in DOMAIN new /\ new[1] = front
        /\ \A i \in DOMAIN new : i \in Nat
        /\ \A i \in DOMAIN new : i # 1 => /\ i \in DOMAIN queue /\ new[i] = queue[i] /\ 1 < i
    <2>1. \A i \in DOMAIN new : i # 1 => new[i] = tail[i - 1] /\ i - 1 \in DOMAIN tail
      BY <1>1
    <2>2. \A i \in DOMAIN new : i \in Nat /\ (i # 1 => 1 < i /\ (i - 1) + 1 = i)
      BY <1>1
    <2>3. new \in Seq(QueuedBatch) /\ 1 \in DOMAIN new /\ new[1] = front
      BY <1>1
    <2> HIDE DEF new, tail, head
    <2> QED
      BY <1>1, <2>1, <2>2, <2>3
  <1> HIDE DEF more, new, tail, head
  <1>8. front.first \in Nat /\ head.first <= front.first
    BY <1>2 DEF head
  <1>9. /\ \A j \in DOMAIN queue : queue[j].first \in Nat /\ End(queue[j]) \in Nat
        /\ \A k \in DOMAIN out : out[k] \in Nat
        /\ next \in Nat
    BY LineTyped
  <1>10. /\ End(head) <= next
         /\ \A j \in DOMAIN queue : 1 < j => End(head) <= queue[j].first
         /\ \A k \in DOMAIN out : out[k] < head.first
    BY <1>1 DEF Lined
  <1>11. Lined(new, out, next)
    <2>1. ASSUME NEW i \in DOMAIN new
          PROVE  /\ End(new[i]) <= next
                 /\ \A j \in DOMAIN new : i < j => End(new[i]) <= new[j].first
      <3>1. CASE i = 1
        <4>1. End(new[i]) = End(head)
          BY <1>3, <1>7, <3>1
        <4> QED
          BY <1>7, <1>10, <3>1, <4>1
      <3>2. CASE i # 1
        <4>1. i \in DOMAIN queue /\ new[i] = queue[i] /\ 1 < i
          BY <1>7, <3>2
        <4>2. \A j \in DOMAIN new : i < j => j \in DOMAIN queue /\ new[j] = queue[j]
          BY <1>7, <4>1
        <4> QED
          BY <4>1, <4>2 DEF Lined
      <3> QED
        BY <3>1, <3>2
    <2>2. ASSUME NEW k \in DOMAIN out
          PROVE  out[k] < next /\ \A i \in DOMAIN new : out[k] < new[i].first
      <3>1. out[k] < next /\ \A i \in DOMAIN queue : out[k] < queue[i].first
        BY DEF Lined
      <3>2. out[k] < front.first
        BY <1>2, <1>8, <1>9, <1>10
      <3> QED
        BY <1>7, <3>1, <3>2
    <2>3. out \in Seq(Nat) /\ Increasing(out) /\ next \in Nat \ {0}
      BY DEF Lined
    <2> QED
      BY <2>1, <2>2, <2>3 DEF Lined
  <1>12. ASSUME NEW k \in DOMAIN more
         PROVE  /\ more[k] < next
                /\ \A i \in DOMAIN new : more[k] < new[i].first
                /\ \A j \in DOMAIN out : out[j] < more[k]
    <2>1. k \in Nat /\ 1 <= k /\ k <= n /\ more[k] = head.first + k - 1
      BY <1>2, <1>5
    <2>2. head.first <= more[k] /\ more[k] < front.first /\ more[k] \in Nat
      BY <1>2, <2>1 DEF head
    <2>3. more[k] < End(head) /\ End(head) \in Nat
      BY <1>2, <2>1 DEF End
    <2>4. more[k] < next /\ \A j \in DOMAIN out : out[j] < more[k]
      BY <1>2, <1>9, <1>10, <2>2, <2>3
    <2>5. ASSUME NEW i \in DOMAIN new PROVE more[k] < new[i].first
      <3>1. CASE i = 1
        BY <1>7, <2>2, <3>1
      <3>2. CASE i # 1
        BY <1>7, <1>9, <1>10, <2>2, <2>3, <3>2
      <3> QED
        BY <3>1, <3>2
    <2> QED
      BY <2>4, <2>5
  <1>13. Lined(new, out \o more, next)
    BY <1>5, <1>6, <1>7, <1>11, <1>12, LineMore
  <1> QED
    BY <1>13 DEF new, more, all, head, tail

\* A batch comes last.
LEMMA LineAppend ==
  ASSUME NEW queue \in Seq(QueuedBatch), NEW out, NEW next, Lined(queue, out, next),
         NEW batch \in QueuedBatch, batch.first = next
  PROVE  Lined(Append(queue, batch), out, next + Len(batch.works))
  <1> DEFINE new == Append(queue, batch) n == Len(queue) later == next + Len(batch.works)
  <1>1. /\ n \in Nat /\ DOMAIN queue = 1 .. n /\ DOMAIN new = 1 .. n + 1 /\ new[n + 1] = batch
        /\ \A i \in 1 .. n : new[i] = queue[i]
    OBVIOUS
  <1>2. next \in Nat \ {0} /\ Len(batch.works) \in Nat
    BY DEF Lined, QueuedBatch
  <1>3. later \in Nat \ {0} /\ next <= later /\ End(batch) = later
    BY <1>2 DEF End
  <1> HIDE DEF new, n, later
  <1>4. /\ \A j \in DOMAIN queue : queue[j].first \in Nat /\ End(queue[j]) \in Nat
        /\ \A k \in DOMAIN out : out[k] \in Nat
    BY LineTyped
  <1>5. ASSUME NEW i \in DOMAIN new
        PROVE  /\ End(new[i]) <= later
               /\ \A j \in DOMAIN new : i < j => End(new[i]) <= new[j].first
    <2>1. CASE i = n + 1
      <3>1. End(new[i]) = later /\ \A j \in DOMAIN new : ~ (i < j)
        BY <1>1, <1>3, <2>1
      <3> QED
        BY <1>3, <3>1
    <2>2. CASE i # n + 1
      <3>1. i \in DOMAIN queue /\ new[i] = queue[i]
        BY <1>1, <2>2
      <3>2. End(queue[i]) <= next /\ \A j \in DOMAIN queue : i < j => End(queue[i]) <= queue[j].first
        BY <3>1 DEF Lined
      <3>3. End(new[i]) <= later
        BY <1>2, <1>3, <1>4, <3>1, <3>2
      <3>4. ASSUME NEW j \in DOMAIN new, i < j PROVE End(new[i]) <= new[j].first
        <4>1. CASE j = n + 1
          BY <1>1, <3>1, <3>2, <4>1
        <4>2. CASE j # n + 1
          <5>1. j \in DOMAIN queue /\ new[j] = queue[j]
            BY <1>1, <4>2
          <5> QED
            BY <3>1, <3>2, <3>4, <5>1
        <4> QED
          BY <4>1, <4>2
      <3> QED
        BY <3>3, <3>4
    <2> QED
      BY <2>1, <2>2
  <1>6. ASSUME NEW k \in DOMAIN out
        PROVE  out[k] < later /\ \A i \in DOMAIN new : out[k] < new[i].first
    <2>1. out[k] < next /\ \A i \in DOMAIN queue : out[k] < queue[i].first
      BY DEF Lined
    <2>2. out[k] < later
      BY <1>2, <1>3, <1>4, <2>1
    <2>3. ASSUME NEW i \in DOMAIN new PROVE out[k] < new[i].first
      <3>1. CASE i = n + 1
        BY <1>1, <2>1, <3>1
      <3>2. CASE i # n + 1
        <4>1. i \in DOMAIN queue /\ new[i] = queue[i]
          BY <1>1, <3>2
        <4> QED
          BY <2>1, <4>1
      <3> QED
        BY <3>1, <3>2
    <2> QED
      BY <2>2, <2>3
  <1>7. out \in Seq(Nat) /\ Increasing(out)
    BY DEF Lined
  <1>8. Lined(new, out, later)
    BY <1>3, <1>5, <1>6, <1>7 DEF Lined
  <1> QED
    BY <1>8 DEF new, later

LEMMA LinedIncreasing ==
  ASSUME NEW queue \in Seq(QueuedBatch), NEW out, NEW next, Lined(queue, out, next)
  PROVE  Increasing(out \o StampsOf(queue))
  <1> DEFINE n == Len(queue)
  <1>1. n \in 0 .. n /\ SubSeq(queue, 1, n) = queue
    BY SubSeqFull
  <1>2. Lined(SubSeq(queue, n + 1, n), out \o StampsOf(SubSeq(queue, 1, n)), next)
    BY <1>1, LineDrop
  <1> QED
    BY <1>1, <1>2 DEF Lined

-----------------------------------------------------------------------------
(* The invariant of the inbound queue. *)

Tallies == [{"queuedBatches", "droppedBatches", "drainedBatches", "refusedBatches",
             "discardedBatches", "feedbackQueued", "feedbackSent", "feedbackDropped",
             "discardedFeedback"} -> Nat]

\* How many batches are in the queue, by the counters.
Balance(t) ==
    t.queuedBatches + t.refusedBatches - t.drainedBatches - t.droppedBatches - t.discardedBatches

\* Every batch that was queued or refused is accounted for.
Counted == tally \in Tallies /\ Balance(tally) = Len(inbound)

QueueInv == Priced(inbound, totals) /\ Lined(inbound, drained, nextStamp) /\ Counted

LEMMA InboundTyped ==
  ASSUME Priced(inbound, totals)
  PROVE  /\ inbound \in Seq(QueuedBatch) /\ Len(inbound) \in Nat /\ DOMAIN inbound = 1 .. Len(inbound)
         /\ totals = CostOf(inbound) /\ totals \in Amount
         /\ CostOf(SubSeq(inbound, 1, 0)) = Zero
         /\ Zero \in Amount
  <1>1. inbound \in Seq(QueuedBatch) /\ totals = CostOf(inbound)
    BY DEF Priced
  <1>2. SubSeq(inbound, 1, 0) = <<>>
    BY SubSeqEmpty
  <1>3. Zero \in Amount
    BY DEF Zero, Amount
  <1>4. totals \in Amount
    BY <1>1, CostOfTyped
  <1>5. CostOf(SubSeq(inbound, 1, 0)) = Zero
    BY <1>2, CostOfFew
  <1> QED
    BY <1>1, <1>3, <1>4, <1>5

LEMMA TallyTyped ==
  ASSUME NEW t \in Tallies
  PROVE  /\ t.queuedBatches \in Nat /\ t.refusedBatches \in Nat /\ t.drainedBatches \in Nat
         /\ t.droppedBatches \in Nat /\ t.discardedBatches \in Nat
         /\ t.feedbackQueued \in Nat /\ t.discardedFeedback \in Nat
         /\ t.feedbackSent \in Nat /\ t.feedbackDropped \in Nat
  BY DEF Tallies

\* A counter is raised.
LEMMA Raised ==
  ASSUME NEW t \in Tallies, NEW n \in Nat, NEW field \in DOMAIN t
  PROVE  /\ [t EXCEPT ![field] = @ + n] \in Tallies
         /\ \A f \in DOMAIN t : [t EXCEPT ![field] = @ + n][f] = IF f = field THEN t[f] + n ELSE t[f]
  BY DEF Tallies

LEMMA BalanceDrained ==
  ASSUME NEW t \in Tallies, NEW n \in Nat, NEW u, u = [t EXCEPT !.drainedBatches = @ + n]
  PROVE  u \in Tallies /\ Balance(u) = Balance(t) - n /\ u.feedbackQueued = t.feedbackQueued
  <1>1. /\ "drainedBatches" \in DOMAIN t /\ "queuedBatches" \in DOMAIN t /\ "refusedBatches" \in DOMAIN t
        /\ "droppedBatches" \in DOMAIN t /\ "discardedBatches" \in DOMAIN t /\ "feedbackQueued" \in DOMAIN t
    BY DEF Tallies
  <1>2. u \in Tallies /\ \A f \in DOMAIN t : u[f] = IF f = "drainedBatches" THEN t[f] + n ELSE t[f]
    BY <1>1, Raised
  <1>3. /\ u.drainedBatches = t.drainedBatches + n /\ u.queuedBatches = t.queuedBatches
        /\ u.refusedBatches = t.refusedBatches /\ u.droppedBatches = t.droppedBatches
        /\ u.discardedBatches = t.discardedBatches /\ u.feedbackQueued = t.feedbackQueued
    BY <1>1, <1>2
  <1>4. Balance(u) = Balance(t) - n
    BY <1>3, TallyTyped DEF Balance
  <1> QED
    BY <1>2, <1>3, <1>4

LEMMA BalanceRefused ==
  ASSUME NEW t \in Tallies, NEW u, u = [t EXCEPT !.droppedBatches = @ + 1, !.refusedBatches = @ + 1]
  PROVE  u \in Tallies /\ Balance(u) = Balance(t) /\ u.feedbackQueued = t.feedbackQueued
  <1> DEFINE v == [t EXCEPT !.droppedBatches = @ + 1] w == [v EXCEPT !.refusedBatches = @ + 1]
  <1>1. /\ "drainedBatches" \in DOMAIN t /\ "queuedBatches" \in DOMAIN t /\ "refusedBatches" \in DOMAIN t
        /\ "droppedBatches" \in DOMAIN t /\ "discardedBatches" \in DOMAIN t /\ "feedbackQueued" \in DOMAIN t
    BY DEF Tallies
  <1>2. /\ v \in Tallies /\ DOMAIN v = DOMAIN t
        /\ \A f \in DOMAIN t : v[f] = IF f = "droppedBatches" THEN t[f] + 1 ELSE t[f]
    BY <1>1, Raised DEF Tallies
  <1> HIDE DEF v
  <1>3. w \in Tallies /\ \A f \in DOMAIN t : w[f] = IF f = "refusedBatches" THEN v[f] + 1 ELSE v[f]
    BY <1>1, <1>2, Raised
  <1>4. u = w
    BY DEF v
  <1> HIDE DEF w
  <1>5. /\ u.drainedBatches = t.drainedBatches /\ u.queuedBatches = t.queuedBatches
        /\ u.refusedBatches = t.refusedBatches + 1 /\ u.droppedBatches = t.droppedBatches + 1
        /\ u.discardedBatches = t.discardedBatches /\ u.feedbackQueued = t.feedbackQueued
    BY <1>1, <1>2, <1>3, <1>4
  <1>6. Balance(u) = Balance(t)
    BY <1>5, TallyTyped DEF Balance
  <1> QED
    BY <1>3, <1>4, <1>5, <1>6

LEMMA BalanceQueued ==
  ASSUME NEW t \in Tallies, NEW n \in Nat,
         NEW u, u = [t EXCEPT !.droppedBatches = @ + n, !.queuedBatches = @ + 1]
  PROVE  u \in Tallies /\ Balance(u) = Balance(t) - n + 1 /\ u.feedbackQueued = t.feedbackQueued
  <1> DEFINE v == [t EXCEPT !.droppedBatches = @ + n] w == [v EXCEPT !.queuedBatches = @ + 1]
  <1>1. /\ "drainedBatches" \in DOMAIN t /\ "queuedBatches" \in DOMAIN t /\ "refusedBatches" \in DOMAIN t
        /\ "droppedBatches" \in DOMAIN t /\ "discardedBatches" \in DOMAIN t /\ "feedbackQueued" \in DOMAIN t
    BY DEF Tallies
  <1>2. /\ v \in Tallies /\ DOMAIN v = DOMAIN t
        /\ \A f \in DOMAIN t : v[f] = IF f = "droppedBatches" THEN t[f] + n ELSE t[f]
    BY <1>1, Raised DEF Tallies
  <1> HIDE DEF v
  <1>3. w \in Tallies /\ \A f \in DOMAIN t : w[f] = IF f = "queuedBatches" THEN v[f] + 1 ELSE v[f]
    BY <1>1, <1>2, Raised
  <1>4. u = w
    BY DEF v
  <1> HIDE DEF w
  <1>5. /\ u.drainedBatches = t.drainedBatches /\ u.queuedBatches = t.queuedBatches + 1
        /\ u.refusedBatches = t.refusedBatches /\ u.droppedBatches = t.droppedBatches + n
        /\ u.discardedBatches = t.discardedBatches /\ u.feedbackQueued = t.feedbackQueued
    BY <1>1, <1>2, <1>3, <1>4
  <1>6. Balance(u) = Balance(t) - n + 1
    BY <1>5, TallyTyped DEF Balance
  <1> QED
    BY <1>3, <1>4, <1>5, <1>6

LEMMA BalanceDiscarded ==
  ASSUME NEW t \in Tallies, NEW n \in Nat, NEW k \in Nat,
         NEW u, u = [t EXCEPT !.discardedBatches = @ + n, !.discardedFeedback = @ + k]
  PROVE  u \in Tallies /\ Balance(u) = Balance(t) - n /\ u.feedbackQueued = t.feedbackQueued
  <1> DEFINE v == [t EXCEPT !.discardedBatches = @ + n] w == [v EXCEPT !.discardedFeedback = @ + k]
  <1>1. /\ "drainedBatches" \in DOMAIN t /\ "queuedBatches" \in DOMAIN t /\ "refusedBatches" \in DOMAIN t
        /\ "droppedBatches" \in DOMAIN t /\ "discardedBatches" \in DOMAIN t /\ "feedbackQueued" \in DOMAIN t
        /\ "discardedFeedback" \in DOMAIN t
    BY DEF Tallies
  <1>2. /\ v \in Tallies /\ DOMAIN v = DOMAIN t
        /\ \A f \in DOMAIN t : v[f] = IF f = "discardedBatches" THEN t[f] + n ELSE t[f]
    BY <1>1, Raised DEF Tallies
  <1> HIDE DEF v
  <1>3. w \in Tallies /\ \A f \in DOMAIN t : w[f] = IF f = "discardedFeedback" THEN v[f] + k ELSE v[f]
    BY <1>1, <1>2, Raised
  <1>4. u = w
    BY DEF v
  <1> HIDE DEF w
  <1>5. /\ u.drainedBatches = t.drainedBatches /\ u.queuedBatches = t.queuedBatches
        /\ u.refusedBatches = t.refusedBatches /\ u.droppedBatches = t.droppedBatches
        /\ u.discardedBatches = t.discardedBatches + n /\ u.feedbackQueued = t.feedbackQueued
    BY <1>1, <1>2, <1>3, <1>4
  <1>6. Balance(u) = Balance(t) - n
    BY <1>5, TallyTyped DEF Balance
  <1> QED
    BY <1>3, <1>4, <1>5, <1>6

\* The first n batches are taken whole.
LEMMA TakeOK ==
  ASSUME QueueInv, NEW n \in 0 .. Len(inbound), TakeBatches(n)
  PROVE  QueueInv'
  <1> DEFINE rest == SubSeq(inbound, n + 1, Len(inbound))
  <1>1. Len(inbound) \in Nat /\ inbound \in Seq(QueuedBatch) /\ n \in Nat
    BY InboundTyped DEF QueueInv
  <1>2. inbound' = rest /\ totals' = Minus(totals, CostOf(SubSeq(inbound, 1, n)))
        /\ drained' = drained \o StampsOf(SubSeq(inbound, 1, n)) /\ nextStamp' = nextStamp
        /\ tally' = [tally EXCEPT !.drainedBatches = @ + n]
    BY DEF TakeBatches
  <1>3. Priced(inbound', totals')
    BY <1>2, PricedDrop DEF QueueInv
  <1>4. Lined(inbound', drained', nextStamp')
    BY <1>1, <1>2, LineDrop DEF QueueInv
  <1>5. Len(inbound') = Len(inbound) - n
    BY <1>1, <1>2, Cut
  <1>6. Counted'
    BY <1>1, <1>2, <1>5, BalanceDrained DEF QueueInv, Counted
  <1> QED
    BY <1>3, <1>4, <1>6 DEF QueueInv

-----------------------------------------------------------------------------
(* The steps that change it. *)

LEMMA DrainBatchesOK ==
  ASSUME QueueInv, NEW maxBatches \in DrainLimits, DrainBatches(maxBatches)
  PROVE  QueueInv'
  <1> DEFINE n == Min({maxBatches, Len(inbound)})
  <1>1. maxBatches \in Nat /\ Len(inbound) \in Nat
    BY BridgeAssumption, InboundTyped DEF QueueInv
  <1>2. n \in 0 .. Len(inbound)
    <2>1. PICK x \in {maxBatches, Len(inbound)} : \A y \in {maxBatches, Len(inbound)} : x <= y
      BY <1>1
    <2>2. n \in {maxBatches, Len(inbound)} /\ \A y \in {maxBatches, Len(inbound)} : n <= y
      BY <2>1 DEF Min
    <2> QED
      BY <1>1, <2>2
  <1> QED
    BY <1>2, TakeOK DEF DrainBatches

\* How many batches a frame takes.
LEMMA FrameCountIs ==
  ASSUME QueueInv, NEW maxWork, NEW maxBatches
  PROVE  /\ FrameCount(maxWork, maxBatches) \in 0 .. Len(inbound)
         /\ \A n \in 1 .. Len(inbound) :
                n <= maxBatches /\ FitsFrame(n, maxWork) => n <= FrameCount(maxWork, maxBatches)
  <1> DEFINE Fit == {n \in 1 .. Len(inbound) : n <= maxBatches /\ FitsFrame(n, maxWork)}
             T == {0} \cup Fit
  <1>1. Len(inbound) \in Nat
    BY InboundTyped DEF QueueInv
  <1>2. T \in SUBSET (0 .. Len(inbound)) /\ T # {}
    BY <1>1
  <1>3. FrameCount(maxWork, maxBatches) = CHOOSE x \in T : \A y \in T : x >= y
    BY DEF FrameCount, Max
  <1>4. \A n \in 1 .. Len(inbound) : n <= maxBatches /\ FitsFrame(n, maxWork) => n \in T
    OBVIOUS
  <1> HIDE DEF T
  <1>5. \E x \in T : \A y \in T : x >= y
    BY <1>1, <1>2, GreatestNatural
  <1>6. FrameCount(maxWork, maxBatches) \in T /\ \A y \in T : FrameCount(maxWork, maxBatches) >= y
    BY <1>3, <1>5
  <1>7. FrameCount(maxWork, maxBatches) \in 0 .. Len(inbound)
    BY <1>2, <1>6
  <1>8. ASSUME NEW n \in 1 .. Len(inbound), n <= maxBatches /\ FitsFrame(n, maxWork)
        PROVE  n <= FrameCount(maxWork, maxBatches)
    BY <1>1, <1>4, <1>6, <1>7, <1>8
  <1> QED
    BY <1>7, <1>8

LEMMA DrainFrameOK ==
  ASSUME QueueInv, NEW maxWork, NEW maxBatches, DrainFrame(maxWork, maxBatches)
  PROVE  QueueInv'
  BY FrameCountIs, TakeOK DEF DrainFrame

LEMMA DrainCommandsOK ==
  ASSUME QueueInv, NEW maxCommands \in DrainLimits, DrainCommands(maxCommands)
  PROVE  QueueInv'
  <1> DEFINE T == {n \in 0 .. Len(inbound) : CostOf(SubSeq(inbound, 1, n))["commands"] <= maxCommands}
             whole == Max(T)
             taken == SubSeq(inbound, 1, whole)
             partial == maxCommands - CostOf(taken)["commands"]
             rest == SubSeq(inbound, whole + 1, Len(inbound))
             split == rest # <<>> /\ partial > 0
             front == WithoutFirst(Head(rest), partial)
             left == Minus(totals, CostOf(taken))
             out == drained \o StampsOf(taken)
  <1>1. /\ Len(inbound) \in Nat /\ inbound \in Seq(QueuedBatch) /\ maxCommands \in Nat
        /\ CostOf(SubSeq(inbound, 1, 0)) = Zero
    BY InboundTyped, BridgeAssumption DEF QueueInv
  <1>2. /\ drained' = out \o (IF split THEN SubSeq(Stamps(Head(rest)), 1, partial) ELSE <<>>)
        /\ inbound' = IF split THEN PutBack(front, rest) ELSE rest
        /\ totals' = IF split THEN Plus(Minus(left, Head(rest).cost), front.cost) ELSE left
        /\ tally' = [tally EXCEPT !.drainedBatches = @ + whole]
        /\ nextStamp' = nextStamp
    BY DEF DrainCommands
  <1>3. whole \in T /\ \A n \in T : n <= whole
    <2>1. 0 \in T
      BY <1>1 DEF Zero, Quantities
    <2>2. T \in SUBSET (0 .. Len(inbound))
      OBVIOUS
    <2>3. \A x, y \in T : x \in Nat /\ y \in Nat /\ (x >= y <=> y <= x)
      BY <1>1
    <2> HIDE DEF T
    <2>4. \E x \in T : \A y \in T : x >= y
      BY <1>1, <2>1, <2>2, GreatestNatural
    <2>5. Max(T) \in T /\ \A y \in T : Max(T) >= y
      BY <2>4 DEF Max
    <2> QED
      BY <2>3, <2>5
  <1>4. /\ whole \in 0 .. Len(inbound) /\ whole \in Nat
        /\ CostOf(taken)["commands"] <= maxCommands
    BY <1>1, <1>3
  <1>5. ASSUME NEW n \in 0 .. Len(inbound), n > whole
        PROVE  ~ (CostOf(SubSeq(inbound, 1, n))["commands"] <= maxCommands)
    <2>1. n \notin T
      <3> HIDE DEF T
      <3>1. ~ (n <= whole)
        BY <1>4, <1>5
      <3> QED
        BY <1>3, <3>1
    <2> QED
      BY <2>1
  <1> HIDE DEF whole, T
  <1>6. /\ taken \in Seq(QueuedBatch) /\ rest \in Seq(QueuedBatch) /\ inbound = taken \o rest
        /\ Len(taken) = whole /\ Len(rest) = Len(inbound) - whole
    BY <1>1, <1>4, Cut
  <1>7. Priced(rest, left) /\ left = CostOf(rest)
    BY <1>4, PricedDrop DEF QueueInv
  <1>8. Lined(rest, out, nextStamp)
    BY <1>1, <1>4, LineDrop DEF QueueInv
  <1>9. out \in Seq(Nat)
    BY <1>8 DEF Lined
  <1>10. Len(inbound') = Len(inbound) - whole => Counted'
    BY <1>1, <1>2, <1>4, BalanceDrained DEF QueueInv, Counted
  <1>11. CASE ~split
    <2>1. inbound' = rest /\ totals' = left /\ drained' = out
      <3> HIDE DEF out, split, left, rest
      <3>1. out \o <<>> = out
        BY <1>9, ConcatEmptySeq
      <3> QED
        BY <1>2, <1>11, <3>1
    <2> QED
      BY <1>2, <1>6, <1>7, <1>8, <1>10, <2>1 DEF QueueInv
  <1>12. CASE split
    <2> DEFINE head == Head(rest)
    <2>1. /\ head \in QueuedBatch /\ head = rest[1] /\ 1 \in DOMAIN rest
          /\ whole + 1 \in 0 .. Len(inbound) /\ whole + 1 > whole
      <3> HIDE DEF taken, rest
      <3> QED
        BY <1>1, <1>4, <1>6, <1>12
    <2>2. BatchOK(head)
      BY <1>7, <2>1 DEF Priced
    <2> HIDE DEF taken, rest, head
    <2>3. CostOf(SubSeq(inbound, 1, whole + 1)) = Plus(CostOf(taken), head.cost)
      <3>1. SubSeq(inbound, 1, whole + 1) = taken \o <<head>>
        <4>1. head = inbound[whole + 1] /\ whole + 1 \in 1 .. Len(inbound)
          BY <1>1, <1>4, <2>1, <1>6 DEF rest
        <4>2. SubSeq(inbound, 1, whole + 1) = SubSeq(inbound, 1, (whole + 1) - 1) \o <<inbound[whole + 1]>>
          <5>1. whole + 1 \in 1 .. Len(inbound) /\ 1 \in 1 .. Len(inbound)
            BY <1>1, <4>1
          <5> QED
            BY <1>1, <5>1, SubSeqRecursiveSecond
        <4> QED
          BY <1>4, <4>1, <4>2 DEF taken
      <3>2. <<head>> \in Seq(QueuedBatch) /\ CostOf(<<head>>) = head.cost
        BY <2>1, CostOfFew
      <3> QED
        BY <1>6, <3>1, <3>2, CostOfConcat
    <2>4. /\ CostOf(taken) \in Amount /\ head.cost \in Amount
          /\ head.cost["commands"] = Len(head.works) /\ Len(head.works) \in Nat
      <3>1. /\ head.works \in Seq(Nat \ {0}) /\ head.capacity \in Nat /\ head.cost \in Amount
            /\ head.cost = Cost(head.works, head.capacity, head.cost["wire"])
        BY <2>1, <2>2 DEF BatchOK, QueuedBatch
      <3>2. head.works \in Seq(Nat) /\ Len(head.works) \in Nat
        BY <3>1
      <3>3. head.cost["wire"] \in Nat
        BY <3>1 DEF Amount, Quantities
      <3>4. head.cost["commands"] = Len(head.works)
        BY <3>1, <3>2, <3>3, CostTyped
      <3> QED
        BY <1>6, <3>1, <3>2, <3>4, CostOfTyped
    <2>5. partial \in 0 .. Len(head.works)
      <3>1. CostOf(SubSeq(inbound, 1, whole + 1))["commands"] =
              CostOf(taken)["commands"] + Len(head.works)
        BY <2>3, <2>4 DEF Plus, Quantities
      <3>2. CostOf(taken)["commands"] \in Nat
        BY <2>4 DEF Amount, Quantities
      <3>3. ~ (CostOf(taken)["commands"] + Len(head.works) <= maxCommands)
        BY <1>5, <2>1, <3>1
      <3> QED
        BY <1>1, <1>4, <2>4, <3>2, <3>3
    <2> HIDE DEF partial, front
    <2>6. /\ BatchOK(front) /\ front.first = head.first + partial
          /\ Len(front.works) = Len(head.works) - partial
          /\ \A q \in Quantities : front.cost[q] <= head.cost[q]
      BY <2>2, <2>5, WithoutFirstOK DEF front, head
    <2>7. inbound' = <<front>> \o Tail(rest) /\ totals' = Plus(Minus(left, head.cost), front.cost)
          /\ drained' = out \o SubSeq(Stamps(head), 1, partial)
      BY <1>2, <1>12 DEF PutBack, head
    <2>8. Priced(inbound', totals')
      BY <1>7, <1>12, <2>6, <2>7, PricedFront DEF head
    <2>9. Lined(inbound', drained', nextStamp')
      <3>1. front \in QueuedBatch
        BY <2>6 DEF BatchOK
      <3> QED
        BY <1>2, <1>6, <1>8, <1>12, <2>5, <2>6, <2>7, <3>1, LineSplit DEF head
    <2>10. Len(inbound') = Len(inbound) - whole
      <3>1. front \in QueuedBatch
        BY <2>6 DEF BatchOK
      <3>2. Tail(rest) \in Seq(QueuedBatch) /\ Len(Tail(rest)) = Len(rest) - 1
        BY <1>6, <1>12
      <3>3. Len(<<front>> \o Tail(rest)) = 1 + Len(Tail(rest))
        BY <3>1, <3>2
      <3> QED
        BY <1>1, <1>4, <1>6, <2>7, <3>2, <3>3
    <2> QED
      BY <1>10, <2>8, <2>9, <2>10 DEF QueueInv
  <1> QED
    BY <1>11, <1>12

\* The least number of batches that makes room.
LEMMA DropCountIs ==
  ASSUME QueueInv, NEW batch
  PROVE  LET n == DropCount(batch) IN
         /\ n \in 0 .. Len(inbound)
         /\ n = Len(inbound) \/ FitsAfterDropping(n, batch)
  <1> DEFINE T == {n \in 0 .. Len(inbound) : n = Len(inbound) \/ FitsAfterDropping(n, batch)}
  <1>1. Len(inbound) \in Nat
    BY InboundTyped DEF QueueInv
  <1>2. T \in SUBSET Nat /\ T # {}
    BY <1>1
  <1>3. DropCount(batch) = CHOOSE x \in T : \A y \in T : x <= y
    BY DEF DropCount, Min
  <1> HIDE DEF T
  <1>4. DropCount(batch) \in T
    BY <1>2, <1>3, LeastNatural
  <1> QED
    BY <1>4 DEF T

LEMMA ReceiveBatchOK ==
  ASSUME QueueInv, NEW packet \in Packets, ReceiveBatch(packet)
  PROVE  QueueInv'
  <1> DEFINE batch == Queued(packet, nextStamp) n == DropCount(batch)
             taken == SubSeq(inbound, 1, n) rest == SubSeq(inbound, n + 1, Len(inbound))
             left == Minus(totals, CostOf(taken))
  <1>1. Len(inbound) \in Nat /\ inbound \in Seq(QueuedBatch)
    BY InboundTyped DEF QueueInv
  <1>2. CASE ~Admissible(batch)
    <2>1. /\ inbound' = inbound /\ totals' = totals /\ nextStamp' = nextStamp /\ drained' = drained
          /\ tally' = [tally EXCEPT !.droppedBatches = @ + 1, !.refusedBatches = @ + 1]
      BY <1>2 DEF ReceiveBatch, RefuseBatch
    <2>2. Counted'
      BY <1>1, <2>1, BalanceRefused DEF QueueInv, Counted
    <2> QED
      BY <2>1, <2>2 DEF QueueInv
  <1>3. CASE Admissible(batch)
    <2>1. /\ inbound' = Append(rest, batch) /\ totals' = Plus(left, batch.cost)
          /\ nextStamp' = nextStamp + Len(batch.works) /\ drained' = drained
          /\ tally' = [tally EXCEPT !.droppedBatches = @ + n, !.queuedBatches = @ + 1]
      BY <1>3 DEF ReceiveBatch, QueueBatch, CountedQueueing
    <2>2. nextStamp \in Nat \ {0}
      BY DEF QueueInv, Lined
    <2>3. batch \in QueuedBatch /\ batch.first = nextStamp /\ BatchOK(batch)
          /\ \A q \in Quantities : batch.cost[q] <= Limit[q]
      <3>1. /\ batch \in QueuedBatch /\ batch.first = nextStamp
            /\ batch.cost = Cost(batch.works, batch.capacity, batch.cost["wire"])
        BY <2>2, QueuedOK
      <3> HIDE DEF batch
      <3> QED
        BY <1>3, <3>1 DEF Admissible, BatchOK
    <2> HIDE DEF batch
    <2>4. n \in 0 .. Len(inbound) /\ (n = Len(inbound) \/ FitsAfterDropping(n, batch)) /\ n \in Nat
      <3>1. n \in 0 .. Len(inbound) /\ (n = Len(inbound) \/ FitsAfterDropping(n, batch))
        BY DropCountIs
      <3> HIDE DEF n
      <3> QED
        BY <1>1, <3>1
    <2> HIDE DEF n
    <2>5. Priced(rest, left) /\ left = CostOf(rest) /\ left \in Amount
      BY <2>4, PricedDrop DEF QueueInv
    <2>6. Lined(rest, drained, nextStamp)
      BY <1>1, <2>4, LineDrop DEF QueueInv
    <2>7. rest \in Seq(QueuedBatch) /\ Len(rest) = Len(inbound) - n
      BY <1>1, <2>4, Cut
    <2>8. batch.cost \in Amount /\ Limit \in Amount /\ MaxQueuedBatches \in Nat \ {0}
      BY <2>3, BridgeAssumption DEF QueuedBatch
    <2>9. (\A q \in Quantities : left[q] <= Limit[q] - batch.cost[q]) /\ Len(rest) < MaxQueuedBatches
      <3>1. CASE n = Len(inbound)
        <4>1. Len(rest) = 0 /\ rest = <<>>
          BY <1>1, <2>7, <3>1
        <4>2. \A q \in Quantities : left[q] = 0
          BY <2>5, <4>1, CostOfFew DEF Zero
        <4>3. \A q \in Quantities : batch.cost[q] \in Nat /\ Limit[q] \in Nat /\ batch.cost[q] <= Limit[q]
          BY <2>3, <2>8 DEF Amount
        <4>4. \A q \in Quantities : left[q] <= Limit[q] - batch.cost[q]
          BY <4>2, <4>3
        <4>5. Len(rest) < MaxQueuedBatches
          <5> HIDE DEF rest
          <5> QED
            BY <2>8, <4>1
        <4> QED
          BY <4>4, <4>5
      <3>2. CASE FitsAfterDropping(n, batch)
        BY <2>7, <3>2 DEF FitsAfterDropping
      <3> QED
        BY <2>4, <3>1, <3>2
    <2> HIDE DEF rest, left
    <2>10. Priced(inbound', totals')
      BY <2>1, <2>3, <2>5, <2>9, PricedAppend
    <2>11. Lined(inbound', drained', nextStamp')
      BY <2>1, <2>3, <2>6, <2>7, LineAppend
    <2>12. Counted'
      <3>1. Len(inbound') = Len(inbound) - n + 1
        BY <1>1, <2>1, <2>3, <2>4, <2>7
      <3> QED
        BY <1>1, <2>1, <2>4, <3>1, BalanceQueued DEF QueueInv, Counted
    <2> QED
      BY <2>10, <2>11, <2>12 DEF QueueInv
  <1> QED
    BY <1>2, <1>3

LEMMA EmptyOK ==
  /\ Priced(<<>>, Zero)
  /\ \A out, next : Lined(<<>>, out, next) <=> out \in Seq(Nat) /\ Increasing(out) /\ next \in Nat \ {0}
                                              /\ \A k \in DOMAIN out : out[k] < next
  <1>1. Priced(<<>>, Zero)
    <2>1. <<>> \in Seq(QueuedBatch) /\ Len(<<>>) = 0 /\ DOMAIN <<>> = {}
      OBVIOUS
    <2>2. \A q \in Quantities : Zero[q] <= Limit[q]
      BY BridgeAssumption DEF Zero, Amount
    <2> QED
      BY <2>1, <2>2, CostOfFew, BridgeAssumption DEF Priced
  <1> QED
    BY <1>1 DEF Lined

LEMMA JoinAndClearOK ==
  ASSUME QueueInv, Len(outbound) \in Nat, JoinAndClear
  PROVE  QueueInv'
  <1>1. /\ inbound' = <<>> /\ totals' = Zero /\ drained' = drained /\ nextStamp' = nextStamp
        /\ tally' = [tally EXCEPT !.discardedBatches = @ + Len(inbound),
                                  !.discardedFeedback = @ + Len(outbound)]
    BY DEF JoinAndClear
  <1>2. Len(inbound) \in Nat /\ Len(<<>>) = 0
    BY InboundTyped DEF QueueInv
  <1>3. Counted'
    <2>1. tally \in Tallies /\ Balance(tally) = Len(inbound)
      BY DEF QueueInv, Counted
    <2> DEFINE n == Len(inbound) k == Len(outbound) next == tally'
    <2>2. n \in Nat /\ k \in Nat /\ next = [tally EXCEPT !.discardedBatches = @ + n,
                                                    !.discardedFeedback = @ + k]
      BY <1>1, <1>2
    <2> HIDE DEF n, k, next
    <2>3. next \in Tallies /\ Balance(next) = Balance(tally) - n
      BY <2>1, <2>2, BalanceDiscarded
    <2>4. tally' \in Tallies /\ Balance(tally') = 0
      BY <1>2, <2>1, <2>3 DEF n, next
    <2> QED
      BY <1>1, <1>2, <2>4 DEF Counted
  <1>4. Lined(inbound', drained', nextStamp')
    BY <1>1, EmptyOK DEF QueueInv, Lined
  <1> QED
    BY <1>1, <1>3, <1>4, EmptyOK DEF QueueInv

-----------------------------------------------------------------------------
(* The feedback on its way. *)

Below(s, t) == \A i \in DOMAIN s, j \in DOMAIN t : s[i] < t[j]
AtMost(s, top) == \A i \in DOMAIN s : s[i] <= top

\* Three stages of one increasing sequence.
Staged(done, doing, waiting, top) ==
    /\ done \in Seq(Nat) /\ Increasing(done) /\ AtMost(done, top)
    /\ doing \in Seq(Nat) /\ Increasing(doing) /\ AtMost(doing, top)
    /\ waiting \in Seq(Nat) /\ Increasing(waiting) /\ AtMost(waiting, top)
    /\ Below(done, doing) /\ Below(done, waiting) /\ Below(doing, waiting)
    /\ top \in Nat

LEMMA StagedIncreasing ==
  ASSUME NEW done, NEW doing, NEW waiting, NEW top, Staged(done, doing, waiting, top)
  PROVE  Increasing(done \o doing \o waiting)
  <1>1. /\ done \in Seq(Nat) /\ doing \in Seq(Nat) /\ waiting \in Seq(Nat)
        /\ Increasing(done) /\ Increasing(doing) /\ Increasing(waiting)
        /\ (\A i \in DOMAIN done, j \in DOMAIN doing : done[i] < doing[j])
        /\ \A k \in DOMAIN waiting : /\ \A i \in DOMAIN done : done[i] < waiting[k]
                                     /\ \A i \in DOMAIN doing : doing[i] < waiting[k]
    BY DEF Staged, Below
  <1> DEFINE s == done \o doing
  <1>2. /\ s \in Seq(Nat) /\ Increasing(s)
        /\ \A k \in DOMAIN s : (\E i \in DOMAIN done : s[k] = done[i]) \/ \E j \in DOMAIN doing : s[k] = doing[j]
    BY <1>1, IncreasingConcat
  <1> HIDE DEF s
  <1>3. \A k \in DOMAIN s, j \in DOMAIN waiting : s[k] < waiting[j]
    BY <1>1, <1>2
  <1>4. Increasing(s \o waiting)
    BY <1>1, <1>2, <1>3, IncreasingConcat
  <1> QED
    BY <1>4 DEF s

LEMMA NoneStaged ==
  /\ <<>> \in Seq(Nat) /\ Increasing(<<>>) /\ \A top : AtMost(<<>>, top)
  /\ \A s : Below(s, <<>>) /\ Below(<<>>, s)
  BY DEF Increasing, AtMost, Below

LEMMA TailStaged ==
  ASSUME NEW s \in Seq(Nat), Increasing(s), s # <<>>
  PROVE  /\ Tail(s) \in Seq(Nat) /\ Increasing(Tail(s)) /\ Len(Tail(s)) = Len(s) - 1 /\ Len(s) \in Nat
         /\ \A k \in DOMAIN Tail(s) : k + 1 \in DOMAIN s /\ Tail(s)[k] = s[k + 1]
         /\ 1 \in DOMAIN s /\ Head(s) = s[1] /\ Head(s) \in Nat
         /\ \A k \in DOMAIN Tail(s) : Head(s) < Tail(s)[k]
  <1> DEFINE t == Tail(s)
  <1>1. /\ t \in Seq(Nat) /\ Len(t) = Len(s) - 1 /\ Len(s) \in Nat /\ DOMAIN t = 1 .. Len(s) - 1
        /\ DOMAIN s = 1 .. Len(s)
        /\ \A k \in DOMAIN t : k \in Nat /\ 1 < k + 1 /\ k + 1 \in DOMAIN s /\ t[k] = s[k + 1]
        /\ 1 \in DOMAIN s /\ Head(s) = s[1] /\ Head(s) \in Nat
    OBVIOUS
  <1> HIDE DEF t
  <1>2. Increasing(t)
    <2>1. \A i, j \in DOMAIN t : i < j => i + 1 < j + 1
      BY <1>1
    <2> QED
      BY <1>1, <2>1 DEF Increasing
  <1>3. \A k \in DOMAIN t : Head(s) < t[k]
    BY <1>1 DEF Increasing
  <1> QED
    BY <1>1, <1>2, <1>3 DEF t

LEMMA AppendStaged ==
  ASSUME NEW s \in Seq(Nat), Increasing(s), NEW x \in Nat, \A i \in DOMAIN s : s[i] < x
  PROVE  /\ Append(s, x) \in Seq(Nat) /\ Increasing(Append(s, x))
         /\ Len(Append(s, x)) = Len(s) + 1 /\ Len(s) \in Nat
         /\ \A k \in DOMAIN Append(s, x) : Append(s, x)[k] = x \/ \E i \in DOMAIN s : Append(s, x)[k] = s[i]
  <1> DEFINE t == Append(s, x)
  <1>1. /\ t \in Seq(Nat) /\ Len(t) = Len(s) + 1 /\ Len(s) \in Nat /\ DOMAIN t = 1 .. Len(s) + 1
        /\ DOMAIN s = 1 .. Len(s) /\ t[Len(s) + 1] = x /\ \A i \in DOMAIN s : t[i] = s[i]
    OBVIOUS
  <1> HIDE DEF t
  <1>2. \A k \in DOMAIN t : k \in DOMAIN s \/ k = Len(s) + 1
    BY <1>1
  <1>3. ASSUME NEW i \in DOMAIN t, NEW j \in DOMAIN t, i < j PROVE t[i] < t[j]
    <2>1. i \in DOMAIN s
      BY <1>1, <1>3
    <2>2. CASE j \in DOMAIN s
      BY <1>1, <1>3, <2>1, <2>2 DEF Increasing
    <2>3. CASE j = Len(s) + 1
      BY <1>1, <2>1, <2>3
    <2> QED
      BY <1>2, <2>2, <2>3
  <1>4. Increasing(t)
    BY <1>3 DEF Increasing
  <1>5. \A k \in DOMAIN t : t[k] = x \/ \E i \in DOMAIN s : t[k] = s[i]
    BY <1>1, <1>2
  <1> QED
    BY <1>1, <1>4, <1>5 DEF t

\* The worker takes the queue.
LEMMA StagedTake ==
  ASSUME NEW done, NEW waiting, NEW top, Staged(done, <<>>, waiting, top)
  PROVE  Staged(done, waiting, <<>>, top)
  BY NoneStaged DEF Staged

\* Stop discards it.
LEMMA StagedClear ==
  ASSUME NEW done, NEW doing, NEW waiting, NEW top, Staged(done, doing, waiting, top)
  PROVE  Staged(done, doing, <<>>, top)
  BY NoneStaged DEF Staged

\* A payload is sent, or cannot be sent.
LEMMA StagedSend ==
  ASSUME NEW done, NEW doing, NEW waiting, NEW top, Staged(done, doing, waiting, top), doing # <<>>
  PROVE  /\ Staged(done, Tail(doing), waiting, top)
         /\ Staged(Append(done, Head(doing)), Tail(doing), waiting, top)
         /\ Tail(doing) \in Seq(Nat) /\ Len(Tail(doing)) = Len(doing) - 1 /\ Len(doing) \in Nat
  <1> DEFINE rest == Tail(doing) x == Head(doing) more == Append(done, x)
  <1>1. /\ done \in Seq(Nat) /\ Increasing(done) /\ AtMost(done, top)
        /\ doing \in Seq(Nat) /\ Increasing(doing) /\ AtMost(doing, top)
        /\ waiting \in Seq(Nat) /\ Increasing(waiting) /\ AtMost(waiting, top)
        /\ Below(done, doing) /\ Below(done, waiting) /\ Below(doing, waiting)
        /\ top \in Nat
    BY DEF Staged
  <1>2. /\ rest \in Seq(Nat) /\ Increasing(rest) /\ Len(rest) = Len(doing) - 1 /\ Len(doing) \in Nat
        /\ \A k \in DOMAIN rest : k + 1 \in DOMAIN doing /\ rest[k] = doing[k + 1]
        /\ 1 \in DOMAIN doing /\ x = doing[1] /\ x \in Nat
        /\ \A k \in DOMAIN rest : x < rest[k]
    BY <1>1, TailStaged
  <1> HIDE DEF rest, x
  <1>3. /\ AtMost(rest, top) /\ Below(done, rest) /\ Below(rest, waiting)
        /\ x <= top /\ (\A i \in DOMAIN done : done[i] < x) /\ \A j \in DOMAIN waiting : x < waiting[j]
    BY <1>1, <1>2 DEF AtMost, Below
  <1>4. /\ more \in Seq(Nat) /\ Increasing(more)
        /\ \A k \in DOMAIN more : more[k] = x \/ \E i \in DOMAIN done : more[k] = done[i]
    BY <1>1, <1>2, <1>3, AppendStaged
  <1> HIDE DEF more
  <1>5. AtMost(more, top)
    BY <1>1, <1>3, <1>4 DEF AtMost
  <1>6. Below(more, rest)
    BY <1>2, <1>3, <1>4 DEF Below
  <1>7. Below(more, waiting)
    BY <1>1, <1>3, <1>4 DEF Below
  <1>8. Staged(done, rest, waiting, top) /\ Staged(more, rest, waiting, top)
    BY <1>1, <1>2, <1>3, <1>4, <1>5, <1>6, <1>7 DEF Staged
  <1> QED
    BY <1>2, <1>8 DEF rest, more, x

\* A payload is enqueued, over the oldest one when the queue is full.
LEMMA StagedPush ==
  ASSUME NEW done, NEW doing, NEW waiting, NEW top, Staged(done, doing, waiting, top),
         Len(waiting) <= MaxQueuedFeedback
  PROVE  /\ Staged(done, doing, Enqueued(waiting, top + 1), top + 1)
         /\ Len(Enqueued(waiting, top + 1)) <= MaxQueuedFeedback
  <1> DEFINE kept == IF Len(waiting) >= MaxQueuedFeedback THEN Tail(waiting) ELSE waiting
             x == top + 1 more == Append(kept, x)
  <1>1. /\ done \in Seq(Nat) /\ Increasing(done) /\ AtMost(done, top)
        /\ doing \in Seq(Nat) /\ Increasing(doing) /\ AtMost(doing, top)
        /\ waiting \in Seq(Nat) /\ Increasing(waiting) /\ AtMost(waiting, top)
        /\ Below(done, doing) /\ Below(done, waiting) /\ Below(doing, waiting)
        /\ top \in Nat
    BY DEF Staged
  <1>2. MaxQueuedFeedback \in Nat /\ MaxQueuedFeedback > 0 /\ Len(waiting) \in Nat
    BY <1>1, BridgeAssumption
  <1>3. /\ kept \in Seq(Nat) /\ Increasing(kept) /\ Len(kept) < MaxQueuedFeedback
        /\ AtMost(kept, top) /\ Below(done, kept) /\ Below(doing, kept)
    <2>1. CASE Len(waiting) >= MaxQueuedFeedback
      <3>1. waiting # <<>>
        BY <1>2, <2>1
      <3>2. /\ Tail(waiting) \in Seq(Nat) /\ Increasing(Tail(waiting)) /\ Len(Tail(waiting)) = Len(waiting) - 1
            /\ \A k \in DOMAIN Tail(waiting) : k + 1 \in DOMAIN waiting /\ Tail(waiting)[k] = waiting[k + 1]
        BY <1>1, <3>1, TailStaged
      <3>3. kept = Tail(waiting)
        BY <2>1
      <3> HIDE DEF kept
      <3>4. AtMost(kept, top) /\ Below(done, kept) /\ Below(doing, kept)
        BY <1>1, <3>2, <3>3 DEF AtMost, Below
      <3>5. Len(kept) < MaxQueuedFeedback
        BY <1>2, <3>2, <3>3
      <3> QED
        BY <3>2, <3>3, <3>4, <3>5
    <2>2. CASE ~ (Len(waiting) >= MaxQueuedFeedback)
      <3>1. kept = waiting
        BY <2>2
      <3> HIDE DEF kept
      <3> QED
        BY <1>1, <1>2, <2>2, <3>1
    <2> QED
      BY <2>1, <2>2
  <1>4. Enqueued(waiting, top + 1) = more
    BY DEF Enqueued
  <1>5. x \in Nat /\ top < x
    BY <1>1
  <1> HIDE DEF kept, x
  <1>6. \A i \in DOMAIN kept : kept[i] < x /\ kept[i] \in Nat
    <2>1. \A i \in DOMAIN kept : kept[i] \in Nat /\ kept[i] <= top
      BY <1>3 DEF AtMost
    <2> QED
      BY <1>1, <1>5, <2>1
  <1>7. /\ more \in Seq(Nat) /\ Increasing(more) /\ Len(more) = Len(kept) + 1 /\ Len(kept) \in Nat
        /\ \A k \in DOMAIN more : more[k] = x \/ \E i \in DOMAIN kept : more[k] = kept[i]
    BY <1>3, <1>5, <1>6, AppendStaged
  <1> HIDE DEF more
  <1>8. \A s \in Seq(Nat) : AtMost(s, top) => AtMost(s, x) /\ \A i \in DOMAIN s : s[i] < x
    <2> TAKE s \in Seq(Nat)
    <2> HAVE AtMost(s, top)
    <2>1. \A i \in DOMAIN s : s[i] \in Nat /\ s[i] <= top
      BY DEF AtMost
    <2> QED
      BY <1>1, <1>5, <2>1 DEF AtMost
  <1>9. AtMost(more, x)
    <2>1. \A i \in DOMAIN kept : kept[i] <= x
      BY <1>5, <1>6
    <2> QED
      BY <1>5, <1>7, <2>1 DEF AtMost
  <1>10. Below(done, more) /\ Below(doing, more)
    <2>1. (\A i \in DOMAIN done : done[i] < x) /\ \A i \in DOMAIN doing : doing[i] < x
      BY <1>1, <1>8
    <2> QED
      BY <1>3, <1>7, <2>1 DEF Below
  <1>11. Staged(done, doing, more, x)
    BY <1>1, <1>5, <1>7, <1>8, <1>9, <1>10 DEF Staged
  <1>12. Len(more) <= MaxQueuedFeedback
    BY <1>2, <1>3, <1>7
  <1> QED
    BY <1>4, <1>11, <1>12 DEF x

-----------------------------------------------------------------------------
(* Both threads. *)

Kinds ==
    /\ wakeRequested \in BOOLEAN /\ stopRequested \in BOOLEAN /\ busy \in BOOLEAN
    /\ leaving \in BOOLEAN /\ restarting \in BOOLEAN
    /\ channels \in [command : BOOLEAN, feedback : BOOLEAN, sender : BOOLEAN]
    /\ worker \in {"none", "check", "pump", "flush", "take", "send", "idle", "asleep", "exited"}
    /\ owner \in {"free", "stopping", "joining", "starting", "pushed", "notifying"}
    /\ pumped \in 0 .. PacketsPerPump
    /\ starts \in Nat /\ arrivals \in Nat

\* A worker that runs was asked to stop only by a Stop that still waits for it.
StopInv ==
    /\ owner \in {"stopping", "joining"} => stopRequested
    /\ worker # "none" /\ stopRequested => owner \in {"stopping", "joining"}
    /\ worker = "exited" => stopRequested
    /\ leaving /\ worker \in {"pump", "flush", "take", "send", "idle", "asleep"} => stopRequested
    /\ owner = "starting" => worker = "none"

\* Nobody enqueues any more when the worker takes the last feedback.
LastFlushInv ==
    /\ worker = "send" <=> sending # <<>>
    /\ worker = "send" /\ leaving => outbound = <<>>
    /\ worker = "exited" /\ channels.feedback => outbound = <<>>

\* The wake signal of feedback that the worker has not seen is set, or about to be.
WakeInv ==
    /\ worker \in {"send", "idle", "asleep"} /\ channels.feedback /\ outbound # <<>> =>
           wakeRequested \/ owner = "pushed"
    /\ worker = "asleep" /\ wakeRequested => owner = "notifying"

FeedbackInv ==
    /\ Staged(sent, sending, outbound, tally.feedbackQueued)
    /\ Len(outbound) <= MaxQueuedFeedback

ThreadInv == Kinds /\ StopInv /\ LastFlushInv /\ WakeInv

BridgeInv == QueueInv /\ ThreadInv /\ FeedbackInv

\* What the steps leave alone.
SameQueue == inbound' = inbound /\ totals' = totals /\ drained' = drained /\ nextStamp' = nextStamp
SameFeedback == outbound' = outbound /\ sending' = sending /\ sent' = sent
SameThreads ==
    /\ worker' = worker /\ leaving' = leaving /\ owner' = owner /\ restarting' = restarting
    /\ wakeRequested' = wakeRequested /\ stopRequested' = stopRequested /\ channels' = channels
    /\ starts' = starts

LEMMA SameQueueOK ==
  ASSUME QueueInv, SameQueue, tally' \in Tallies, Balance(tally') = Balance(tally)
  PROVE  QueueInv'
  BY DEF QueueInv, SameQueue, Counted

LEMMA SameFeedbackOK ==
  ASSUME FeedbackInv, SameFeedback, tally'.feedbackQueued = tally.feedbackQueued
  PROVE  FeedbackInv'
  BY DEF FeedbackInv, SameFeedback

LEMMA SameThreadsOK ==
  ASSUME ThreadInv, SameThreads, SameFeedback, busy' \in BOOLEAN, pumped' \in 0 .. PacketsPerPump,
         arrivals' \in Nat
  PROVE  ThreadInv'
  BY DEF ThreadInv, Kinds, StopInv, LastFlushInv, WakeInv, SameThreads, SameFeedback

-----------------------------------------------------------------------------
(* The worker's steps. *)

LEMMA CheckStopOK ==
  ASSUME ThreadInv, CheckStop PROVE ThreadInv'
  <1>1. /\ worker = "check" /\ worker' = (IF stopRequested THEN "flush" ELSE "pump")
        /\ pumped' = 0 /\ busy' = FALSE
        /\ UNCHANGED <<outbound, sending, owner, restarting, starts, wakeRequested, stopRequested,
                      channels, arrivals>>
    BY DEF CheckStop, NextRound, feedbackVars, ownerVars, queueVars
  <1>2. leaving' = stopRequested
    BY DEF CheckStop, NextRound, ThreadInv, Kinds
  <1>3. 0 \in 0 .. PacketsPerPump
    BY BridgeAssumption
  <1>4. Kinds'
    BY <1>1, <1>2, <1>3 DEF ThreadInv, Kinds
  <1>5. StopInv' /\ LastFlushInv' /\ WakeInv'
    BY <1>1, <1>2 DEF ThreadInv, Kinds, StopInv, LastFlushInv, WakeInv
  <1> QED
    BY <1>4, <1>5 DEF ThreadInv

LEMMA EndPumpOK ==
  ASSUME ThreadInv, EndPump PROVE ThreadInv'
  BY DEF EndPump, AfterPump, ThreadInv, Kinds, StopInv, LastFlushInv, WakeInv, feedbackVars,
         ownerVars, queueVars

LEMMA BeginFlushOK ==
  ASSUME ThreadInv, BeginFlush PROVE ThreadInv'
  BY DEF BeginFlush, AfterFlush, ThreadInv, Kinds, StopInv, LastFlushInv, WakeInv, feedbackVars,
         ownerVars, queueVars

LEMMA TakeFeedbackOK ==
  ASSUME ThreadInv, FeedbackInv, TakeFeedback
  PROVE  ThreadInv' /\ FeedbackInv'
  <1>1. worker = "take" /\ sending = <<>>
    BY DEF TakeFeedback, ThreadInv, LastFlushInv
  <1>2. FeedbackInv'
    <2>1. Staged(sent, outbound, <<>>, tally.feedbackQueued)
      BY <1>1, StagedTake DEF FeedbackInv
    <2>2. sent' = sent /\ sending' = outbound /\ outbound' = <<>> /\ tally' = tally
      BY DEF TakeFeedback
    <2>3. Len(<<>>) <= MaxQueuedFeedback
      BY BridgeAssumption
    <2> QED
      BY <2>1, <2>2, <2>3 DEF FeedbackInv
  <1>3. ThreadInv'
    BY <1>1 DEF TakeFeedback, AfterFlush, ThreadInv, Kinds, StopInv, LastFlushInv, WakeInv, ownerVars,
                queueVars
  <1> QED
    BY <1>2, <1>3

LEMMA CountedSendIs ==
  ASSUME tally \in Tallies, NEW ok \in BOOLEAN
  PROVE  /\ CountedSend(ok) \in Tallies /\ Balance(CountedSend(ok)) = Balance(tally)
         /\ CountedSend(ok).feedbackQueued = tally.feedbackQueued
  <1> DEFINE u == CountedSend(ok) field == IF ok THEN "feedbackSent" ELSE "feedbackDropped"
  <1>1. /\ "drainedBatches" \in DOMAIN tally /\ "queuedBatches" \in DOMAIN tally
        /\ "refusedBatches" \in DOMAIN tally /\ "droppedBatches" \in DOMAIN tally
        /\ "discardedBatches" \in DOMAIN tally /\ "feedbackQueued" \in DOMAIN tally
        /\ field \in DOMAIN tally
    BY DEF Tallies
  <1>2. u = [tally EXCEPT ![field] = @ + 1]
    BY DEF CountedSend
  <1>3. field # "drainedBatches" /\ field # "queuedBatches" /\ field # "refusedBatches"
        /\ field # "droppedBatches" /\ field # "discardedBatches" /\ field # "feedbackQueued"
    OBVIOUS
  <1> HIDE DEF u, field
  <1>4. u \in Tallies /\ \A f \in DOMAIN tally : u[f] = IF f = field THEN tally[f] + 1 ELSE tally[f]
    BY <1>1, <1>2, Raised
  <1>5. /\ u.drainedBatches = tally.drainedBatches /\ u.queuedBatches = tally.queuedBatches
        /\ u.refusedBatches = tally.refusedBatches /\ u.droppedBatches = tally.droppedBatches
        /\ u.discardedBatches = tally.discardedBatches /\ u.feedbackQueued = tally.feedbackQueued
    BY <1>1, <1>3, <1>4
  <1>6. Balance(u) = Balance(tally)
    BY <1>5 DEF Balance
  <1> QED
    BY <1>4, <1>5, <1>6 DEF u

LEMMA SendFeedbackOK ==
  ASSUME BridgeInv, NEW ok \in BOOLEAN, SendFeedback(ok)
  PROVE  BridgeInv'
  <1>1. worker = "send" /\ sending # <<>>
    BY DEF SendFeedback, BridgeInv, ThreadInv, LastFlushInv
  <1>2. /\ sending' = Tail(sending) /\ outbound' = outbound
        /\ sent' = (IF ok THEN Append(sent, Head(sending)) ELSE sent)
        /\ tally' = CountedSend(ok)
    BY DEF SendFeedback, KeepFailed
  <1>3. tally' \in Tallies /\ Balance(tally') = Balance(tally) /\ tally'.feedbackQueued = tally.feedbackQueued
    BY <1>2, CountedSendIs DEF BridgeInv, QueueInv, Counted
  <1>4. /\ Staged(sent, Tail(sending), outbound, tally.feedbackQueued)
        /\ Staged(Append(sent, Head(sending)), Tail(sending), outbound, tally.feedbackQueued)
        /\ Tail(sending) \in Seq(Nat) /\ Len(Tail(sending)) = Len(sending) - 1 /\ Len(sending) \in Nat
    BY <1>1, StagedSend DEF BridgeInv, FeedbackInv
  <1>5. FeedbackInv'
    BY <1>2, <1>3, <1>4 DEF BridgeInv, FeedbackInv
  <1>6. Tail(sending) = <<>> <=> Len(sending) = 1
    <2> DEFINE rest == Tail(sending)
    <2>1. rest \in Seq(Nat) /\ Len(rest) = Len(sending) - 1 /\ Len(sending) \in Nat
      BY <1>4
    <2> HIDE DEF rest
    <2>2. rest = <<>> <=> Len(rest) = 0
      BY <2>1, EmptySeq
    <2>3. rest = <<>> <=> Len(sending) = 1
      BY <2>1, <2>2
    <2> QED
      BY <2>3 DEF rest
  <1>7. ThreadInv'
    BY <1>1, <1>2, <1>6
    DEF SendFeedback, AfterFlush, BridgeInv, ThreadInv, Kinds, StopInv, LastFlushInv, WakeInv,
        ownerVars, queueVars
  <1>8. SameQueue
    BY DEF SendFeedback, SameQueue, queueVars
  <1> QED
    BY <1>3, <1>5, <1>7, <1>8, SameQueueOK DEF BridgeInv

LEMMA BeginIdleWaitOK ==
  ASSUME ThreadInv, BeginIdleWait PROVE ThreadInv'
  BY DEF BeginIdleWait, ShouldWake, ThreadInv, Kinds, StopInv, LastFlushInv, WakeInv, feedbackVars,
         ownerVars, queueVars

LEMMA IdleTimeoutOK ==
  ASSUME ThreadInv, IdleTimeout PROVE ThreadInv'
  BY DEF IdleTimeout, ThreadInv, Kinds, StopInv, LastFlushInv, WakeInv, feedbackVars, ownerVars,
         queueVars

-----------------------------------------------------------------------------
(* The owner's steps. *)

LEMMA RequestStopOK ==
  ASSUME ThreadInv, NEW byStart \in BOOLEAN, RequestStop(byStart) PROVE ThreadInv'
  BY DEF RequestStop, ThreadInv, Kinds, StopInv, LastFlushInv, WakeInv, feedbackVars, workerVars,
         queueVars

LEMMA NotifyStopOK ==
  ASSUME ThreadInv, NotifyStop PROVE ThreadInv'
  BY DEF NotifyStop, WokenWorker, ShouldWake, ThreadInv, Kinds, StopInv, LastFlushInv, WakeInv,
         feedbackVars, queueVars

LEMMA OpenAndStartOK ==
  ASSUME ThreadInv, NEW command \in BOOLEAN, NEW feedback \in BOOLEAN, NEW sender \in BOOLEAN,
         OpenAndStart(command, feedback, sender)
  PROVE  ThreadInv'
  <1>1. /\ owner = "starting" /\ owner' = "free" /\ restarting' = FALSE /\ starts' = starts + 1
        /\ channels' = [command |-> command, feedback |-> feedback, sender |-> sender]
        /\ UNCHANGED <<outbound, sending, wakeRequested, leaving, busy, pumped, arrivals>>
    BY DEF OpenAndStart, feedbackVars, queueVars
  <1>2. worker = "none" /\ sending = <<>>
    BY <1>1 DEF ThreadInv, StopInv, LastFlushInv
  <1>3. channels' \in [command : BOOLEAN, feedback : BOOLEAN, sender : BOOLEAN]
    BY <1>1
  <1>4. /\ wakeRequested' \in BOOLEAN /\ leaving' \in BOOLEAN /\ busy' \in BOOLEAN
        /\ pumped' \in 0 .. PacketsPerPump /\ arrivals' \in Nat /\ starts' \in Nat
        /\ restarting' \in BOOLEAN
    <2>1. restarting' \in BOOLEAN
      BY <1>1
    <2>2. starts' \in Nat
      BY <1>1 DEF ThreadInv, Kinds
    <2>3. /\ wakeRequested' = wakeRequested /\ leaving' = leaving /\ busy' = busy /\ pumped' = pumped
          /\ arrivals' = arrivals
      BY <1>1
    <2>4. /\ wakeRequested' \in BOOLEAN /\ leaving' \in BOOLEAN /\ busy' \in BOOLEAN
          /\ pumped' \in 0 .. PacketsPerPump /\ arrivals' \in Nat
      BY <2>3 DEF ThreadInv, Kinds
    <2> QED
      BY <2>1, <2>2, <2>4
  <1>5. owner' \in {"free", "stopping", "joining", "starting", "pushed", "notifying"}
    BY <1>1
  <1>6. CASE command \/ feedback
    <2>1. stopRequested' = FALSE /\ worker' = "check"
      BY <1>6 DEF OpenAndStart
    <2>2. Kinds'
      <3>1. /\ stopRequested' \in BOOLEAN
            /\ worker' \in {"none", "check", "pump", "flush", "take", "send", "idle", "asleep", "exited"}
        BY <2>1 DEF ThreadInv, Kinds
      <3> QED
        BY <1>3, <1>4, <1>5, <3>1 DEF Kinds
    <2>3. StopInv'
      BY <1>1, <1>2, <2>1 DEF ThreadInv, StopInv
    <2>4. LastFlushInv'
      BY <1>1, <1>2, <2>1 DEF LastFlushInv
    <2>5. WakeInv'
      BY <1>1, <1>2, <2>1 DEF WakeInv
    <2> QED
      BY <2>2, <2>3, <2>4, <2>5 DEF ThreadInv
  <1>7. CASE ~ (command \/ feedback)
    <2>1. stopRequested' = stopRequested /\ worker' = worker
      BY <1>7 DEF OpenAndStart
    <2>2. Kinds'
      <3>1. /\ stopRequested' \in BOOLEAN
            /\ worker' \in {"none", "check", "pump", "flush", "take", "send", "idle", "asleep", "exited"}
        BY <2>1 DEF ThreadInv, Kinds
      <3> QED
        BY <1>3, <1>4, <1>5, <3>1 DEF Kinds
    <2>3. StopInv'
      BY <1>1, <1>2, <2>1 DEF ThreadInv, StopInv
    <2>4. LastFlushInv'
      BY <1>1, <1>2, <2>1 DEF LastFlushInv
    <2>5. WakeInv'
      BY <1>1, <1>2, <2>1 DEF WakeInv
    <2> QED
      BY <2>2, <2>3, <2>4, <2>5 DEF ThreadInv
  <1> QED
    BY <1>6, <1>7

LEMMA RequestWakeOK ==
  ASSUME ThreadInv, RequestWake PROVE ThreadInv'
  BY DEF RequestWake, ThreadInv, Kinds, StopInv, LastFlushInv, WakeInv, feedbackVars, workerVars,
         queueVars

LEMMA NotifyWakeOK ==
  ASSUME ThreadInv, NotifyWake PROVE ThreadInv'
  BY DEF NotifyWake, WokenWorker, ShouldWake, ThreadInv, Kinds, StopInv, LastFlushInv, WakeInv,
         feedbackVars, queueVars

LEMMA JoinOK ==
  ASSUME BridgeInv, JoinAndClear
  PROVE  BridgeInv'
  <1>1. outbound \in Seq(Nat) /\ Len(outbound) \in Nat /\ Len(inbound) \in Nat
    BY InboundTyped DEF BridgeInv, FeedbackInv, Staged, QueueInv
  <1>2. QueueInv'
    BY <1>1, JoinAndClearOK DEF BridgeInv
  <1>3. tally'.feedbackQueued = tally.feedbackQueued
    BY DEF JoinAndClear, BridgeInv, QueueInv, Counted, Tallies
  <1>4. FeedbackInv'
    <2>1. Staged(sent, sending, <<>>, tally.feedbackQueued) /\ Len(<<>>) <= MaxQueuedFeedback
      BY StagedClear, BridgeAssumption DEF BridgeInv, FeedbackInv
    <2> QED
      BY <1>3, <2>1 DEF FeedbackInv, JoinAndClear
  <1>5. ThreadInv'
    BY DEF JoinAndClear, IsRunning, BridgeInv, ThreadInv, Kinds, StopInv, LastFlushInv, WakeInv
  <1> QED
    BY <1>2, <1>4, <1>5 DEF BridgeInv

LEMMA PushFeedbackOK ==
  ASSUME BridgeInv, PushFeedback
  PROVE  BridgeInv'
  <1> DEFINE top == tally.feedbackQueued
             over == IF Len(outbound) >= MaxQueuedFeedback THEN 1 ELSE 0
             v == [tally EXCEPT !.feedbackQueued = @ + 1] w == [v EXCEPT !.feedbackDropped = @ + over]
  <1>1. /\ tally' = [tally EXCEPT !.feedbackQueued = @ + 1, !.feedbackDropped = @ + over]
        /\ outbound' = Enqueued(outbound, top + 1) /\ sent' = sent /\ sending' = sending
        /\ owner = "free" /\ owner' = "pushed"
    BY DEF PushFeedback
  <1>2. tally \in Tallies /\ over \in Nat
    BY DEF BridgeInv, QueueInv, Counted
  <1>3. /\ "drainedBatches" \in DOMAIN tally /\ "queuedBatches" \in DOMAIN tally
        /\ "refusedBatches" \in DOMAIN tally /\ "droppedBatches" \in DOMAIN tally
        /\ "discardedBatches" \in DOMAIN tally /\ "feedbackQueued" \in DOMAIN tally
        /\ "feedbackDropped" \in DOMAIN tally
    BY <1>2 DEF Tallies
  <1> HIDE DEF over
  <1>4. /\ v \in Tallies /\ DOMAIN v = DOMAIN tally
        /\ \A f \in DOMAIN tally : v[f] = IF f = "feedbackQueued" THEN tally[f] + 1 ELSE tally[f]
    BY <1>2, <1>3, Raised DEF Tallies
  <1>5. tally' = w
    BY <1>1
  <1> HIDE DEF v
  <1>6. w \in Tallies /\ \A f \in DOMAIN tally : w[f] = IF f = "feedbackDropped" THEN v[f] + over ELSE v[f]
    BY <1>2, <1>3, <1>4, Raised
  <1> HIDE DEF w
  <1>7. /\ w.drainedBatches = tally.drainedBatches /\ w.queuedBatches = tally.queuedBatches
        /\ w.refusedBatches = tally.refusedBatches /\ w.droppedBatches = tally.droppedBatches
        /\ w.discardedBatches = tally.discardedBatches /\ w.feedbackQueued = top + 1
    BY <1>3, <1>4, <1>6
  <1>8. Balance(w) = Balance(tally)
    BY <1>7 DEF Balance
  <1>9. SameQueue
    BY DEF PushFeedback, SameQueue, queueVars
  <1>10. QueueInv'
    BY <1>5, <1>6, <1>8, <1>9, SameQueueOK DEF BridgeInv
  <1>11. FeedbackInv'
    <2>1. /\ Staged(sent, sending, Enqueued(outbound, top + 1), top + 1)
          /\ Len(Enqueued(outbound, top + 1)) <= MaxQueuedFeedback
      BY StagedPush DEF BridgeInv, FeedbackInv
    <2> QED
      BY <1>1, <1>5, <1>7, <2>1 DEF FeedbackInv
  <1>12. ThreadInv'
    BY <1>1 DEF PushFeedback, BridgeInv, ThreadInv, Kinds, StopInv, LastFlushInv, WakeInv, workerVars,
                queueVars
  <1> QED
    BY <1>10, <1>11, <1>12 DEF BridgeInv

-----------------------------------------------------------------------------
(* Every step. *)

LEMMA DrainOK ==
  ASSUME BridgeInv, OwnerDrains
  PROVE  BridgeInv'
  <1>1. /\ SameFeedback /\ SameThreads /\ busy' = busy /\ pumped' = pumped /\ arrivals' = arrivals
    BY DEF OwnerDrains, DrainBatches, DrainFrame, DrainCommands, TakeBatches, SameFeedback, SameThreads,
           feedbackVars, workerVars, ownerVars
  <1>2. ThreadInv'
    BY <1>1, SameThreadsOK DEF BridgeInv, ThreadInv, Kinds
  <1>3. QueueInv'
    BY DrainBatchesOK, DrainFrameOK, DrainCommandsOK DEF BridgeInv, OwnerDrains
  <1>4. \E n : tally' = [tally EXCEPT !.drainedBatches = @ + n]
    <2>1. ASSUME NEW n \in DrainLimits, DrainBatches(n) PROVE \E k : tally' = [tally EXCEPT !.drainedBatches = @ + k]
      BY <2>1 DEF DrainBatches, TakeBatches
    <2>2. ASSUME NEW w \in FrameBudgets, NEW n \in DrainLimits, DrainFrame(w, n)
          PROVE  \E k : tally' = [tally EXCEPT !.drainedBatches = @ + k]
      BY <2>2 DEF DrainFrame, TakeBatches
    <2>3. ASSUME NEW n \in DrainLimits, DrainCommands(n) PROVE \E k : tally' = [tally EXCEPT !.drainedBatches = @ + k]
      BY <2>3 DEF DrainCommands
    <2> QED
      BY <2>1, <2>2, <2>3 DEF OwnerDrains
  <1>5. tally'.feedbackQueued = tally.feedbackQueued
    BY <1>4 DEF BridgeInv, QueueInv, Counted, Tallies
  <1>6. FeedbackInv'
    BY <1>1, <1>5, SameFeedbackOK DEF BridgeInv
  <1> QED
    BY <1>2, <1>3, <1>6 DEF BridgeInv

LEMMA ReceiveOK ==
  ASSUME BridgeInv, NEW packet \in Packets, ReceiveBatch(packet)
  PROVE  BridgeInv'
  <1>1. SameFeedback /\ SameThreads
    BY DEF ReceiveBatch, SameFeedback, SameThreads, feedbackVars, ownerVars
  <1>2. pumped' \in 0 .. PacketsPerPump /\ busy' \in BOOLEAN /\ arrivals' \in Nat
    BY BridgeAssumption DEF ReceiveBatch, MayReceive, BridgeInv, ThreadInv, Kinds
  <1>3. QueueInv'
    BY ReceiveBatchOK DEF BridgeInv
  <1>4. tally'.feedbackQueued = tally.feedbackQueued
    <2> DEFINE batch == Queued(packet, nextStamp)
    <2>0. tally \in Tallies
      BY DEF BridgeInv, QueueInv, Counted
    <2>1. CASE Admissible(batch)
      <3> DEFINE n == DropCount(batch)
      <3>1. tally' = [tally EXCEPT !.droppedBatches = @ + n, !.queuedBatches = @ + 1]
        BY <2>1 DEF ReceiveBatch, QueueBatch, CountedQueueing
      <3> HIDE DEF n
      <3> QED
        BY <2>0, <3>1 DEF Tallies
    <2>2. CASE ~Admissible(batch)
      <3>1. tally' = [tally EXCEPT !.droppedBatches = @ + 1, !.refusedBatches = @ + 1]
        BY <2>2 DEF ReceiveBatch, RefuseBatch
      <3> QED
        BY <2>0, <3>1 DEF Tallies
    <2> QED
      BY <2>1, <2>2
  <1>5. FeedbackInv'
    BY <1>1, <1>4, SameFeedbackOK DEF BridgeInv
  <1>6. ThreadInv'
    BY <1>1, <1>2, SameThreadsOK DEF BridgeInv
  <1> QED
    BY <1>3, <1>5, <1>6 DEF BridgeInv

LEMMA GarbageOK ==
  ASSUME BridgeInv, ReceiveGarbage
  PROVE  BridgeInv'
  <1>1. SameFeedback /\ SameThreads /\ SameQueue /\ tally' = tally
    BY DEF ReceiveGarbage, SameFeedback, SameThreads, SameQueue, feedbackVars, ownerVars, queueVars
  <1>2. pumped' \in 0 .. PacketsPerPump /\ busy' \in BOOLEAN /\ arrivals' \in Nat
    BY BridgeAssumption DEF ReceiveGarbage, MayReceive, BridgeInv, ThreadInv, Kinds, queueVars
  <1>3. QueueInv'
    BY <1>1, SameQueueOK DEF BridgeInv, QueueInv, Counted
  <1>4. FeedbackInv' /\ ThreadInv'
    BY <1>1, <1>2, SameFeedbackOK, SameThreadsOK DEF BridgeInv
  <1> QED
    BY <1>3, <1>4 DEF BridgeInv

\* A step of the threads alone.
ThreadStep ==
    \/ CheckStop \/ EndPump \/ BeginFlush \/ BeginIdleWait \/ IdleTimeout
    \/ NotifyStop \/ RequestWake \/ NotifyWake
    \/ \E byStart \in BOOLEAN : RequestStop(byStart)
    \/ \E command, feedback, sender \in BOOLEAN : OpenAndStart(command, feedback, sender)

LEMMA ThreadStepOK ==
  ASSUME BridgeInv, ThreadStep
  PROVE  BridgeInv'
  <1>1. SameFeedback /\ SameQueue /\ tally' = tally
    BY DEF ThreadStep, CheckStop, EndPump, BeginFlush, BeginIdleWait, IdleTimeout, NotifyStop, RequestWake,
           NotifyWake, RequestStop, OpenAndStart, SameFeedback, SameQueue, feedbackVars, queueVars
  <1>2. QueueInv' /\ FeedbackInv'
    BY <1>1, SameQueueOK, SameFeedbackOK DEF BridgeInv, QueueInv, Counted
  <1>3. ThreadInv'
    BY CheckStopOK, EndPumpOK, BeginFlushOK, BeginIdleWaitOK, IdleTimeoutOK, NotifyStopOK, RequestWakeOK,
       NotifyWakeOK, RequestStopOK, OpenAndStartOK DEF BridgeInv, ThreadStep
  <1> QED
    BY <1>2, <1>3 DEF BridgeInv

LEMMA TakeFeedbackStepOK ==
  ASSUME BridgeInv, TakeFeedback
  PROVE  BridgeInv'
  <1>1. SameQueue /\ tally' = tally
    BY DEF TakeFeedback, SameQueue, queueVars
  <1>2. QueueInv'
    BY <1>1, SameQueueOK DEF BridgeInv, QueueInv, Counted
  <1> QED
    BY <1>2, TakeFeedbackOK DEF BridgeInv

LEMMA BridgeInit == Init => BridgeInv
  <1> SUFFICES ASSUME Init PROVE BridgeInv
    OBVIOUS
  <1>1. Lined(inbound, drained, nextStamp) /\ Priced(inbound, totals)
    <2>1. /\ inbound = <<>> /\ totals = Zero /\ nextStamp = 1 /\ drained = <<>>
      BY DEF Init
    <2>2. DOMAIN <<>> = {}
      OBVIOUS
    <2>3. Lined(<<>>, <<>>, 1)
      BY <2>2, NoneStaged DEF Lined
    <2> QED
      BY <2>1, <2>3, EmptyOK
  <1>2. Counted
    BY DEF Init, Counted, Balance, Tallies
  <1>3. Staged(sent, sending, outbound, tally.feedbackQueued)
    BY NoneStaged DEF Init, Staged
  <1>4. Len(outbound) <= MaxQueuedFeedback
    BY BridgeAssumption DEF Init
  <1>5. ThreadInv
    <2>1. 0 \in 0 .. PacketsPerPump
      BY BridgeAssumption
    <2>2. Kinds
      BY <2>1 DEF Init, Kinds
    <2>3. StopInv /\ LastFlushInv /\ WakeInv
      BY DEF Init, StopInv, LastFlushInv, WakeInv
    <2> QED
      BY <2>2, <2>3 DEF ThreadInv
  <1> QED
    BY <1>1, <1>2, <1>3, <1>4, <1>5 DEF BridgeInv, QueueInv, FeedbackInv

LEMMA BridgeStep == BridgeInv /\ [Next]_vars => BridgeInv'
  <1> SUFFICES ASSUME BridgeInv, [Next]_vars PROVE BridgeInv'
    OBVIOUS
  <1>1. CASE UNCHANGED vars
    BY <1>1
    DEF vars, queueVars, feedbackVars, workerVars, ownerVars, BridgeInv, QueueInv, Counted, ThreadInv, Kinds,
        StopInv, LastFlushInv, WakeInv, FeedbackInv
  <1>2. CASE Next
    <2>1. CASE ThreadStep
      BY <2>1, ThreadStepOK
    <2>2. ASSUME NEW packet \in Packets, ReceiveBatch(packet) PROVE BridgeInv'
      BY <2>2, ReceiveOK
    <2>3. CASE ReceiveGarbage
      BY <2>3, GarbageOK
    <2>4. CASE TakeFeedback
      BY <2>4, TakeFeedbackStepOK
    <2>5. ASSUME NEW ok \in BOOLEAN, SendFeedback(ok) PROVE BridgeInv'
      BY <2>5, SendFeedbackOK
    <2>6. CASE JoinAndClear
      BY <2>6, JoinOK
    <2>7. CASE PushFeedback
      BY <2>7, PushFeedbackOK
    <2>8. CASE OwnerDrains
      BY <2>8, DrainOK
    <2> QED
      BY <1>2, <2>1, <2>2, <2>3, <2>4, <2>5, <2>6, <2>7, <2>8
      DEF Next, Worker, OwnerContinues, OwnerCalls, ThreadStep
  <1> QED
    BY <1>1, <1>2

LEMMA BridgeInvAlways == Spec => []BridgeInv
  BY BridgeInit, BridgeStep, PTL DEF Spec

-----------------------------------------------------------------------------
(* The theorems. *)

\* Every variable of the bridge keeps its type.
THEOREM TypeOKAlways == Spec => []TypeOK
  <1>1. ASSUME BridgeInv PROVE TypeOK
    <2>1. inbound \in Seq(QueuedBatch) /\ totals \in Amount
      BY <1>1, InboundTyped DEF BridgeInv, QueueInv
    <2>2. drained \in Seq(Nat) /\ nextStamp \in Nat
      BY <1>1 DEF BridgeInv, QueueInv, Lined
    <2>3. outbound \in Seq(Nat) /\ sending \in Seq(Nat) /\ sent \in Seq(Nat)
      BY <1>1 DEF BridgeInv, FeedbackInv, Staged
    <2>4. tally \in Tallies /\ Kinds
      BY <1>1 DEF BridgeInv, QueueInv, Counted, ThreadInv
    <2> QED
      BY <2>1, <2>2, <2>3, <2>4 DEF TypeOK, Tallies, Kinds
  <1> QED
    BY <1>1, BridgeInvAlways, PTL

\* The four running totals that PushQueuedBatch and the drains keep are the true cost of the
\* queue in every state, whatever was dropped, drained in part or cleared, and no budget is ever
\* exceeded.
THEOREM TotalsTrueAlways == Spec => []TotalsTrue
  <1>1. ASSUME BridgeInv PROVE TotalsTrue
    <2>1. Priced(inbound, totals)
      BY <1>1 DEF BridgeInv, QueueInv
    <2>2. ASSUME NEW i \in DOMAIN inbound PROVE Recosted(inbound[i]) = inbound[i]
      <3> DEFINE batch == inbound[i]
      <3>1. batch \in QueuedBatch /\ batch.cost = Cost(batch.works, batch.capacity, batch.cost["wire"])
        BY <2>1 DEF Priced, BatchOK
      <3> HIDE DEF batch
      <3>2. Recosted(batch) = batch
        BY <3>1 DEF Recosted, QueuedBatch
      <3> QED
        BY <3>2 DEF batch
    <2>3. [i \in DOMAIN inbound |-> Recosted(inbound[i])] = inbound
      <3>1. inbound = [i \in DOMAIN inbound |-> inbound[i]]
        BY <2>1 DEF Priced
      <3> QED
        BY <2>2, <3>1
    <2> QED
      BY <2>1, <2>3 DEF Priced, TotalsTrue
  <1> QED
    BY <1>1, BridgeInvAlways, PTL

\* The render thread gets the commands in the order of their arrival and none twice, by any mix
\* of the three drains, and every batch is accounted for.
THEOREM DrainedOnceInOrderAlways == Spec => []DrainedOnceInOrder
  <1>1. ASSUME BridgeInv PROVE DrainedOnceInOrder
    <2>1. inbound \in Seq(QueuedBatch) /\ Len(inbound) \in Nat /\ Lined(inbound, drained, nextStamp)
      BY <1>1, InboundTyped DEF BridgeInv, QueueInv
    <2>2. Increasing(drained \o StampsOf(inbound))
      BY <2>1, LinedIncreasing
    <2>3. tally \in Tallies /\ Balance(tally) = Len(inbound)
      BY <1>1 DEF BridgeInv, QueueInv, Counted
    <2>4. tally.queuedBatches + tally.refusedBatches =
            tally.drainedBatches + tally.droppedBatches + Len(inbound) + tally.discardedBatches
      BY <2>1, <2>3, TallyTyped DEF Balance
    <2> QED
      BY <2>2, <2>4 DEF DrainedOnceInOrder
  <1> QED
    BY <1>1, BridgeInvAlways, PTL

\* A frame drain whose budget is at least the atomic limit always takes the batch at the head:
\* what PushQueuedBatch admits never blocks the queue.
THEOREM FrameNeverBlockedAlways == Spec => []FrameNeverBlocked
  <1>1. ASSUME BridgeInv PROVE FrameNeverBlocked
    <2>1. /\ inbound \in Seq(QueuedBatch) /\ Len(inbound) \in Nat /\ Priced(inbound, totals) /\ QueueInv
      BY <1>1, InboundTyped DEF BridgeInv, QueueInv
    <2>2. ASSUME NEW w \in FrameBudgets, NEW n \in DrainLimits, w >= MaxAtomicWork, inbound # <<>>
          PROVE  FrameCount(w, n) > 0
      <3> DEFINE head == inbound[1]
      <3>1. /\ 1 \in 1 .. Len(inbound) /\ 1 \in DOMAIN inbound /\ SubSeq(inbound, 1, 1) = <<head>>
        <4>1. 1 \in 1 .. Len(inbound) /\ 1 \in DOMAIN inbound
          BY <2>1, <2>2
        <4>2. SubSeq(inbound, 1, 1) = <<head>> \o SubSeq(inbound, 1 + 1, 1)
          BY <2>1, <4>1, SubSeqRecursiveFirst
        <4>3. SubSeq(inbound, 1 + 1, 1) = <<>>
          BY SubSeqEmpty
        <4>4. <<head>> \in Seq(QueuedBatch)
          BY <2>1, <4>1
        <4> QED
          BY <4>1, <4>2, <4>3, <4>4, ConcatEmptySeq
      <3>2. BatchOK(head)
        BY <2>1, <3>1 DEF Priced
      <3> HIDE DEF head
      <3>3. CostOf(SubSeq(inbound, 1, 1)) = head.cost /\ head.cost["work"] \in Nat
            /\ head.cost["work"] <= MaxAtomicWork
        BY <3>1, <3>2, CostOfFew DEF BatchOK, QueuedBatch, Amount, Quantities
      <3>4. w \in Nat /\ n \in Nat /\ 1 <= n /\ MaxAtomicWork \in Nat
        BY BridgeAssumption
      <3>5. FitsFrame(1, w)
        BY <2>2, <3>3, <3>4 DEF FitsFrame
      <3>6. FrameCount(w, n) \in 0 .. Len(inbound) /\ 1 <= FrameCount(w, n)
        BY <2>1, <3>1, <3>4, <3>5, FrameCountIs
      <3> QED
        BY <2>1, <3>6
    <2> QED
      BY <2>2 DEF FrameNeverBlocked
  <1> QED
    BY <1>1, BridgeInvAlways, PTL

\* Feedback goes out in the order it was enqueued, at most once and never over the limit, and
\* what was enqueued before Stop has been attempted when the worker ends.
THEOREM FeedbackOnceInOrderAlways == Spec => []FeedbackOnceInOrder
  <1>1. ASSUME BridgeInv PROVE FeedbackOnceInOrder
    <2>1. Staged(sent, sending, outbound, tally.feedbackQueued) /\ Len(outbound) <= MaxQueuedFeedback
      BY <1>1 DEF BridgeInv, FeedbackInv
    <2>2. Increasing(sent \o sending \o outbound)
      BY <2>1, StagedIncreasing
    <2>3. worker = "exited" /\ channels.feedback => outbound = <<>> /\ sending = <<>>
      BY <1>1 DEF BridgeInv, ThreadInv, LastFlushInv
    <2> QED
      BY <2>1, <2>2, <2>3 DEF FeedbackOnceInOrder
  <1> QED
    BY <1>1, BridgeInvAlways, PTL

\* The worker does not sleep on feedback: the wake signal of a payload pushed while the worker
\* was looking at the queue is still to be seen.
THEOREM NeverAsleepOnFeedbackAlways == Spec => []NeverAsleepOnFeedback
  <1>1. ASSUME BridgeInv PROVE NeverAsleepOnFeedback
    BY <1>1 DEF BridgeInv, ThreadInv, WakeInv, NeverAsleepOnFeedback
  <1> QED
    BY <1>1, BridgeInvAlways, PTL
=============================================================================
