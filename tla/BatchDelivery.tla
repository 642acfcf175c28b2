---------------------------- MODULE BatchDelivery ----------------------------
(***************************************************************************)
(* What the command path promises over a network that loses, repeats and   *)
(* reorders datagrams: the scene only ever takes whole batches that were   *)
(* offered to it, and those of one stream in the order of their sequences, *)
(* each at most once. Batches that carry no sequence have no order.        *)
(***************************************************************************)
EXTENDS Integers, Sequences

CONSTANT Batches    \* records with a stream, a sequence (0 when unsequenced) and commands

VARIABLES
    offered,    \* batches a client has begun to send
    taken       \* batches the scene took since its document was loaded, in order

vars == <<offered, taken>>

Init ==
    /\ offered = {}
    /\ taken = <<>>

Offer(batch) ==
    /\ offered' = offered \cup {batch}
    /\ UNCHANGED taken

Orderly(batch) ==
    \A i \in DOMAIN taken :
        taken[i].stream = batch.stream /\ taken[i].sequence # 0 /\ batch.sequence # 0 =>
            taken[i].sequence <= batch.sequence /\ taken[i] # batch

Take(batch) ==
    /\ batch \in offered
    /\ Orderly(batch)
    /\ taken' = Append(taken, batch)
    /\ UNCHANGED offered

\* A document is loaded.
Forget ==
    /\ taken' = <<>>
    /\ UNCHANGED offered

Next ==
    \/ \E batch \in Batches : Offer(batch) \/ Take(batch)
    \/ Forget

Spec == Init /\ [][Next]_vars
=============================================================================
