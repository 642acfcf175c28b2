------------------------ MODULE MCUdpRuntimeBridge ------------------------
(* Instances of UdpRuntimeBridge for TLC. *)
EXTENDS UdpRuntimeBridge

PacketOf(works, capacity, wire, fragment) ==
    [works |-> works, capacity |-> capacity, wire |-> wire, fragment |-> fragment]

\* A single command, a coalesced pair, a bulk update, a batch above the atomic
\* limit, and a chunk of a larger batch.
QueuePackets ==
    {PacketOf(<<1>>, 1, 1, FALSE),
     PacketOf(<<1, 2>>, 3, 2, FALSE),
     PacketOf(<<3>>, 1, 1, FALSE),
     PacketOf(<<2, 2>>, 2, 1, FALSE),
     PacketOf(<<1>>, 1, 3, TRUE)}

QueueLimit == [commands |-> 4, work |-> 5, wire |-> 5, memory |-> 9]

\* The queue's budgets are not the question here; one batch is above the atomic limit.
FeedbackPackets == {PacketOf(<<1>>, 1, 1, FALSE), PacketOf(<<2, 2>>, 2, 1, FALSE)}
WideLimit == [commands |-> 9, work |-> 9, wire |-> 9, memory |-> 99]
=============================================================================
