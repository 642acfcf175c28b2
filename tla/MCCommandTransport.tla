------------------------- MODULE MCCommandTransport -------------------------
(* Instances of CommandTransport for TLC. *)
EXTENDS CommandTransport

CONSTANTS a, b, c, huge, h

MCCommands == {a, b, c, huge}
MCOne == [x \in MCCommands |-> 1]
MCBytes == [x \in MCCommands |-> IF x = huge THEN 3 ELSE 1]
MCBatchLimit == [wire |-> 9, commands |-> 9]
MCLimit == [q \in Quantities |-> 99]

Send(sequence, hash, commands) == [sequence |-> sequence, hash |-> hash, commands |-> commands]

\* One client with batches of one cycle and one of the next, of two chunks each, and one
\* above the work limit; another without mapping, with a command that fits no chunk.
MCScript ==
    (1 :> <<Send(1, h, <<a, b, c>>), Send(1, h, <<a, b, c, a>>), Send(1, h, <<c, a, b>>), Send(2, h, <<b, c, a>>)>>)
    @@ (2 :> <<Send(1, NoMap, <<a, huge>>), Send(1, NoMap, <<a>>)>>)
=============================================================================
