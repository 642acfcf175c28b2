------------------------- MODULE MCCommandProcessor -------------------------
(* Instances of CommandProcessor for TLC. *)
EXTENDS CommandProcessor

CONSTANTS a, b, c, heavy, h1, h2

MCCommands == {a, b, c, heavy}
MCWork == [x \in MCCommands |-> IF x = heavy THEN 2 ELSE 1]
MCBytes == [x \in MCCommands |-> 1]

MCBatchLimit == [wire |-> 9, commands |-> 4]
\* Tighter than what the batches below need together.
MCLimit == [wire |-> 6, commands |-> 3, slots |-> 5, memory |-> 24]

Chunk(client, batch, index, count, sequence, hash, commands) ==
    [whole |-> FALSE, sequence |-> sequence, hash |-> hash, commands |-> commands,
     fragment |-> [client |-> client, session |-> 1, batch |-> batch, index |-> index, count |-> count]]

WholeBatch(sequence, hash, commands) ==
    [whole |-> TRUE, sequence |-> sequence, hash |-> hash, commands |-> commands, fragment |-> Whole]

\* A stream whose first batch is cut in two and sent again in one piece, followed by another
\* batch of the cycle and one of the next; a chunk that contradicts another and one with
\* contradicting metadata; a batch of another stream; batches without identity.
FilterPackets ==
    {Chunk(1, 1, 0, 2, 1, h1, <<a>>), Chunk(1, 1, 1, 2, 1, h1, <<b>>), Chunk(1, 1, 1, 2, 1, h1, <<c>>),
     Chunk(1, 1, 0, 2, 2, h1, <<a>>),
     Chunk(1, 2, 0, 1, 1, h1, <<a, b>>), Chunk(1, 3, 0, 1, 1, h1, <<c>>), Chunk(1, 4, 0, 1, 2, h1, <<c>>),
     Chunk(2, 1, 0, 1, 1, h1, <<c>>),
     WholeBatch(0, NoMap, <<a, c>>), WholeBatch(1, h1, <<a>>), WholeBatch(0, NoMap, <<heavy, heavy>>)}

\* Batches of three chunks whose last one is lost, of which one exceeds the work limit,
\* and a chunk that is not valid.
StalledPackets ==
    {Chunk(2, 2, i, 3, 0, NoMap, <<a>>) : i \in 0 .. 1}
    \cup {Chunk(2, 3, i, 3, 0, NoMap, <<heavy>>) : i \in 0 .. 1}
    \cup {Chunk(2, 4, 2, 2, 1, h1, <<a>>)}

MCPackets == FilterPackets \cup StalledPackets
=============================================================================
