-------------------------- MODULE CommandTransport --------------------------
(***************************************************************************)
(* The command path from end to end: clients that cut batches into chunks  *)
(* and send them, a network, and the CommandProcessor of the window.       *)
(*                                                                         *)
(* A client sends the batches of its script in order. A send that fails    *)
(* ends the attempt; the caller tries the batch again, under a new         *)
(* identity, or goes on with the next. The network is the set of all the   *)
(* chunks that were sent: any of them can arrive, any number of times, at  *)
(* any time, or never. The queue of UdpRuntimeBridge only adds to that.    *)
(***************************************************************************)
EXTENDS CommandProcessor

CONSTANTS
    Clients,        \* client identities
    Script,         \* the batches each client sends, see Message
    MaxPayload,     \* MaxPayloadBytes, without the fragment metadata
    BatchIds,       \* the number of batch identities, 2^64 in the code
    MaxSessions,    \* bound: sessions of a client
    MaxAttempts     \* bound: calls of SendBatch of a client

Message == [sequence : Nat, hash : Maps \cup {NoMap}, commands : Seq(Commands) \ {<<>>}]

ASSUME ClientAssumption ==
    /\ Clients \subseteq Nat \ {0}
    /\ Script \in [Clients -> Seq(Message)]
    /\ {MaxPayload, BatchIds, MaxSessions} \subseteq Nat \ {0}
    /\ MaxAttempts \in Nat

VARIABLES
    session,        \* sessionEpoch_ of each client, numbered
    nextBatchId,    \* nextBatchId_ of each client
    cursor,         \* position in the script of the batch to send
    attempts,       \* calls of SendBatch so far
    sending,        \* the payloads the running SendBatch has still to send
    wire,           \* chunks that were sent
    offered         \* batches of which a first chunk was to be sent

clientVars == <<session, nextBatchId, cursor, attempts, sending, offered>>
vars == <<processorVars, clientVars, wire>>

-----------------------------------------------------------------------------
(* The client: CommandClient::SendBatch. *)

\* Defect: a counter that wraps goes on in the same session.
AllocateBatchIdentity_SameSession(client) ==
    LET id == Max({1, nextBatchId[client]}) IN
    [session |-> session[client], batch |-> id, next |-> (id + 1) % BatchIds]

\* A counter that wraps to 0 starts a new session.
AllocateBatchIdentity(client) ==
    IF nextBatchId[client] = 0
    THEN [session |-> session[client] + 1, batch |-> 1, next |-> 2 % BatchIds]
    ELSE [session |-> session[client], batch |-> nextBatchId[client],
          next |-> (nextBatchId[client] + 1) % BatchIds]

\* A command goes into the current chunk if it fits, and else opens the next one.
Cut(chunks, c) ==
    IF chunks # <<>> /\ WireOf(Append(Last(chunks), c)) <= MaxPayload
    THEN Append(Front(chunks), Append(Last(chunks), c))
    ELSE Append(chunks, <<c>>)

Chunks(commands) ==
    LET after[n \in 0 .. Len(commands)] ==
            IF n = 0 THEN <<>> ELSE Cut(after[n - 1], commands[n])
    IN after[Len(commands)]

TooMuchWork(message) == WorkOf(message.commands) > MaxAtomicWork
Oversized(message) ==
    \E i \in DOMAIN message.commands : WireOf(<<message.commands[i]>>) > MaxPayload

\* The payloads of a batch, each with its identity and its position.
Payloads(client, message, id) ==
    LET chunks == Chunks(message.commands) IN
    [i \in DOMAIN chunks |->
        [whole |-> FALSE, sequence |-> message.sequence, hash |-> message.hash,
         commands |-> chunks[i],
         fragment |-> [client |-> client, session |-> id.session, batch |-> id.batch,
                       index |-> i - 1, count |-> Len(chunks)]]]

\* Every chunk the clients can send.
Sendable ==
    UNION {UNION {Range(Payloads(client, Script[client][i], id)) :
            i \in DOMAIN Script[client], id \in [session : 1 .. MaxSessions, batch : 1 .. BatchIds]}
        : client \in Clients}

\* The processor is made for the packets of these clients, and maybe for others.
ASSUME TransportAssumption == Sendable \subseteq Packets

Current(client) == Script[client][cursor[client]]

Offered(client, message, id) ==
    [stream |-> <<message.hash, client, id.session>>,
     sequence |-> IF message.hash = NoMap THEN 0 ELSE message.sequence,
     commands |-> message.commands]

\* An attempt at the batch at the cursor takes an identity. All the chunks are built and
\* checked before the first one is sent: a command too large for a chunk ends the attempt.
BeginSend(client) ==
    /\ sending[client] = <<>>
    /\ cursor[client] \in DOMAIN Script[client]
    /\ attempts[client] < MaxAttempts
    /\ ~TooMuchWork(Current(client))
    /\ LET id == AllocateBatchIdentity(client) IN
       /\ id.session <= MaxSessions
       /\ session' = [session EXCEPT ![client] = id.session]
       /\ nextBatchId' = [nextBatchId EXCEPT ![client] = id.next]
       /\ IF Oversized(Current(client))
          THEN /\ cursor' = [cursor EXCEPT ![client] = @ + 1]
               /\ UNCHANGED <<sending, offered>>
          ELSE /\ sending' = [sending EXCEPT ![client] = Payloads(client, Current(client), id)]
               /\ offered' = offered \cup {Offered(client, Current(client), id)}
               /\ UNCHANGED cursor
    /\ attempts' = [attempts EXCEPT ![client] = @ + 1]
    /\ UNCHANGED <<processorVars, wire>>

\* A batch of too much work is refused before it takes an identity.
RefuseMessage(client) ==
    /\ sending[client] = <<>>
    /\ cursor[client] \in DOMAIN Script[client]
    /\ TooMuchWork(Current(client))
    /\ cursor' = [cursor EXCEPT ![client] = @ + 1]
    /\ UNCHANGED <<processorVars, session, nextBatchId, attempts, sending, offered, wire>>

SendPayload(client) ==
    /\ sending[client] # <<>>
    /\ wire' = wire \cup {Head(sending[client])}
    /\ sending' = [sending EXCEPT ![client] = Tail(@)]
    /\ cursor' = IF Len(sending[client]) = 1 THEN [cursor EXCEPT ![client] = @ + 1] ELSE cursor
    /\ UNCHANGED <<processorVars, session, nextBatchId, attempts, offered>>

\* The channel refuses a payload: the rest is not sent. The caller sends the batch again or not.
FailPayload(client) ==
    /\ sending[client] # <<>>
    /\ sending' = [sending EXCEPT ![client] = <<>>]
    /\ cursor' \in {cursor, [cursor EXCEPT ![client] = @ + 1]}
    /\ UNCHANGED <<processorVars, session, nextBatchId, attempts, offered, wire>>

-----------------------------------------------------------------------------
TransportInit ==
    /\ Init
    /\ session = [client \in Clients |-> 1]
    /\ nextBatchId = [client \in Clients |-> 1]
    /\ cursor = [client \in Clients |-> 1]
    /\ attempts = [client \in Clients |-> 0]
    /\ sending = [client \in Clients |-> <<>>]
    /\ wire = {}
    /\ offered = {}

\* The render thread, on what the network delivers.
Window ==
    /\ \/ \E packet \in wire : Submit(packet)
       \/ MaintainTransportState
       \/ ResetTransportState
       \/ Tick
    /\ UNCHANGED <<clientVars, wire>>

TransportNext ==
    \/ \E client \in Clients :
        BeginSend(client) \/ RefuseMessage(client) \/ SendPayload(client) \/ FailPayload(client)
    \/ Window

TransportSpec == TransportInit /\ [][TransportNext]_vars

-----------------------------------------------------------------------------
(* Properties. *)

Offerable ==
    UNION {{Offered(client, Script[client][i], [session |-> s]) :
                i \in DOMAIN Script[client], s \in 1 .. MaxSessions} : client \in Clients}

\* The batches that took effect.
Taken ==
    [i \in DOMAIN applied |->
        [stream |-> applied[i].key,
         sequence |-> IF applied[i].hash = NoMap THEN 0 ELSE applied[i].sequence,
         commands |-> applied[i].commands]]

\* The command path in transactional mode keeps the promise of BatchDelivery.
Delivery == INSTANCE BatchDelivery WITH
    Batches <- Offerable,
    offered <- offered,
    taken <- Taken

DeliverySpec == Delivery!Spec
=============================================================================
