----------------------------- MODULE TrudpKernel -----------------------------
(***************************************************************************)
(* The goroutines of one trudp host (trudp/trudp/process.go, channel.go):  *)
(* the kernel worker with its select loop, the goroutines that call Write  *)
(* and Close, and the reader of the event channel, which calls Write and   *)
(* Close too while it handles an event (teonet does so for most commands). *)
(* A write goes through the buffered chanWrite to the kernel, which sends  *)
(* it or puts it into the write queue of its channel; its caller waits for *)
(* the answer. The kernel hands events to the reader through the buffered  *)
(* chanEvent and blocks while it is full.                                  *)
(*                                                                         *)
(* The protocol is reduced to the number of unacknowledged packets of a    *)
(* channel; module TrudpChannel has the rest of it. A channel is an object *)
(* of type ChannelData: it is created, destroyed and never used again.     *)
(***************************************************************************)
EXTENDS Integers, Sequences, SequencesExt, FiniteSets

CONSTANTS
    Channel,        \* ChannelData objects
    Writer,         \* goroutines of users
    Reader,         \* the goroutine that reads chanEvent
    maxQueueSize,   \* limit of a send queue
    chWriteSize,    \* capacity of chanWrite
    chEventSize,    \* capacity of chanEvent
    EventReserve,   \* places of chanEvent kept free of packets' events (16)
    MaxCalls,       \* bound: calls of Write of a user
    MaxPackets,     \* bound: DATA and RESET packets of a channel
    MaxNotrudp      \* bound: datagrams that are not trudp packets

ASSUME KernelAssumption ==
    /\ IsFiniteSet(Channel) /\ Channel # {}
    /\ Reader \notin Writer
    /\ maxQueueSize \in Nat \ {0}
    /\ chWriteSize \in Nat \ {0}
    /\ chEventSize \in Nat \ {0}
    /\ EventReserve \in 1 .. chEventSize
    /\ MaxCalls \in Nat
    /\ MaxPackets \in Nat
    /\ MaxNotrudp \in Nat

VARIABLES
    life,           \* of a channel: "none", "open" or "stopped" (stoppedF)
    connected,      \* tcd.connected
    unacked,        \* number of packets in the send queue
    writeQueue,     \* writes of a channel that wait, by their goroutine
    chanWrite,      \* writes on their way to the kernel
    chanEvent,      \* events on their way to the reader
    out,            \* events that the kernel is about to send
    at,             \* where a goroutine is
    to,             \* the channel it writes to or closes
    sent,           \* history: writes in the order they were sent
    taken,          \* history: writes in the order the kernel took them
    calls, packets, notrudp     \* counters (bounds)

queueVars == <<unacked, writeQueue>>
vars == <<life, connected, unacked, writeQueue, chanWrite, chanEvent, out, at,
          to, sent, taken, calls, packets, notrudp>>

Goroutine == Writer \cup {Reader}

Event == [type : {"Connected", "Data", "ResetLocal", "Disconnected"},
          tcd  : Channel]

Ev(type, c) == [type |-> type, tcd |-> c]

-----------------------------------------------------------------------------
(* The kernel runs one handler at a time, to its end: it takes the next one
   when the events of the last are sent and the function of a caller returned. *)
Ready == out = <<>> /\ \A g \in Goroutine : at[g] # "closed"

\* Fault: every free place of chanEvent may be used.
sendEventWhileRoom == Len(chanEvent) < chEventSize

sendEventAvailable == Len(chanEvent) < chEventSize - EventReserve

canWrite(n) == n < maxQueueSize

\* The goroutines of the writes ws get their answer.
Answer(ws) ==
    at' = [g \in Goroutine |-> IF Contains(ws, g) THEN "idle" ELSE at[g]]

Open(c) == life[c] = "open"

\* newChannelData for a packet that arrives: the first one connects.
ConnectedEvent(c) == IF connected[c] THEN <<>> ELSE <<Ev("Connected", c)>>

\* Fault: the writes that wait are dropped without an answer.
writeQueueForget(c, ret) ==
    /\ unacked' = [unacked EXCEPT ![c] = 0]
    /\ writeQueue' = [writeQueue EXCEPT ![c] = <<>>]
    /\ taken' = [taken EXCEPT ![c] = sent[c]]
    /\ at' = [g \in Goroutine |-> IF g \in ret THEN "closed" ELSE at[g]]

\* sendQueueReset and writeQueueReset: both queues are emptied, the writes that
\* wait are answered (with false) and count as never taken. The goroutines of
\* ret are those whose function does it.
writeQueueReset(c, ret) ==
    /\ unacked' = [unacked EXCEPT ![c] = 0]
    /\ writeQueue' = [writeQueue EXCEPT ![c] = <<>>]
    /\ taken' = [taken EXCEPT ![c] = sent[c]]
    /\ at' = [g \in Goroutine |->
                 IF g \in ret THEN "closed"
                 ELSE IF Contains(writeQueue[c], g) THEN "idle" ELSE at[g]]

\* ChannelData.destroy of an open channel: it leaves tcdmap, and the reader is
\* told if it was told before that the channel is connected. (The code keeps the
\* flag of the destroyed object, and nobody asks for it again.)
destroy(c, ret) ==
    /\ writeQueueReset(c, ret)
    /\ life' = [life EXCEPT ![c] = "stopped"]
    /\ connected' = [connected EXCEPT ![c] = FALSE]
    /\ out' = IF connected[c] THEN <<Ev("Disconnected", c)>> ELSE <<>>

-----------------------------------------------------------------------------
Init ==
    /\ life = [c \in Channel |-> "none"]
    /\ connected = [c \in Channel |-> FALSE]
    /\ unacked = [c \in Channel |-> 0]
    /\ writeQueue = [c \in Channel |-> <<>>]
    /\ chanWrite = <<>>
    /\ chanEvent = <<>>
    /\ out = <<>>
    /\ at = [g \in Goroutine |-> "idle"]
    /\ to = [g \in Goroutine |-> CHOOSE c \in Channel : TRUE]
    /\ sent = [c \in Channel |-> <<>>]
    /\ taken = [c \in Channel |-> <<>>]
    /\ calls = [w \in Writer |-> 0]
    /\ packets = [c \in Channel |-> 0]
    /\ notrudp = 0

(* Callers *)

\* Write looks at stoppedF first, and returns an error if it is set.
Write(g, c) ==
    /\ at[g] = "idle"
    /\ Open(c)
    /\ at' = [at EXCEPT ![g] = "checked"]
    /\ to' = [to EXCEPT ![g] = c]

UserWrite(w, c) ==
    /\ calls[w] < MaxCalls
    /\ calls' = [calls EXCEPT ![w] = @ + 1]
    /\ Write(w, c)
    /\ UNCHANGED <<life, connected, queueVars, chanWrite, chanEvent, out, sent,
                   taken, packets, notrudp>>

\* Then it hands the write to the kernel, and waits for the answer.
Enqueue(g) ==
    /\ at[g] = "checked"
    /\ Len(chanWrite) < chWriteSize
    /\ chanWrite' = Append(chanWrite, g)
    /\ at' = [at EXCEPT ![g] = "waiting"]
    /\ UNCHANGED <<life, connected, queueVars, chanEvent, out, to, sent, taken,
                   calls, packets, notrudp>>

\* Close of a channel by a user; it waits until the kernel ran the function.
UserClose(w, c) ==
    /\ at[w] = "idle"
    /\ calls[w] < MaxCalls
    /\ life[c] # "none"
    /\ calls' = [calls EXCEPT ![w] = @ + 1]
    /\ at' = [at EXCEPT ![w] = "closing"]
    /\ to' = [to EXCEPT ![w] = c]
    /\ UNCHANGED <<life, connected, queueVars, chanWrite, chanEvent, out, sent,
                   taken, packets, notrudp>>

\* ConnectChannel: the kernel creates the channel. The caller only waits for a
\* kernel that is in its select, so this is one step.
ConnectChannel(c) ==
    /\ Ready
    /\ life[c] = "none"
    /\ life' = [life EXCEPT ![c] = "open"]
    /\ UNCHANGED <<connected, queueVars, chanWrite, chanEvent, out, at, to,
                   sent, taken, calls, packets, notrudp>>

(* The kernel *)

\* The kernel takes a write, also one for a channel that was destroyed since
\* the writer looked at stoppedF: writeTo asks only for room in the queues.
TakeWrite ==
    LET g == Head(chanWrite)
        c == to[g]
    IN
    /\ Ready
    /\ chanWrite # <<>>
    /\ chanWrite' = Tail(chanWrite)
    /\ taken' = [taken EXCEPT ![c] = Append(@, g)]
    /\ IF writeQueue[c] = <<>> /\ canWrite(unacked[c])
       THEN /\ unacked' = [unacked EXCEPT ![c] = @ + 1]
            /\ sent' = [sent EXCEPT ![c] = Append(@, g)]
            /\ Answer(<<g>>)
            /\ UNCHANGED writeQueue
       ELSE /\ writeQueue' = [writeQueue EXCEPT ![c] = Append(@, g)]
            /\ UNCHANGED <<unacked, sent, at>>
    /\ UNCHANGED <<life, connected, chanEvent, out, to, calls, packets,
                   notrudp>>

\* Fault: the writes that came last are released first.
AcknowledgeLast(c, n) ==
    LET w   == Len(writeQueue[c])
        r   == IF canWrite(n) THEN maxQueueSize - n ELSE 1
        k   == IF w < r THEN w ELSE r
        rel == SubSeq(writeQueue[c], w - k + 1, w)
    IN
    /\ Ready
    /\ sendEventAvailable
    /\ Open(c)
    /\ unacked' = [unacked EXCEPT ![c] = n + k]
    /\ writeQueue' = [writeQueue EXCEPT ![c] = SubSeq(@, 1, w - k)]
    /\ sent' = [sent EXCEPT ![c] = @ \o rel]
    /\ Answer(rel)
    /\ connected' = [connected EXCEPT ![c] = TRUE]
    /\ out' = ConnectedEvent(c)
    /\ UNCHANGED <<life, chanWrite, chanEvent, to, taken, calls, packets,
                   notrudp>>

\* An ACK leaves n packets in the send queue and releases the first waiting
\* write, and others while there is room.
Acknowledge(c, n) ==
    LET w   == Len(writeQueue[c])
        r   == IF canWrite(n) THEN maxQueueSize - n ELSE 1
        k   == IF w < r THEN w ELSE r
        rel == SubSeq(writeQueue[c], 1, k)
    IN
    /\ Ready
    /\ sendEventAvailable
    /\ Open(c)
    /\ unacked' = [unacked EXCEPT ![c] = n + k]
    /\ writeQueue' = [writeQueue EXCEPT ![c] = SubSeq(@, k + 1, w)]
    /\ sent' = [sent EXCEPT ![c] = @ \o rel]
    /\ Answer(rel)
    /\ connected' = [connected EXCEPT ![c] = TRUE]
    /\ out' = ConnectedEvent(c)
    /\ UNCHANGED <<life, chanWrite, chanEvent, to, taken, calls, packets,
                   notrudp>>

GotAck(c) == unacked[c] > 0 /\ Acknowledge(c, unacked[c] - 1)

\* An ACK of a packet that is not in the send queue any more.
GotAckAgain(c) == Acknowledge(c, unacked[c])

\* A DATA packet, which may be the first of a new channel. (A packet that finds
\* chanEvent too full is dropped.)
GotData(c) ==
    /\ Ready
    /\ sendEventAvailable
    /\ life[c] # "stopped"
    /\ packets[c] < MaxPackets
    /\ packets' = [packets EXCEPT ![c] = @ + 1]
    /\ life' = [life EXCEPT ![c] = "open"]
    /\ connected' = [connected EXCEPT ![c] = TRUE]
    /\ out' = ConnectedEvent(c) \o <<Ev("Data", c)>>
    /\ UNCHANGED <<queueVars, chanWrite, chanEvent, at, to, sent, taken, calls,
                   notrudp>>

\* A RESET or ACKReset packet.
GotReset(c) ==
    /\ Ready
    /\ sendEventAvailable
    /\ Open(c)
    /\ packets[c] < MaxPackets
    /\ packets' = [packets EXCEPT ![c] = @ + 1]
    /\ connected' = [connected EXCEPT ![c] = TRUE]
    /\ writeQueueReset(c, {})
    /\ out' = ConnectedEvent(c) \o <<Ev("ResetLocal", c)>>
    /\ UNCHANGED <<life, chanWrite, chanEvent, to, sent, calls, notrudp>>

\* A datagram that is no trudp packet: a kernel function sends its event
\* without a look at the room in chanEvent.
GotNotrudp(c) ==
    /\ Ready
    /\ Open(c)
    /\ notrudp < MaxNotrudp
    /\ notrudp' = notrudp + 1
    /\ out' = <<Ev("Data", c)>>
    /\ UNCHANGED <<life, connected, queueVars, chanWrite, chanEvent, at, to,
                   sent, taken, calls, packets>>

\* A tick destroys a channel: its peer is silent, or resends are exhausted.
Disconnect(c) ==
    /\ Ready
    /\ Open(c)
    /\ destroy(c, {})
    /\ UNCHANGED <<chanWrite, chanEvent, to, sent, calls, packets, notrudp>>

\* The function of a call of Close: a channel is destroyed once.
CloseFunction(g) ==
    /\ Ready
    /\ at[g] = "closing"
    /\ \/ /\ Open(to[g])
          /\ destroy(to[g], {g})
       \/ /\ ~Open(to[g])
          /\ at' = [at EXCEPT ![g] = "idle"]
          /\ UNCHANGED <<life, connected, queueVars, out, taken>>
    /\ UNCHANGED <<chanWrite, chanEvent, to, sent, calls, packets, notrudp>>

\* The function has sent its event and signals done.
CloseReturns(g) ==
    /\ out = <<>>
    /\ at[g] = "closed"
    /\ at' = [at EXCEPT ![g] = "idle"]
    /\ UNCHANGED <<life, connected, queueVars, chanWrite, chanEvent, out, to,
                   sent, taken, calls, packets, notrudp>>

\* sendEvent: the kernel is blocked in it while chanEvent is full.
SendEvent ==
    /\ out # <<>>
    /\ Len(chanEvent) < chEventSize
    /\ chanEvent' = Append(chanEvent, Head(out))
    /\ out' = Tail(out)
    /\ UNCHANGED <<life, connected, queueVars, chanWrite, at, to, sent, taken,
                   calls, packets, notrudp>>

(* The reader takes an event when it is done with the last one. Received data
   makes it answer with a write, close the channel, or do neither; it closes
   the channel of a disconnected peer. *)
ReadEvent ==
    LET c == Head(chanEvent).tcd IN
    /\ at[Reader] = "idle"
    /\ chanEvent # <<>>
    /\ chanEvent' = Tail(chanEvent)
    /\ \/ UNCHANGED <<at, to>>
       \/ /\ Head(chanEvent).type = "Data"
          /\ Write(Reader, c)
       \/ /\ Head(chanEvent).type \in {"Data", "Disconnected"}
          /\ at' = [at EXCEPT ![Reader] = "closing"]
          /\ to' = [to EXCEPT ![Reader] = c]
    /\ UNCHANGED <<life, connected, queueVars, chanWrite, out, sent, taken,
                   calls, packets, notrudp>>

-----------------------------------------------------------------------------
Kernel(c) ==
    \/ ConnectChannel(c)
    \/ GotAck(c)
    \/ GotAckAgain(c)
    \/ GotData(c)
    \/ GotReset(c)
    \/ GotNotrudp(c)
    \/ Disconnect(c)

Function(g) == CloseFunction(g) \/ CloseReturns(g)

Next ==
    \/ \E c \in Channel : Kernel(c)
    \/ TakeWrite
    \/ SendEvent
    \/ ReadEvent
    \/ \E g \in Goroutine : Enqueue(g) \/ Function(g)
    \/ \E w \in Writer, c \in Channel : UserWrite(w, c) \/ UserClose(w, c)

Spec == Init /\ [][Next]_vars

(* Go's select picks among its ready cases at random, a goroutine blocked in a
   channel operation proceeds, and the resend timer does not let a packet rest:
   it is acknowledged, or its channel is destroyed. *)
FairSpec ==
    /\ Spec
    /\ SF_vars(TakeWrite)
    /\ WF_vars(SendEvent)
    /\ WF_vars(ReadEvent)
    /\ \A g \in Goroutine : SF_vars(Enqueue(g)) /\ SF_vars(Function(g))
    /\ \A c \in Channel :
         SF_vars(unacked[c] > 0 /\ (GotAck(c) \/ Disconnect(c)))

-----------------------------------------------------------------------------
(* Properties *)

\* Every variable has its type.
TypeOK ==
    /\ life \in [Channel -> {"none", "open", "stopped"}]
    /\ connected \in [Channel -> BOOLEAN]
    /\ unacked \in [Channel -> Nat]
    /\ writeQueue \in [Channel -> Seq(Goroutine)]
    /\ chanWrite \in Seq(Goroutine)
    /\ chanEvent \in Seq(Event)
    /\ out \in Seq(Event)
    /\ at \in [Goroutine ->
                 {"idle", "checked", "waiting", "closing", "closed"}]
    /\ to \in [Goroutine -> Channel]
    /\ sent \in [Channel -> Seq(Goroutine)]
    /\ taken \in [Channel -> Seq(Goroutine)]
    /\ calls \in [Writer -> Nat]
    /\ packets \in [Channel -> Nat]
    /\ notrudp \in 0 .. MaxNotrudp

\* How often the write of g is on its way to the kernel or waits in a queue.
Held(g) ==
    Cardinality({i \in DOMAIN chanWrite : chanWrite[i] = g})
    + Cardinality({x \in UNION {{<<c, i>> : i \in DOMAIN writeQueue[c]}
                                : c \in Channel} : writeQueue[x[1]][x[2]] = g})

\* A caller of Write waits if and only if exactly one write of its is held by
\* chanWrite or a write queue: it gets one answer, from a send, a reset or a
\* destroy, and no second one (which would block the kernel).
AnsweredOnce ==
    \A g \in Goroutine : Held(g) = IF at[g] = "waiting" THEN 1 ELSE 0

\* The writes of a channel are sent in the order in which the kernel took them,
\* whether they had to wait or not.
SentInOrder == \A c \in Channel : sent[c] \o writeQueue[c] = taken[c]

\* The kernel is never blocked in sendEvent while the reader waits for it: the
\* reader in Write or Close, the kernel for a place in chanEvent, for ever.
NoDeadlock ==
    out # <<>> /\ Len(chanEvent) = chEventSize => at[Reader] = "idle"

\* Every call of Write returns.
WriteReturns ==
    \A g \in Goroutine : (at[g] = "waiting") ~> (at[g] = "idle")
==============================================================================
