---------------------------- MODULE TrudpChannel ----------------------------
(***************************************************************************)
(* The trudp protocol between two hosts: one channel (ChannelData) at each *)
(* host, the UDP network between them, and the kernel worker of each host, *)
(* whose select loop runs one handler at a time. Every action is one turn  *)
(* of one host's loop: a write taken from chanWrite, a packet taken from   *)
(* chanReader, a function taken from chanKernel or a tick of timerResend.  *)
(* A tick does up to three things to a channel, each due by a clock of its *)
(* own (resend time, time without an answer, packet rate): a tick is one   *)
(* action per thing that is due, and a tick that does nothing is no step.  *)
(*                                                                         *)
(* The payload of the n-th write of a host is the number n. Time is left   *)
(* out: a timeout may fire in every state in which the code arms it. The   *)
(* event channel is left out: where the code asks sendEventAvailable(),    *)
(* the answer is free if EventsMayFill and "yes" otherwise.                *)
(***************************************************************************)
EXTENDS TrudpId, Sequences, SequencesExt

CONSTANTS
    Host,               \* the two hosts
    MaxWrites,          \* bound: MaxWrites[h] is the number of writes of h
    defaultQueueSize,   \* initial maxQueueSize of a channel
    QueueLimit,         \* maxQueueSize grows while it is below   (2048)
    QueueGrow,          \* ... by this much                       (128)
    QueueFloor,         \* maxQueueSize shrinks while it is above (4)
    QueueShrink,        \* ... by this much                       (4)
    maxResendAttempt,   \* resends of a packet before the channel is destroyed
    MaxResets,          \* bound: resets and disconnects
    MaxPings,           \* bound: pings of a host
    MayDuplicate,       \* may the network deliver a packet twice?
    EventsMayFill       \* may the event channel be found full?

ASSUME HostAssumption == \E a, b \in Host : a # b /\ Host = {a, b}

ASSUME BoundAssumption ==
    /\ MaxWrites \in [Host -> Nat]
    /\ \A h \in Host : MaxWrites[h] < packetIDlimit \div 2
    /\ maxResendAttempt \in Nat
    /\ MaxResets \in Nat
    /\ MaxPings \in Nat
    /\ MayDuplicate \in BOOLEAN
    /\ EventsMayFill \in BOOLEAN

ASSUME QueueAssumption ==
    /\ defaultQueueSize \in Nat \ {0}
    /\ QueueLimit \in Nat
    /\ QueueGrow \in Nat
    /\ QueueFloor \in Nat
    /\ QueueShrink \in 0 .. QueueFloor

VARIABLES
    exists,         \* is the channel in tcdmap?
    connected,      \* tcd.connected: EvConnected was sent
    id,             \* tcd.id: id of the next packet to send
    expectedID,     \* tcd.expectedID
    sendQueue,      \* tcd.sendQueue: packets sent and not acknowledged
    receiveQueue,   \* tcd.receiveQueue: payload by id, NoPacket if absent
    writeQueue,     \* tcd.writeQueue: payloads that wait for the send queue
    maxQueueSize,   \* tcd.maxQueueSize
    net,            \* packets on their way to a host
    written,        \* history: number of writes the kernel of a host took
    delivered,      \* history: payloads of the EvGotData events of a host
    resets,         \* history: resets sent or applied, channels destroyed
    pings           \* counts Ping steps (bound)

ids    == <<id, expectedID>>
queues == <<sendQueue, receiveQueue, writeQueue>>
vars   == <<exists, connected, ids, queues, maxQueueSize, net, written,
            delivered, resets, pings>>

\* No host was told of a reset or lost its channel so far.
intact == resets = 0

Peer(h) == CHOOSE p \in Host : p # h

-----------------------------------------------------------------------------
(* Packets and queues *)

NoPacket == 0      \* "not found" in the receive queue; payloads start at 1

Payload == Nat \ {0}

Packet == [type : {"DATA", "ACK", "RESET", "ACKReset", "PING", "ACKPing"},
           id   : PacketID,
           data : Nat]

newData(i, d)  == [type |-> "DATA",     id |-> i, data |-> d]
newAck(m)      == [type |-> "ACK",      id |-> m.id, data |-> 0]
newReset       == [type |-> "RESET",    id |-> 0, data |-> 0]
newAckToReset  == [type |-> "ACKReset", id |-> 0, data |-> 0]
newPing        == [type |-> "PING",     id |-> 0, data |-> 0]
newAckToPing   == [type |-> "ACKPing",  id |-> 0, data |-> 0]

SendQueueEntry == [id : PacketID, data : Payload, attempt : 0..maxResendAttempt]

EmptyReceiveQueue == [i \in PacketID |-> NoPacket]

\* The datagrams that the entries of a send queue stand for.
Datagrams(q) == {newData(q[k].id, q[k].data) : k \in DOMAIN q}

\* Send queue entries for the payloads of w, numbered from tcd.id.
NewEntries(h, w) ==
    [k \in 1 .. Len(w) |-> [id |-> IDAfter(id[h], k - 1), data |-> w[k],
                            attempt |-> 0]]

sendQueueRemove(q, i) ==
    IF \E k \in DOMAIN q : q[k].id = i
    THEN RemoveAt(q, CHOOSE k \in DOMAIN q : q[k].id = i)
    ELSE q

canWrite(h, len) == len < maxQueueSize[h]

\* Fault: the ACK handler does not call writeFromQueue.
writeFromQueueNever(h, len) == 0

\* How many waiting writes an ACK releases when len packets are left in the
\* send queue: the first one in any case, the others while canWrite().
writeFromQueueCount(h, len) ==
    LET w    == Len(writeQueue[h])
        room == IF canWrite(h, len) THEN maxQueueSize[h] - len ELSE 1
    IN  IF w < room THEN w ELSE room

\* receiveQueueProcess: n packets that start at id e are taken out of queue q.
\* It stops at the first id that is missing or, before it, when the event
\* channel is full.
CanTake(q, e, n) ==
    /\ \A k \in 0 .. n - 1 : q[IDAfter(e, k)] # NoPacket
    /\ EventsMayFill \/ q[IDAfter(e, n)] = NoPacket

Taken(q, e, n) == [k \in 1 .. n |-> q[IDAfter(e, k - 1)]]

Left(q, e, n) ==
    [i \in PacketID |-> IF \E k \in 0 .. n - 1 : IDAfter(e, k) = i
                        THEN NoPacket ELSE q[i]]

-----------------------------------------------------------------------------
(* The network and the channel map *)

\* Host h takes packet m from the network, which may keep a duplicate of it,
\* and sends the packets of out to its peer.
Exchange(h, m, out) ==
    \E duplicate \in {FALSE, MayDuplicate} :
        net' = [net EXCEPT ![h] = IF duplicate THEN @ ELSE @ \ {m},
                           ![Peer(h)] = @ \cup out]

Send(h, out) == net' = [net EXCEPT ![Peer(h)] = @ \cup out]

\* newChannelData with sendEvConnected: the channel of an arriving packet is
\* found, or created for a DATA packet, and is connected from then on.
newChannelData(h) ==
    /\ exists' = [exists EXCEPT ![h] = TRUE]
    /\ connected' = [connected EXCEPT ![h] = TRUE]

ClearQueues(h) ==
    /\ sendQueue' = [sendQueue EXCEPT ![h] = <<>>]
    /\ receiveQueue' = [receiveQueue EXCEPT ![h] = EmptyReceiveQueue]
    /\ writeQueue' = [writeQueue EXCEPT ![h] = <<>>]

\* ChannelData.reset; next is the value expectedID is left with.
reset(h, next) ==
    /\ ClearQueues(h)
    /\ id' = [id EXCEPT ![h] = firstPacketID]
    /\ expectedID' = [expectedID EXCEPT ![h] = next]
    /\ resets' = resets + 1

\* ChannelData.destroy: the channel leaves tcdmap. A channel that is created
\* later for the same address starts with the initial values.
destroy(h) ==
    /\ reset(h, firstPacketID)
    /\ exists' = [exists EXCEPT ![h] = FALSE]
    /\ connected' = [connected EXCEPT ![h] = FALSE]
    /\ maxQueueSize' = [maxQueueSize EXCEPT ![h] = defaultQueueSize]

-----------------------------------------------------------------------------
Init ==
    /\ exists = [h \in Host |-> FALSE]
    /\ connected = [h \in Host |-> FALSE]
    /\ id = [h \in Host |-> firstPacketID]
    /\ expectedID = [h \in Host |-> firstPacketID]
    /\ sendQueue = [h \in Host |-> <<>>]
    /\ receiveQueue = [h \in Host |-> EmptyReceiveQueue]
    /\ writeQueue = [h \in Host |-> <<>>]
    /\ maxQueueSize = [h \in Host |-> defaultQueueSize]
    /\ net = [h \in Host |-> {}]
    /\ written = [h \in Host |-> 0]
    /\ delivered = [h \in Host |-> <<>>]
    /\ resets = 0
    /\ pings = [h \in Host |-> 0]

(* Calls of the user *)

\* The channel is created without an event; it is connected when the first
\* packet arrives.
ConnectChannel(h) ==
    /\ ~exists[h]
    /\ exists' = [exists EXCEPT ![h] = TRUE]
    /\ UNCHANGED <<connected, ids, queues, maxQueueSize, net, written,
                   delivered, resets, pings>>

\* The kernel takes a write: nothing waits and the send queue has room.
WriteToDirect(h) ==
    LET new == NewEntries(h, <<written[h] + 1>>) IN
    /\ exists[h]
    /\ written[h] < MaxWrites[h]
    /\ writeQueue[h] = <<>>
    /\ canWrite(h, Len(sendQueue[h]))
    /\ written' = [written EXCEPT ![h] = @ + 1]
    /\ sendQueue' = [sendQueue EXCEPT ![h] = @ \o new]
    /\ id' = [id EXCEPT ![h] = incID(@)]
    /\ Send(h, Datagrams(new))
    /\ UNCHANGED <<exists, connected, expectedID, receiveQueue, writeQueue,
                   maxQueueSize, delivered, resets, pings>>

\* The kernel takes a write that has to wait.
WriteToQueue(h) ==
    /\ exists[h]
    /\ written[h] < MaxWrites[h]
    /\ writeQueue[h] # <<>> \/ ~canWrite(h, Len(sendQueue[h]))
    /\ written' = [written EXCEPT ![h] = @ + 1]
    /\ writeQueue' = [writeQueue EXCEPT ![h] = Append(@, written[h] + 1)]
    /\ UNCHANGED <<exists, connected, ids, sendQueue, receiveQueue,
                   maxQueueSize, net, delivered, resets, pings>>

(* Packets that arrive. A DATA packet is acknowledged before it is looked at. *)

\* Fault: a packet that is behind the expected one is taken for it.
GotExpectedOrOld(h, m) ==
    \E n \in 0 .. packetIDlimit - 1 :
    LET next == incID(expectedID[h])
        q    == receiveQueue[h]
    IN
    /\ m.type = "DATA"
    /\ packetDistance(expectedID[h], m.id) <= 0
    /\ CanTake(q, next, n)
    /\ newChannelData(h)
    /\ expectedID' = [expectedID EXCEPT ![h] = IDAfter(next, n)]
    /\ receiveQueue' = [receiveQueue EXCEPT ![h] = Left(q, next, n)]
    /\ delivered' = [delivered EXCEPT ![h] =
                        Append(@, m.data) \o Taken(q, next, n)]
    /\ Exchange(h, m, {newAck(m)})
    /\ UNCHANGED <<id, sendQueue, writeQueue, maxQueueSize, written, resets,
                   pings>>

\* packetDistance = 0: the packet and what it was missed for are delivered.
GotExpected(h, m) ==
    \E n \in 0 .. packetIDlimit - 1 :
    LET next == incID(expectedID[h])
        q    == receiveQueue[h]
    IN
    /\ m.type = "DATA"
    /\ packetDistance(expectedID[h], m.id) = 0
    /\ CanTake(q, next, n)
    /\ newChannelData(h)
    /\ expectedID' = [expectedID EXCEPT ![h] = IDAfter(next, n)]
    /\ receiveQueue' = [receiveQueue EXCEPT ![h] = Left(q, next, n)]
    /\ delivered' = [delivered EXCEPT ![h] =
                        Append(@, m.data) \o Taken(q, next, n)]
    /\ Exchange(h, m, {newAck(m)})
    /\ UNCHANGED <<id, sendQueue, writeQueue, maxQueueSize, written, resets,
                   pings>>

\* Fault: a second packet with the first id is delivered without a reset.
GotFirstAgain(h, m) ==
    /\ m.type = "DATA"
    /\ packetDistance(expectedID[h], m.id) # 0
    /\ m.id = firstPacketID
    /\ newChannelData(h)
    /\ delivered' = [delivered EXCEPT ![h] = Append(@, m.data)]
    /\ Exchange(h, m, {newAck(m)})
    /\ UNCHANGED <<ids, queues, maxQueueSize, written, resets, pings>>

\* A packet with the first id that is not expected: the channel is reset
\* locally and the packet is processed again, now as the expected one.
GotFirst(h, m) ==
    /\ m.type = "DATA"
    /\ packetDistance(expectedID[h], m.id) # 0
    /\ m.id = firstPacketID
    /\ resets < MaxResets
    /\ newChannelData(h)
    /\ reset(h, incID(firstPacketID))
    /\ delivered' = [delivered EXCEPT ![h] = Append(@, m.data)]
    /\ Exchange(h, m, {newAck(m)})
    /\ UNCHANGED <<maxQueueSize, written, pings>>

\* Another packet while the first one is expected: the peer is asked to reset.
GotBeforeFirst(h, m) ==
    /\ m.type = "DATA"
    /\ packetDistance(expectedID[h], m.id) # 0
    /\ m.id # firstPacketID
    /\ expectedID[h] = firstPacketID
    /\ resets < MaxResets
    /\ newChannelData(h)
    /\ resets' = resets + 1
    /\ Exchange(h, m, {newAck(m), newReset})
    /\ UNCHANGED <<ids, queues, maxQueueSize, written, delivered, pings>>

\* A packet that was delivered, or is in the receive queue: it is dropped.
GotOld(h, m) ==
    /\ m.type = "DATA"
    /\ m.id # firstPacketID
    /\ expectedID[h] # firstPacketID
    /\ \/ packetDistance(expectedID[h], m.id) < 0
       \/ /\ packetDistance(expectedID[h], m.id) > 0
          /\ receiveQueue[h][m.id] # NoPacket
    /\ newChannelData(h)
    /\ Exchange(h, m, {newAck(m)})
    /\ UNCHANGED <<ids, queues, maxQueueSize, written, delivered, resets,
                   pings>>

\* Fault: a packet that is ahead is acknowledged and not kept.
GotAheadDropped(h, m) ==
    /\ m.type = "DATA"
    /\ m.id # firstPacketID
    /\ expectedID[h] # firstPacketID
    /\ packetDistance(expectedID[h], m.id) > 0
    /\ newChannelData(h)
    /\ Exchange(h, m, {newAck(m)})
    /\ UNCHANGED <<ids, queues, maxQueueSize, written, delivered, resets,
                   pings>>

\* A packet that is ahead of the expected one waits in the receive queue, and
\* the receive queue is processed.
GotAhead(h, m) ==
    \E n \in 0 .. packetIDlimit - 1 :
    LET e == expectedID[h]
        q == [receiveQueue[h] EXCEPT ![m.id] = m.data]
    IN
    /\ m.type = "DATA"
    /\ m.id # firstPacketID
    /\ expectedID[h] # firstPacketID
    /\ packetDistance(e, m.id) > 0
    /\ receiveQueue[h][m.id] = NoPacket
    /\ CanTake(q, e, n)
    /\ newChannelData(h)
    /\ expectedID' = [expectedID EXCEPT ![h] = IDAfter(e, n)]
    /\ receiveQueue' = [receiveQueue EXCEPT ![h] = Left(q, e, n)]
    /\ delivered' = [delivered EXCEPT ![h] = @ \o Taken(q, e, n)]
    /\ Exchange(h, m, {newAck(m)})
    /\ UNCHANGED <<id, sendQueue, writeQueue, maxQueueSize, written, resets,
                   pings>>

\* An ACK removes its packet, if it is still there, and releases writes.
GotAck(h, m) ==
    LET q   == sendQueueRemove(sendQueue[h], m.id)
        n   == writeFromQueueCount(h, Len(q))
        new == NewEntries(h, SubSeq(writeQueue[h], 1, n))
    IN
    /\ m.type = "ACK"
    /\ exists[h]
    /\ newChannelData(h)
    /\ sendQueue' = [sendQueue EXCEPT ![h] = q \o new]
    /\ writeQueue' = [writeQueue EXCEPT ![h] =
                         SubSeq(@, n + 1, Len(@))]
    /\ id' = [id EXCEPT ![h] = IDAfter(@, n)]
    /\ Exchange(h, m, Datagrams(new))
    /\ UNCHANGED <<expectedID, receiveQueue, maxQueueSize, written, delivered,
                   resets, pings>>

GotReset(h, m) ==
    /\ m.type = "RESET"
    /\ exists[h]
    /\ resets < MaxResets
    /\ newChannelData(h)
    /\ reset(h, firstPacketID)
    /\ Exchange(h, m, {newAckToReset})
    /\ UNCHANGED <<maxQueueSize, written, delivered, pings>>

GotAckReset(h, m) ==
    /\ m.type = "ACKReset"
    /\ exists[h]
    /\ resets < MaxResets
    /\ newChannelData(h)
    /\ reset(h, firstPacketID)
    /\ Exchange(h, m, {})
    /\ UNCHANGED <<maxQueueSize, written, delivered, pings>>

GotPing(h, m) ==
    /\ m.type = "PING"
    /\ exists[h]
    /\ newChannelData(h)
    /\ Exchange(h, m, {newAckToPing})
    /\ UNCHANGED <<ids, queues, maxQueueSize, written, delivered, resets,
                   pings>>

GotAckPing(h, m) ==
    /\ m.type = "ACKPing"
    /\ exists[h]
    /\ newChannelData(h)
    /\ Exchange(h, m, {})
    /\ UNCHANGED <<ids, queues, maxQueueSize, written, delivered, resets,
                   pings>>

process(h, m) ==
    \/ GotExpected(h, m)
    \/ GotFirst(h, m)
    \/ GotBeforeFirst(h, m)
    \/ GotOld(h, m)
    \/ GotAhead(h, m)
    \/ GotAck(h, m)
    \/ GotReset(h, m)
    \/ GotAckReset(h, m)
    \/ GotPing(h, m)
    \/ GotAckPing(h, m)

\* A packet disappears: the network loses it, the kernel takes it while the
\* event channel is full, or no channel exists for it.
Lose(h, m) ==
    /\ net' = [net EXCEPT ![h] = @ \ {m}]
    /\ UNCHANGED <<exists, connected, ids, queues, maxQueueSize, written,
                   delivered, resets, pings>>

(* Ticks of timerResend *)

\* Fault: the attempts of a packet are compared with > in place of >=.
ResendOnceMore(h, k) ==
    LET q == sendQueue[h] IN
    /\ exists[h]
    /\ \A j \in 1 .. k : q[j].attempt <= maxResendAttempt
    /\ sendQueue' = [sendQueue EXCEPT ![h] =
                       [j \in DOMAIN q |-> IF j <= k
                          THEN [q[j] EXCEPT !.attempt = @ + 1] ELSE q[j]]]
    /\ Send(h, Datagrams(SubSeq(q, 1, k)))
    /\ UNCHANGED <<exists, connected, ids, receiveQueue, writeQueue,
                   maxQueueSize, written, delivered, resets, pings>>

\* The first k packets of the send queue are due and are sent again.
Resend(h, k) ==
    LET q == sendQueue[h] IN
    /\ exists[h]
    /\ \A j \in 1 .. k : q[j].attempt < maxResendAttempt
    /\ sendQueue' = [sendQueue EXCEPT ![h] =
                       [j \in DOMAIN q |-> IF j <= k
                          THEN [q[j] EXCEPT !.attempt = @ + 1] ELSE q[j]]]
    /\ Send(h, Datagrams(SubSeq(q, 1, k)))
    /\ UNCHANGED <<exists, connected, ids, receiveQueue, writeQueue,
                   maxQueueSize, written, delivered, resets, pings>>

\* Fault: a packet without attempts is dropped and the channel lives on.
ResendGivesUp(h, k) ==
    LET q == sendQueue[h] IN
    /\ exists[h]
    /\ q[k].attempt >= maxResendAttempt
    /\ sendQueue' = [sendQueue EXCEPT ![h] = RemoveAt(q, k)]
    /\ UNCHANGED <<exists, connected, ids, receiveQueue, writeQueue,
                   maxQueueSize, net, written, delivered, resets, pings>>

\* The k-th packet that is due has no attempt left: the channel is destroyed.
ResendExhausted(h, k) ==
    LET q == sendQueue[h] IN
    /\ exists[h]
    /\ \A j \in 1 .. k - 1 : q[j].attempt < maxResendAttempt
    /\ q[k].attempt >= maxResendAttempt
    /\ destroy(h)
    /\ Send(h, Datagrams(SubSeq(q, 1, k - 1)))
    /\ UNCHANGED <<written, delivered, pings>>

sendQueueResendProcess(h) ==
    \E k \in DOMAIN sendQueue[h] : Resend(h, k) \/ ResendExhausted(h, k)

\* keepAlive: no answer came for pingAfter.
Ping(h) ==
    /\ exists[h]
    /\ pings[h] < MaxPings
    /\ pings' = [pings EXCEPT ![h] = @ + 1]
    /\ Send(h, {newPing})
    /\ UNCHANGED <<exists, connected, ids, queues, maxQueueSize, written,
                   delivered, resets>>

\* keepAlive: nothing came for disconnectAfter; or the user calls Close.
Disconnect(h) ==
    /\ exists[h]
    /\ resets < MaxResets
    /\ destroy(h)
    /\ UNCHANGED <<net, written, delivered, pings>>

\* sendQueueCalculateLength: packets are sent fast, none is sent twice and the
\* queue is full.
GrowQueue(h) ==
    /\ exists[h]
    /\ maxQueueSize[h] < QueueLimit
    /\ ~canWrite(h, Len(sendQueue[h]))
    /\ maxQueueSize' = [maxQueueSize EXCEPT ![h] = @ + QueueGrow]
    /\ UNCHANGED <<exists, connected, ids, queues, net, written, delivered,
                   resets, pings>>

\* sendQueueCalculateLength: packets are sent fast and many are sent twice.
ShrinkQueue(h) ==
    /\ exists[h]
    /\ maxQueueSize[h] > QueueFloor
    /\ maxQueueSize' = [maxQueueSize EXCEPT ![h] = @ - QueueShrink]
    /\ UNCHANGED <<exists, connected, ids, queues, net, written, delivered,
                   resets, pings>>

-----------------------------------------------------------------------------
User(h) == ConnectChannel(h) \/ WriteToDirect(h) \/ WriteToQueue(h)

Timer(h) ==
    \/ sendQueueResendProcess(h)
    \/ Ping(h)
    \/ Disconnect(h)
    \/ GrowQueue(h)
    \/ ShrinkQueue(h)

Next ==
    \E h \in Host :
        \/ User(h)
        \/ Timer(h)
        \/ \E m \in net[h] : process(h, m) \/ Lose(h, m)

Spec == Init /\ [][Next]_vars

(* timerResend is armed again at the end of every tick, so a packet that stays
   in the send queue is sent again, or exhausts its attempts. Nothing is assumed
   of the network or of the users. *)
FairSpec == Spec /\ \A h \in Host : WF_vars(sendQueueResendProcess(h))

-----------------------------------------------------------------------------
(* Properties *)

\* The payloads that are somewhere on the way from h to its peer.
Sending(h)  == {sendQueue[h][k].data : k \in DOMAIN sendQueue[h]}
Waiting(h)  == {writeQueue[h][k] : k \in DOMAIN writeQueue[h]}
Received(h) == {receiveQueue[h][i] : i \in PacketID} \ {NoPacket}
Delivered(h) == {delivered[h][k] : k \in DOMAIN delivered[h]}

\* Every variable has its type; ids fit in packetIDlimit, attempts never pass
\* maxResendAttempt and the send queue limit never reaches 0.
TypeOK ==
    /\ exists \in [Host -> BOOLEAN]
    /\ connected \in [Host -> BOOLEAN]
    /\ id \in [Host -> PacketID]
    /\ expectedID \in [Host -> PacketID]
    /\ sendQueue \in [Host -> Seq(SendQueueEntry)]
    /\ receiveQueue \in [Host -> [PacketID -> Nat]]
    /\ writeQueue \in [Host -> Seq(Payload)]
    /\ maxQueueSize \in [Host -> Nat \ {0}]
    /\ net \in [Host -> SUBSET Packet]
    /\ written \in [Host -> Nat]
    /\ delivered \in [Host -> Seq(Nat)]
    /\ resets \in Nat
    /\ pings \in [Host -> Nat]

\* A write waits only while a packet is unacknowledged: writeFromQueue is called
\* from the ACK handler alone, so a write that waited behind an empty send queue
\* would never be sent and its writer would stay blocked in Write.
NoLostWakeup ==
    \A h \in Host : writeQueue[h] # <<>> => sendQueue[h] # <<>>

\* As long as neither host was told of a reset or a disconnect, the EvGotData
\* events of a host are a prefix of what its peer wrote: nothing is lost in the
\* middle, duplicated or reordered, whatever the network does.
DeliveredInOrder ==
    intact => \A h \in Host :
                /\ Len(delivered[h]) <= written[Peer(h)]
                /\ \A k \in DOMAIN delivered[h] : delivered[h][k] = k

\* As long as neither host was told of a reset or a disconnect, every write is
\* held by the write queue or the send queue of its sender, or by the receive
\* queue or the delivered events of the peer: an ACK, which removes a packet
\* from the send queue for good, is only sent for a packet that was kept.
NothingLost ==
    intact => \A h \in Host :
                1 .. written[h] \subseteq Waiting(h) \cup Sending(h)
                              \cup Received(Peer(h)) \cup Delivered(Peer(h))

\* Host h has packet i of its peer: delivered, or in its receive queue.
Got(h, i) == i < expectedID[h] \/ receiveQueue[h][i] # NoPacket

\* The ids of h count its writes; what waits and what is unacknowledged carries
\* the payload that belongs to its place in the stream.
Numbered(h) ==
    /\ id[h] + Len(writeQueue[h]) = written[h]
    /\ written[h] <= MaxWrites[h]
    /\ \A k \in DOMAIN writeQueue[h] : writeQueue[h][k] = id[h] + k
    /\ \A k \in DOMAIN sendQueue[h] :
         /\ sendQueue[h][k].id < id[h]
         /\ sendQueue[h][k].data = sendQueue[h][k].id + 1

\* So does what is on its way to the peer of h or waits there out of order.
Arriving(h) ==
    /\ \A m \in net[Peer(h)] :
         m.type = "DATA" => m.id < id[h] /\ m.data = m.id + 1
    /\ \A i \in PacketID :
         receiveQueue[Peer(h)][i] # NoPacket
            => i < id[h] /\ receiveQueue[Peer(h)][i] = i + 1

\* expectedID counts what the peer of h was handed.
HandedOver(h) ==
    /\ Len(delivered[Peer(h)]) = expectedID[Peer(h)]
    /\ expectedID[Peer(h)] <= id[h]
    /\ \A k \in DOMAIN delivered[Peer(h)] : delivered[Peer(h)][k] = k

\* Only packets that the peer has are acknowledged, and a packet that it does
\* not have is still in the send queue.
Acknowledged(h) ==
    /\ \A m \in net[h] : m.type = "ACK" => Got(Peer(h), m.id)
    /\ \A i \in 0 .. id[h] - 1 :
         \/ Got(Peer(h), i)
         \/ \E k \in DOMAIN sendQueue[h] : sendQueue[h][k].id = i

\* The inductive invariant behind DeliveredInOrder and NothingLost: as long as
\* neither host was told of a reset or a disconnect, ids, queues and packets on
\* the way agree on the place of every payload in the stream.
InTransit ==
    intact => \A h \in Host :
                Numbered(h) /\ Arriving(h) /\ HandedOver(h) /\ Acknowledged(h)

\* The protocol implements the stream of module ReliableStream: every step of a
\* host is a write, an in-order delivery, a reset or a stutter of the stream, and
\* after a reset everything that is delivered still was written by the peer.
Stream == INSTANCE ReliableStream WITH broken <- ~intact
StreamSpec == Stream!Spec

\* Every write is delivered to the peer, or the channel is reset or destroyed.
DeliveredOrReset ==
    \A h \in Host : \A d \in 1 .. MaxWrites[h] :
        (written[h] >= d) ~> (d \in Delivered(Peer(h)) \/ ~intact)

\* A write does not wait for ever: it is sent, or dropped by a reset or destroy
\* (in both cases the writer blocked in Write gets its answer).
WriteReleased ==
    \A h \in Host : \A d \in 1 .. MaxWrites[h] :
        (d \in Waiting(h)) ~> (d \notin Waiting(h))

(* Claims of the repository that the code does not meet *)

\* The events of a host repeat the writes of its peer in order, as the test of
\* two connected instances requires of every received packet.
InOrderExactlyOnce ==
    \A h \in Host : \A k \in DOMAIN delivered[h] : delivered[h][k] = k
==============================================================================
