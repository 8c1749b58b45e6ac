------------------------- MODULE TrudpChannelProofs -------------------------
(***************************************************************************)
(* Theorems about TrudpId and TrudpChannel, for every pair of hosts and    *)
(* every value of the other constants that their assumptions allow.        *)
(*                                                                         *)
(* The stream of a trudp channel is delivered in order and without losses  *)
(* until a host is told of a reset or a disconnect: InTransit, the         *)
(* invariant of TrudpChannel that places every payload, is inductive, and  *)
(* DeliveredInOrder and NothingLost follow from it. With Authentic, which  *)
(* says what is on its way after a reset, TrudpChannel implements the      *)
(* stream of ReliableStream.                                               *)
(***************************************************************************)
EXTENDS TrudpChannel, TLAPS, SequenceTheorems

-----------------------------------------------------------------------------
(* Packet ids *)

\* A number below twice the modulus is reduced by at most one subtraction.
LEMMA ModBelow ==
    ASSUME NEW n \in Nat, NEW x \in Nat, x < n
    PROVE  x % n = x
  OBVIOUS

LEMMA ModAbove ==
    ASSUME NEW n \in Nat, NEW x \in Nat, x < n
    PROVE  (x + n) % n = x
  OBVIOUS

LEMMA ModRange ==
    ASSUME NEW n \in Nat, n # 0, NEW x \in Nat
    PROVE  x % n \in 0 .. n - 1
  OBVIOUS

\* incID: the wrap at packetIDlimit skips firstPacketID.
LEMMA IncID ==
    ASSUME NEW i \in PacketID
    PROVE  /\ incID(i) \in PacketID \ {firstPacketID}
           /\ i + 1 < packetIDlimit => incID(i) = i + 1
           /\ i + 1 = packetIDlimit => incID(i) = 1
  <1> USE IDLimitAssumption DEF PacketID, firstPacketID
  <1>1. CASE i + 1 < packetIDlimit
    <2>1. (i + 1) % packetIDlimit = i + 1
      BY <1>1, ModBelow
    <2> QED
      BY <1>1, <2>1 DEF incID
  <1>2. CASE i + 1 = packetIDlimit
    <2>1. (i + 1) % packetIDlimit = 0
      BY <1>2
    <2> QED
      BY <1>2, <2>1 DEF incID
  <1> QED
    BY <1>1, <1>2

\* Calls of incID lead from an id to an id.
LEMMA IDAfterType ==
    ASSUME NEW i \in PacketID, NEW n \in Nat
    PROVE  IDAfter(i, n) \in PacketID
  <1>1. CASE n = 0
    BY <1>1 DEF IDAfter
  <1>2. CASE n # 0
    <2>1. i + n - 1 \in Nat /\ packetIDlimit - 1 \in Nat /\ packetIDlimit - 1 # 0
      BY <1>2, IDLimitAssumption DEF PacketID
    <2>2. (i + n - 1) % (packetIDlimit - 1) \in 0 .. (packetIDlimit - 1) - 1
      BY <2>1, ModRange
    <2> QED
      BY <1>2, <2>2, IDLimitAssumption DEF IDAfter, PacketID
  <1> QED
    BY <1>1, <1>2

\* Below the limit, calls of incID add one each.
LEMMA IDAfterSmall ==
    ASSUME NEW i \in Nat, NEW n \in Nat, i + n < packetIDlimit
    PROVE  IDAfter(i, n) = i + n
  <1>1. CASE n = 0
    BY <1>1 DEF IDAfter
  <1>2. CASE n # 0
    <2>1. /\ packetIDlimit - 1 \in Nat /\ packetIDlimit - 1 # 0
          /\ i + n - 1 \in Nat /\ i + n - 1 < packetIDlimit - 1
      BY <1>2, IDLimitAssumption
    <2>2. (i + n - 1) % (packetIDlimit - 1) = i + n - 1
      BY <2>1, ModBelow
    <2> QED
      BY <1>2, <2>2 DEF IDAfter
  <1> QED
    BY <1>1, <1>2

\* packetDistance is the signed difference wrapped into
\* [-packetIDlimit/2, packetIDlimit/2).
LEMMA Distance ==
    ASSUME NEW e \in PacketID, NEW i \in PacketID
    PROVE  LET d    == packetDistance(e, i)
               half == packetIDlimit \div 2
           IN  /\ d \in -half .. half - 1
               /\ d = i - e \/ d = i - e + packetIDlimit
                            \/ d = i - e - packetIDlimit
               /\ (d = 0) <=> (i = e)
               /\ (i - e < half /\ e - i <= half) => d = i - e
  <1> DEFINE L == packetIDlimit
             half == packetIDlimit \div 2
             diff == modSubU(i, e, packetIDlimit)
  <1>1. L \in Nat \ {0} /\ half \in Nat /\ 2 * half = L /\ half >= 2
    BY IDLimitAssumption
  <1>2. /\ L # 0 /\ i \in Nat /\ i < L /\ i < L + L
        /\ e \in Nat /\ e < L /\ e < L + L
    BY <1>1 DEF PacketID
  <1>3. i % L = i /\ e % L = e
    BY <1>1, <1>2, ModBelow
  <1>4. i + L - e \in Nat /\ i + L - e < L + L
    BY <1>1, <1>2
  <1>5. diff = IF i >= e THEN i - e ELSE i + L - e
    <2>1. diff = (i + L - e) % L
      BY <1>3 DEF modSubU
    <2>2. CASE i >= e
      <3>1. i - e \in Nat /\ i - e < L /\ i + L - e = (i - e) + L
        BY <1>1, <1>2, <2>2
      <3>2. ((i - e) + L) % L = i - e
        BY <1>1, <3>1, ModAbove
      <3> QED
        BY <2>1, <2>2, <3>1, <3>2
    <2>3. CASE i < e
      <3>1. (i + L - e) % L = i + L - e
        BY <1>1, <1>2, <1>4, <2>3, ModBelow
      <3> QED
        BY <1>1, <1>2, <2>1, <2>3, <3>1
    <2> QED
      BY <1>1, <1>2, <2>2, <2>3
  <1>6. packetDistance(e, i) = IF diff < half THEN diff ELSE diff - L
    BY DEF packetDistance
  <1> HIDE DEF L, half, diff
  <1>7. LET d == packetDistance(e, i)
        IN  /\ d \in -half .. half - 1
            /\ d = i - e \/ d = i - e + L \/ d = i - e - L
            /\ (d = 0) <=> (i = e)
            /\ (i - e < half /\ e - i <= half) => d = i - e
    BY <1>1, <1>2, <1>5, <1>6
  <1> QED
    BY <1>7 DEF L, half

-----------------------------------------------------------------------------
(* Helpers *)

\* There are two hosts, and each is the peer of the other.
LEMMA PeerFacts ==
    ASSUME NEW h \in Host
    PROVE  /\ Peer(h) \in Host
           /\ Peer(h) # h
           /\ Peer(Peer(h)) = h
           /\ \A g \in Host : g = h \/ g = Peer(h)
  BY HostAssumption DEF Peer

\* Removing one element of a sequence.
LEMMA RemoveAtFacts ==
    ASSUME NEW S, NEW q \in Seq(S), NEW k \in 1 .. Len(q)
    PROVE  /\ RemoveAt(q, k) \in Seq(S)
           /\ Len(RemoveAt(q, k)) = Len(q) - 1
           /\ \A j \in 1 .. Len(q) - 1 :
                RemoveAt(q, k)[j] = IF j < k THEN q[j] ELSE q[j + 1]
  <1> DEFINE front == SubSeq(q, 1, k - 1)
             rest  == SubSeq(q, k + 1, Len(q))
  <1>1. /\ front \in Seq(S)
        /\ Len(front) = k - 1
        /\ \A j \in 1 .. k - 1 : front[j] = q[j]
    BY SubSeqProperties
  <1>2. /\ rest \in Seq(S)
        /\ Len(rest) = Len(q) - k
        /\ \A j \in 1 .. Len(q) - k : rest[j] = q[k + j]
    BY SubSeqProperties
  <1>3. RemoveAt(q, k) = front \o rest
    BY DEF RemoveAt
  <1>4. Len(q) \in Nat /\ k \in Nat
    BY LenProperties
  <1> HIDE DEF front, rest
  <1>5. /\ front \o rest \in Seq(S)
        /\ Len(front \o rest) = Len(front) + Len(rest)
        /\ \A j \in 1 .. Len(front) + Len(rest) :
             (front \o rest)[j] = IF j <= Len(front) THEN front[j]
                                  ELSE rest[j - Len(front)]
    BY <1>1, <1>2, ConcatProperties, Zenon
  <1>6. ASSUME NEW j \in 1 .. Len(q) - 1
        PROVE  (front \o rest)[j] = IF j < k THEN q[j] ELSE q[j + 1]
    <2>1. CASE j < k
      BY <1>1, <1>2, <1>4, <1>5, <2>1
    <2>2. CASE j >= k
      <3>1. (front \o rest)[j] = rest[j - (k - 1)]
        BY <1>1, <1>2, <1>4, <1>5, <2>2
      <3>2. j - (k - 1) \in 1 .. Len(q) - k /\ k + (j - (k - 1)) = j + 1
        BY <1>4, <2>2
      <3>3. rest[j - (k - 1)] = q[j + 1]
        BY <1>2, <3>2
      <3>4. ~(j < k)
        BY <1>4, <2>2
      <3> QED
        BY <3>1, <3>3, <3>4
    <2>3. j < k \/ j >= k
      BY <1>4
    <2> QED
      BY <2>1, <2>2, <2>3, Zenon
  <1>7. Len(front \o rest) = Len(q) - 1
    BY <1>1, <1>2, <1>4, <1>5
  <1> QED
    BY <1>3, <1>5, <1>6, <1>7

\* An ACK leaves the send queue as it is or removes one packet with its id.
LEMMA SendQueueRemove ==
    ASSUME NEW q \in Seq(SendQueueEntry), NEW i
    PROVE  /\ sendQueueRemove(q, i) \in Seq(SendQueueEntry)
           /\ \/ /\ sendQueueRemove(q, i) = q
                 /\ \A k \in 1 .. Len(q) : q[k].id # i
              \/ \E k \in 1 .. Len(q) :
                   /\ q[k].id = i
                   /\ sendQueueRemove(q, i) = RemoveAt(q, k)
  <1>1. CASE \E k \in DOMAIN q : q[k].id = i
    <2> DEFINE k == CHOOSE k \in DOMAIN q : q[k].id = i
    <2>1. k \in 1 .. Len(q) /\ q[k].id = i
      BY <1>1
    <2>2. sendQueueRemove(q, i) = RemoveAt(q, k)
      BY <1>1 DEF sendQueueRemove
    <2> QED
      BY <2>1, <2>2, RemoveAtFacts
  <1>2. CASE ~\E k \in DOMAIN q : q[k].id = i
    BY <1>2 DEF sendQueueRemove
  <1> QED
    BY <1>1, <1>2

\* The number of writes an ACK releases: none if none waits, otherwise at
\* least one.
LEMMA WriteFromQueueCount ==
    ASSUME NEW h \in Host, NEW len \in Nat,
           writeQueue[h] \in Seq(Payload), maxQueueSize[h] \in Nat \ {0}
    PROVE  LET n == writeFromQueueCount(h, len)
           IN  /\ n \in 0 .. Len(writeQueue[h])
               /\ writeQueue[h] # <<>> => n >= 1
  <1> DEFINE w == Len(writeQueue[h])
  <1>1. w \in Nat /\ (writeQueue[h] # <<>> => w # 0)
    BY EmptySeq, LenProperties
  <1> QED
    BY <1>1 DEF writeFromQueueCount, canWrite

\* New packets get consecutive ids and no resend attempt.
LEMMA NewEntriesFacts ==
    ASSUME NEW h \in Host, id[h] \in PacketID, NEW w \in Seq(Payload)
    PROVE  /\ NewEntries(h, w) \in Seq(SendQueueEntry)
           /\ Len(NewEntries(h, w)) = Len(w)
           /\ \A k \in 1 .. Len(w) :
                NewEntries(h, w)[k] = [id |-> IDAfter(id[h], k - 1),
                                       data |-> w[k], attempt |-> 0]
  <1>1. \A k \in 1 .. Len(w) : IDAfter(id[h], k - 1) \in PacketID
    BY IDAfterType
  <1>2. \A k \in 1 .. Len(w) : w[k] \in Payload
    BY ElementOfSeq
  <1>3. \A k \in 1 .. Len(w) :
          [id |-> IDAfter(id[h], k - 1), data |-> w[k], attempt |-> 0]
             \in SendQueueEntry
    BY <1>1, <1>2, BoundAssumption DEF SendQueueEntry
  <1>4. NewEntries(h, w) \in [1 .. Len(w) -> SendQueueEntry]
    BY <1>3 DEF NewEntries
  <1>5. Len(w) \in Nat
    BY LenProperties
  <1> QED
    BY <1>4, <1>5, IsASeq DEF NewEntries

\* Datagrams of a send queue are packets.
LEMMA DatagramsType ==
    ASSUME NEW q \in Seq(SendQueueEntry)
    PROVE  Datagrams(q) \subseteq Packet
  <1>1. \A k \in DOMAIN q : q[k] \in SendQueueEntry
    BY ElementOfSeq, LenProperties
  <1>2. \A e \in SendQueueEntry : newData(e.id, e.data) \in Packet
    BY DEF newData, SendQueueEntry, Packet, Payload
  <1> QED
    BY <1>1, <1>2 DEF Datagrams

-----------------------------------------------------------------------------
(* Type correctness *)

\* net keeps its type when a host sends packets to its peer.
LEMMA SendType ==
    ASSUME NEW h \in Host, NEW out \in SUBSET Packet,
           net \in [Host -> SUBSET Packet], Send(h, out)
    PROVE  net' \in [Host -> SUBSET Packet]
  BY PeerFacts DEF Send

LEMMA ExchangeType ==
    ASSUME NEW h \in Host, NEW m, NEW out \in SUBSET Packet,
           net \in [Host -> SUBSET Packet], Exchange(h, m, out)
    PROVE  net' \in [Host -> SUBSET Packet]
  BY PeerFacts DEF Exchange

\* Service packets are packets.
LEMMA ServicePackets ==
    /\ \A m \in Packet : newAck(m) \in Packet
    /\ newReset \in Packet /\ newAckToReset \in Packet
    /\ newPing \in Packet /\ newAckToPing \in Packet
  BY IDLimitAssumption DEF newAck, newReset, newAckToReset, newPing,
       newAckToPing, Packet, PacketID

\* A reset gives every variable it sets a value of its type.
LEMMA ResetType ==
    ASSUME TypeOK, NEW h \in Host, NEW next \in PacketID, reset(h, next)
    PROVE  /\ sendQueue' \in [Host -> Seq(SendQueueEntry)]
           /\ receiveQueue' \in [Host -> [PacketID -> Nat]]
           /\ writeQueue' \in [Host -> Seq(Payload)]
           /\ id' \in [Host -> PacketID]
           /\ expectedID' \in [Host -> PacketID]
           /\ resets' \in Nat
  <1>1. <<>> \in Seq(SendQueueEntry) /\ <<>> \in Seq(Payload)
    BY EmptySeq
  <1>2. firstPacketID \in PacketID
    BY IDLimitAssumption DEF firstPacketID, PacketID
  <1> QED
    BY <1>1, <1>2 DEF TypeOK, reset, ClearQueues, EmptyReceiveQueue, NoPacket

LEMMA DestroyType ==
    ASSUME TypeOK, NEW h \in Host, destroy(h)
    PROVE  /\ sendQueue' \in [Host -> Seq(SendQueueEntry)]
           /\ receiveQueue' \in [Host -> [PacketID -> Nat]]
           /\ writeQueue' \in [Host -> Seq(Payload)]
           /\ id' \in [Host -> PacketID]
           /\ expectedID' \in [Host -> PacketID]
           /\ resets' \in Nat
           /\ exists' \in [Host -> BOOLEAN]
           /\ connected' \in [Host -> BOOLEAN]
           /\ maxQueueSize' \in [Host -> Nat \ {0}]
  <1>1. firstPacketID \in PacketID
    BY IDLimitAssumption DEF firstPacketID, PacketID
  <1>2. reset(h, firstPacketID)
    BY DEF destroy
  <1>3. /\ exists' \in [Host -> BOOLEAN]
        /\ connected' \in [Host -> BOOLEAN]
        /\ maxQueueSize' \in [Host -> Nat \ {0}]
    BY QueueAssumption DEF TypeOK, destroy
  <1> QED
    BY <1>1, <1>2, <1>3, ResetType

\* receiveQueueProcess takes payloads out of the queue and leaves a queue.
LEMMA TakenType ==
    ASSUME NEW q \in [PacketID -> Nat], NEW e \in PacketID, NEW n \in Nat
    PROVE  /\ Taken(q, e, n) \in Seq(Nat)
           /\ Len(Taken(q, e, n)) = n
           /\ Left(q, e, n) \in [PacketID -> Nat]
           /\ IDAfter(e, n) \in PacketID
  <1>1. \A k \in 1 .. n : IDAfter(e, k - 1) \in PacketID
    BY IDAfterType
  <1>2. Taken(q, e, n) \in [1 .. n -> Nat]
    BY <1>1 DEF Taken
  <1> QED
    BY <1>2, IDAfterType DEF Left, NoPacket, Taken

\* The initial state and every step are type correct.
LEMMA TypeInit == Init => TypeOK
  <1>1. <<>> \in Seq(SendQueueEntry) /\ <<>> \in Seq(Payload) /\ <<>> \in Seq(Nat)
    BY EmptySeq
  <1> QED
    BY <1>1, IDLimitAssumption, QueueAssumption
    DEF Init, TypeOK, EmptyReceiveQueue, NoPacket, firstPacketID, PacketID

LEMMA TypeUser ==
    ASSUME TypeOK, NEW h \in Host, User(h)
    PROVE  TypeOK'
  <1>1. CASE ConnectChannel(h)
    BY <1>1 DEF TypeOK, ConnectChannel, ids, queues
  <1>2. CASE WriteToDirect(h)
    <2> DEFINE new == NewEntries(h, <<written[h] + 1>>)
    <2>1. written[h] + 1 \in Payload /\ id[h] \in PacketID
      BY DEF TypeOK, Payload
    <2>2. <<written[h] + 1>> \in Seq(Payload)
      BY <2>1
    <2>3. new \in Seq(SendQueueEntry)
      BY <2>1, <2>2, NewEntriesFacts
    <2>4. Datagrams(new) \subseteq Packet
      BY <2>3, DatagramsType
    <2> HIDE DEF new
    <2>5. net' \in [Host -> SUBSET Packet]
      BY <1>2, <2>4, SendType DEF WriteToDirect, TypeOK, new
    <2>6. sendQueue' \in [Host -> Seq(SendQueueEntry)]
      <3>1. sendQueue[h] \o new \in Seq(SendQueueEntry)
        BY <2>3, ConcatProperties DEF TypeOK
      <3> QED
        BY <1>2, <3>1 DEF WriteToDirect, TypeOK, new
    <2>7. id' \in [Host -> PacketID]
      BY <1>2, <2>1, IncID DEF WriteToDirect, TypeOK
    <2> QED
      BY <1>2, <2>5, <2>6, <2>7 DEF WriteToDirect, TypeOK
  <1>3. CASE WriteToQueue(h)
    <2>1. written[h] + 1 \in Payload
      BY DEF TypeOK, Payload
    <2>2. Append(writeQueue[h], written[h] + 1) \in Seq(Payload)
      BY <2>1, AppendProperties DEF TypeOK
    <2> QED
      BY <1>3, <2>2 DEF WriteToQueue, TypeOK, ids
  <1> QED
    BY <1>1, <1>2, <1>3 DEF User

LEMMA TypeData ==
    ASSUME TypeOK, NEW h \in Host, NEW m \in Packet, m.type = "DATA",
           process(h, m)
    PROVE  TypeOK'
  <1>1. m.id \in PacketID /\ m.data \in Nat
    BY DEF Packet
  <1>2. {newAck(m)} \subseteq Packet /\ {newAck(m), newReset} \subseteq Packet
    BY ServicePackets
  <1>3. expectedID[h] \in PacketID /\ incID(expectedID[h]) \in PacketID
    BY IncID DEF TypeOK
  <1>4. CASE GotExpected(h, m)
    <2> DEFINE next == incID(expectedID[h])
               q    == receiveQueue[h]
    <2>1. PICK n \in 0 .. packetIDlimit - 1 :
            /\ newChannelData(h)
            /\ expectedID' = [expectedID EXCEPT ![h] = IDAfter(next, n)]
            /\ receiveQueue' = [receiveQueue EXCEPT ![h] = Left(q, next, n)]
            /\ delivered' = [delivered EXCEPT ![h] =
                                Append(@, m.data) \o Taken(q, next, n)]
            /\ Exchange(h, m, {newAck(m)})
            /\ UNCHANGED <<id, sendQueue, writeQueue, maxQueueSize, written,
                           resets, pings>>
      BY <1>4 DEF GotExpected
    <2>2. n \in Nat /\ q \in [PacketID -> Nat] /\ next \in PacketID
      BY <1>3, IDLimitAssumption DEF TypeOK
    <2>3. /\ Taken(q, next, n) \in Seq(Nat)
          /\ Left(q, next, n) \in [PacketID -> Nat]
          /\ IDAfter(next, n) \in PacketID
      BY <2>2, TakenType
    <2>4. Append(delivered[h], m.data) \o Taken(q, next, n) \in Seq(Nat)
      <3>1. Append(delivered[h], m.data) \in Seq(Nat)
        BY <1>1, AppendProperties DEF TypeOK
      <3> QED
        BY <2>3, <3>1, ConcatProperties
    <2>5. net' \in [Host -> SUBSET Packet]
      BY <1>2, <2>1, ExchangeType DEF TypeOK
    <2> HIDE DEF next, q
    <2> QED
      BY <2>1, <2>3, <2>4, <2>5 DEF TypeOK, newChannelData
  <1>5. CASE GotFirst(h, m)
    <2>1. firstPacketID \in PacketID
      BY IDLimitAssumption DEF firstPacketID, PacketID
    <2>2. incID(firstPacketID) \in PacketID
      BY <2>1, IncID
    <2>3. Append(delivered[h], m.data) \in Seq(Nat)
      BY <1>1, AppendProperties DEF TypeOK
    <2>4. net' \in [Host -> SUBSET Packet]
      BY <1>2, <1>5, ExchangeType DEF TypeOK, GotFirst
    <2>5. reset(h, incID(firstPacketID))
      BY <1>5 DEF GotFirst
    <2>6. /\ sendQueue' \in [Host -> Seq(SendQueueEntry)]
          /\ receiveQueue' \in [Host -> [PacketID -> Nat]]
          /\ writeQueue' \in [Host -> Seq(Payload)]
          /\ id' \in [Host -> PacketID]
          /\ expectedID' \in [Host -> PacketID]
          /\ resets' \in Nat
      BY <2>2, <2>5, ResetType
    <2> QED
      BY <1>5, <2>3, <2>4, <2>6 DEF TypeOK, GotFirst, newChannelData
  <1>6. CASE GotBeforeFirst(h, m)
    <2>1. net' \in [Host -> SUBSET Packet]
      BY <1>2, <1>6, ExchangeType DEF TypeOK, GotBeforeFirst
    <2>2. resets' \in Nat
      BY <1>6 DEF TypeOK, GotBeforeFirst
    <2>3. exists' \in [Host -> BOOLEAN] /\ connected' \in [Host -> BOOLEAN]
      BY <1>6 DEF TypeOK, GotBeforeFirst, newChannelData
    <2>4. UNCHANGED <<ids, queues, maxQueueSize, written, delivered, pings>>
      BY <1>6 DEF GotBeforeFirst
    <2> QED
      BY <2>1, <2>2, <2>3, <2>4 DEF TypeOK, ids, queues
  <1>7. CASE GotOld(h, m)
    <2>1. net' \in [Host -> SUBSET Packet]
      BY <1>2, <1>7, ExchangeType DEF TypeOK, GotOld
    <2> QED
      BY <1>7, <2>1 DEF TypeOK, GotOld, newChannelData, ids, queues
  <1>8. CASE GotAhead(h, m)
    <2> DEFINE e == expectedID[h]
               q == [receiveQueue[h] EXCEPT ![m.id] = m.data]
    <2>1. PICK n \in 0 .. packetIDlimit - 1 :
            /\ newChannelData(h)
            /\ expectedID' = [expectedID EXCEPT ![h] = IDAfter(e, n)]
            /\ receiveQueue' = [receiveQueue EXCEPT ![h] = Left(q, e, n)]
            /\ delivered' = [delivered EXCEPT ![h] = @ \o Taken(q, e, n)]
            /\ Exchange(h, m, {newAck(m)})
            /\ UNCHANGED <<id, sendQueue, writeQueue, maxQueueSize, written,
                           resets, pings>>
      BY <1>8 DEF GotAhead
    <2>2. n \in Nat /\ q \in [PacketID -> Nat] /\ e \in PacketID
      BY <1>1, <1>3, IDLimitAssumption DEF TypeOK
    <2>3. /\ Taken(q, e, n) \in Seq(Nat)
          /\ Left(q, e, n) \in [PacketID -> Nat]
          /\ IDAfter(e, n) \in PacketID
      BY <2>2, TakenType
    <2>4. delivered[h] \o Taken(q, e, n) \in Seq(Nat)
      BY <2>3, ConcatProperties DEF TypeOK
    <2>5. net' \in [Host -> SUBSET Packet]
      BY <1>2, <2>1, ExchangeType DEF TypeOK
    <2> HIDE DEF e, q
    <2>6. /\ exists' \in [Host -> BOOLEAN]
          /\ connected' \in [Host -> BOOLEAN]
      BY <2>1 DEF TypeOK, newChannelData
    <2>7. /\ expectedID' \in [Host -> PacketID]
          /\ receiveQueue' \in [Host -> [PacketID -> Nat]]
          /\ delivered' \in [Host -> Seq(Nat)]
      BY <2>1, <2>3, <2>4 DEF TypeOK
    <2> QED
      BY <2>1, <2>5, <2>6, <2>7 DEF TypeOK
  <1> QED
    BY <1>4, <1>5, <1>6, <1>7, <1>8
    DEF process, GotAck, GotReset, GotAckReset, GotPing, GotAckPing

LEMMA TypeService ==
    ASSUME TypeOK, NEW h \in Host, NEW m \in Packet, m.type # "DATA",
           process(h, m)
    PROVE  TypeOK'
  <1>1. {newAckToReset} \subseteq Packet /\ {newAckToPing} \subseteq Packet
          /\ {} \subseteq Packet
    BY ServicePackets
  <1>2. firstPacketID \in PacketID
    BY IDLimitAssumption DEF firstPacketID, PacketID
  <1>3. CASE GotAck(h, m)
    <2> DEFINE q   == sendQueueRemove(sendQueue[h], m.id)
               n   == writeFromQueueCount(h, Len(q))
               w   == SubSeq(writeQueue[h], 1, n)
               new == NewEntries(h, w)
    <2>1. q \in Seq(SendQueueEntry) /\ Len(q) \in Nat
      <3>1. q \in Seq(SendQueueEntry)
        BY SendQueueRemove DEF TypeOK
      <3> QED
        BY <3>1, LenProperties
    <2>2. n \in 0 .. Len(writeQueue[h]) /\ Len(writeQueue[h]) \in Nat
      BY <2>1, WriteFromQueueCount, LenProperties DEF TypeOK
    <2>3. w \in Seq(Payload)
          /\ SubSeq(writeQueue[h], n + 1, Len(writeQueue[h])) \in Seq(Payload)
      BY <2>2, SubSeqProperties, ElementOfSeq DEF TypeOK
    <2>4. new \in Seq(SendQueueEntry)
      BY <2>3, NewEntriesFacts DEF TypeOK
    <2>5. Datagrams(new) \subseteq Packet
      BY <2>4, DatagramsType
    <2>6. q \o new \in Seq(SendQueueEntry)
      BY <2>1, <2>4, ConcatProperties
    <2>7. IDAfter(id[h], n) \in PacketID
      BY <2>2, IDAfterType DEF TypeOK
    <2>8. /\ newChannelData(h)
          /\ sendQueue' = [sendQueue EXCEPT ![h] = q \o new]
          /\ writeQueue' = [writeQueue EXCEPT ![h] =
                               SubSeq(writeQueue[h], n + 1, Len(writeQueue[h]))]
          /\ id' = [id EXCEPT ![h] = IDAfter(id[h], n)]
          /\ Exchange(h, m, Datagrams(new))
          /\ UNCHANGED <<expectedID, receiveQueue, maxQueueSize, written,
                         delivered, resets, pings>>
      BY <1>3 DEF GotAck, TypeOK
    <2>9. net' \in [Host -> SUBSET Packet]
      BY <2>5, <2>8, ExchangeType DEF TypeOK
    <2> HIDE DEF q, n, w, new
    <2> QED
      BY <2>3, <2>6, <2>7, <2>8, <2>9 DEF TypeOK, newChannelData
  <1>4. CASE GotReset(h, m)
    <2>1. net' \in [Host -> SUBSET Packet]
      BY <1>1, <1>4, ExchangeType DEF TypeOK, GotReset
    <2>2. reset(h, firstPacketID)
      BY <1>4 DEF GotReset
    <2> QED
      BY <1>2, <1>4, <2>1, <2>2, ResetType DEF TypeOK, GotReset, newChannelData
  <1>5. CASE GotAckReset(h, m)
    <2>1. net' \in [Host -> SUBSET Packet]
      BY <1>1, <1>5, ExchangeType DEF TypeOK, GotAckReset
    <2>2. reset(h, firstPacketID)
      BY <1>5 DEF GotAckReset
    <2> QED
      BY <1>2, <1>5, <2>1, <2>2, ResetType
      DEF TypeOK, GotAckReset, newChannelData
  <1>6. CASE GotPing(h, m)
    <2>1. net' \in [Host -> SUBSET Packet]
      BY <1>1, <1>6, ExchangeType DEF TypeOK, GotPing
    <2> QED
      BY <1>6, <2>1 DEF TypeOK, GotPing, newChannelData, ids, queues
  <1>7. CASE GotAckPing(h, m)
    <2>1. net' \in [Host -> SUBSET Packet]
      BY <1>1, <1>7, ExchangeType DEF TypeOK, GotAckPing
    <2> QED
      BY <1>7, <2>1 DEF TypeOK, GotAckPing, newChannelData, ids, queues
  <1> QED
    BY <1>3, <1>4, <1>5, <1>6, <1>7
    DEF process, GotExpected, GotFirst, GotBeforeFirst, GotOld, GotAhead

LEMMA TypeTimer ==
    ASSUME TypeOK, NEW h \in Host, Timer(h)
    PROVE  TypeOK'
  <1> DEFINE q == sendQueue[h]
  <1>1. q \in Seq(SendQueueEntry) /\ Len(q) \in Nat /\ DOMAIN q = 1 .. Len(q)
    BY LenProperties DEF TypeOK
  <1>2. \A k \in DOMAIN q : Datagrams(SubSeq(q, 1, k)) \subseteq Packet
                          /\ Datagrams(SubSeq(q, 1, k - 1)) \subseteq Packet
    <2> SUFFICES ASSUME NEW k \in DOMAIN q, NEW j \in {k, k - 1}
                 PROVE  Datagrams(SubSeq(q, 1, j)) \subseteq Packet
      OBVIOUS
    <2>1. \A i \in 1 .. j : q[i] \in SendQueueEntry
      BY <1>1, ElementOfSeq
    <2>2. SubSeq(q, 1, j) \in Seq(SendQueueEntry)
      BY <1>1, <2>1, SubSeqProperties
    <2> QED
      BY <2>2, DatagramsType
  <1>3. ASSUME NEW k \in DOMAIN sendQueue[h], Resend(h, k)
        PROVE  TypeOK'
    <2> DEFINE new == [j \in DOMAIN q |-> IF j <= k
                          THEN [q[j] EXCEPT !.attempt = @ + 1] ELSE q[j]]
    <2>1. \A j \in 1 .. Len(q) : new[j] \in SendQueueEntry
      <3> TAKE j \in 1 .. Len(q)
      <3>1. q[j] \in SendQueueEntry
        BY <1>1, ElementOfSeq
      <3>2. j <= k => q[j].attempt < maxResendAttempt
        BY <1>1, <1>3 DEF Resend
      <3>3. CASE j <= k
        <4>1. new[j] = [q[j] EXCEPT !.attempt = @ + 1]
          BY <1>1, <3>3
        <4>2. q[j].attempt + 1 \in 0 .. maxResendAttempt
          BY <3>1, <3>2, <3>3, BoundAssumption DEF SendQueueEntry
        <4> HIDE DEF new, q
        <4> QED
          BY <3>1, <4>1, <4>2 DEF SendQueueEntry
      <3>4. CASE ~(j <= k)
        BY <1>1, <3>1, <3>4
      <3> QED
        BY <3>3, <3>4
    <2>2. new \in [1 .. Len(q) -> SendQueueEntry]
      BY <1>1, <2>1
    <2>3. new \in Seq(SendQueueEntry)
      BY <1>1, <2>2
    <2>4. net' \in [Host -> SUBSET Packet]
      BY <1>2, <1>3, SendType DEF Resend, TypeOK
    <2>5. sendQueue' = [sendQueue EXCEPT ![h] = new]
      BY <1>3 DEF Resend
    <2> HIDE DEF new
    <2>6. sendQueue' \in [Host -> Seq(SendQueueEntry)]
      BY <2>3, <2>5 DEF TypeOK
    <2>7. UNCHANGED <<exists, connected, ids, receiveQueue, writeQueue,
                      maxQueueSize, written, delivered, resets, pings>>
      BY <1>3 DEF Resend
    <2> QED
      BY <2>4, <2>6, <2>7 DEF TypeOK, ids
  <1>4. ASSUME NEW k \in DOMAIN sendQueue[h], ResendExhausted(h, k)
        PROVE  TypeOK'
    <2>1. net' \in [Host -> SUBSET Packet]
      BY <1>2, <1>4, SendType DEF ResendExhausted, TypeOK
    <2>2. destroy(h)
      BY <1>4 DEF ResendExhausted
    <2> QED
      BY <1>4, <2>1, <2>2, DestroyType DEF TypeOK, ResendExhausted
  <1>5. CASE Ping(h)
    <2>1. net' \in [Host -> SUBSET Packet]
      BY <1>5, ServicePackets, SendType DEF Ping, TypeOK
    <2>2. pings' \in [Host -> Nat]
      BY <1>5 DEF Ping, TypeOK
    <2>3. UNCHANGED <<exists, connected, ids, queues, maxQueueSize, written,
                      delivered, resets>>
      BY <1>5 DEF Ping
    <2> QED
      BY <2>1, <2>2, <2>3 DEF TypeOK, ids, queues
  <1>6. CASE Disconnect(h)
    <2>1. destroy(h)
      BY <1>6 DEF Disconnect
    <2> QED
      BY <1>6, <2>1, DestroyType DEF TypeOK, Disconnect
  <1>7. CASE GrowQueue(h)
    BY <1>7, QueueAssumption DEF TypeOK, GrowQueue, ids, queues
  <1>8. CASE ShrinkQueue(h)
    BY <1>8, QueueAssumption DEF TypeOK, ShrinkQueue, ids, queues
  <1> QED
    BY <1>3, <1>4, <1>5, <1>6, <1>7, <1>8 DEF Timer, sendQueueResendProcess

LEMMA TypeNext == TypeOK /\ [Next]_vars => TypeOK'
  <1> SUFFICES ASSUME TypeOK, [Next]_vars PROVE TypeOK'
    OBVIOUS
  <1>1. CASE UNCHANGED vars
    BY <1>1 DEF TypeOK, vars, ids, queues
  <1>2. CASE Next
    <2>1. PICK h \in Host :
            User(h) \/ Timer(h) \/ \E m \in net[h] : process(h, m) \/ Lose(h, m)
      BY <1>2 DEF Next
    <2>2. ASSUME NEW m \in net[h], process(h, m) PROVE TypeOK'
      <3>1. m \in Packet
        BY DEF TypeOK
      <3> QED
        BY <2>2, <3>1, TypeData, TypeService
    <2>3. ASSUME NEW m \in net[h], Lose(h, m) PROVE TypeOK'
      BY <2>3 DEF TypeOK, Lose, ids, queues
    <2> QED
      BY <2>1, <2>2, <2>3, TypeUser, TypeTimer
  <1> QED
    BY <1>1, <1>2

\* TypeOK is an invariant: ids stay below packetIDlimit, no packet is resent more
\* than maxResendAttempt times, and the limit of the send queue, which
\* sendQueueCalculateLength raises and lowers, never falls to 0 (a channel with
\* limit 0 could send nothing but one packet per ACK).
THEOREM TypeCorrect == Spec => []TypeOK
  BY TypeInit, TypeNext, PTL DEF Spec

-----------------------------------------------------------------------------
(* No lost wakeup *)

\* An ACK that empties the send queue releases the first write that waits, and
\* so refills it.
LEMMA WakeupAck ==
    ASSUME TypeOK, NoLostWakeup, NEW h \in Host, NEW m \in Packet, GotAck(h, m)
    PROVE  NoLostWakeup'
  <1> DEFINE q   == sendQueueRemove(sendQueue[h], m.id)
             n   == writeFromQueueCount(h, Len(q))
             w   == SubSeq(writeQueue[h], 1, n)
             new == NewEntries(h, w)
  <1>1. q \in Seq(SendQueueEntry) /\ Len(q) \in Nat
    <2>1. q \in Seq(SendQueueEntry)
      BY SendQueueRemove DEF TypeOK
    <2> QED
      BY <2>1, LenProperties
  <1>2. /\ n \in 0 .. Len(writeQueue[h])
        /\ writeQueue[h] # <<>> => n >= 1
        /\ Len(writeQueue[h]) \in Nat
    BY <1>1, WriteFromQueueCount, LenProperties DEF TypeOK
  <1>3. w \in Seq(Payload) /\ Len(w) = n
    BY <1>2, SubSeqProperties, ElementOfSeq DEF TypeOK
  <1>4. new \in Seq(SendQueueEntry) /\ Len(new) = n
    BY <1>3, NewEntriesFacts DEF TypeOK
  <1>5. /\ sendQueue' = [sendQueue EXCEPT ![h] = q \o new]
        /\ writeQueue' = [writeQueue EXCEPT ![h] =
                             SubSeq(writeQueue[h], n + 1, Len(writeQueue[h]))]
    BY DEF GotAck, TypeOK
  <1>6. writeQueue[h] # <<>> => q \o new # <<>>
    <2>1. Len(q \o new) = Len(q) + Len(new)
      BY <1>1, <1>4, ConcatProperties
    <2> QED
      BY <1>1, <1>2, <1>4, <2>1, EmptySeq
  <1>7. writeQueue[h] = <<>>
          => SubSeq(writeQueue[h], n + 1, Len(writeQueue[h])) = <<>>
    <2> SUFFICES ASSUME writeQueue[h] = <<>>
                 PROVE  SubSeq(writeQueue[h], n + 1, Len(writeQueue[h])) = <<>>
      OBVIOUS
    <2>1. Len(writeQueue[h]) = 0 /\ n = 0
      BY <1>2, EmptySeq
    <2> QED
      BY <2>1, SubSeqEmpty
  <1> HIDE DEF q, n, w, new
  <1> QED
    BY <1>5, <1>6, <1>7 DEF NoLostWakeup, TypeOK

LEMMA WakeupNext == TypeOK /\ NoLostWakeup /\ [Next]_vars => NoLostWakeup'
  <1> SUFFICES ASSUME TypeOK, NoLostWakeup, [Next]_vars PROVE NoLostWakeup'
    OBVIOUS
  <1>1. CASE UNCHANGED <<sendQueue, writeQueue>>
    BY <1>1 DEF NoLostWakeup
  <1>2. ASSUME NEW h \in Host, NEW next, reset(h, next) PROVE NoLostWakeup'
    BY <1>2 DEF NoLostWakeup, reset, ClearQueues, TypeOK
  <1>3. ASSUME NEW h \in Host, User(h) PROVE NoLostWakeup'
    <2>1. CASE ConnectChannel(h)
      BY <1>1, <2>1 DEF ConnectChannel, queues
    <2>2. CASE WriteToDirect(h)
      BY <2>2 DEF WriteToDirect, NoLostWakeup, TypeOK
    <2>3. CASE WriteToQueue(h)
      <3>1. sendQueue[h] # <<>>
        <4>1. CASE writeQueue[h] # <<>>
          BY <4>1 DEF NoLostWakeup
        <4>2. CASE ~canWrite(h, Len(sendQueue[h]))
          <5>1. maxQueueSize[h] \in Nat \ {0} /\ Len(<<>>) = 0
            BY EmptySeq DEF TypeOK
          <5> QED
            BY <4>2, <5>1 DEF canWrite
        <4> QED
          BY <2>3, <4>1, <4>2 DEF WriteToQueue
      <3> QED
        BY <2>3, <3>1 DEF WriteToQueue, NoLostWakeup, TypeOK
    <2> QED
      BY <1>3, <2>1, <2>2, <2>3 DEF User
  <1>4. ASSUME NEW h \in Host, Timer(h) PROVE NoLostWakeup'
    <2>1. ASSUME NEW k \in DOMAIN sendQueue[h], Resend(h, k)
          PROVE  NoLostWakeup'
      <3>1. sendQueue'[h] # <<>>
        <4>1. k \in DOMAIN sendQueue'[h]
          BY <2>1 DEF Resend, TypeOK
        <4> QED
          BY <4>1
      <3> QED
        BY <2>1, <3>1 DEF Resend, NoLostWakeup, TypeOK
    <2>2. ASSUME NEW k \in DOMAIN sendQueue[h], ResendExhausted(h, k)
          PROVE  NoLostWakeup'
      BY <1>2, <2>2 DEF ResendExhausted, destroy
    <2>3. CASE Disconnect(h)
      BY <1>2, <2>3 DEF Disconnect, destroy
    <2>4. CASE Ping(h) \/ GrowQueue(h) \/ ShrinkQueue(h)
      BY <1>1, <2>4 DEF Ping, GrowQueue, ShrinkQueue, queues
    <2> QED
      BY <1>4, <2>1, <2>2, <2>3, <2>4 DEF Timer, sendQueueResendProcess
  <1>5. ASSUME NEW h \in Host, NEW m \in net[h], process(h, m)
        PROVE  NoLostWakeup'
    <2>1. m \in Packet
      BY DEF TypeOK
    <2>2. CASE GotExpected(h, m) \/ GotAhead(h, m)
      BY <1>1, <2>2 DEF GotExpected, GotAhead
    <2>3. CASE GotFirst(h, m) \/ GotReset(h, m) \/ GotAckReset(h, m)
      BY <1>2, <2>3 DEF GotFirst, GotReset, GotAckReset
    <2>4. CASE \/ GotBeforeFirst(h, m) \/ GotOld(h, m)
               \/ GotPing(h, m) \/ GotAckPing(h, m)
      BY <1>1, <2>4 DEF GotBeforeFirst, GotOld, GotPing, GotAckPing, queues
    <2>5. CASE GotAck(h, m)
      BY <2>1, <2>5, WakeupAck
    <2> QED
      BY <1>5, <2>2, <2>3, <2>4, <2>5 DEF process
  <1>6. ASSUME NEW h \in Host, NEW m \in net[h], Lose(h, m)
        PROVE  NoLostWakeup'
    BY <1>1, <1>6 DEF Lose, queues
  <1>7. CASE UNCHANGED vars
    BY <1>1, <1>7 DEF vars, queues
  <1> QED
    BY <1>3, <1>4, <1>5, <1>6, <1>7 DEF Next

\* A write never waits behind an empty send queue, with any mix of losses,
\* duplicated ACKs, resets, disconnects and changes of maxQueueSize.
THEOREM NoLostWakeupHolds == Spec => []NoLostWakeup
  <1>1. Init => NoLostWakeup
    BY DEF Init, NoLostWakeup
  <1> QED
    BY <1>1, TypeCorrect, WakeupNext, PTL DEF Spec

-----------------------------------------------------------------------------
(* The stream *)

\* The conjunction that InTransit states for every sender.
Placed(h) == Numbered(h) /\ Arriving(h) /\ HandedOver(h) /\ Acknowledged(h)

-----------------------------------------------------------------------------
(* What a step does to the network *)

\* A step of h takes packets of h and sends the packets of out to its peer.
LEMMA ExchangeNet ==
    ASSUME TypeOK, NEW h \in Host, NEW m, NEW out, Exchange(h, m, out)
    PROVE  net'[h] \subseteq net[h] /\ net'[Peer(h)] \subseteq net[Peer(h)] \cup out
  <1>1. Peer(h) \in Host /\ Peer(h) # h
    BY PeerFacts
  <1>2. h \in DOMAIN net /\ Peer(h) \in DOMAIN net
    BY <1>1 DEF TypeOK
  <1>3. PICK duplicate \in {FALSE, MayDuplicate} :
          net' = [net EXCEPT ![h] = IF duplicate THEN @ ELSE @ \ {m},
                             ![Peer(h)] = @ \cup out]
    BY DEF Exchange
  <1>4. net'[h] = IF duplicate THEN net[h] ELSE net[h] \ {m}
    BY <1>1, <1>2, <1>3
  <1>5. net'[Peer(h)] = net[Peer(h)] \cup out
    BY <1>1, <1>2, <1>3
  <1> QED
    BY <1>4, <1>5

LEMMA SendNet ==
    ASSUME TypeOK, NEW h \in Host, NEW out, Send(h, out)
    PROVE  net'[h] \subseteq net[h] /\ net'[Peer(h)] \subseteq net[Peer(h)] \cup out
  <1>1. Peer(h) \in Host /\ Peer(h) # h
    BY PeerFacts
  <1>2. h \in DOMAIN net /\ Peer(h) \in DOMAIN net
    BY <1>1 DEF TypeOK
  <1> QED
    BY <1>1, <1>2 DEF Send

\* Ids never wrap within the writes of a host.
LEMMA SmallIDs ==
    ASSUME TypeOK, NEW h \in Host, Placed(h)
    PROVE  /\ id[h] \in Nat /\ written[h] \in Nat /\ Len(writeQueue[h]) \in Nat
           /\ id[h] <= written[h]
           /\ written[h] <= MaxWrites[h]
           /\ MaxWrites[h] \in Nat
           /\ MaxWrites[h] < packetIDlimit \div 2
           /\ packetIDlimit \div 2 \in Nat
           /\ packetIDlimit \div 2 < packetIDlimit
           /\ expectedID[Peer(h)] \in Nat /\ expectedID[Peer(h)] <= id[h]
  <1>1. writeQueue[h] \in Seq(Payload)
    BY DEF TypeOK
  <1>2. Len(writeQueue[h]) \in Nat
    BY <1>1, LenProperties
  <1>3. id[h] \in Nat /\ written[h] \in Nat /\ expectedID[Peer(h)] \in Nat
    BY PeerFacts DEF TypeOK, PacketID
  <1>4. MaxWrites[h] \in Nat /\ MaxWrites[h] < packetIDlimit \div 2
    BY BoundAssumption
  <1>5. packetIDlimit \div 2 \in Nat /\ packetIDlimit \div 2 < packetIDlimit
    BY IDLimitAssumption
  <1>6. /\ id[h] + Len(writeQueue[h]) = written[h]
        /\ written[h] <= MaxWrites[h]
        /\ expectedID[Peer(h)] <= id[h]
    BY DEF Placed, Numbered, HandedOver
  <1> QED
    BY <1>2, <1>3, <1>4, <1>5, <1>6

-----------------------------------------------------------------------------
(* Steps that change no id and no queue *)

\* Such a step only takes packets, or sends packets that agree with the stream
\* (a resend may also count attempts).
LEMMA QuietStep ==
    ASSUME TypeOK, \A g \in Host : Placed(g), NEW h \in Host, NEW out,
           net'[h] \subseteq net[h],
           net'[Peer(h)] \subseteq net[Peer(h)] \cup out,
           \A m \in out : m.type = "DATA" => m.id < id[h] /\ m.data = m.id + 1,
           \A m \in out : m.type = "ACK" => Got(h, m.id),
           \A g \in Host :
              /\ DOMAIN sendQueue'[g] = DOMAIN sendQueue[g]
              /\ \A k \in DOMAIN sendQueue[g] :
                   /\ sendQueue'[g][k].id = sendQueue[g][k].id
                   /\ sendQueue'[g][k].data = sendQueue[g][k].data,
           UNCHANGED <<id, expectedID, receiveQueue, writeQueue, written, delivered>>
    PROVE  \A g \in Host : Placed(g)'
  <1>1. Peer(h) \in Host /\ Peer(Peer(h)) = h
        /\ \A g \in Host : g = h \/ g = Peer(h)
    BY PeerFacts
  <1>2. ASSUME NEW g \in Host PROVE Numbered(g)'
    <2>1. Numbered(g)
      BY DEF Placed
    <2> QED
      BY <2>1 DEF Numbered
  <1>3. ASSUME NEW g \in Host PROVE Arriving(g)'
    <2>1. Arriving(g)
      BY DEF Placed
    <2>2. CASE g = h
      BY <2>1, <2>2 DEF Arriving
    <2>3. CASE g = Peer(h)
      BY <1>1, <2>1, <2>3 DEF Arriving
    <2> QED
      BY <1>1, <2>2, <2>3
  <1>4. ASSUME NEW g \in Host PROVE HandedOver(g)'
    BY DEF Placed, HandedOver
  <1>5. ASSUME NEW g \in Host PROVE Acknowledged(g)'
    <2>1. Acknowledged(g)
      BY DEF Placed
    <2>2. \A f, i : Got(f, i)' <=> Got(f, i)
      BY DEF Got
    <2>3. \A m \in net'[g] : m.type = "ACK" => Got(Peer(g), m.id)
      <3>1. CASE g = h
        BY <2>1, <3>1 DEF Acknowledged
      <3>2. CASE g = Peer(h)
        BY <1>1, <2>1, <3>2 DEF Acknowledged
      <3> QED
        BY <1>1, <3>1, <3>2
    <2>4. ASSUME NEW i \in 0 .. id[g] - 1
          PROVE  \/ Got(Peer(g), i)
                 \/ \E k \in DOMAIN sendQueue'[g] : sendQueue'[g][k].id = i
      BY <2>1 DEF Acknowledged
    <2> QED
      BY <2>2, <2>3, <2>4 DEF Acknowledged
  <1> QED
    BY <1>2, <1>3, <1>4, <1>5 DEF Placed

-----------------------------------------------------------------------------
(* Steps that deliver *)

\* What receiveQueueProcess does to a queue q that agrees with a stream of N
\* packets, after the first e of them were delivered as D: the next n are
\* delivered, and what was in the queue is delivered or still in the queue.
Took(q, e, n, D, N) ==
    /\ e + n <= N
    /\ IDAfter(e, n) = e + n
    /\ Len(D \o Taken(q, e, n)) = e + n
    /\ \A k \in 1 .. e + n : (D \o Taken(q, e, n))[k] = k
    /\ \A i \in PacketID :
         Left(q, e, n)[i] # NoPacket
            => q[i] # NoPacket /\ Left(q, e, n)[i] = q[i]
    /\ \A i \in PacketID :
         q[i] # NoPacket => i < e + n \/ Left(q, e, n)[i] # NoPacket

LEMMA TakeFacts ==
    ASSUME NEW q \in [PacketID -> Nat], NEW N \in Nat, N < packetIDlimit,
           NEW e \in Nat, e <= N,
           NEW D \in Seq(Nat), Len(D) = e, \A k \in 1 .. e : D[k] = k,
           \A i \in PacketID : q[i] # NoPacket => i < N /\ q[i] = i + 1,
           NEW n \in 0 .. packetIDlimit - 1, CanTake(q, e, n)
    PROVE  Took(q, e, n, D, N)
  <1>1. packetIDlimit \in Nat /\ n \in Nat
    BY IDLimitAssumption
  <1>2. \A k \in Nat : e + k < packetIDlimit => IDAfter(e, k) = e + k
    BY IDAfterSmall
  <1>3. \A k \in 0 .. n - 1 : q[IDAfter(e, k)] # NoPacket
    BY DEF CanTake
  <1>4. e + n <= N
    <2> SUFFICES ASSUME N < e + n PROVE FALSE
      BY <1>1
    <2>1. N - e \in 0 .. n - 1 /\ N - e \in Nat /\ e + (N - e) = N
      BY <1>1
    <2>2. IDAfter(e, N - e) = N
      BY <1>2, <2>1
    <2>3. q[N] # NoPacket
      BY <1>3, <2>1, <2>2, Zenon
    <2>4. N \in PacketID
      BY <1>1 DEF PacketID
    <2> QED
      BY <2>3, <2>4
  <1>5. \A k \in 0 .. n : IDAfter(e, k) = e + k
    BY <1>1, <1>2, <1>4
  <1>6. \A k \in 1 .. n : Taken(q, e, n)[k] = e + k
    <2> TAKE k \in 1 .. n
    <2>1. k - 1 \in 0 .. n - 1 /\ k - 1 \in 0 .. n /\ e + (k - 1) \in PacketID
      BY <1>1, <1>4 DEF PacketID
    <2>2. IDAfter(e, k - 1) = e + (k - 1)
      BY <1>5, <2>1
    <2>3. q[e + (k - 1)] = e + (k - 1) + 1
      BY <1>3, <2>1, <2>2
    <2>4. Taken(q, e, n)[k] = q[e + (k - 1)]
      BY <2>2 DEF Taken
    <2> QED
      BY <1>1, <2>3, <2>4
  <1>7. Taken(q, e, n) \in Seq(Nat) /\ Len(Taken(q, e, n)) = n
    <2>1. e \in PacketID
      BY <1>1 DEF PacketID
    <2> QED
      BY <1>1, <2>1, TakenType
  <1>8. /\ Len(D \o Taken(q, e, n)) = e + n
        /\ \A k \in 1 .. e + n : (D \o Taken(q, e, n))[k] = k
    <2> DEFINE T == Taken(q, e, n)
    <2> HIDE DEF T
    <2>1. T \in Seq(Nat) /\ Len(T) = n /\ \A k \in 1 .. n : T[k] = e + k
      BY <1>6, <1>7 DEF T
    <2>2. /\ Len(D \o T) = Len(D) + Len(T)
          /\ \A k \in 1 .. Len(D) + Len(T) :
               (D \o T)[k] = IF k <= Len(D) THEN D[k] ELSE T[k - Len(D)]
      <3>1. T \in Seq(Nat)
        BY <2>1
      <3> QED
        BY <3>1, ConcatProperties
    <2>3. ASSUME NEW k \in 1 .. e + n PROVE (D \o T)[k] = k
      <3>1. (D \o T)[k] = IF k <= e THEN D[k] ELSE T[k - e]
        BY <2>1, <2>2, <2>3
      <3>2. CASE k <= e
        BY <3>1, <3>2
      <3>3. CASE k > e
        <4>1. k - e \in 1 .. n /\ e + (k - e) = k
          BY <1>1, <3>3
        <4> QED
          BY <1>1, <2>1, <3>1, <3>3, <4>1
      <3>4. k <= e \/ k > e
        BY <1>1
      <3> QED
        BY <3>2, <3>3, <3>4, Zenon
    <2> QED
      BY <2>1, <2>2, <2>3 DEF T
  <1>9. ASSUME NEW i \in PacketID
        PROVE  /\ Left(q, e, n)[i] # NoPacket
                    => q[i] # NoPacket /\ Left(q, e, n)[i] = q[i]
               /\ q[i] # NoPacket => i < e + n \/ Left(q, e, n)[i] # NoPacket
    <2>1. Left(q, e, n)[i] = IF \E k \in 0 .. n - 1 : IDAfter(e, k) = i
                             THEN NoPacket ELSE q[i]
      BY DEF Left
    <2>2. (\E k \in 0 .. n - 1 : IDAfter(e, k) = i) => i < e + n
      BY <1>1, <1>5
    <2> QED
      BY <2>1, <2>2
  <1>10. IDAfter(e, n) = e + n
    BY <1>1, <1>5
  <1> QED
    BY <1>4, <1>8, <1>9, <1>10 DEF Took

\* h acknowledges m after it was handed D, has q in its receive queue, and
\* delivers the n packets that follow.
LEMMA DeliverStep ==
    ASSUME TypeOK, \A g \in Host : Placed(g),
           NEW h \in Host, NEW m \in Packet, m.type = "DATA",
           NEW q \in [PacketID -> Nat], NEW e \in Nat, e <= id[Peer(h)],
           NEW D \in Seq(Nat), Len(D) = e, \A k \in 1 .. e : D[k] = k,
           \A i \in PacketID :
              q[i] # NoPacket => i < id[Peer(h)] /\ q[i] = i + 1,
           NEW n \in 0 .. packetIDlimit - 1, CanTake(q, e, n),
           m.id < e \/ q[m.id] # NoPacket,
           \A i \in PacketID : Got(h, i) => i < e \/ q[i] # NoPacket,
           net'[h] \subseteq net[h],
           net'[Peer(h)] \subseteq net[Peer(h)] \cup {newAck(m)},
           expectedID' = [expectedID EXCEPT ![h] = IDAfter(e, n)],
           receiveQueue' = [receiveQueue EXCEPT ![h] = Left(q, e, n)],
           delivered' = [delivered EXCEPT ![h] = D \o Taken(q, e, n)],
           UNCHANGED <<id, sendQueue, writeQueue, written>>
    PROVE  \A g \in Host : Placed(g)'
  <1> DEFINE p == Peer(h)
             N == id[p]
             L == Left(q, e, n)
             T == D \o Taken(q, e, n)
  <1>1. p \in Host /\ p # h /\ Peer(p) = h /\ \A g \in Host : g = h \/ g = p
    BY PeerFacts
  <1>2. Placed(h) /\ Placed(p)
    BY <1>1
  <1>3. N \in Nat /\ N < packetIDlimit
    <2>1. id[p] \in PacketID
      BY <1>1 DEF TypeOK
    <2> QED
      BY <2>1, IDLimitAssumption DEF PacketID
  <1>4. /\ e + n <= N
        /\ IDAfter(e, n) = e + n
        /\ Len(T) = e + n
        /\ \A k \in 1 .. e + n : T[k] = k
        /\ \A i \in PacketID : L[i] # NoPacket => q[i] # NoPacket /\ L[i] = q[i]
        /\ \A i \in PacketID : q[i] # NoPacket => i < e + n \/ L[i] # NoPacket
    <2>1. e <= N /\ \A i \in PacketID : q[i] # NoPacket => i < N /\ q[i] = i + 1
      OBVIOUS
    <2> HIDE DEF p, N
    <2>2. Took(q, e, n, D, N)
      BY <1>3, <2>1, TakeFacts
    <2> QED
      BY <2>2 DEF Took
  <1>5. T \in Seq(Nat)
    <2>1. e \in PacketID /\ n \in Nat
      BY <1>3, IDLimitAssumption DEF PacketID
    <2> QED
      BY <2>1, TakenType, ConcatProperties
  <1>6. DOMAIN T = 1 .. e + n
    BY <1>4, <1>5, LenProperties
  <1>7. /\ expectedID'[h] = e + n /\ expectedID'[p] = expectedID[p]
        /\ receiveQueue'[h] = L /\ receiveQueue'[p] = receiveQueue[p]
        /\ delivered'[h] = T /\ delivered'[p] = delivered[p]
    BY <1>1, <1>4 DEF TypeOK
  <1> HIDE DEF L, T, N
  <1>8. \A i \in PacketID : Got(h, i) => Got(h, i)'
    <2> TAKE i \in PacketID
    <2> HAVE Got(h, i)
    <2>1. i \in Nat /\ n \in Nat
      BY IDLimitAssumption DEF PacketID
    <2>2. i < e + n \/ L[i] # NoPacket
      BY <1>4, <2>1
    <2> QED
      BY <1>7, <2>2 DEF Got
  <1>9. Got(h, m.id)'
    <2>1. m.id \in PacketID /\ m.id \in Nat /\ n \in Nat
      BY IDLimitAssumption DEF Packet, PacketID
    <2>2. m.id < e + n \/ L[m.id] # NoPacket
      BY <1>4, <2>1
    <2> QED
      BY <1>7, <2>2 DEF Got
  <1>10. \A i : Got(p, i) => Got(p, i)'
    BY <1>7 DEF Got
  <1>11. Placed(h)'
    <2>1. Numbered(h)'
      BY <1>2 DEF Placed, Numbered
    <2>2. Arriving(h)'
      <3>1. newAck(m).type # "DATA"
        BY DEF newAck
      <3> QED
        BY <1>2, <1>7, <3>1 DEF Placed, Arriving
    <2>3. HandedOver(h)'
      BY <1>2, <1>7 DEF Placed, HandedOver
    <2>4. Acknowledged(h)'
      BY <1>2, <1>10 DEF Placed, Acknowledged
    <2> QED
      BY <2>1, <2>2, <2>3, <2>4 DEF Placed
  <1>12. Placed(p)'
    <2>1. Numbered(p)'
      BY <1>2 DEF Placed, Numbered
    <2>2. Arriving(p)'
      <3>1. \A i \in PacketID : L[i] # NoPacket => i < N /\ L[i] = i + 1
        BY <1>4 DEF N
      <3>2. \A x \in net[h] : x.type = "DATA" => x.id < id[p] /\ x.data = x.id + 1
        BY <1>1, <1>2 DEF Placed, Arriving
      <3> QED
        BY <1>1, <1>7, <3>1, <3>2 DEF Arriving, N
    <2>3. HandedOver(p)'
      BY <1>1, <1>4, <1>6, <1>7 DEF HandedOver, N
    <2>4. Acknowledged(p)'
      <3>1. \A x \in net'[p] : x.type = "ACK" => Got(h, x.id)'
        <4> TAKE x \in net'[p]
        <4> HAVE x.type = "ACK"
        <4>1. CASE x \in net[p]
          <5>1. Got(h, x.id)
            BY <1>1, <1>2, <4>1 DEF Placed, Acknowledged
          <5>2. x.id \in PacketID
            BY <1>1, <4>1 DEF TypeOK, Packet
          <5> QED
            BY <1>8, <5>1, <5>2
        <4>2. CASE x = newAck(m)
          BY <1>9, <4>2 DEF newAck
        <4> QED
          BY <4>1, <4>2
      <3>2. \A i \in 0 .. id[p] - 1 :
              \/ Got(h, i)'
              \/ \E k \in DOMAIN sendQueue[p] : sendQueue[p][k].id = i
        <4> TAKE i \in 0 .. id[p] - 1
        <4>1. i \in PacketID
          BY <1>3, IDLimitAssumption DEF N, PacketID
        <4>2. \/ Got(h, i)
              \/ \E k \in DOMAIN sendQueue[p] : sendQueue[p][k].id = i
          BY <1>1, <1>2 DEF Placed, Acknowledged
        <4> QED
          BY <1>8, <4>1, <4>2
      <3> QED
        BY <1>1, <3>1, <3>2 DEF Acknowledged
    <2> QED
      BY <2>1, <2>2, <2>3, <2>4 DEF Placed
  <1> QED
    BY <1>1, <1>11, <1>12

\* What a host was handed so far.
LEMMA DeliveredFacts ==
    ASSUME TypeOK, NEW h \in Host, Placed(Peer(h))
    PROVE  /\ delivered[h] \in Seq(Nat)
           /\ Len(delivered[h]) = expectedID[h]
           /\ \A k \in 1 .. expectedID[h] : delivered[h][k] = k
  <1>1. delivered[h] \in Seq(Nat)
    BY DEF TypeOK
  <1>2. DOMAIN delivered[h] = 1 .. Len(delivered[h])
    BY <1>1, LenProperties
  <1>3. Peer(Peer(h)) = h
    BY PeerFacts
  <1> QED
    BY <1>1, <1>2, <1>3 DEF Placed, HandedOver

\* The expected packet is delivered with what follows it in the receive queue.
LEMMA ExpectedStep ==
    ASSUME TypeOK, \A g \in Host : Placed(g),
           NEW h \in Host, NEW m \in net[h], GotExpected(h, m)
    PROVE  \A g \in Host : Placed(g)'
  <1> DEFINE p == Peer(h)
             x == expectedID[h]
             q == receiveQueue[h]
             D == Append(delivered[h], m.data)
  <1>1. p \in Host /\ Peer(p) = h /\ Placed(p)
    BY PeerFacts
  <1>2. /\ id[p] \in Nat /\ x \in Nat /\ x <= id[p] /\ x \in PacketID
        /\ id[p] < packetIDlimit /\ packetIDlimit \in Nat
    <2>1. x \in PacketID
      BY DEF TypeOK
    <2>2. packetIDlimit \in Nat
      BY IDLimitAssumption
    <2> QED
      BY <1>1, <2>1, <2>2, SmallIDs
  <1>3. m \in Packet /\ m.type = "DATA" /\ m.id \in PacketID
    BY DEF TypeOK, GotExpected, Packet
  <1>4. m.id < id[p] /\ m.data = m.id + 1
    BY <1>1, <1>3 DEF Placed, Arriving
  <1>5. m.id = x
    BY <1>2, <1>3, Distance DEF GotExpected
  <1>6. incID(x) = x + 1 /\ x + 1 <= id[p]
    BY <1>2, <1>4, <1>5, IncID
  <1>7. PICK n \in 0 .. packetIDlimit - 1 :
          /\ CanTake(q, x + 1, n)
          /\ expectedID' = [expectedID EXCEPT ![h] = IDAfter(x + 1, n)]
          /\ receiveQueue' = [receiveQueue EXCEPT ![h] = Left(q, x + 1, n)]
          /\ delivered' = [delivered EXCEPT ![h] = D \o Taken(q, x + 1, n)]
          /\ Exchange(h, m, {newAck(m)})
          /\ UNCHANGED <<id, sendQueue, writeQueue, written>>
    BY <1>6 DEF GotExpected
  <1>8. D \in Seq(Nat) /\ Len(D) = x + 1 /\ \A k \in 1 .. x + 1 : D[k] = k
    <2>1. delivered[h] \in Seq(Nat) /\ Len(delivered[h]) = x
          /\ \A k \in 1 .. x : delivered[h][k] = k
      BY <1>1, DeliveredFacts
    <2>2. m.data \in Nat /\ m.data = x + 1
      BY <1>3, <1>4, <1>5 DEF Packet
    <2> HIDE DEF x
    <2> QED
      BY <1>2, <2>1, <2>2, AppendProperties
  <1>9. q \in [PacketID -> Nat]
        /\ \A i \in PacketID : q[i] # NoPacket => i < id[p] /\ q[i] = i + 1
    BY <1>1 DEF TypeOK, Placed, Arriving
  <1>10. /\ m.id < x + 1
         /\ \A i \in PacketID : Got(h, i) => i < x + 1 \/ q[i] # NoPacket
    <2>1. \A i \in PacketID : i \in Nat
      BY DEF PacketID
    <2> QED
      BY <1>2, <1>5, <2>1 DEF Got
  <1>11. /\ net'[h] \subseteq net[h]
         /\ net'[p] \subseteq net[p] \cup {newAck(m)}
    BY <1>7, ExchangeNet
  <1>12. x + 1 \in Nat
    BY <1>2
  <1> HIDE DEF D, q, x
  <1> QED
    BY <1>3, <1>6, <1>7, <1>8, <1>9, <1>10, <1>11, <1>12, DeliverStep, ZenonT(60)

\* A packet ahead of the expected one joins the receive queue.
LEMMA AheadStep ==
    ASSUME TypeOK, \A g \in Host : Placed(g),
           NEW h \in Host, NEW m \in net[h], GotAhead(h, m)
    PROVE  \A g \in Host : Placed(g)'
  <1> DEFINE p == Peer(h)
             e == expectedID[h]
             q == [receiveQueue[h] EXCEPT ![m.id] = m.data]
             D == delivered[h]
  <1>1. p \in Host /\ Peer(p) = h /\ Placed(p)
    BY PeerFacts
  <1>2. e \in Nat /\ e <= id[p]
    BY <1>1, SmallIDs
  <1>3. m \in Packet /\ m.type = "DATA" /\ m.id \in PacketID /\ m.data \in Nat
    BY DEF TypeOK, GotAhead, Packet
  <1>4. m.id < id[p] /\ m.data = m.id + 1
    BY <1>1, <1>3 DEF Placed, Arriving
  <1>5. PICK n \in 0 .. packetIDlimit - 1 :
          /\ CanTake(q, e, n)
          /\ expectedID' = [expectedID EXCEPT ![h] = IDAfter(e, n)]
          /\ receiveQueue' = [receiveQueue EXCEPT ![h] = Left(q, e, n)]
          /\ delivered' = [delivered EXCEPT ![h] = D \o Taken(q, e, n)]
          /\ Exchange(h, m, {newAck(m)})
          /\ UNCHANGED <<id, sendQueue, writeQueue, written>>
    BY DEF GotAhead, TypeOK
  <1>6. D \in Seq(Nat) /\ Len(D) = e /\ \A k \in 1 .. e : D[k] = k
    BY <1>1, DeliveredFacts
  <1>7. q \in [PacketID -> Nat]
        /\ \A i \in PacketID : q[i] # NoPacket => i < id[p] /\ q[i] = i + 1
    BY <1>1, <1>3, <1>4 DEF TypeOK, Placed, Arriving
  <1>8. q[m.id] # NoPacket
    <2>1. m.id \in Nat
      BY <1>3 DEF PacketID
    <2>2. q[m.id] = m.id + 1
      BY <1>3, <1>4 DEF TypeOK
    <2> QED
      BY <2>1, <2>2 DEF NoPacket
  <1>9. \A i \in PacketID : Got(h, i) => i < e \/ q[i] # NoPacket
    <2>1. \A i \in PacketID : i # m.id => q[i] = receiveQueue[h][i]
      BY DEF TypeOK
    <2> QED
      BY <1>8, <2>1 DEF Got
  <1>10. /\ net'[h] \subseteq net[h]
         /\ net'[p] \subseteq net[p] \cup {newAck(m)}
    BY <1>5, ExchangeNet
  <1>11. m.id < e \/ q[m.id] # NoPacket
    BY <1>8
  <1> HIDE DEF q, D
  <1> QED
    BY <1>2, <1>3, <1>5, <1>6, <1>7, <1>9, <1>10, <1>11, DeliverStep, ZenonT(60)

-----------------------------------------------------------------------------
(* Steps that send new packets *)

\* h removes acknowledged packets from its send queue, which leaves q, and sends
\* the next payloads w of its stream.
LEMMA SendStep ==
    ASSUME TypeOK, \A g \in Host : Placed(g), NEW h \in Host,
           NEW q \in Seq(SendQueueEntry),
           \A k \in 1 .. Len(q) :
              q[k].id < id[h] /\ q[k].data = q[k].id + 1,
           \A i \in 0 .. id[h] - 1 :
              Got(Peer(h), i) \/ \E k \in 1 .. Len(q) : q[k].id = i,
           NEW w \in Seq(Payload), \A k \in 1 .. Len(w) : w[k] = id[h] + k,
           id[h] + Len(w) + Len(writeQueue'[h]) = written'[h],
           id[h] + Len(w) <= MaxWrites[h],
           written'[h] <= MaxWrites[h],
           \A k \in DOMAIN writeQueue'[h] :
              writeQueue'[h][k] = id[h] + Len(w) + k,
           \A g \in Host \ {h} :
              writeQueue'[g] = writeQueue[g] /\ written'[g] = written[g],
           sendQueue' = [sendQueue EXCEPT ![h] = q \o NewEntries(h, w)],
           id' = [id EXCEPT ![h] = id[h] + Len(w)],
           net'[h] \subseteq net[h],
           net'[Peer(h)] \subseteq net[Peer(h)] \cup Datagrams(NewEntries(h, w)),
           UNCHANGED <<expectedID, receiveQueue, delivered>>
    PROVE  \A g \in Host : Placed(g)'
  <1> DEFINE p   == Peer(h)
             new == NewEntries(h, w)
             N   == id[h] + Len(w)
             s   == q \o new
  <1>1. p \in Host /\ p # h /\ Peer(p) = h /\ \A g \in Host : g = h \/ g = p
    BY PeerFacts
  <1>2. Placed(h) /\ Placed(p)
    BY <1>1
  <1>3. /\ id[h] \in Nat /\ id[h] \in PacketID /\ Len(w) \in Nat /\ Len(q) \in Nat
        /\ N \in Nat /\ N < packetIDlimit /\ id[h] <= N
    <2>1. id[h] \in PacketID
      BY DEF TypeOK
    <2>2. Len(w) \in Nat /\ Len(q) \in Nat
      BY LenProperties
    <2>3. /\ id[h] \in Nat /\ MaxWrites[h] \in Nat
          /\ MaxWrites[h] < packetIDlimit \div 2
          /\ packetIDlimit \div 2 \in Nat
          /\ packetIDlimit \div 2 < packetIDlimit
      BY <1>2, SmallIDs
    <2>4. packetIDlimit \in Nat
      BY IDLimitAssumption
    <2> QED
      BY <2>1, <2>2, <2>3, <2>4
  <1>4. /\ new \in Seq(SendQueueEntry)
        /\ Len(new) = Len(w)
        /\ \A k \in 1 .. Len(w) : new[k].id = id[h] + (k - 1)
                                 /\ new[k].data = id[h] + k
    <2>1. /\ new \in Seq(SendQueueEntry)
          /\ Len(new) = Len(w)
          /\ \A k \in 1 .. Len(w) :
               new[k] = [id |-> IDAfter(id[h], k - 1), data |-> w[k], attempt |-> 0]
      BY <1>3, NewEntriesFacts
    <2>2. ASSUME NEW k \in 1 .. Len(w)
          PROVE  IDAfter(id[h], k - 1) = id[h] + (k - 1)
      <3>1. k - 1 \in Nat /\ id[h] + (k - 1) < packetIDlimit
        BY <1>3, IDLimitAssumption
      <3> QED
        BY <1>3, <3>1, IDAfterSmall
    <2> HIDE DEF new
    <2>3. ASSUME NEW k \in 1 .. Len(w)
          PROVE  new[k].id = id[h] + (k - 1) /\ new[k].data = id[h] + k
      <3>1. new[k].id = IDAfter(id[h], k - 1) /\ new[k].data = w[k]
        <4>1. new[k] = [id |-> IDAfter(id[h], k - 1), data |-> w[k], attempt |-> 0]
          BY <2>1, Zenon
        <4> QED
          BY <4>1
      <3>2. w[k] = id[h] + k
        OBVIOUS
      <3> QED
        BY <2>2, <3>1, <3>2
    <2> QED
      BY <2>1, <2>3
  <1>5. /\ s \in Seq(SendQueueEntry)
        /\ DOMAIN s = 1 .. Len(q) + Len(w)
        /\ \A k \in 1 .. Len(q) : s[k] = q[k]
        /\ \A k \in 1 .. Len(w) : s[Len(q) + k] = new[k]
    <2> HIDE DEF new
    <2>0. new \in Seq(SendQueueEntry)
      BY <1>4
    <2>1. /\ q \o new \in Seq(SendQueueEntry)
          /\ Len(q \o new) = Len(q) + Len(new)
          /\ \A k \in 1 .. Len(q) + Len(new) :
               (q \o new)[k] = IF k <= Len(q) THEN q[k] ELSE new[k - Len(q)]
      BY <2>0, ConcatProperties
    <2>2. DOMAIN (q \o new) = 1 .. Len(q) + Len(new)
      BY <2>1, LenProperties
    <2>3. ASSUME NEW k \in 1 .. Len(w) PROVE (q \o new)[Len(q) + k] = new[k]
      <3>1. Len(q) + k \in 1 .. Len(q) + Len(new) /\ ~(Len(q) + k <= Len(q))
            /\ Len(q) + k - Len(q) = k
        BY <1>3, <1>4
      <3> QED
        BY <2>1, <3>1
    <2>4. ASSUME NEW k \in 1 .. Len(q) PROVE (q \o new)[k] = q[k]
      BY <1>3, <1>4, <2>1
    <2> QED
      BY <1>4, <2>1, <2>2, <2>3, <2>4
  <1>6. /\ sendQueue'[h] = s /\ sendQueue'[p] = sendQueue[p]
        /\ id'[h] = N /\ id'[p] = id[p]
        /\ writeQueue'[p] = writeQueue[p] /\ written'[p] = written[p]
    BY <1>1 DEF TypeOK
  <1>7. \A f, i : Got(f, i)' <=> Got(f, i)
    BY DEF Got
  <1> HIDE DEF new, s, N
  <1>8. ASSUME NEW k \in DOMAIN s
        PROVE  s[k].id < N /\ s[k].data = s[k].id + 1
    <2>1. CASE k \in 1 .. Len(q)
      <3>1. s[k].id < id[h] /\ s[k].data = s[k].id + 1
        BY <1>5, <2>1
      <3>2. s[k].id \in Nat
        <4>1. s[k] = q[k] /\ q[k] \in SendQueueEntry
          BY <1>5, <2>1, ElementOfSeq, Zenon
        <4> QED
          BY <4>1 DEF SendQueueEntry, PacketID
      <3> QED
        BY <1>3, <3>1, <3>2
    <2>2. CASE k - Len(q) \in 1 .. Len(w)
      <3>1. k = Len(q) + (k - Len(q))
        BY <1>3, <1>5
      <3>2. s[k] = new[k - Len(q)]
        BY <1>5, <2>2, <3>1
      <3>3. s[k].id = id[h] + (k - Len(q) - 1) /\ s[k].data = id[h] + (k - Len(q))
        BY <1>4, <2>2, <3>2
      <3>4. /\ id[h] + (k - Len(q) - 1) < id[h] + Len(w)
            /\ id[h] + (k - Len(q)) = id[h] + (k - Len(q) - 1) + 1
        <4> DEFINE l == k - Len(q)
        <4>1. l \in 1 .. Len(w)
          BY <2>2
        <4> HIDE DEF l
        <4>2. id[h] + (l - 1) < id[h] + Len(w) /\ id[h] + l = id[h] + (l - 1) + 1
          BY <1>3, <4>1
        <4> QED
          BY <4>2 DEF l
      <3> QED
        BY <3>3, <3>4 DEF N
    <2> QED
      BY <1>3, <1>5, <2>1, <2>2
  <1>9. Numbered(h)'
    BY <1>6, <1>8 DEF Numbered, N
  <1>10. Numbered(p)'
    BY <1>2, <1>6 DEF Placed, Numbered
  <1>11. Arriving(h)'
    <2>1. ASSUME NEW x \in net'[p], x.type = "DATA"
          PROVE  x.id < N /\ x.data = x.id + 1
      <3>1. CASE x \in net[p]
        <4>1. x.id < id[h] /\ x.data = x.id + 1
          BY <1>2, <2>1, <3>1 DEF Placed, Arriving
        <4>2. x.id \in Nat
          BY <1>1, <3>1 DEF TypeOK, Packet, PacketID
        <4> QED
          BY <1>3, <4>1, <4>2
      <3>2. CASE x \in Datagrams(new)
        <4>1. PICK k \in DOMAIN new : x = newData(new[k].id, new[k].data)
          BY <3>2 DEF Datagrams
        <4>2. k \in 1 .. Len(w)
          BY <1>4, LenProperties
        <4>3. x.id = id[h] + (k - 1) /\ x.data = id[h] + k
          BY <1>4, <4>1, <4>2 DEF newData
        <4> QED
          BY <1>3, <4>2, <4>3 DEF N
      <3> QED
        BY <2>1, <3>1, <3>2 DEF new
    <2>2. ASSUME NEW i \in PacketID, receiveQueue[p][i] # NoPacket
          PROVE  i < N /\ receiveQueue[p][i] = i + 1
      <3>1. i < id[h] /\ receiveQueue[p][i] = i + 1
        BY <1>2, <2>2 DEF Placed, Arriving
      <3>2. i \in Nat
        BY DEF PacketID
      <3> QED
        BY <1>3, <3>1, <3>2
    <2> QED
      BY <1>6, <2>1, <2>2 DEF Arriving
  <1>12. Arriving(p)'
    BY <1>1, <1>2, <1>6 DEF Placed, Arriving
  <1>13. HandedOver(h)'
    <2>1. expectedID[p] \in Nat /\ expectedID[p] <= id[h]
      BY <1>2, SmallIDs
    <2>2. expectedID[p] <= N
      BY <1>3, <2>1
    <2> QED
      BY <1>2, <1>6, <2>2 DEF Placed, HandedOver
  <1>14. HandedOver(p)'
    BY <1>2, <1>6 DEF Placed, HandedOver
  <1>15. Acknowledged(h)'
    <2>1. \A x \in net'[h] : x.type = "ACK" => Got(p, x.id)
      BY <1>2 DEF Placed, Acknowledged
    <2>2. ASSUME NEW i \in 0 .. N - 1
          PROVE  Got(p, i) \/ \E k \in DOMAIN s : s[k].id = i
      <3>1. CASE i < id[h]
        <4>1. i \in 0 .. id[h] - 1
          BY <1>3, <3>1
        <4>2. CASE \E k \in 1 .. Len(q) : q[k].id = i
          <5>1. PICK k \in 1 .. Len(q) : q[k].id = i
            BY <4>2
          <5>2. k \in DOMAIN s /\ s[k].id = i
            BY <1>3, <1>5, <5>1
          <5> QED
            BY <5>2
        <4> QED
          BY <4>1, <4>2
      <3>2. CASE i >= id[h]
        <4> DEFINE k == i - id[h] + 1
        <4>1. k \in 1 .. Len(w) /\ id[h] + (k - 1) = i
          <5>1. i \in Nat /\ i < id[h] + Len(w)
            BY <1>3 DEF N
          <5>2. id[h] \in Nat /\ Len(w) \in Nat /\ i >= id[h]
            BY <1>3, <3>2
          <5> QED
            BY <5>1, <5>2
        <4> HIDE DEF k
        <4>2. Len(q) + k \in DOMAIN s
          <5>1. Len(q) + k \in 1 .. Len(q) + Len(w)
            BY <1>3, <4>1
          <5> QED
            BY <1>5, <5>1
        <4>3. s[Len(q) + k].id = i
          BY <1>4, <1>5, <4>1
        <4> QED
          BY <4>2, <4>3
      <3> QED
        BY <1>3, <3>1, <3>2
    <2> QED
      BY <1>6, <1>7, <2>1, <2>2 DEF Acknowledged
  <1>16. Acknowledged(p)'
    <2>1. \A x \in net'[p] : x.type = "ACK" => Got(h, x.id)
      <3>1. \A x \in Datagrams(new) : x.type = "DATA"
        BY DEF Datagrams, newData
      <3> QED
        BY <1>1, <1>2, <3>1 DEF Placed, Acknowledged, new
    <2> QED
      BY <1>1, <1>2, <1>6, <1>7, <2>1 DEF Placed, Acknowledged
  <1> QED
    BY <1>1, <1>9, <1>10, <1>11, <1>12, <1>13, <1>14, <1>15, <1>16 DEF Placed

\* A write that is sent at once.
LEMMA WriteToDirectStep ==
    ASSUME TypeOK, \A g \in Host : Placed(g), NEW h \in Host, WriteToDirect(h)
    PROVE  \A g \in Host : Placed(g)'
  <1> DEFINE q == sendQueue[h]
             w == <<written[h] + 1>>
  <1>1. Placed(h)
    OBVIOUS
  <1>2. /\ id[h] \in Nat /\ written[h] \in Nat /\ MaxWrites[h] \in Nat
        /\ MaxWrites[h] < packetIDlimit \div 2
        /\ packetIDlimit \div 2 \in Nat
        /\ packetIDlimit \div 2 < packetIDlimit
    BY <1>1, SmallIDs
  <1>3. writeQueue[h] = <<>> /\ Len(writeQueue[h]) = 0
    BY EmptySeq DEF WriteToDirect
  <1>4. written[h] = id[h] /\ written[h] + 1 <= MaxWrites[h]
    BY <1>1, <1>2, <1>3 DEF Placed, Numbered, WriteToDirect
  <1>5. w \in Seq(Payload) /\ Len(w) = 1 /\ \A k \in 1 .. Len(w) : w[k] = id[h] + k
    <2>1. written[h] + 1 \in Payload
      BY <1>2 DEF Payload
    <2> QED
      BY <1>2, <1>4, <2>1
  <1>6. q \in Seq(SendQueueEntry) /\ DOMAIN q = 1 .. Len(q)
    BY LenProperties DEF TypeOK
  <1>7. incID(id[h]) = id[h] + 1
    <2>1. id[h] \in PacketID /\ packetIDlimit \in Nat
      BY IDLimitAssumption DEF TypeOK
    <2>2. id[h] + 1 < packetIDlimit
      BY <1>2, <1>4, <2>1
    <2> QED
      BY <2>1, <2>2, IncID
  <1>8. /\ sendQueue' = [sendQueue EXCEPT ![h] = q \o NewEntries(h, w)]
        /\ id' = [id EXCEPT ![h] = id[h] + Len(w)]
        /\ Send(h, Datagrams(NewEntries(h, w)))
        /\ UNCHANGED <<expectedID, receiveQueue, delivered>>
        /\ writeQueue' = writeQueue
        /\ written' = [written EXCEPT ![h] = written[h] + 1]
    BY <1>5, <1>7 DEF WriteToDirect, TypeOK
  <1>9. written'[h] = written[h] + 1
        /\ \A g \in Host \ {h} : writeQueue'[g] = writeQueue[g]
                               /\ written'[g] = written[g]
    BY <1>8 DEF TypeOK
  <1>10. /\ net'[h] \subseteq net[h]
         /\ net'[Peer(h)] \subseteq net[Peer(h)] \cup Datagrams(NewEntries(h, w))
    BY <1>8, SendNet
  <1>11. /\ \A k \in 1 .. Len(q) : q[k].id < id[h] /\ q[k].data = q[k].id + 1
         /\ \A i \in 0 .. id[h] - 1 :
              Got(Peer(h), i) \/ \E k \in 1 .. Len(q) : q[k].id = i
    BY <1>1, <1>6 DEF Placed, Numbered, Acknowledged
  <1>12. /\ id[h] + Len(w) + Len(writeQueue'[h]) = written'[h]
         /\ id[h] + Len(w) <= MaxWrites[h]
         /\ written'[h] <= MaxWrites[h]
    BY <1>2, <1>3, <1>4, <1>5, <1>8, <1>9
  <1>13. \A k \in DOMAIN writeQueue'[h] : writeQueue'[h][k] = id[h] + Len(w) + k
    BY <1>3, <1>8
  <1> HIDE DEF q, w
  <1> QED
    BY <1>5, <1>6, <1>8, <1>9, <1>10, <1>11, <1>12, <1>13, SendStep

\* A write that waits.
LEMMA WriteToQueueStep ==
    ASSUME TypeOK, \A g \in Host : Placed(g), NEW h \in Host, WriteToQueue(h)
    PROVE  \A g \in Host : Placed(g)'
  <1> DEFINE w == writeQueue[h]
             d == written[h] + 1
  <1>1. Placed(h)
    OBVIOUS
  <1>2. /\ id[h] \in Nat /\ written[h] \in Nat /\ MaxWrites[h] \in Nat
        /\ Len(w) \in Nat
    BY <1>1, SmallIDs
  <1>3. id[h] + Len(w) = written[h] /\ d <= MaxWrites[h]
    BY <1>1, <1>2 DEF Placed, Numbered, WriteToQueue
  <1>4. w \in Seq(Payload) /\ d \in Payload /\ DOMAIN w = 1 .. Len(w)
    BY <1>2, LenProperties DEF TypeOK, Payload
  <1>5. /\ DOMAIN Append(w, d) = 1 .. Len(w) + 1
        /\ Len(Append(w, d)) = Len(w) + 1
        /\ \A k \in 1 .. Len(w) + 1 :
             Append(w, d)[k] = IF k = Len(w) + 1 THEN d ELSE w[k]
    <2> HIDE DEF w, d
    <2> QED
      BY <1>2, <1>4, AppendProperties
  <1>6. /\ writeQueue' = [writeQueue EXCEPT ![h] = Append(w, d)]
        /\ written' = [written EXCEPT ![h] = d]
        /\ UNCHANGED <<id, expectedID, sendQueue, receiveQueue, net, delivered>>
    BY DEF WriteToQueue, TypeOK, ids
  <1>7. writeQueue'[h] = Append(w, d) /\ written'[h] = d
        /\ \A g \in Host \ {h} : writeQueue'[g] = writeQueue[g]
                               /\ written'[g] = written[g]
    BY <1>6 DEF TypeOK
  <1>8. Numbered(h)'
    <2>1. \A k \in 1 .. Len(w) : w[k] = id[h] + k
      BY <1>1, <1>4 DEF Placed, Numbered
    <2>2. ASSUME NEW k \in DOMAIN Append(w, d)
          PROVE  Append(w, d)[k] = id[h] + k
      <3>1. k \in 1 .. Len(w) + 1
            /\ Append(w, d)[k] = IF k = Len(w) + 1 THEN d ELSE w[k]
        BY <1>5
      <3>2. CASE k = Len(w) + 1
        BY <1>2, <1>3, <3>1, <3>2
      <3>3. CASE k # Len(w) + 1
        <4>1. k \in 1 .. Len(w)
          BY <1>2, <3>1, <3>3
        <4> QED
          BY <2>1, <3>1, <3>3, <4>1
      <3> QED
        BY <3>2, <3>3
    <2>3. id[h] + Len(Append(w, d)) = d
      BY <1>2, <1>3, <1>5
    <2> HIDE DEF w, d
    <2> QED
      BY <1>1, <1>3, <1>6, <1>7, <2>2, <2>3 DEF Placed, Numbered
  <1>9. ASSUME NEW g \in Host PROVE Numbered(g)'
    <2>1. CASE g = h
      BY <1>8, <2>1
    <2>2. CASE g # h
      BY <1>6, <1>7, <2>2 DEF Placed, Numbered
    <2> QED
      BY <2>1, <2>2
  <1>10. ASSUME NEW g \in Host
         PROVE  Arriving(g)' /\ HandedOver(g)' /\ Acknowledged(g)'
    BY <1>6 DEF Placed, Arriving, HandedOver, Acknowledged, Got
  <1> QED
    BY <1>9, <1>10 DEF Placed

\* An ACK: the packet it acknowledges was received, so it is not needed any more.
LEMMA AckStep ==
    ASSUME TypeOK, \A g \in Host : Placed(g),
           NEW h \in Host, NEW m \in net[h], GotAck(h, m)
    PROVE  \A g \in Host : Placed(g)'
  <1> DEFINE old == sendQueue[h]
             q   == sendQueueRemove(old, m.id)
             n   == writeFromQueueCount(h, Len(q))
             u   == writeQueue[h]
             w   == SubSeq(u, 1, n)
             r   == SubSeq(u, n + 1, Len(u))
  <1>1. Placed(h) /\ m.type = "ACK" /\ Got(Peer(h), m.id)
    BY DEF GotAck, Placed, Acknowledged
  <1>2. /\ id[h] \in Nat /\ written[h] \in Nat /\ MaxWrites[h] \in Nat
        /\ Len(u) \in Nat /\ written[h] <= MaxWrites[h]
        /\ MaxWrites[h] < packetIDlimit \div 2
        /\ packetIDlimit \div 2 \in Nat
        /\ packetIDlimit \div 2 < packetIDlimit
    BY <1>1, SmallIDs
  <1>3. /\ u \in Seq(Payload) /\ DOMAIN u = 1 .. Len(u)
        /\ id[h] + Len(u) = written[h] /\ \A k \in 1 .. Len(u) : u[k] = id[h] + k
    BY <1>1, LenProperties DEF TypeOK, Placed, Numbered
  <1>4. /\ old \in Seq(SendQueueEntry) /\ DOMAIN old = 1 .. Len(old)
        /\ Len(old) \in Nat
        /\ \A k \in 1 .. Len(old) : old[k].id < id[h] /\ old[k].data = old[k].id + 1
        /\ \A i \in 0 .. id[h] - 1 :
             Got(Peer(h), i) \/ \E k \in 1 .. Len(old) : old[k].id = i
    <2>1. old \in Seq(SendQueueEntry)
      BY DEF TypeOK
    <2>2. DOMAIN old = 1 .. Len(old) /\ Len(old) \in Nat
      BY <2>1, LenProperties
    <2> QED
      BY <1>1, <2>1, <2>2 DEF Placed, Numbered, Acknowledged
  <1>5. /\ q \in Seq(SendQueueEntry) /\ Len(q) \in Nat
        /\ \A k \in 1 .. Len(q) : q[k].id < id[h] /\ q[k].data = q[k].id + 1
        /\ \A i \in 0 .. id[h] - 1 :
             Got(Peer(h), i) \/ \E k \in 1 .. Len(q) : q[k].id = i
    <2>1. /\ q \in Seq(SendQueueEntry)
          /\ \/ q = old
             \/ \E j \in 1 .. Len(old) : old[j].id = m.id /\ q = RemoveAt(old, j)
      BY <1>4, SendQueueRemove
    <2>2. Len(q) \in Nat
      BY <2>1, LenProperties
    <2> HIDE DEF old, q
    <2>3. CASE q = old
      BY <1>4, <2>1, <2>2, <2>3
    <2>4. ASSUME NEW j \in 1 .. Len(old), old[j].id = m.id, q = RemoveAt(old, j)
          PROVE  /\ \A k \in 1 .. Len(q) : q[k].id < id[h] /\ q[k].data = q[k].id + 1
                 /\ \A i \in 0 .. id[h] - 1 :
                      Got(Peer(h), i) \/ \E k \in 1 .. Len(q) : q[k].id = i
      <3>1. /\ Len(q) = Len(old) - 1
            /\ \A k \in 1 .. Len(old) - 1 :
                 q[k] = IF k < j THEN old[k] ELSE old[k + 1]
        <4>1. old \in Seq(SendQueueEntry)
          BY <1>4
        <4>2. /\ Len(RemoveAt(old, j)) = Len(old) - 1
              /\ \A k \in 1 .. Len(old) - 1 :
                   RemoveAt(old, j)[k] = IF k < j THEN old[k] ELSE old[k + 1]
          BY <4>1, RemoveAtFacts
        <4> QED
          BY <2>4, <4>2, Zenon
      <3>2. ASSUME NEW k \in 1 .. Len(q)
            PROVE  q[k].id < id[h] /\ q[k].data = q[k].id + 1
        <4>1. PICK l \in 1 .. Len(old) : q[k] = old[l]
          <5>1. CASE k < j
            BY <1>4, <3>1, <5>1
          <5>2. CASE ~(k < j)
            <6>1. k + 1 \in 1 .. Len(old) /\ q[k] = old[k + 1]
              BY <1>4, <3>1, <5>2
            <6> QED
              BY <6>1
          <5> QED
            BY <5>1, <5>2
        <4> QED
          BY <1>4, <4>1
      <3>3. ASSUME NEW i \in 0 .. id[h] - 1, ~Got(Peer(h), i)
            PROVE  \E k \in 1 .. Len(q) : q[k].id = i
        <4>1. PICK l \in 1 .. Len(old) : old[l].id = i
          BY <1>4, <3>3
        <4>2. l # j
          BY <1>1, <2>4, <3>3, <4>1
        <4>3. CASE l < j
          <5>1. l \in 1 .. Len(q) /\ q[l] = old[l]
            BY <1>4, <3>1, <4>3
          <5> QED
            BY <4>1, <5>1
        <4>4. CASE l > j
          <5>1. l - 1 \in 1 .. Len(q) /\ ~(l - 1 < j) /\ l - 1 + 1 = l
            BY <1>4, <3>1, <4>4
          <5>2. q[l - 1] = old[l]
            BY <3>1, <5>1
          <5> QED
            BY <4>1, <5>1, <5>2
        <4> QED
          BY <1>4, <4>2, <4>3, <4>4
      <3> QED
        BY <3>2, <3>3
    <2> QED
      BY <2>1, <2>2, <2>3, <2>4
  <1>6. n \in 0 .. Len(u) /\ n \in Nat
    BY <1>2, <1>3, <1>5, WriteFromQueueCount DEF TypeOK
  <1>7. /\ sendQueue' = [sendQueue EXCEPT ![h] = q \o NewEntries(h, w)]
        /\ writeQueue' = [writeQueue EXCEPT ![h] = r]
        /\ id' = [id EXCEPT ![h] = IDAfter(id[h], n)]
        /\ Exchange(h, m, Datagrams(NewEntries(h, w)))
        /\ UNCHANGED <<expectedID, receiveQueue, delivered, written>>
    BY DEF GotAck, TypeOK
  <1> HIDE DEF q, n, u
  <1>8. w \in Seq(Payload) /\ Len(w) = n /\ \A k \in 1 .. n : w[k] = id[h] + k
    <2>1. /\ w \in Seq(Payload) /\ Len(w) = n
          /\ \A k \in 1 .. n : w[k] = u[k]
      BY <1>2, <1>3, <1>6, SubSeqProperties, ElementOfSeq
    <2> QED
      BY <1>2, <1>3, <1>6, <2>1
  <1>9. /\ r \in Seq(Payload) /\ Len(r) = Len(u) - n
        /\ \A k \in 1 .. Len(u) - n : r[k] = id[h] + n + k
    <2>1. /\ r \in Seq(Payload) /\ Len(r) = Len(u) - n
          /\ \A k \in 1 .. Len(u) - n : r[k] = u[n + k]
      <3>1. \A k \in n + 1 .. Len(u) : u[k] \in Payload
        BY <1>2, <1>3, <1>6, ElementOfSeq
      <3>2. n + 1 \in 1 .. Len(u) + 1 /\ Len(u) \in 0 .. Len(u)
        BY <1>2, <1>6
      <3>3. /\ r \in Seq(Payload)
            /\ Len(r) = IF n + 1 <= Len(u) THEN Len(u) - (n + 1) + 1 ELSE 0
            /\ \A k \in 1 .. Len(u) - (n + 1) + 1 : r[k] = u[n + 1 + k - 1]
        BY <1>3, <3>1, <3>2, SubSeqProperties
      <3> QED
        BY <1>2, <1>6, <3>3
    <2>2. ASSUME NEW k \in 1 .. Len(u) - n PROVE u[n + k] = id[h] + n + k
      <3>1. n + k \in 1 .. Len(u) /\ id[h] + (n + k) = id[h] + n + k
        BY <1>2, <1>6
      <3> QED
        BY <1>3, <3>1
    <2> QED
      BY <2>1, <2>2
  <1> HIDE DEF w, r
  <1>10. IDAfter(id[h], n) = id[h] + n
    <2>1. id[h] + n < packetIDlimit
      BY <1>2, <1>3, <1>6, IDLimitAssumption
    <2> QED
      BY <1>2, <1>6, <2>1, IDAfterSmall
  <1>11. /\ net'[h] \subseteq net[h]
         /\ net'[Peer(h)] \subseteq net[Peer(h)] \cup Datagrams(NewEntries(h, w))
    BY <1>7, ExchangeNet
  <1>12. /\ writeQueue'[h] = r /\ written'[h] = written[h]
         /\ \A g \in Host \ {h} : writeQueue'[g] = writeQueue[g]
                                /\ written'[g] = written[g]
         /\ DOMAIN r = 1 .. Len(r)
    BY <1>7, <1>9, LenProperties DEF TypeOK
  <1>13. /\ id[h] + Len(w) + Len(writeQueue'[h]) = written'[h]
         /\ id[h] + Len(w) <= MaxWrites[h]
         /\ written'[h] <= MaxWrites[h]
    <2>1. Len(w) = n /\ Len(r) = Len(u) - n
      BY <1>8, <1>9
    <2>2. Len(writeQueue'[h]) = Len(r) /\ written'[h] = written[h]
      BY <1>12
    <2>3. id[h] + Len(u) = written[h]
      BY <1>3
    <2>4. id[h] + n + (Len(u) - n) = written[h] /\ id[h] + n <= MaxWrites[h]
      BY <1>2, <1>6, <2>3
    <2> QED
      BY <1>2, <2>1, <2>2, <2>4, Zenon
  <1>14. \A k \in DOMAIN writeQueue'[h] : writeQueue'[h][k] = id[h] + Len(w) + k
    BY <1>8, <1>9, <1>12
  <1>15. id' = [id EXCEPT ![h] = id[h] + Len(w)]
    BY <1>7, <1>8, <1>10
  <1>16. \A k \in 1 .. Len(w) : w[k] = id[h] + k
    BY <1>8
  <1> QED
    BY <1>5, <1>7, <1>8, <1>11, <1>12, <1>13, <1>14, <1>15, <1>16, SendStep

-----------------------------------------------------------------------------
(* The other steps *)

\* The first packets of the send queue are sent again, with their old payloads.
LEMMA ResendStep ==
    ASSUME TypeOK, \A g \in Host : Placed(g),
           NEW h \in Host, NEW k \in DOMAIN sendQueue[h], Resend(h, k)
    PROVE  \A g \in Host : Placed(g)'
  <1> DEFINE q   == sendQueue[h]
             new == [j \in DOMAIN q |-> IF j <= k
                       THEN [q[j] EXCEPT !.attempt = @ + 1] ELSE q[j]]
             out == Datagrams(SubSeq(q, 1, k))
  <1>1. /\ q \in Seq(SendQueueEntry) /\ DOMAIN q = 1 .. Len(q) /\ Len(q) \in Nat
        /\ \A j \in 1 .. Len(q) : q[j] \in SendQueueEntry
    <2>1. q \in Seq(SendQueueEntry)
      BY DEF TypeOK
    <2> QED
      BY <2>1, LenProperties, ElementOfSeq
  <1>2. \A j \in DOMAIN q : new[j].id = q[j].id /\ new[j].data = q[j].data
    <2> TAKE j \in DOMAIN q
    <2>1. q[j] \in SendQueueEntry
      BY <1>1
    <2>2. new[j] = IF j <= k THEN [q[j] EXCEPT !.attempt = @ + 1] ELSE q[j]
      OBVIOUS
    <2> HIDE DEF q, new
    <2> QED
      BY <2>1, <2>2 DEF SendQueueEntry
  <1>3. sendQueue' = [sendQueue EXCEPT ![h] = new] /\ Send(h, out)
        /\ UNCHANGED <<id, expectedID, receiveQueue, writeQueue, written, delivered>>
    BY DEF Resend, ids
  <1>4. \A g \in Host :
          /\ DOMAIN sendQueue'[g] = DOMAIN sendQueue[g]
          /\ \A j \in DOMAIN sendQueue[g] :
               /\ sendQueue'[g][j].id = sendQueue[g][j].id
               /\ sendQueue'[g][j].data = sendQueue[g][j].data
    <2> TAKE g \in Host
    <2>1. CASE g = h
      <3>1. sendQueue'[h] = new /\ DOMAIN new = DOMAIN q
        BY <1>3 DEF TypeOK
      <3> HIDE DEF new
      <3> QED
        BY <1>2, <2>1, <3>1
    <2>2. CASE g # h
      <3>1. sendQueue'[g] = sendQueue[g]
        BY <1>3, <2>2 DEF TypeOK
      <3> QED
        BY <3>1
    <2> QED
      BY <2>1, <2>2
  <1>5. ASSUME NEW m \in out
        PROVE  m.type = "DATA" /\ m.id < id[h] /\ m.data = m.id + 1
    <2>1. /\ SubSeq(q, 1, k) \in Seq(SendQueueEntry) /\ Len(SubSeq(q, 1, k)) = k
          /\ \A j \in 1 .. k : SubSeq(q, 1, k)[j] = q[j]
      <3>1. k \in Nat /\ k >= 1 /\ \A j \in 1 .. k : q[j] \in SendQueueEntry
        BY <1>1
      <3> QED
        BY <3>1, SubSeqProperties
    <2>2. DOMAIN SubSeq(q, 1, k) = 1 .. k
      BY <2>1, LenProperties
    <2>3. PICK j \in 1 .. k : m = newData(q[j].id, q[j].data)
      BY <2>1, <2>2 DEF Datagrams
    <2>4. j \in DOMAIN q
      BY <1>1
    <2>5. q[j].id < id[h] /\ q[j].data = q[j].id + 1
      BY <2>4 DEF Placed, Numbered
    <2> QED
      BY <2>3, <2>5 DEF newData
  <1>6. /\ net'[h] \subseteq net[h]
        /\ net'[Peer(h)] \subseteq net[Peer(h)] \cup out
    BY <1>3, SendNet
  <1> HIDE DEF out
  <1>7. /\ \A m \in out : m.type = "DATA" => m.id < id[h] /\ m.data = m.id + 1
        /\ \A m \in out : m.type = "ACK" => Got(h, m.id)
    BY <1>5
  <1> QED
    BY <1>3, <1>4, <1>6, <1>7, QuietStep

\* A step that leaves ids, queues and histories alone and sends service packets,
\* or acknowledges a packet that was received before.
LEMMA ServiceStep ==
    ASSUME TypeOK, \A g \in Host : Placed(g), NEW h \in Host, NEW out,
           net'[h] \subseteq net[h],
           net'[Peer(h)] \subseteq net[Peer(h)] \cup out,
           \A m \in out : m.type # "DATA",
           \A m \in out : m.type = "ACK" => Got(h, m.id),
           UNCHANGED <<ids, queues, written, delivered>>
    PROVE  \A g \in Host : Placed(g)'
  <1>1. UNCHANGED <<id, expectedID, sendQueue, receiveQueue, writeQueue, written,
                    delivered>>
    BY DEF ids, queues
  <1>2. \A m \in out : m.type = "DATA" => m.id < id[h] /\ m.data = m.id + 1
    OBVIOUS
  <1>3. \A g \in Host :
          /\ DOMAIN sendQueue'[g] = DOMAIN sendQueue[g]
          /\ \A k \in DOMAIN sendQueue[g] :
               /\ sendQueue'[g][k].id = sendQueue[g][k].id
               /\ sendQueue'[g][k].data = sendQueue[g][k].data
    BY <1>1
  <1> QED
    BY <1>1, <1>2, <1>3, QuietStep

\* A packet that the host has already is acknowledged again and dropped.
LEMMA OldStep ==
    ASSUME TypeOK, \A g \in Host : Placed(g),
           NEW h \in Host, NEW m \in net[h], GotOld(h, m)
    PROVE  \A g \in Host : Placed(g)'
  <1> DEFINE p == Peer(h)
  <1>1. p \in Host /\ Peer(p) = h /\ Placed(p)
    BY PeerFacts
  <1>2. m \in Packet /\ m.id \in PacketID /\ m.type = "DATA"
    BY DEF TypeOK, Packet, GotOld
  <1>3. m.id < id[p]
    BY <1>1, <1>2 DEF Placed, Arriving
  <1>4. Got(h, m.id)
    <2>1. CASE packetDistance(expectedID[h], m.id) < 0
      <3>1. /\ expectedID[h] \in PacketID /\ expectedID[h] \in Nat /\ m.id \in Nat
            /\ id[p] \in Nat /\ expectedID[h] <= id[p]
            /\ id[p] < packetIDlimit \div 2 /\ packetIDlimit \div 2 \in Nat
        <4>1. /\ id[p] \in Nat /\ written[p] \in Nat /\ id[p] <= written[p]
              /\ written[p] <= MaxWrites[p] /\ MaxWrites[p] \in Nat
              /\ MaxWrites[p] < packetIDlimit \div 2
              /\ packetIDlimit \div 2 \in Nat
              /\ expectedID[h] \in Nat /\ expectedID[h] <= id[p]
          BY <1>1, SmallIDs
        <4>2. expectedID[h] \in PacketID
          BY DEF TypeOK
        <4>3. m.id \in Nat
          BY <1>2 DEF PacketID
        <4> QED
          BY <4>1, <4>2, <4>3
      <3>2. /\ m.id - expectedID[h] < packetIDlimit \div 2
            /\ expectedID[h] - m.id <= packetIDlimit \div 2
        BY <1>3, <3>1
      <3>3. packetDistance(expectedID[h], m.id) = m.id - expectedID[h]
        BY <1>2, <3>1, <3>2, Distance
      <3> QED
        BY <2>1, <3>1, <3>3 DEF Got
    <2>2. CASE receiveQueue[h][m.id] # NoPacket
      BY <2>2 DEF Got
    <2> QED
      BY <2>1, <2>2 DEF GotOld
  <1> DEFINE out == {newAck(m)}
  <1>5. /\ net'[h] \subseteq net[h]
        /\ net'[Peer(h)] \subseteq net[Peer(h)] \cup out
    BY ExchangeNet DEF GotOld
  <1>6. /\ \A x \in out : x.type # "DATA"
        /\ \A x \in out : x.type = "ACK" => Got(h, x.id)
    BY <1>4 DEF newAck
  <1>7. UNCHANGED <<ids, queues, written, delivered>>
    BY DEF GotOld
  <1> HIDE DEF out
  <1> QED
    BY <1>5, <1>6, <1>7, ServiceStep

\* A reset or a disconnect ends the promise.
LEMMA BrokenStep ==
    ASSUME TypeOK, resets' = resets + 1
    PROVE  InTransit'
  <1>1. resets' # 0
    BY DEF TypeOK
  <1> QED
    BY <1>1 DEF InTransit, intact

LEMMA InTransitNext == TypeOK /\ InTransit /\ [Next]_vars => InTransit'
  <1> SUFFICES ASSUME TypeOK, InTransit, [Next]_vars PROVE InTransit'
    OBVIOUS
  <1>1. ASSUME resets' = resets,
               (\A g \in Host : Placed(g)) => \A g \in Host : Placed(g)'
        PROVE  InTransit'
    BY <1>1 DEF InTransit, intact, Placed
  <1>2. CASE UNCHANGED vars
    <2>1. UNCHANGED <<id, expectedID, sendQueue, receiveQueue, writeQueue, net,
                      written, delivered, resets>>
      BY <1>2 DEF vars, ids, queues
    <2>2. ASSUME NEW g \in Host, Placed(g) PROVE Placed(g)'
      BY <2>1, <2>2 DEF Placed, Numbered, Arriving, HandedOver, Acknowledged, Got
    <2> QED
      BY <1>1, <2>1, <2>2
  <1>3. ASSUME NEW h \in Host, NEW out,
               net'[h] \subseteq net[h],
               net'[Peer(h)] \subseteq net[Peer(h)] \cup out,
               \A m \in out : m.type \notin {"DATA", "ACK"},
               UNCHANGED <<ids, queues, written, delivered, resets>>
        PROVE  InTransit'
    <2>1. (\A g \in Host : Placed(g)) => \A g \in Host : Placed(g)'
      BY <1>3, ServiceStep
    <2> QED
      BY <1>1, <1>3, <2>1
  <1>4. ASSUME NEW h \in Host, User(h) PROVE InTransit'
    <2>1. CASE ConnectChannel(h)
      <3> DEFINE out == {}
      <3>1. /\ net'[h] \subseteq net[h]
            /\ net'[Peer(h)] \subseteq net[Peer(h)] \cup out
            /\ \A m \in out : m.type \notin {"DATA", "ACK"}
            /\ UNCHANGED <<ids, queues, written, delivered, resets>>
        BY <2>1 DEF ConnectChannel
      <3> HIDE DEF out
      <3> QED
        BY <1>3, <3>1
    <2>2. CASE WriteToDirect(h)
      <3>1. resets' = resets
        BY <2>2 DEF WriteToDirect
      <3> QED
        BY <1>1, <2>2, <3>1, WriteToDirectStep
    <2>3. CASE WriteToQueue(h)
      <3>1. resets' = resets
        BY <2>3 DEF WriteToQueue
      <3> QED
        BY <1>1, <2>3, <3>1, WriteToQueueStep
    <2> QED
      BY <1>4, <2>1, <2>2, <2>3 DEF User
  <1>5. ASSUME NEW h \in Host, Timer(h) PROVE InTransit'
    <2>1. ASSUME NEW k \in DOMAIN sendQueue[h], Resend(h, k) PROVE InTransit'
      <3>1. resets' = resets
        BY <2>1 DEF Resend
      <3> QED
        BY <1>1, <2>1, <3>1, ResendStep
    <2>2. ASSUME NEW k \in DOMAIN sendQueue[h], ResendExhausted(h, k)
          PROVE  InTransit'
      BY <2>2, BrokenStep DEF ResendExhausted, destroy, reset
    <2>3. CASE Ping(h)
      <3> DEFINE out == {newPing}
      <3>1. /\ net'[h] \subseteq net[h]
            /\ net'[Peer(h)] \subseteq net[Peer(h)] \cup out
        BY <2>3, SendNet DEF Ping
      <3>2. /\ \A m \in out : m.type \notin {"DATA", "ACK"}
            /\ UNCHANGED <<ids, queues, written, delivered, resets>>
        BY <2>3 DEF Ping, newPing
      <3> HIDE DEF out
      <3> QED
        BY <1>3, <3>1, <3>2
    <2>4. CASE Disconnect(h)
      BY <2>4, BrokenStep DEF Disconnect, destroy, reset
    <2>5. CASE GrowQueue(h) \/ ShrinkQueue(h)
      <3> DEFINE out == {}
      <3>1. /\ net'[h] \subseteq net[h]
            /\ net'[Peer(h)] \subseteq net[Peer(h)] \cup out
            /\ \A m \in out : m.type \notin {"DATA", "ACK"}
            /\ UNCHANGED <<ids, queues, written, delivered, resets>>
        BY <2>5 DEF GrowQueue, ShrinkQueue
      <3> HIDE DEF out
      <3> QED
        BY <1>3, <3>1
    <2> QED
      BY <1>5, <2>1, <2>2, <2>3, <2>4, <2>5 DEF Timer, sendQueueResendProcess
  <1>6. ASSUME NEW h \in Host, NEW m \in net[h], process(h, m) PROVE InTransit'
    <2>1. CASE GotExpected(h, m)
      <3>1. resets' = resets
        BY <2>1 DEF GotExpected
      <3> QED
        BY <1>1, <2>1, <3>1, ExpectedStep
    <2>2. CASE GotAhead(h, m)
      <3>1. resets' = resets
        BY <2>2 DEF GotAhead
      <3> QED
        BY <1>1, <2>2, <3>1, AheadStep
    <2>3. CASE GotOld(h, m)
      <3>1. resets' = resets
        BY <2>3 DEF GotOld
      <3> QED
        BY <1>1, <2>3, <3>1, OldStep
    <2>4. CASE GotAck(h, m)
      <3>1. resets' = resets
        BY <2>4 DEF GotAck
      <3> QED
        BY <1>1, <2>4, <3>1, AckStep
    <2>5. CASE GotFirst(h, m) \/ GotReset(h, m) \/ GotAckReset(h, m)
      BY <2>5, BrokenStep DEF GotFirst, GotReset, GotAckReset, reset
    <2>6. CASE GotBeforeFirst(h, m)
      BY <2>6, BrokenStep DEF GotBeforeFirst
    <2>7. CASE GotPing(h, m)
      <3> DEFINE out == {newAckToPing}
      <3>1. /\ net'[h] \subseteq net[h]
            /\ net'[Peer(h)] \subseteq net[Peer(h)] \cup out
        BY <2>7, ExchangeNet DEF GotPing
      <3>2. /\ \A x \in out : x.type \notin {"DATA", "ACK"}
            /\ UNCHANGED <<ids, queues, written, delivered, resets>>
        BY <2>7 DEF GotPing, newAckToPing
      <3> HIDE DEF out
      <3> QED
        BY <1>3, <3>1, <3>2
    <2>8. CASE GotAckPing(h, m)
      <3> DEFINE out == {}
      <3>1. /\ net'[h] \subseteq net[h]
            /\ net'[Peer(h)] \subseteq net[Peer(h)] \cup out
        BY <2>8, ExchangeNet DEF GotAckPing
      <3>2. /\ \A x \in out : x.type \notin {"DATA", "ACK"}
            /\ UNCHANGED <<ids, queues, written, delivered, resets>>
        BY <2>8 DEF GotAckPing
      <3> HIDE DEF out
      <3> QED
        BY <1>3, <3>1, <3>2
    <2> QED
      BY <1>6, <2>1, <2>2, <2>3, <2>4, <2>5, <2>6, <2>7, <2>8 DEF process
  <1>7. ASSUME NEW h \in Host, NEW m \in net[h], Lose(h, m) PROVE InTransit'
    <2> DEFINE out == {}
    <2>1. /\ net'[h] \subseteq net[h]
          /\ net'[Peer(h)] \subseteq net[Peer(h)] \cup out
          /\ \A x \in out : x.type \notin {"DATA", "ACK"}
          /\ UNCHANGED <<ids, queues, written, delivered, resets>>
      BY <1>7, PeerFacts DEF Lose, TypeOK
    <2> HIDE DEF out
    <2> QED
      BY <1>3, <2>1
  <1> QED
    BY <1>2, <1>4, <1>5, <1>6, <1>7 DEF Next

LEMMA InTransitInit == Init => InTransit
  <1> SUFFICES ASSUME Init, NEW h \in Host PROVE Placed(h)
    BY DEF InTransit, Placed
  <1>1. Peer(h) \in Host
    BY PeerFacts
  <1>2. /\ id[h] = 0 /\ written[h] = 0 /\ writeQueue[h] = <<>>
        /\ sendQueue[h] = <<>> /\ net[h] = {} /\ net[Peer(h)] = {}
        /\ \A i \in PacketID : receiveQueue[Peer(h)][i] = NoPacket
        /\ delivered[Peer(h)] = <<>> /\ expectedID[Peer(h)] = 0
    BY <1>1 DEF Init, firstPacketID, EmptyReceiveQueue
  <1>3. Len(writeQueue[h]) = 0 /\ Len(delivered[Peer(h)]) = 0
    BY <1>2, EmptySeq
  <1>4. MaxWrites[h] \in Nat
    BY BoundAssumption
  <1> QED
    BY <1>2, <1>3, <1>4
    DEF Placed, Numbered, Arriving, HandedOver, Acknowledged

\* Ids, queues, acknowledgements and packets on the way agree on the place of
\* every payload in the stream, until a host is told of a reset or a disconnect.
THEOREM InTransitHolds == Spec => []InTransit
  BY InTransitInit, InTransitNext, TypeCorrect, PTL DEF Spec

-----------------------------------------------------------------------------
(* What the users of a channel see *)

LEMMA InOrderFromInTransit == TypeOK /\ InTransit => DeliveredInOrder
  <1> SUFFICES ASSUME TypeOK, InTransit, intact, NEW h \in Host
               PROVE  /\ Len(delivered[h]) <= written[Peer(h)]
                      /\ \A k \in DOMAIN delivered[h] : delivered[h][k] = k
    BY DEF DeliveredInOrder
  <1>1. Peer(h) \in Host /\ Peer(Peer(h)) = h /\ Placed(Peer(h))
    BY PeerFacts DEF InTransit, Placed
  <1>2. /\ Len(delivered[h]) = expectedID[h]
        /\ \A k \in DOMAIN delivered[h] : delivered[h][k] = k
    BY <1>1 DEF Placed, HandedOver
  <1>3. /\ expectedID[h] \in Nat /\ id[Peer(h)] \in Nat /\ written[Peer(h)] \in Nat
        /\ expectedID[h] <= id[Peer(h)] /\ id[Peer(h)] <= written[Peer(h)]
    BY <1>1, SmallIDs
  <1> QED
    BY <1>2, <1>3

\* Whatever the network loses, duplicates or reorders, a host is handed a prefix
\* of what its peer wrote until it or the peer is told of a reset or a disconnect.
THEOREM DeliveredInOrderHolds == Spec => []DeliveredInOrder
  BY InTransitHolds, TypeCorrect, InOrderFromInTransit, PTL

LEMMA NothingLostFromInTransit == TypeOK /\ InTransit => NothingLost
  <1> SUFFICES ASSUME TypeOK, InTransit, intact, NEW h \in Host,
                      NEW d \in 1 .. written[h]
               PROVE  d \in Waiting(h) \cup Sending(h) \cup Received(Peer(h))
                             \cup Delivered(Peer(h))
    BY DEF NothingLost
  <1> DEFINE p == Peer(h)
  <1>1. p \in Host /\ Placed(h)
    BY PeerFacts DEF InTransit, Placed
  <1>2. /\ id[h] \in Nat /\ written[h] \in Nat /\ Len(writeQueue[h]) \in Nat
        /\ expectedID[p] \in Nat /\ id[h] \in PacketID
        /\ id[h] + Len(writeQueue[h]) = written[h]
    BY <1>1, SmallIDs DEF Placed, Numbered, TypeOK
  <1>3. CASE d > id[h]
    <2> DEFINE k == d - id[h]
    <2>1. writeQueue[h] \in Seq(Payload)
      BY DEF TypeOK
    <2>2. k \in 1 .. Len(writeQueue[h]) /\ id[h] + k = d
      BY <1>2, <1>3
    <2>3. k \in DOMAIN writeQueue[h]
      BY <2>1, <2>2, LenProperties
    <2>4. writeQueue[h][k] = d
      BY <1>1, <2>2, <2>3 DEF Placed, Numbered
    <2> HIDE DEF k
    <2> QED
      BY <2>3, <2>4 DEF Waiting
  <1>4. CASE d <= id[h]
    <2> DEFINE i == d - 1
    <2>1. i \in 0 .. id[h] - 1 /\ i + 1 = d
      BY <1>2, <1>4
    <2>2. i \in PacketID
      BY <1>2, <2>1, IDLimitAssumption DEF PacketID
    <2> HIDE DEF i
    <2>3. Got(p, i) \/ \E k \in DOMAIN sendQueue[h] : sendQueue[h][k].id = i
      BY <1>1, <2>1 DEF Placed, Acknowledged
    <2>4. CASE i < expectedID[p]
      <3>1. delivered[p] \in Seq(Nat) /\ Len(delivered[p]) = expectedID[p]
        BY <1>1 DEF TypeOK, Placed, HandedOver
      <3>2. DOMAIN delivered[p] = 1 .. expectedID[p]
        BY <3>1, LenProperties
      <3>3. d \in DOMAIN delivered[p]
        BY <1>2, <2>1, <2>4, <3>2
      <3>4. delivered[p][d] = d
        BY <1>1, <3>3 DEF Placed, HandedOver
      <3> QED
        BY <3>3, <3>4 DEF Delivered
    <2>5. CASE receiveQueue[p][i] # NoPacket
      <3>1. receiveQueue[p][i] = d
        BY <1>1, <2>1, <2>2, <2>5 DEF Placed, Arriving
      <3> QED
        BY <2>2, <2>5, <3>1 DEF Received
    <2>6. CASE \E k \in DOMAIN sendQueue[h] : sendQueue[h][k].id = i
      <3>1. PICK k \in DOMAIN sendQueue[h] : sendQueue[h][k].id = i
        BY <2>6
      <3>2. sendQueue[h][k].data = d
        BY <1>1, <2>1, <3>1 DEF Placed, Numbered
      <3> QED
        BY <3>1, <3>2 DEF Sending
    <2> QED
      BY <2>3, <2>4, <2>5, <2>6 DEF Got
  <1> QED
    BY <1>2, <1>3, <1>4

\* Until a host is told of a reset or a disconnect, every write is held somewhere:
\* a packet leaves the send queue for good only after the peer has kept it.
THEOREM NothingLostHolds == Spec => []NothingLost
  BY InTransitHolds, TypeCorrect, NothingLostFromInTransit, PTL

-----------------------------------------------------------------------------
(* The channel implements the stream of ReliableStream *)

\* What h keeps was written by the host that it is kept for: h itself, or its
\* peer. This also holds after a reset, when an id says nothing of its payload.
Held(h) ==
    /\ \A k \in DOMAIN writeQueue[h] : writeQueue[h][k] \in 1 .. written[h]
    /\ \A k \in DOMAIN sendQueue[h] : sendQueue[h][k].data \in 1 .. written[h]
    /\ \A i \in PacketID :
         receiveQueue[h][i] # NoPacket
            => receiveQueue[h][i] \in 1 .. written[Peer(h)]

\* So was what is on its way to the peer of h.
Sent(h) == \A m \in net[Peer(h)] : m.type = "DATA" => m.data \in 1 .. written[h]

Authentic == \A h \in Host : Held(h) /\ Sent(h)

\* A step of h that keeps and sends what was written.
LEMMA AuthenticStep ==
    ASSUME TypeOK, TypeOK', Authentic, NEW h \in Host, NEW out,
           net'[h] \subseteq net[h],
           net'[Peer(h)] \subseteq net[Peer(h)] \cup out,
           \A m \in out : m.type = "DATA" => m.data \in 1 .. written'[h],
           Held(h)', written[h] <= written'[h],
           \A g \in Host \ {h} : /\ sendQueue'[g] = sendQueue[g]
                                 /\ receiveQueue'[g] = receiveQueue[g]
                                 /\ writeQueue'[g] = writeQueue[g]
                                 /\ written'[g] = written[g]
    PROVE  Authentic'
  <1> DEFINE p == Peer(h)
  <1>1. p \in Host /\ p # h /\ Peer(p) = h /\ \A g \in Host : g = h \/ g = p
    BY PeerFacts
  <1>2. Held(h) /\ Sent(h) /\ Held(p) /\ Sent(p)
    BY <1>1 DEF Authentic
  <1>3. written[h] \in Nat /\ written'[h] \in Nat
    BY DEF TypeOK
  <1>4. 1 .. written[h] \subseteq 1 .. written'[h]
    BY <1>3
  <1>5. /\ sendQueue'[p] = sendQueue[p] /\ receiveQueue'[p] = receiveQueue[p]
        /\ writeQueue'[p] = writeQueue[p] /\ written'[p] = written[p]
    BY <1>1
  <1> HIDE DEF p
  <1>6. Held(p)'
    BY <1>1, <1>2, <1>4, <1>5 DEF Held
  <1>7. Sent(h)'
    BY <1>2, <1>4 DEF Sent
  <1>8. Sent(p)'
    BY <1>1, <1>2, <1>5 DEF Sent
  <1> QED
    BY <1>1, <1>6, <1>7, <1>8 DEF Authentic

\* A step of h that leaves the queues alone and sends no DATA packet.
LEMMA AuthenticQuiet ==
    ASSUME TypeOK, TypeOK', Authentic, NEW h \in Host, NEW out,
           net'[h] \subseteq net[h],
           net'[Peer(h)] \subseteq net[Peer(h)] \cup out,
           \A m \in out : m.type # "DATA",
           UNCHANGED <<queues, written>>
    PROVE  Authentic'
  <1>1. UNCHANGED <<sendQueue, receiveQueue, writeQueue, written>>
    BY DEF queues
  <1>2. Held(h)'
    BY <1>1 DEF Authentic, Held
  <1>3. written[h] <= written'[h]
    BY <1>1 DEF TypeOK
  <1> QED
    BY <1>1, <1>2, <1>3, AuthenticStep

\* A reset of h forgets what h keeps.
LEMMA AuthenticReset ==
    ASSUME TypeOK, TypeOK', Authentic, NEW h \in Host, NEW out,
           net'[h] \subseteq net[h],
           net'[Peer(h)] \subseteq net[Peer(h)] \cup out,
           \A m \in out : m.type = "DATA" => m.data \in 1 .. written[h],
           ClearQueues(h), written' = written
    PROVE  Authentic'
  <1>1. /\ sendQueue'[h] = <<>> /\ writeQueue'[h] = <<>>
        /\ receiveQueue'[h] = EmptyReceiveQueue
        /\ \A g \in Host \ {h} : /\ sendQueue'[g] = sendQueue[g]
                                 /\ receiveQueue'[g] = receiveQueue[g]
                                 /\ writeQueue'[g] = writeQueue[g]
                                 /\ written'[g] = written[g]
    BY DEF ClearQueues, TypeOK
  <1>2. Held(h)'
    BY <1>1 DEF Held, EmptyReceiveQueue
  <1>3. written[h] <= written'[h]
    BY DEF TypeOK
  <1> QED
    BY <1>1, <1>2, <1>3, AuthenticStep

\* What receiveQueueProcess takes out of a queue, and what it leaves there, was
\* in the queue.
LEMMA TakenFrom ==
    ASSUME NEW q \in [PacketID -> Nat], NEW W \in Nat,
           \A i \in PacketID : q[i] # NoPacket => q[i] \in 1 .. W,
           NEW e \in PacketID, NEW n \in 0 .. packetIDlimit - 1, CanTake(q, e, n)
    PROVE  /\ \A k \in 1 .. n : Taken(q, e, n)[k] \in 1 .. W
           /\ \A i \in PacketID :
                Left(q, e, n)[i] # NoPacket => Left(q, e, n)[i] \in 1 .. W
  <1>1. ASSUME NEW k \in 1 .. n PROVE Taken(q, e, n)[k] \in 1 .. W
    <2>1. n \in Nat /\ k - 1 \in 0 .. n - 1 /\ k - 1 \in Nat
      BY IDLimitAssumption
    <2>2. IDAfter(e, k - 1) \in PacketID
      BY <2>1, IDAfterType
    <2>3. q[IDAfter(e, k - 1)] # NoPacket
      BY <2>1 DEF CanTake
    <2>4. Taken(q, e, n)[k] = q[IDAfter(e, k - 1)]
      BY DEF Taken
    <2> QED
      BY <2>2, <2>3, <2>4
  <1>2. ASSUME NEW i \in PacketID, Left(q, e, n)[i] # NoPacket
        PROVE  Left(q, e, n)[i] \in 1 .. W
    <2>1. Left(q, e, n)[i] = IF \E k \in 0 .. n - 1 : IDAfter(e, k) = i
                             THEN NoPacket ELSE q[i]
      BY DEF Left
    <2>2. Left(q, e, n)[i] = q[i]
      BY <1>2, <2>1
    <2> QED
      BY <1>2, <2>2
  <1> QED
    BY <1>1, <1>2

\* h is handed what its peer wrote, the n packets from e in q among it.
LEMMA AuthenticReceive ==
    ASSUME TypeOK, TypeOK', Authentic, NEW h \in Host, NEW m,
           net'[h] \subseteq net[h],
           net'[Peer(h)] \subseteq net[Peer(h)] \cup {newAck(m)},
           NEW q \in [PacketID -> Nat],
           \A i \in PacketID : q[i] # NoPacket => q[i] \in 1 .. written[Peer(h)],
           NEW e \in PacketID, NEW n \in 0 .. packetIDlimit - 1, CanTake(q, e, n),
           receiveQueue' = [receiveQueue EXCEPT ![h] = Left(q, e, n)],
           UNCHANGED <<sendQueue, writeQueue, written>>
    PROVE  Authentic'
  <1> DEFINE out == {newAck(m)}
  <1>1. Peer(h) \in Host /\ written[Peer(h)] \in Nat
    BY PeerFacts DEF TypeOK
  <1>2. \A i \in PacketID :
          Left(q, e, n)[i] # NoPacket => Left(q, e, n)[i] \in 1 .. written[Peer(h)]
    BY <1>1, TakenFrom
  <1>3. /\ receiveQueue'[h] = Left(q, e, n)
        /\ \A g \in Host \ {h} : receiveQueue'[g] = receiveQueue[g]
    BY DEF TypeOK
  <1>4. Held(h)'
    BY <1>2, <1>3 DEF Authentic, Held
  <1>5. \A x \in out : x.type = "DATA" => x.data \in 1 .. written'[h]
    BY DEF newAck
  <1>6. written[h] <= written'[h]
    BY DEF TypeOK
  <1>7. net'[Peer(h)] \subseteq net[Peer(h)] \cup out
    OBVIOUS
  <1> HIDE DEF out
  <1> QED
    BY <1>3, <1>4, <1>5, <1>6, <1>7, AuthenticStep

\* What GotExpected and GotAhead take from the network and from the receive queue.
LEMMA ArrivedFrom ==
    ASSUME TypeOK, Authentic, NEW h \in Host, NEW m \in net[h], m.type = "DATA"
    PROVE  /\ m \in Packet /\ m.id \in PacketID /\ m.data \in Nat
           /\ Peer(h) \in Host /\ written[Peer(h)] \in Nat
           /\ m.data \in 1 .. written[Peer(h)]
           /\ receiveQueue[h] \in [PacketID -> Nat]
           /\ \A i \in PacketID :
                receiveQueue[h][i] # NoPacket
                   => receiveQueue[h][i] \in 1 .. written[Peer(h)]
           /\ expectedID[h] \in PacketID /\ incID(expectedID[h]) \in PacketID
  <1>1. Peer(h) \in Host /\ Peer(Peer(h)) = h
    BY PeerFacts
  <1>2. m \in Packet /\ m.id \in PacketID /\ m.data \in Nat
    BY DEF TypeOK, Packet
  <1>3. Held(h) /\ Sent(Peer(h))
    BY <1>1 DEF Authentic
  <1>4. expectedID[h] \in PacketID /\ incID(expectedID[h]) \in PacketID
    BY IncID DEF TypeOK
  <1> QED
    BY <1>1, <1>2, <1>3, <1>4 DEF Held, Sent, TypeOK

\* Writes that are put in a queue or sent are the last ones of h.
LEMMA AuthenticWrite ==
    ASSUME TypeOK, TypeOK', Authentic, NEW h \in Host,
           WriteToDirect(h) \/ WriteToQueue(h)
    PROVE  Authentic'
  <1> DEFINE w == <<written[h] + 1>>
             new == NewEntries(h, w)
  <1>1. written[h] \in Nat /\ id[h] \in PacketID
    BY DEF TypeOK
  <1>2. written' = [written EXCEPT ![h] = written[h] + 1]
    BY DEF WriteToDirect, WriteToQueue, TypeOK
  <1>3. /\ written'[h] = written[h] + 1
        /\ \A g \in Host \ {h} : written'[g] = written[g]
    BY <1>2 DEF TypeOK
  <1>4. 1 .. written[h] \subseteq 1 .. written'[h] /\ written[h] <= written'[h]
        /\ written[h] + 1 \in 1 .. written'[h]
    BY <1>1, <1>3
  <1>5. Held(h)
    BY DEF Authentic
  <1>6. Peer(h) \in Host /\ written'[Peer(h)] = written[Peer(h)]
    BY <1>3, PeerFacts
  <1>7. CASE WriteToDirect(h)
    <2>1. /\ w \in Seq(Payload) /\ Len(w) = 1 /\ w[1] = written[h] + 1
      BY <1>1 DEF Payload
    <2> HIDE DEF w
    <2>2. /\ new \in Seq(SendQueueEntry) /\ Len(new) = 1
          /\ \A k \in 1 .. 1 : new[k].data = written[h] + 1
      <3>1. \A k \in 1 .. Len(w) :
              new[k] = [id |-> IDAfter(id[h], k - 1), data |-> w[k], attempt |-> 0]
        BY <1>1, <2>1, NewEntriesFacts
      <3> QED
        BY <1>1, <2>1, <3>1, NewEntriesFacts
    <2>3. /\ sendQueue' = [sendQueue EXCEPT ![h] = sendQueue[h] \o new]
          /\ Send(h, Datagrams(new))
          /\ UNCHANGED <<receiveQueue, writeQueue>>
      BY <1>7 DEF WriteToDirect, TypeOK, w
    <2> HIDE DEF new
    <2>4. /\ sendQueue'[h] = sendQueue[h] \o new
          /\ \A g \in Host \ {h} : sendQueue'[g] = sendQueue[g]
      BY <2>3 DEF TypeOK
    <2>5. \A k \in DOMAIN sendQueue'[h] : sendQueue'[h][k].data \in 1 .. written'[h]
      <3> DEFINE q == sendQueue[h]
      <3>1. q \in Seq(SendQueueEntry)
        BY DEF TypeOK
      <3>2. DOMAIN q = 1 .. Len(q) /\ Len(q) \in Nat
        BY <3>1, LenProperties
      <3>3. \A k \in 1 .. Len(q) : q[k].data \in 1 .. written'[h]
        BY <1>4, <1>5, <3>2 DEF Held
      <3> HIDE DEF q
      <3>4. /\ DOMAIN (q \o new) = 1 .. Len(q) + 1
            /\ \A k \in 1 .. Len(q) + 1 :
                 (q \o new)[k] = IF k <= Len(q) THEN q[k] ELSE new[k - Len(q)]
        <4>1. /\ q \o new \in Seq(SendQueueEntry)
              /\ Len(q \o new) = Len(q) + Len(new)
              /\ \A k \in 1 .. Len(q) + Len(new) :
                   (q \o new)[k] = IF k <= Len(q) THEN q[k] ELSE new[k - Len(q)]
          BY <2>2, <3>1, ConcatProperties, Zenon
        <4>2. DOMAIN (q \o new) = 1 .. Len(q \o new)
          BY <4>1, LenProperties, Zenon
        <4> QED
          BY <2>2, <4>1, <4>2, Zenon
      <3>5. ASSUME NEW k \in 1 .. Len(q) + 1
            PROVE  (q \o new)[k].data \in 1 .. written'[h]
        <4>1. CASE k <= Len(q)
          BY <3>2, <3>3, <3>4, <4>1
        <4>2. CASE k = Len(q) + 1
          <5>1. (q \o new)[k] = new[1]
            BY <3>2, <3>4, <4>2
          <5> QED
            BY <1>4, <2>2, <5>1
        <4>3. k <= Len(q) \/ k = Len(q) + 1
          BY <3>2
        <4> QED
          BY <4>1, <4>2, <4>3, Zenon
      <3> QED
        BY <2>4, <3>4, <3>5 DEF q
    <2>6. Held(h)'
      BY <1>4, <1>5, <1>6, <2>3, <2>5 DEF Held
    <2>7. \A m \in Datagrams(new) : m.type = "DATA" => m.data \in 1 .. written'[h]
      <3>1. DOMAIN new = 1 .. 1
        BY <2>2, LenProperties
      <3> QED
        BY <1>4, <2>2, <3>1 DEF Datagrams, newData
    <2>8. /\ net'[h] \subseteq net[h]
          /\ net'[Peer(h)] \subseteq net[Peer(h)] \cup Datagrams(new)
      BY <2>3, SendNet
    <2> QED
      BY <1>3, <1>4, <2>3, <2>4, <2>6, <2>7, <2>8, AuthenticStep
  <1>8. CASE WriteToQueue(h)
    <2> DEFINE u == writeQueue[h]
               out == {}
    <2>1. /\ writeQueue' = [writeQueue EXCEPT ![h] = Append(u, written[h] + 1)]
          /\ UNCHANGED <<sendQueue, receiveQueue, net>>
      BY <1>8 DEF WriteToQueue, TypeOK
    <2>2. /\ writeQueue'[h] = Append(u, written[h] + 1)
          /\ \A g \in Host \ {h} : writeQueue'[g] = writeQueue[g]
      BY <2>1 DEF TypeOK
    <2>3. u \in Seq(Payload) /\ DOMAIN u = 1 .. Len(u) /\ Len(u) \in Nat
      BY LenProperties DEF TypeOK
    <2>4. \A k \in 1 .. Len(u) : u[k] \in 1 .. written'[h]
      BY <1>4, <1>5, <2>3 DEF Held
    <2>5. \A k \in DOMAIN writeQueue'[h] : writeQueue'[h][k] \in 1 .. written'[h]
      <3>1. written[h] + 1 \in Payload
        BY <1>1 DEF Payload
      <3> HIDE DEF u
      <3>2. /\ DOMAIN Append(u, written[h] + 1) = 1 .. Len(u) + 1
            /\ \A k \in 1 .. Len(u) : Append(u, written[h] + 1)[k] = u[k]
            /\ Append(u, written[h] + 1)[Len(u) + 1] = written[h] + 1
        BY <2>3, <3>1, AppendProperties, LenProperties
      <3>3. \A k \in 1 .. Len(u) + 1 : k \in 1 .. Len(u) \/ k = Len(u) + 1
        BY <2>3
      <3> QED
        BY <1>4, <2>2, <2>4, <3>2, <3>3
    <2>6. Held(h)'
      BY <1>4, <1>5, <1>6, <2>1, <2>5 DEF Held
    <2>7. /\ net'[h] \subseteq net[h]
          /\ net'[Peer(h)] \subseteq net[Peer(h)] \cup out
          /\ \A m \in out : m.type = "DATA" => m.data \in 1 .. written'[h]
      BY <2>1
    <2> HIDE DEF u, out
    <2> QED
      BY <1>3, <1>4, <2>1, <2>2, <2>6, <2>7, AuthenticStep
  <1> QED
    BY <1>7, <1>8

\* An ACK moves payloads from the write queue to the send queue and sends them.
LEMMA AuthenticAck ==
    ASSUME TypeOK, TypeOK', Authentic, NEW h \in Host, NEW m \in net[h], GotAck(h, m)
    PROVE  Authentic'
  <1> DEFINE old == sendQueue[h]
             q   == sendQueueRemove(old, m.id)
             n   == writeFromQueueCount(h, Len(q))
             u   == writeQueue[h]
             w   == SubSeq(u, 1, n)
             r   == SubSeq(u, n + 1, Len(u))
             new == NewEntries(h, w)
             W   == 1 .. written[h]
  <1>1. Held(h)
    BY DEF Authentic
  <1>2. /\ u \in Seq(Payload) /\ DOMAIN u = 1 .. Len(u) /\ Len(u) \in Nat
        /\ \A k \in 1 .. Len(u) : u[k] \in W
    <2>1. u \in Seq(Payload)
      BY DEF TypeOK
    <2>2. DOMAIN u = 1 .. Len(u) /\ Len(u) \in Nat
      BY <2>1, LenProperties
    <2> QED
      BY <1>1, <2>1, <2>2 DEF Held
  <1>3. /\ old \in Seq(SendQueueEntry) /\ DOMAIN old = 1 .. Len(old)
        /\ Len(old) \in Nat /\ \A k \in 1 .. Len(old) : old[k].data \in W
    <2>1. old \in Seq(SendQueueEntry)
      BY DEF TypeOK
    <2>2. DOMAIN old = 1 .. Len(old) /\ Len(old) \in Nat
      BY <2>1, LenProperties
    <2> QED
      BY <1>1, <2>1, <2>2 DEF Held
  <1>4. /\ q \in Seq(SendQueueEntry) /\ Len(q) \in Nat
        /\ \A k \in 1 .. Len(q) : q[k].data \in W
    <2>1. /\ q \in Seq(SendQueueEntry)
          /\ \/ q = old
             \/ \E j \in 1 .. Len(old) : q = RemoveAt(old, j)
      BY <1>3, SendQueueRemove
    <2>2. Len(q) \in Nat
      BY <2>1, LenProperties
    <2> HIDE DEF old, q, W
    <2>3. CASE q = old
      BY <1>3, <2>1, <2>2, <2>3
    <2>4. ASSUME NEW j \in 1 .. Len(old), q = RemoveAt(old, j), NEW k \in 1 .. Len(q)
          PROVE  q[k].data \in W
      <3>1. /\ Len(RemoveAt(old, j)) = Len(old) - 1
            /\ \A i \in 1 .. Len(old) - 1 :
                 RemoveAt(old, j)[i] = IF i < j THEN old[i] ELSE old[i + 1]
        BY <1>3, RemoveAtFacts
      <3>2. k \in 1 .. Len(old) - 1 /\ q[k] = IF k < j THEN old[k] ELSE old[k + 1]
        BY <2>4, <3>1
      <3>3. k \in 1 .. Len(old) /\ k + 1 \in 1 .. Len(old)
        BY <1>3, <3>2
      <3> QED
        BY <1>3, <3>2, <3>3
    <2> QED
      BY <2>1, <2>2, <2>3, <2>4
  <1>5. n \in 0 .. Len(u) /\ n \in Nat
    BY <1>2, <1>4, WriteFromQueueCount DEF TypeOK
  <1>6. /\ sendQueue' = [sendQueue EXCEPT ![h] = q \o new]
        /\ writeQueue' = [writeQueue EXCEPT ![h] = r]
        /\ Exchange(h, m, Datagrams(new))
        /\ UNCHANGED <<receiveQueue, written>>
    BY DEF GotAck, TypeOK
  <1> HIDE DEF q, n, u, W
  <1>7. w \in Seq(Payload) /\ Len(w) = n /\ \A k \in 1 .. n : w[k] \in W
    <2>1. \A k \in 1 .. n : u[k] \in Payload /\ k \in 1 .. Len(u)
      BY <1>2, <1>5, ElementOfSeq
    <2>2. /\ w \in Seq(Payload) /\ Len(w) = n
          /\ \A k \in 1 .. n : w[k] = u[k]
      BY <1>2, <1>5, <2>1, SubSeqProperties
    <2> QED
      BY <1>2, <2>1, <2>2
  <1>8. r \in Seq(Payload) /\ \A k \in DOMAIN r : r[k] \in W
    <2>1. \A k \in n + 1 .. Len(u) : u[k] \in Payload /\ k \in 1 .. Len(u)
      BY <1>2, <1>5, ElementOfSeq
    <2>2. n + 1 \in Int /\ Len(u) \in Int
      BY <1>2, <1>5
    <2>3. /\ r \in Seq(Payload)
          /\ Len(r) = IF n + 1 <= Len(u) THEN Len(u) - (n + 1) + 1 ELSE 0
          /\ \A k \in 1 .. Len(u) - (n + 1) + 1 : r[k] = u[n + 1 + k - 1]
      BY <2>1, <2>2, SubSeqProperties
    <2>4. DOMAIN r = 1 .. Len(r)
      BY <2>3, LenProperties
    <2>5. ASSUME NEW k \in 1 .. Len(r) PROVE r[k] \in W
      <3>1. /\ k \in 1 .. Len(u) - (n + 1) + 1 /\ n + 1 + k - 1 \in 1 .. Len(u)
        BY <1>2, <1>5, <2>3
      <3> QED
        BY <1>2, <2>3, <3>1
    <2> QED
      BY <2>3, <2>4, <2>5
  <1>9. /\ new \in Seq(SendQueueEntry) /\ Len(new) = n
        /\ \A k \in 1 .. n : new[k].data \in W
    <2>1. id[h] \in PacketID
      BY DEF TypeOK
    <2> HIDE DEF w
    <2>2. /\ new \in Seq(SendQueueEntry) /\ Len(new) = Len(w)
          /\ \A k \in 1 .. Len(w) :
               new[k] = [id |-> IDAfter(id[h], k - 1), data |-> w[k], attempt |-> 0]
      BY <1>7, <2>1, NewEntriesFacts
    <2> QED
      BY <1>7, <2>2
  <1> HIDE DEF w, r, new
  <1>10. \A k \in DOMAIN (q \o new) : (q \o new)[k].data \in W
    <2>1. /\ DOMAIN (q \o new) = 1 .. Len(q) + n
          /\ \A k \in 1 .. Len(q) + n :
               (q \o new)[k] = IF k <= Len(q) THEN q[k] ELSE new[k - Len(q)]
      <3>1. /\ q \o new \in Seq(SendQueueEntry)
            /\ Len(q \o new) = Len(q) + Len(new)
            /\ \A k \in 1 .. Len(q) + Len(new) :
                 (q \o new)[k] = IF k <= Len(q) THEN q[k] ELSE new[k - Len(q)]
        BY <1>4, <1>9, ConcatProperties, Zenon
      <3>2. DOMAIN (q \o new) = 1 .. Len(q \o new)
        BY <3>1, LenProperties, Zenon
      <3> QED
        BY <1>9, <3>1, <3>2, Zenon
    <2>2. ASSUME NEW k \in 1 .. Len(q) + n PROVE (q \o new)[k].data \in W
      <3>1. CASE k <= Len(q)
        BY <1>4, <2>1, <3>1
      <3>2. CASE k > Len(q)
        <4>1. k - Len(q) \in 1 .. n /\ (q \o new)[k] = new[k - Len(q)]
          BY <1>4, <1>5, <2>1, <3>2
        <4> QED
          BY <1>9, <4>1
      <3>3. k <= Len(q) \/ k > Len(q)
        BY <1>4
      <3> QED
        BY <3>1, <3>2, <3>3, Zenon
    <2> QED
      BY <2>1, <2>2
  <1>11. \A x \in Datagrams(new) : x.type = "DATA" => x.data \in 1 .. written[h]
    <2>1. DOMAIN new = 1 .. n
      BY <1>9, LenProperties
    <2> QED
      BY <1>9, <2>1 DEF Datagrams, newData, W
  <1>12. /\ sendQueue'[h] = q \o new /\ writeQueue'[h] = r
         /\ \A g \in Host \ {h} : /\ sendQueue'[g] = sendQueue[g]
                                  /\ writeQueue'[g] = writeQueue[g]
    BY <1>6 DEF TypeOK
  <1>13. Held(h)'
    BY <1>1, <1>6, <1>8, <1>10, <1>12 DEF Held, W
  <1>14. /\ net'[h] \subseteq net[h]
         /\ net'[Peer(h)] \subseteq net[Peer(h)] \cup Datagrams(new)
    BY <1>6, ExchangeNet
  <1>15. written[h] <= written'[h]
    BY <1>6 DEF TypeOK
  <1> QED
    BY <1>6, <1>11, <1>12, <1>13, <1>14, <1>15, AuthenticStep

\* The first packets of the send queue are among those that the host keeps.
LEMMA FirstSent ==
    ASSUME TypeOK, Authentic, NEW h \in Host, NEW k \in Int,
           k < Len(sendQueue[h]) + 1,
           NEW m \in Datagrams(SubSeq(sendQueue[h], 1, k))
    PROVE  m.data \in 1 .. written[h]
  <1> DEFINE q == sendQueue[h]
  <1>1. /\ q \in Seq(SendQueueEntry) /\ DOMAIN q = 1 .. Len(q) /\ Len(q) \in Nat
        /\ \A j \in 1 .. Len(q) : q[j].data \in 1 .. written[h]
    BY LenProperties DEF TypeOK, Authentic, Held
  <1>2. \A j \in 1 .. k : j \in 1 .. Len(q) /\ q[j] \in SendQueueEntry
    BY <1>1, ElementOfSeq
  <1> HIDE DEF q
  <1>3. /\ SubSeq(q, 1, k) \in Seq(SendQueueEntry)
        /\ Len(SubSeq(q, 1, k)) = IF 1 <= k THEN k - 1 + 1 ELSE 0
        /\ \A j \in 1 .. k - 1 + 1 : SubSeq(q, 1, k)[j] = q[1 + j - 1]
    BY <1>2, SubSeqProperties
  <1>4. DOMAIN SubSeq(q, 1, k) = 1 .. Len(SubSeq(q, 1, k))
    BY <1>3, LenProperties
  <1>5. PICK j \in DOMAIN SubSeq(q, 1, k) :
          m = newData(SubSeq(q, 1, k)[j].id, SubSeq(q, 1, k)[j].data)
    BY DEF Datagrams, q
  <1>6. j \in 1 .. k /\ SubSeq(q, 1, k)[j] = q[j]
    <2>1. j \in 1 .. k /\ j \in 1 .. k - 1 + 1 /\ 1 + j - 1 = j
      BY <1>3, <1>4
    <2> QED
      BY <1>3, <2>1
  <1>7. q[j].data \in 1 .. written[h]
    BY <1>1, <1>2, <1>6
  <1> QED
    BY <1>5, <1>6, <1>7 DEF newData

\* A resend sends what the send queue holds, and counts attempts.
LEMMA AuthenticResend ==
    ASSUME TypeOK, TypeOK', Authentic,
           NEW h \in Host, NEW k \in DOMAIN sendQueue[h], Resend(h, k)
    PROVE  Authentic'
  <1> DEFINE q   == sendQueue[h]
             new == [j \in DOMAIN q |-> IF j <= k
                       THEN [q[j] EXCEPT !.attempt = @ + 1] ELSE q[j]]
             out == Datagrams(SubSeq(q, 1, k))
  <1>1. /\ q \in Seq(SendQueueEntry) /\ DOMAIN q = 1 .. Len(q) /\ Len(q) \in Nat
        /\ \A j \in 1 .. Len(q) : q[j] \in SendQueueEntry
    BY LenProperties, ElementOfSeq DEF TypeOK
  <1>2. \A j \in DOMAIN q : new[j].data = q[j].data
    <2> TAKE j \in DOMAIN q
    <2>1. q[j] \in SendQueueEntry
      BY <1>1
    <2>2. new[j] = IF j <= k THEN [q[j] EXCEPT !.attempt = @ + 1] ELSE q[j]
      OBVIOUS
    <2> HIDE DEF q, new
    <2> QED
      BY <2>1, <2>2 DEF SendQueueEntry
  <1>3. /\ sendQueue' = [sendQueue EXCEPT ![h] = new] /\ Send(h, out)
        /\ UNCHANGED <<receiveQueue, writeQueue, written>>
    BY DEF Resend
  <1>4. /\ sendQueue'[h] = new /\ DOMAIN new = DOMAIN q
        /\ \A g \in Host \ {h} : sendQueue'[g] = sendQueue[g]
    BY <1>3 DEF TypeOK
  <1> HIDE DEF new
  <1>5. Held(h)'
    BY <1>2, <1>3, <1>4 DEF Authentic, Held
  <1>6. \A m \in out : m.type = "DATA" => m.data \in 1 .. written'[h]
    <2>1. k \in Int /\ k < Len(q) + 1
      BY <1>1
    <2> QED
      BY <1>3, <2>1, FirstSent
  <1>7. /\ net'[h] \subseteq net[h]
        /\ net'[Peer(h)] \subseteq net[Peer(h)] \cup out
    BY <1>3, SendNet
  <1>8. written[h] <= written'[h]
    BY <1>3 DEF TypeOK
  <1> HIDE DEF out
  <1> QED
    BY <1>3, <1>4, <1>5, <1>6, <1>7, <1>8, AuthenticStep

LEMMA AuthenticInit == Init => Authentic
  BY PeerFacts DEF Init, Authentic, Held, Sent, EmptyReceiveQueue

LEMMA AuthenticTimer ==
    ASSUME TypeOK, TypeOK', Authentic, NEW h \in Host, Timer(h)
    PROVE  Authentic'
  <1>1. ASSUME NEW k \in DOMAIN sendQueue[h], Resend(h, k) PROVE Authentic'
    BY <1>1, AuthenticResend
  <1>2. ASSUME NEW k \in DOMAIN sendQueue[h], ResendExhausted(h, k)
        PROVE  Authentic'
    <2> DEFINE out == Datagrams(SubSeq(sendQueue[h], 1, k - 1))
    <2>1. ClearQueues(h) /\ written' = written /\ Send(h, out)
      BY <1>2 DEF ResendExhausted, destroy, reset
    <2>2. k - 1 \in Int /\ k - 1 < Len(sendQueue[h]) + 1
      <3>1. sendQueue[h] \in Seq(SendQueueEntry)
        BY DEF TypeOK
      <3>2. k \in 1 .. Len(sendQueue[h]) /\ Len(sendQueue[h]) \in Nat
        BY <3>1, LenProperties
      <3> QED
        BY <3>2
    <2>3. \A m \in out : m.type = "DATA" => m.data \in 1 .. written[h]
      BY <2>2, FirstSent
    <2>4. /\ net'[h] \subseteq net[h]
          /\ net'[Peer(h)] \subseteq net[Peer(h)] \cup out
      BY <2>1, SendNet
    <2> HIDE DEF out
    <2> QED
      BY <2>1, <2>3, <2>4, AuthenticReset
  <1>3. CASE Ping(h)
    <2> DEFINE out == {newPing}
    <2>1. /\ net'[h] \subseteq net[h]
          /\ net'[Peer(h)] \subseteq net[Peer(h)] \cup out
      BY <1>3, SendNet DEF Ping
    <2>2. (\A m \in out : m.type # "DATA") /\ UNCHANGED <<queues, written>>
      BY <1>3 DEF Ping, newPing
    <2> HIDE DEF out
    <2> QED
      BY <2>1, <2>2, AuthenticQuiet
  <1>4. CASE Disconnect(h)
    <2> DEFINE out == {}
    <2>1. /\ ClearQueues(h) /\ written' = written
          /\ net'[h] \subseteq net[h]
          /\ net'[Peer(h)] \subseteq net[Peer(h)] \cup out
          /\ \A m \in out : m.type = "DATA" => m.data \in 1 .. written[h]
      BY <1>4 DEF Disconnect, destroy, reset
    <2> HIDE DEF out
    <2> QED
      BY <2>1, AuthenticReset
  <1>5. CASE GrowQueue(h) \/ ShrinkQueue(h)
    <2> DEFINE out == {}
    <2>1. /\ net'[h] \subseteq net[h]
          /\ net'[Peer(h)] \subseteq net[Peer(h)] \cup out
          /\ \A m \in out : m.type # "DATA"
          /\ UNCHANGED <<queues, written>>
      BY <1>5 DEF GrowQueue, ShrinkQueue
    <2> HIDE DEF out
    <2> QED
      BY <2>1, AuthenticQuiet
  <1> QED
    BY <1>1, <1>2, <1>3, <1>4, <1>5 DEF Timer, sendQueueResendProcess

LEMMA AuthenticProcess ==
    ASSUME TypeOK, TypeOK', Authentic, NEW h \in Host, NEW m \in net[h],
           process(h, m)
    PROVE  Authentic'
  <1>1. CASE GotExpected(h, m)
    <2> DEFINE q == receiveQueue[h]
               e == incID(expectedID[h])
    <2>1. PICK n \in 0 .. packetIDlimit - 1 :
            /\ CanTake(q, e, n)
            /\ receiveQueue' = [receiveQueue EXCEPT ![h] = Left(q, e, n)]
            /\ Exchange(h, m, {newAck(m)})
            /\ UNCHANGED <<sendQueue, writeQueue, written>>
      BY <1>1 DEF GotExpected
    <2>2. /\ q \in [PacketID -> Nat] /\ e \in PacketID
          /\ \A i \in PacketID : q[i] # NoPacket => q[i] \in 1 .. written[Peer(h)]
      BY <1>1, ArrivedFrom DEF GotExpected
    <2>3. /\ net'[h] \subseteq net[h]
          /\ net'[Peer(h)] \subseteq net[Peer(h)] \cup {newAck(m)}
      BY <2>1, ExchangeNet
    <2> HIDE DEF q, e
    <2> QED
      BY <2>1, <2>2, <2>3, AuthenticReceive
  <1>2. CASE GotAhead(h, m)
    <2> DEFINE q == [receiveQueue[h] EXCEPT ![m.id] = m.data]
               e == expectedID[h]
    <2>1. PICK n \in 0 .. packetIDlimit - 1 :
            /\ CanTake(q, e, n)
            /\ receiveQueue' = [receiveQueue EXCEPT ![h] = Left(q, e, n)]
            /\ Exchange(h, m, {newAck(m)})
            /\ UNCHANGED <<sendQueue, writeQueue, written>>
      BY <1>2 DEF GotAhead
    <2>2. /\ q \in [PacketID -> Nat] /\ e \in PacketID
          /\ \A i \in PacketID : q[i] # NoPacket => q[i] \in 1 .. written[Peer(h)]
      BY <1>2, ArrivedFrom DEF GotAhead
    <2>3. /\ net'[h] \subseteq net[h]
          /\ net'[Peer(h)] \subseteq net[Peer(h)] \cup {newAck(m)}
      BY <2>1, ExchangeNet
    <2> HIDE DEF q, e
    <2> QED
      BY <2>1, <2>2, <2>3, AuthenticReceive
  <1>3. CASE GotAck(h, m)
    BY <1>3, AuthenticAck
  <1>4. ASSUME NEW out, Exchange(h, m, out), ClearQueues(h), written' = written,
               \A x \in out : x.type # "DATA"
        PROVE  Authentic'
    <2>1. /\ net'[h] \subseteq net[h]
          /\ net'[Peer(h)] \subseteq net[Peer(h)] \cup out
      BY <1>4, ExchangeNet
    <2> QED
      BY <1>4, <2>1, AuthenticReset
  <1>5. ASSUME NEW out, Exchange(h, m, out), UNCHANGED <<queues, written>>,
               \A x \in out : x.type # "DATA"
        PROVE  Authentic'
    <2>1. /\ net'[h] \subseteq net[h]
          /\ net'[Peer(h)] \subseteq net[Peer(h)] \cup out
      BY <1>5, ExchangeNet
    <2> QED
      BY <1>5, <2>1, AuthenticQuiet
  <1>6. CASE GotFirst(h, m) \/ GotReset(h, m) \/ GotAckReset(h, m)
    <2>1. /\ ClearQueues(h) /\ written' = written
          /\ \E out \in {{newAck(m)}, {newAckToReset}, {}} : Exchange(h, m, out)
      BY <1>6 DEF GotFirst, GotReset, GotAckReset, reset
    <2>2. \A out \in {{newAck(m)}, {newAckToReset}, {}} :
            \A x \in out : x.type # "DATA"
      BY DEF newAck, newAckToReset
    <2> QED
      BY <1>4, <2>1, <2>2
  <1>7. CASE \/ GotBeforeFirst(h, m) \/ GotOld(h, m)
             \/ GotPing(h, m) \/ GotAckPing(h, m)
    <2> DEFINE outs == {{newAck(m), newReset}, {newAck(m)}, {newAckToPing}, {}}
    <2>1. UNCHANGED <<queues, written>> /\ \E out \in outs : Exchange(h, m, out)
      BY <1>7 DEF GotBeforeFirst, GotOld, GotPing, GotAckPing
    <2>2. \A out \in outs : \A x \in out : x.type # "DATA"
      BY DEF newAck, newReset, newAckToPing
    <2> HIDE DEF outs
    <2> QED
      BY <1>5, <2>1, <2>2
  <1> QED
    BY <1>1, <1>2, <1>3, <1>6, <1>7 DEF process

LEMMA AuthenticNext == TypeOK /\ TypeOK' /\ Authentic /\ [Next]_vars => Authentic'
  <1> SUFFICES ASSUME TypeOK, TypeOK', Authentic, [Next]_vars PROVE Authentic'
    OBVIOUS
  <1>1. CASE UNCHANGED vars
    BY <1>1 DEF vars, ids, queues, Authentic, Held, Sent
  <1>2. ASSUME NEW h \in Host, User(h) PROVE Authentic'
    <2>1. CASE ConnectChannel(h)
      BY <2>1 DEF ConnectChannel, queues, Authentic, Held, Sent
    <2> QED
      BY <1>2, <2>1, AuthenticWrite DEF User
  <1>3. ASSUME NEW h \in Host, NEW m \in net[h], Lose(h, m) PROVE Authentic'
    <2> DEFINE out == {}
    <2>1. /\ net'[h] \subseteq net[h]
          /\ net'[Peer(h)] \subseteq net[Peer(h)] \cup out
          /\ \A x \in out : x.type # "DATA"
          /\ UNCHANGED <<queues, written>>
      BY <1>3, PeerFacts DEF Lose, TypeOK
    <2> HIDE DEF out
    <2> QED
      BY <2>1, AuthenticQuiet
  <1> QED
    BY <1>1, <1>2, <1>3, AuthenticTimer, AuthenticProcess DEF Next

LEMMA AuthenticHolds == Spec => []Authentic
  BY AuthenticInit, AuthenticNext, TypeCorrect, PTL DEF Spec

\* h has been handed T: in order if no host was told of a reset or a disconnect,
\* which is then in DeliveredInOrder, and otherwise anything its peer wrote.
LEMMA HandedStep ==
    ASSUME TypeOK, DeliveredInOrder', NEW h \in Host, NEW T \in Seq(Nat),
           Len(T) >= Len(delivered[h]),
           \A k \in 1 .. Len(delivered[h]) : T[k] = delivered[h][k],
           \A k \in 1 .. Len(T) :
              k > Len(delivered[h]) => T[k] \in 1 .. written[Peer(h)],
           delivered' = [delivered EXCEPT ![h] = T], written' = written,
           intact' => intact
    PROVE  Stream!Next
  <1> DEFINE D == delivered[h]
  <1>1. D \in Seq(Nat) /\ Len(D) \in Nat /\ Len(T) \in Nat
        /\ DOMAIN D = 1 .. Len(D) /\ DOMAIN T = 1 .. Len(T)
    BY LenProperties DEF TypeOK
  <1>2. /\ delivered'[h] = T
        /\ \A g \in Host \ {h} : delivered'[g] = delivered[g]
    BY DEF TypeOK
  <1>3. Peer(h) \in Host /\ written[Peer(h)] \in Nat
    BY PeerFacts DEF TypeOK
  <1>4. CASE intact'
    <2> DEFINE n == Len(T) - Len(D)
               E == [k \in 1 .. n |-> Len(D) + k]
    <2>1. Len(T) <= written[Peer(h)] /\ \A k \in 1 .. Len(T) : T[k] = k
      BY <1>1, <1>2, <1>4 DEF DeliveredInOrder
    <2>2. n \in Nat /\ n \in 0 .. written[Peer(h)] - Len(D)
      BY <1>1, <1>3, <2>1
    <2>3. E \in Seq(Nat) /\ Len(E) = n
      BY <1>1, <2>2
    <2> HIDE DEF D, n
    <2>4. /\ D \o E \in Seq(Nat) /\ Len(D \o E) = Len(D) + Len(E)
          /\ \A k \in 1 .. Len(D) + Len(E) :
               (D \o E)[k] = IF k <= Len(D) THEN D[k] ELSE E[k - Len(D)]
      <3> HIDE DEF E
      <3> QED
        BY <1>1, <2>3, ConcatProperties, Zenon
    <2>5. Len(D) + Len(E) = Len(T)
      <3>1. Len(D) + (Len(T) - Len(D)) = Len(T)
        BY <1>1
      <3>2. Len(D) + n = Len(T)
        BY <3>1, Zenon DEF n
      <3>3. Len(E) = n
        BY <2>3
      <3> HIDE DEF E
      <3> QED
        BY <3>2, <3>3, Zenon
    <2>6. ASSUME NEW k \in 1 .. Len(T) PROVE (D \o E)[k] = T[k]
      <3>1. CASE k <= Len(D)
        BY <1>1, <2>4, <2>5, <3>1 DEF D
      <3>2. CASE k > Len(D)
        <4>1. k - Len(D) \in 1 .. n /\ Len(D) + (k - Len(D)) = k
          BY <1>1, <3>2 DEF n
        <4>2. E[k - Len(D)] = k
          BY <4>1
        <4>3. ~(k <= Len(D))
          BY <1>1, <3>2
        <4> QED
          BY <2>1, <2>4, <2>5, <4>2, <4>3, Zenon
      <3>3. k <= Len(D) \/ k > Len(D)
        BY <1>1
      <3> QED
        BY <3>1, <3>2, <3>3, Zenon
    <2>7. Len(D \o E) = Len(T)
      BY <2>4, <2>5, Zenon
    <2>8. D \o E = T
      BY <2>4, <2>6, <2>7, SeqEqual, Zenon
    <2>9. delivered' = [delivered EXCEPT ![h] = delivered[h] \o E]
      BY <2>8 DEF D
    <2>10. n \in 0 .. written[Peer(h)] - Len(delivered[h])
      BY <2>2 DEF D
    <2>11. E = [k \in 1 .. n |-> Len(delivered[h]) + k]
      BY DEF D
    <2> HIDE DEF E
    <2>12. intact /\ UNCHANGED <<written, ~intact>>
      BY <1>4
    <2>13. Stream!Deliver(h)
      BY <2>9, <2>10, <2>11, <2>12 DEF Stream!Deliver
    <2> QED
      BY <2>13 DEF Stream!Next
  <1>5. CASE ~intact'
    <2>1. Stream!Break(h)
      BY <1>1, <1>2, <1>5 DEF Stream!Break
    <2> QED
      BY <2>1 DEF Stream!Next
  <1> QED
    BY <1>4, <1>5

\* A reset or a disconnect that hands nothing to anybody.
LEMMA ResetStep ==
    ASSUME TypeOK, NEW h \in Host, resets' = resets + 1,
           UNCHANGED <<delivered, written>>
    PROVE  Stream!Next
  <1>1. ~intact'
    BY DEF TypeOK, intact
  <1>2. \A k \in DOMAIN delivered[h] : k <= Len(delivered[h])
    BY LenProperties DEF TypeOK
  <1>3. Len(delivered[h]) >= Len(delivered[h])
    BY LenProperties DEF TypeOK
  <1>4. Stream!Break(h)
    BY <1>1, <1>2, <1>3 DEF Stream!Break
  <1> QED
    BY <1>4 DEF Stream!Next

\* What h is handed with a packet that it expected, or that closes a gap.
LEMMA HandedFacts ==
    ASSUME NEW D \in Seq(Nat), NEW q \in [PacketID -> Nat], NEW W \in Nat,
           \A i \in PacketID : q[i] # NoPacket => q[i] \in 1 .. W,
           NEW e \in PacketID, NEW n \in 0 .. packetIDlimit - 1, CanTake(q, e, n)
    PROVE  LET T == D \o Taken(q, e, n)
           IN  /\ T \in Seq(Nat) /\ Len(T) >= Len(D)
               /\ \A k \in 1 .. Len(D) : T[k] = D[k]
               /\ \A k \in 1 .. Len(T) : k > Len(D) => T[k] \in 1 .. W
  <1> DEFINE E == Taken(q, e, n)
  <1>1. n \in Nat
    BY IDLimitAssumption
  <1>2. E \in Seq(Nat) /\ Len(E) = n /\ \A k \in 1 .. n : E[k] \in 1 .. W
    BY <1>1, TakenType, TakenFrom
  <1>3. Len(D) \in Nat
    BY LenProperties
  <1> HIDE DEF E
  <1>4. /\ D \o E \in Seq(Nat) /\ Len(D \o E) = Len(D) + Len(E)
        /\ \A k \in 1 .. Len(D) + Len(E) :
             (D \o E)[k] = IF k <= Len(D) THEN D[k] ELSE E[k - Len(D)]
    BY <1>2, ConcatProperties, Zenon
  <1>5. ASSUME NEW k \in 1 .. Len(D) PROVE (D \o E)[k] = D[k]
    <2>1. k \in 1 .. Len(D) + Len(E) /\ k <= Len(D)
      BY <1>1, <1>2, <1>3
    <2> QED
      BY <1>4, <2>1, Zenon
  <1>6. ASSUME NEW k \in 1 .. Len(D) + n, k > Len(D)
        PROVE  (D \o E)[k] \in 1 .. W
    <2>1. k - Len(D) \in 1 .. n /\ ~(k <= Len(D))
      BY <1>1, <1>3, <1>6
    <2>2. (D \o E)[k] = E[k - Len(D)]
      BY <1>2, <1>4, <2>1, Zenon
    <2> QED
      BY <1>2, <2>1, <2>2
  <1>7. Len(D \o E) = Len(D) + n /\ Len(D) + n >= Len(D)
    BY <1>1, <1>2, <1>3, <1>4
  <1> QED
    BY <1>4, <1>5, <1>6, <1>7 DEF E

LEMMA StreamProcess ==
    ASSUME TypeOK, Authentic, DeliveredInOrder', NEW h \in Host, NEW m \in net[h],
           process(h, m)
    PROVE  [Stream!Next]_(Stream!streamVars)
  <1> DEFINE D == delivered[h]
  <1>1. /\ D \in Seq(Nat) /\ DOMAIN D = 1 .. Len(D) /\ Len(D) \in Nat
    BY LenProperties DEF TypeOK
  <1>2. CASE GotExpected(h, m)
    <2> DEFINE q == receiveQueue[h]
               e == incID(expectedID[h])
               A == Append(D, m.data)
    <2>1. PICK n \in 0 .. packetIDlimit - 1 :
            /\ CanTake(q, e, n)
            /\ delivered' = [delivered EXCEPT ![h] = A \o Taken(q, e, n)]
            /\ UNCHANGED <<written, resets>>
      BY <1>2 DEF GotExpected, TypeOK
    <2>2. /\ q \in [PacketID -> Nat] /\ e \in PacketID
          /\ m.data \in Nat /\ m.data \in 1 .. written[Peer(h)]
          /\ written[Peer(h)] \in Nat
          /\ \A i \in PacketID : q[i] # NoPacket => q[i] \in 1 .. written[Peer(h)]
      BY <1>2, ArrivedFrom DEF GotExpected
    <2> HIDE DEF q, e, D
    <2>3. /\ A \in Seq(Nat) /\ Len(A) = Len(D) + 1
          /\ \A k \in 1 .. Len(D) : A[k] = D[k]
          /\ A[Len(D) + 1] = m.data
      BY <1>1, <2>2, AppendProperties
    <2> HIDE DEF A
    <2> DEFINE T == A \o Taken(q, e, n)
    <2>4. /\ T \in Seq(Nat) /\ Len(T) >= Len(A)
          /\ \A k \in 1 .. Len(A) : T[k] = A[k]
          /\ \A k \in 1 .. Len(T) : k > Len(A) => T[k] \in 1 .. written[Peer(h)]
      BY <2>1, <2>2, <2>3, HandedFacts
    <2>5. delivered' = [delivered EXCEPT ![h] = T] /\ UNCHANGED <<written, resets>>
      BY <2>1
    <2> HIDE DEF T
    <2>6. Len(T) \in Nat
      BY <2>4, LenProperties
    <2>7. Len(T) >= Len(D) /\ \A k \in 1 .. Len(D) : T[k] = D[k]
      BY <1>1, <2>3, <2>4, <2>6
    <2>8. ASSUME NEW k \in 1 .. Len(T), k > Len(D)
          PROVE  T[k] \in 1 .. written[Peer(h)]
      <3>1. CASE k = Len(D) + 1
        BY <1>1, <2>2, <2>3, <2>4, <3>1
      <3>2. CASE k > Len(A)
        BY <2>4, <3>2
      <3> QED
        BY <1>1, <2>3, <2>6, <2>8, <3>1, <3>2
    <2>9. intact' => intact
      BY <2>5 DEF intact
    <2> QED
      BY <2>4, <2>5, <2>7, <2>8, <2>9, HandedStep DEF D
  <1>3. CASE GotAhead(h, m)
    <2> DEFINE q == [receiveQueue[h] EXCEPT ![m.id] = m.data]
               e == expectedID[h]
    <2>1. PICK n \in 0 .. packetIDlimit - 1 :
            /\ CanTake(q, e, n)
            /\ delivered' = [delivered EXCEPT ![h] = D \o Taken(q, e, n)]
            /\ UNCHANGED <<written, resets>>
      BY <1>3 DEF GotAhead, TypeOK
    <2>2. /\ q \in [PacketID -> Nat] /\ e \in PacketID
          /\ written[Peer(h)] \in Nat
          /\ \A i \in PacketID : q[i] # NoPacket => q[i] \in 1 .. written[Peer(h)]
      BY <1>3, ArrivedFrom DEF GotAhead
    <2> HIDE DEF q, e, D
    <2> DEFINE T == D \o Taken(q, e, n)
    <2>3. /\ T \in Seq(Nat) /\ Len(T) >= Len(D)
          /\ \A k \in 1 .. Len(D) : T[k] = D[k]
          /\ \A k \in 1 .. Len(T) : k > Len(D) => T[k] \in 1 .. written[Peer(h)]
      BY <1>1, <2>1, <2>2, HandedFacts
    <2>4. delivered' = [delivered EXCEPT ![h] = T] /\ UNCHANGED <<written, resets>>
      BY <2>1
    <2> HIDE DEF T
    <2>5. intact' => intact
      BY <2>4 DEF intact
    <2> QED
      BY <2>3, <2>4, <2>5, HandedStep DEF D
  <1>4. CASE GotFirst(h, m)
    <2> DEFINE T == Append(D, m.data)
    <2>1. m.data \in Nat /\ m.data \in 1 .. written[Peer(h)]
      BY <1>4, ArrivedFrom DEF GotFirst
    <2>2. /\ delivered' = [delivered EXCEPT ![h] = T]
          /\ written' = written /\ resets' = resets + 1
      BY <1>4 DEF GotFirst, reset
    <2> HIDE DEF D
    <2>3. /\ T \in Seq(Nat) /\ Len(T) = Len(D) + 1
          /\ \A k \in 1 .. Len(D) : T[k] = D[k]
          /\ T[Len(D) + 1] = m.data
      BY <1>1, <2>1, AppendProperties
    <2> HIDE DEF T
    <2>4. /\ Len(T) >= Len(D)
          /\ \A k \in 1 .. Len(T) : k > Len(D) => T[k] \in 1 .. written[Peer(h)]
      <3>1. \A k \in 1 .. Len(T) : k > Len(D) => k = Len(D) + 1
        BY <1>1, <2>3
      <3> QED
        BY <1>1, <2>1, <2>3, <3>1
    <2>5. ~intact'
      BY <2>2 DEF TypeOK, intact
    <2> QED
      BY <2>2, <2>3, <2>4, <2>5, HandedStep DEF D
  <1>5. CASE GotBeforeFirst(h, m) \/ GotReset(h, m) \/ GotAckReset(h, m)
    <2>1. resets' = resets + 1 /\ UNCHANGED <<delivered, written>>
      BY <1>5 DEF GotBeforeFirst, GotReset, GotAckReset, reset
    <2> QED
      BY <2>1, ResetStep
  <1>6. CASE \/ GotOld(h, m) \/ GotAck(h, m)
             \/ GotPing(h, m) \/ GotAckPing(h, m)
    BY <1>6 DEF GotOld, GotAck, GotPing, GotAckPing, Stream!streamVars, intact
  <1> QED
    BY <1>2, <1>3, <1>4, <1>5, <1>6 DEF process

LEMMA StreamNext ==
    ASSUME TypeOK, Authentic, DeliveredInOrder', [Next]_vars
    PROVE  [Stream!Next]_(Stream!streamVars)
  <1>1. ASSUME UNCHANGED <<written, delivered, resets>>
        PROVE  UNCHANGED Stream!streamVars
    BY <1>1 DEF Stream!streamVars, intact
  <1>2. CASE UNCHANGED vars
    BY <1>1, <1>2 DEF vars
  <1>3. ASSUME NEW h \in Host, User(h) PROVE [Stream!Next]_(Stream!streamVars)
    <2>1. CASE ConnectChannel(h)
      BY <1>1, <2>1 DEF ConnectChannel
    <2>2. CASE WriteToDirect(h) \/ WriteToQueue(h)
      <3>1. Stream!Write(h)
        BY <2>2 DEF WriteToDirect, WriteToQueue, Stream!Write, intact
      <3> QED
        BY <3>1 DEF Stream!Next
    <2> QED
      BY <1>3, <2>1, <2>2 DEF User
  <1>4. ASSUME NEW h \in Host, Timer(h) PROVE [Stream!Next]_(Stream!streamVars)
    <2>1. ASSUME NEW k \in DOMAIN sendQueue[h],
                 Resend(h, k) \/ ResendExhausted(h, k)
          PROVE  [Stream!Next]_(Stream!streamVars)
      <3>1. CASE Resend(h, k)
        BY <1>1, <3>1 DEF Resend
      <3>2. CASE ResendExhausted(h, k)
        BY <3>2, ResetStep DEF ResendExhausted, destroy, reset
      <3> QED
        BY <2>1, <3>1, <3>2
    <2>2. CASE Disconnect(h)
      BY <2>2, ResetStep DEF Disconnect, destroy, reset
    <2>3. CASE Ping(h) \/ GrowQueue(h) \/ ShrinkQueue(h)
      BY <1>1, <2>3 DEF Ping, GrowQueue, ShrinkQueue
    <2> QED
      BY <1>4, <2>1, <2>2, <2>3 DEF Timer, sendQueueResendProcess
  <1>5. ASSUME NEW h \in Host, NEW m \in net[h], Lose(h, m)
        PROVE  [Stream!Next]_(Stream!streamVars)
    BY <1>1, <1>5 DEF Lose
  <1> QED
    BY <1>2, <1>3, <1>4, <1>5, StreamProcess DEF Next

LEMMA StreamInit == Init => Stream!Init
  BY DEF Init, Stream!Init, intact

\* The protocol implements the stream: every step of a host is a write, a delivery
\* in order, the end of the promise or nothing that a user sees, and what a host is
\* handed after the end was written by its peer.
THEOREM StreamSpecHolds == Spec => StreamSpec
  BY StreamInit, StreamNext, AuthenticHolds, DeliveredInOrderHolds, TypeCorrect, PTL
  DEF Spec, StreamSpec, Stream!Spec
==============================================================================
