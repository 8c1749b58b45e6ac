-------------------------- MODULE TrudpKernelProofs --------------------------
(***************************************************************************)
(* While fewer channels are connected at a time than chanEvent has places  *)
(* in its reserve, less one for every datagram of another protocol, the    *)
(* kernel of a trudp host is never blocked in sendEvent, for every number  *)
(* of users and channels, every capacity and every send queue limit.       *)
(***************************************************************************)
EXTENDS TrudpKernel, FiniteSetTheorems, SequenceTheorems, TLAPS

Connected == {c \in Channel : connected[c]}

FewConnected == Cardinality(Connected) + MaxNotrudp < EventReserve

\* The part of TypeOK that the event channel depends on.
EventTypes ==
    /\ connected \in [Channel -> BOOLEAN]
    /\ Len(chanEvent) \in Nat
    /\ chanEvent \in Seq(Event)
    /\ out \in Seq(Event)
    /\ to \in [Goroutine -> Channel]
    /\ notrudp \in 0 .. MaxNotrudp

\* The inductive invariant: the events that are sent or about to be sent, one
\* Disconnected event for each connected channel and the events of datagrams
\* still to come fit into chanEvent.
Room ==
    Len(chanEvent) + Len(out) + Cardinality(Connected) + (MaxNotrudp - notrudp)
        <= chEventSize

LEMMA ConnectedFinite ==
    ASSUME EventTypes
    PROVE  IsFiniteSet(Connected) /\ Cardinality(Connected) \in Nat
  <1>1. Connected \subseteq Channel /\ IsFiniteSet(Channel)
    BY KernelAssumption DEF Connected
  <1> QED  BY <1>1, FS_Subset, FS_CardinalityType

\* Appending to and taking from a sequence of events.
LEMMA EventSeq ==
    ASSUME NEW s \in Seq(Event)
    PROVE  /\ Len(s) \in Nat
           /\ \A e \in Event : Append(s, e) \in Seq(Event)
                               /\ Len(Append(s, e)) = Len(s) + 1
           /\ s # <<>> => /\ Tail(s) \in Seq(Event)
                          /\ Len(Tail(s)) = Len(s) - 1
                          /\ Head(s) \in Event
                          /\ Len(s) > 0
  OBVIOUS

\* The events of a handler: at most two, of the right type.
LEMMA HandlerEvents ==
    ASSUME NEW c \in Channel, NEW t \in {"Data", "ResetLocal"}
    PROVE  /\ ConnectedEvent(c) \in Seq(Event) /\ Len(ConnectedEvent(c)) <= 1
           /\ ConnectedEvent(c) \o <<Ev(t, c)>> \in Seq(Event)
           /\ Len(ConnectedEvent(c) \o <<Ev(t, c)>>) <= 2
  <1>1. Ev("Connected", c) \in Event /\ Ev(t, c) \in Event
    BY DEF Ev, Event
  <1>2. CASE connected[c]
    <2>1. ConnectedEvent(c) = <<>>
      BY <1>2 DEF ConnectedEvent
    <2> HIDE DEF Event
    <2> QED  BY <1>1, <2>1
  <1>3. CASE ~connected[c]
    <2>1. ConnectedEvent(c) = <<Ev("Connected", c)>>
      BY <1>3 DEF ConnectedEvent
    <2> HIDE DEF Event
    <2> QED  BY <1>1, <2>1
  <1> QED  BY <1>2, <1>3

Inv == EventTypes /\ Room

LEMMA InvInit == Init /\ FewConnected => Inv
  <1> SUFFICES ASSUME Init, FewConnected
               PROVE  Inv
    OBVIOUS
  <1>1. EventTypes
    BY KernelAssumption DEF Init, EventTypes
  <1>2. Connected = {}
    BY DEF Init, Connected
  <1>3. Cardinality(Connected) = 0
    BY <1>2, FS_EmptySet
  <1>4. Len(chanEvent) = 0 /\ Len(out) = 0 /\ notrudp = 0
    BY DEF Init
  <1>5. Room
    BY <1>3, <1>4, KernelAssumption DEF Room, FewConnected
  <1> QED  BY <1>1, <1>5 DEF Inv

\* A packet that is let through: the kernel has sent its events, chanEvent has
\* its reserve, and the handler emits at most two events.
LEMMA InvPacket ==
    ASSUME Inv, sendEventAvailable, UNCHANGED <<chanEvent, to, notrudp>>,
           connected' \in [Channel -> BOOLEAN],
           out' \in Seq(Event), Len(out') <= 2, FewConnected'
    PROVE  Inv'
  <1>1. EventTypes'
    BY DEF Inv, EventTypes
  <1>2. Cardinality(Connected') \in Nat
    <2>1. Connected' \subseteq Channel /\ IsFiniteSet(Channel)
      BY KernelAssumption DEF Connected
    <2> QED  BY <2>1, FS_Subset, FS_CardinalityType
  <1>3. Len(chanEvent') < chEventSize - EventReserve
    BY DEF sendEventAvailable
  <1>4. Len(chanEvent') \in Nat /\ Len(out') \in Nat
    BY EventSeq DEF Inv, EventTypes
  <1>5. Room'
    BY <1>1, <1>2, <1>3, <1>4, KernelAssumption DEF Room, FewConnected, EventTypes
  <1> QED  BY <1>1, <1>5 DEF Inv

\* A destroyed channel leaves the set of connected channels for its event.
LEMMA InvDestroy ==
    ASSUME Inv, NEW c \in Channel, NEW ret, Ready, destroy(c, ret),
           UNCHANGED <<chanEvent, to, notrudp>>
    PROVE  Inv'
  <1>1. /\ connected' = [connected EXCEPT ![c] = FALSE]
        /\ out' = IF connected[c] THEN <<Ev("Disconnected", c)>> ELSE <<>>
        /\ out = <<>>
    BY DEF destroy, Ready
  <1>2. Ev("Disconnected", c) \in Event
    BY DEF Ev, Event
  <1>3. out' \in Seq(Event) /\ Len(out') = IF connected[c] THEN 1 ELSE 0
    <2> HIDE DEF Event
    <2>1. CASE connected[c]
      BY <1>1, <1>2, <2>1
    <2>2. CASE ~connected[c]
      BY <1>1, <2>2
    <2> QED  BY <2>1, <2>2
  <1>4. EventTypes'
    BY <1>1, <1>3 DEF Inv, EventTypes
  <1>5. Connected' = Connected \ {c}
    BY <1>1 DEF Connected, Inv, EventTypes
  <1>6. IsFiniteSet(Connected) /\ Cardinality(Connected) \in Nat
    BY ConnectedFinite DEF Inv
  <1>7. Cardinality(Connected') = IF connected[c] THEN Cardinality(Connected) - 1
                                  ELSE Cardinality(Connected)
    <2>1. c \in Connected <=> connected[c]
      BY DEF Connected
    <2> QED  BY <1>5, <1>6, <2>1, FS_RemoveElement
  <1>8. Len(out) = 0 /\ Len(chanEvent') = Len(chanEvent) /\ Len(chanEvent) \in Nat
    BY <1>1 DEF Inv, EventTypes
  <1>9. Len(out') + Cardinality(Connected') = Cardinality(Connected)
    BY <1>3, <1>6, <1>7
  <1>10. Len(out') \in Nat /\ Cardinality(Connected') \in Nat
    BY <1>4, ConnectedFinite, <1>3, <1>6, <1>7, <1>5, FS_Subset, FS_CardinalityType
  <1>11. Len(chanEvent') + Len(out') + Cardinality(Connected')
           = Len(chanEvent) + Len(out) + Cardinality(Connected)
    BY <1>6, <1>8, <1>9, <1>10
  <1>12. Room'
    <2>1. notrudp' = notrudp /\ notrudp \in Nat
      BY DEF Inv, EventTypes
    <2> QED
      BY <1>6, <1>8, <1>10, <1>11, <2>1, KernelAssumption DEF Inv, Room
  <1> QED  BY <1>4, <1>12 DEF Inv

LEMMA InvNext ==
    ASSUME Inv, FewConnected', [Next]_vars
    PROVE  Inv'
  <1>0. ASSUME UNCHANGED <<connected, chanEvent, out, notrudp>>,
               to' \in [Goroutine -> Channel]
        PROVE  Inv'
    BY <1>0 DEF Inv, EventTypes, Room, Connected
  <1>t. to \in [Goroutine -> Channel]
    BY DEF Inv, EventTypes
  <1>1. CASE UNCHANGED vars
    BY <1>0, <1>1, <1>t DEF vars
  <1>2. ASSUME NEW c \in Channel, Kernel(c)
        PROVE  Inv'
    <2>1. CASE ConnectChannel(c)
      BY <1>0, <1>t, <2>1 DEF ConnectChannel
    <2>2. CASE GotAck(c) \/ GotAckAgain(c)
      <3>1. PICK n : Acknowledge(c, n)
        BY <2>2 DEF GotAck, GotAckAgain
      <3>2. /\ sendEventAvailable
            /\ UNCHANGED <<chanEvent, to, notrudp>>
            /\ connected' = [connected EXCEPT ![c] = TRUE]
            /\ out' = ConnectedEvent(c)
        BY <3>1 DEF Acknowledge
      <3> QED
        BY <3>2, HandlerEvents, InvPacket DEF Inv, EventTypes
    <2>3. CASE GotData(c)
      <3>1. /\ sendEventAvailable
            /\ UNCHANGED <<chanEvent, to, notrudp>>
            /\ connected' = [connected EXCEPT ![c] = TRUE]
            /\ out' = ConnectedEvent(c) \o <<Ev("Data", c)>>
        BY <2>3 DEF GotData
      <3> QED
        BY <3>1, HandlerEvents, InvPacket DEF Inv, EventTypes
    <2>4. CASE GotReset(c)
      <3>1. /\ sendEventAvailable
            /\ UNCHANGED <<chanEvent, to, notrudp>>
            /\ connected' = [connected EXCEPT ![c] = TRUE]
            /\ out' = ConnectedEvent(c) \o <<Ev("ResetLocal", c)>>
        BY <2>4 DEF GotReset
      <3> QED
        BY <3>1, HandlerEvents, InvPacket DEF Inv, EventTypes
    <2>5. CASE GotNotrudp(c)
      <3>1. /\ out = <<>> /\ out' = <<Ev("Data", c)>>
            /\ UNCHANGED <<connected, chanEvent, to>>
            /\ notrudp < MaxNotrudp /\ notrudp' = notrudp + 1
        BY <2>5 DEF GotNotrudp, Ready
      <3>2. out' \in Seq(Event) /\ Len(out') = 1 /\ Len(out) = 0
        <4>1. Ev("Data", c) \in Event
          BY DEF Ev, Event
        <4> HIDE DEF Event
        <4> QED  BY <3>1, <4>1
      <3>3. EventTypes'
        BY <3>1, <3>2, KernelAssumption DEF Inv, EventTypes
      <3>4. Connected' = Connected /\ Cardinality(Connected) \in Nat
        BY <3>1, ConnectedFinite DEF Connected, Inv
      <3>5. Len(chanEvent') = Len(chanEvent) /\ Len(chanEvent) \in Nat
        BY <3>1 DEF Inv, EventTypes
      <3>6. notrudp \in Nat
        BY DEF Inv, EventTypes
      <3>7. Room'
        BY <3>1, <3>2, <3>4, <3>5, <3>6, KernelAssumption DEF Inv, Room
      <3> QED  BY <3>3, <3>7 DEF Inv
    <2>6. CASE Disconnect(c)
      BY <2>6, InvDestroy DEF Disconnect
    <2> QED
      BY <1>2, <2>1, <2>2, <2>3, <2>4, <2>5, <2>6 DEF Kernel
  <1>3. CASE TakeWrite
    BY <1>0, <1>t, <1>3 DEF TakeWrite
  <1>4. CASE SendEvent
    <2>1. /\ out # <<>>
          /\ chanEvent' = Append(chanEvent, Head(out))
          /\ out' = Tail(out)
          /\ connected' = connected
          /\ to' = to
          /\ notrudp' = notrudp
      BY <1>4 DEF SendEvent
    <2>2. /\ out' \in Seq(Event) /\ Len(out') = Len(out) - 1
          /\ Head(out) \in Event /\ Len(out) \in Nat
      BY <2>1, EventSeq DEF Inv, EventTypes
    <2>3. /\ chanEvent' \in Seq(Event) /\ Len(chanEvent) \in Nat
          /\ Len(chanEvent') = Len(chanEvent) + 1
      BY <2>1, <2>2, EventSeq DEF Inv, EventTypes
    <2>4. EventTypes'
      BY <2>1, <2>2, <2>3 DEF Inv, EventTypes
    <2>5. Connected' = Connected /\ Cardinality(Connected) \in Nat
      BY <2>1, ConnectedFinite DEF Connected, Inv
    <2>6. Room'
      <3>1. notrudp' = notrudp /\ notrudp \in Nat
        BY <2>1 DEF Inv, EventTypes
      <3>2. Len(chanEvent') + Len(out') = Len(chanEvent) + Len(out)
        BY <2>2, <2>3
      <3>3. Len(out') \in Nat /\ Len(chanEvent') \in Nat
        BY <2>2, <2>3
      <3> QED
        BY <2>2, <2>3, <2>5, <3>1, <3>2, <3>3, KernelAssumption DEF Inv, Room
    <2> QED  BY <2>4, <2>6 DEF Inv
  <1>5. CASE ReadEvent
    <2>1. /\ chanEvent # <<>>
          /\ chanEvent' = Tail(chanEvent)
          /\ UNCHANGED <<out, connected, notrudp>>
      BY <1>5 DEF ReadEvent
    <2>2. /\ chanEvent' \in Seq(Event) /\ Len(chanEvent) \in Nat
          /\ Len(chanEvent') = Len(chanEvent) - 1 /\ Len(chanEvent) > 0
      BY <2>1, EventSeq DEF Inv, EventTypes
    <2>t. to' \in [Goroutine -> Channel]
      <3>1. Head(chanEvent).tcd \in Channel
        <4>1. Head(chanEvent) \in Event
          BY <2>1, EventSeq DEF Inv, EventTypes
        <4> QED  BY <4>1 DEF Event
      <3>2. Reader \in Goroutine
        BY DEF Goroutine
      <3> QED  BY <1>5, <1>t, <3>1, <3>2 DEF ReadEvent, Write
    <2>3. EventTypes'
      BY <2>1, <2>2, <2>t DEF Inv, EventTypes
    <2>4. Connected' = Connected /\ Cardinality(Connected) \in Nat
      BY <2>1, ConnectedFinite DEF Connected, Inv
    <2>5. Len(out) \in Nat /\ out' = out
      BY <2>1, EventSeq DEF Inv, EventTypes
    <2>6. Room'
      <3>1. notrudp' = notrudp /\ notrudp \in Nat
        BY <2>1 DEF Inv, EventTypes
      <3> QED
        BY <2>2, <2>4, <2>5, <3>1, KernelAssumption DEF Inv, Room
    <2> QED  BY <2>3, <2>6 DEF Inv
  <1>6. ASSUME NEW g \in Goroutine, Enqueue(g) \/ Function(g)
        PROVE  Inv'
    <2>1. CASE Enqueue(g) \/ CloseReturns(g)
      BY <1>0, <1>t, <2>1 DEF Enqueue, CloseReturns
    <2>2. CASE CloseFunction(g)
      <3>1. CASE destroy(to[g], {g})
        <4>1. to[g] \in Channel
          BY <1>t
        <4> QED  BY <2>2, <3>1, <4>1, InvDestroy DEF CloseFunction
      <3>2. CASE UNCHANGED <<life, connected, queueVars, out, taken, notrudp>>
        BY <1>0, <1>t, <2>2, <3>2 DEF CloseFunction
      <3> QED  BY <2>2, <3>1, <3>2 DEF CloseFunction
    <2> QED  BY <1>6, <2>1, <2>2 DEF Function
  <1>7. ASSUME NEW w \in Writer, NEW c \in Channel,
               UserWrite(w, c) \/ UserClose(w, c)
        PROVE  Inv'
    BY <1>0, <1>t, <1>7 DEF UserWrite, UserClose, Write, Goroutine
  <1> QED
    BY <1>1, <1>2, <1>3, <1>4, <1>5, <1>6, <1>7 DEF Next

-----------------------------------------------------------------------------
\* The kernel and the reader never wait for each other if at every time fewer
\* channels are connected than chanEvent has places in its reserve, less one for
\* every datagram that is not a trudp packet: sendEvent always finds a place.
THEOREM NoDeadlockHolds == Spec /\ []FewConnected => []NoDeadlock
  <1>1. Init /\ FewConnected => Inv
    BY InvInit
  <1>2. Inv /\ FewConnected' /\ [Next]_vars => Inv'
    BY InvNext
  <1>3. Inv => NoDeadlock
    <2> SUFFICES ASSUME Inv, out # <<>>
                 PROVE  Len(chanEvent) # chEventSize
      BY DEF NoDeadlock
    <2>1. Len(out) > 0 /\ Len(out) \in Nat /\ Len(chanEvent) \in Nat
      BY EventSeq DEF Inv, EventTypes
    <2>2. Cardinality(Connected) \in Nat
      BY ConnectedFinite DEF Inv
    <2>3. MaxNotrudp - notrudp \in Nat
      BY KernelAssumption DEF Inv, EventTypes
    <2> QED  BY <2>1, <2>2, <2>3, KernelAssumption DEF Inv, Room
  <1> QED  BY <1>1, <1>2, <1>3, PTL DEF Spec

-----------------------------------------------------------------------------
(* Types *)

Place == {"idle", "checked", "waiting", "closing", "closed"}

\* The k writes that an ACK releases, and those that go on waiting.
LEMMA QueueSplit ==
    ASSUME NEW S, NEW s \in Seq(S), NEW k \in 0 .. Len(s)
    PROVE  /\ SubSeq(s, 1, k) \in Seq(S) /\ Len(SubSeq(s, 1, k)) = k
           /\ \A i \in 1 .. k : SubSeq(s, 1, k)[i] = s[i]
           /\ SubSeq(s, k + 1, Len(s)) \in Seq(S)
           /\ Len(SubSeq(s, k + 1, Len(s))) = Len(s) - k
           /\ \A i \in 1 .. Len(s) - k : SubSeq(s, k + 1, Len(s))[i] = s[i + k]
  OBVIOUS

\* What an ACK does to the write queue of its channel.
LEMMA Released ==
    ASSUME TypeOK, NEW c \in Channel, NEW n \in Nat, Acknowledge(c, n)
    PROVE  \E k \in 0 .. Len(writeQueue[c]) :
             LET rel == SubSeq(writeQueue[c], 1, k) IN
             /\ unacked' = [unacked EXCEPT ![c] = n + k]
             /\ writeQueue' = [writeQueue EXCEPT ![c] =
                                 SubSeq(@, k + 1, Len(writeQueue[c]))]
             /\ sent' = [sent EXCEPT ![c] = @ \o rel]
             /\ Answer(rel)
  <1> DEFINE w == Len(writeQueue[c])
             r == IF canWrite(n) THEN maxQueueSize - n ELSE 1
             k == IF w < r THEN w ELSE r
  <1>1. w \in Nat
    BY DEF TypeOK
  <1>2. r \in Nat
    BY KernelAssumption DEF canWrite
  <1>3. k \in 0 .. w
    BY <1>1, <1>2
  <1> QED  BY <1>3 DEF Acknowledge

\* Whoever gets its answer is idle.
LEMMA Answered ==
    ASSUME TypeOK, NEW ws \in Seq(Goroutine), Answer(ws)
    PROVE  at' \in [Goroutine -> Place]
  BY DEF Answer, TypeOK, Place

LEMMA ResetTypes ==
    ASSUME TypeOK, NEW c \in Channel, NEW ret, writeQueueReset(c, ret)
    PROVE  /\ unacked' \in [Channel -> Nat]
           /\ writeQueue' \in [Channel -> Seq(Goroutine)]
           /\ taken' \in [Channel -> Seq(Goroutine)]
           /\ at' \in [Goroutine -> Place]
  <1>1. unacked' \in [Channel -> Nat] /\ at' \in [Goroutine -> Place]
    BY DEF writeQueueReset, TypeOK, Place
  <1>2. <<>> \in Seq(Goroutine)
    OBVIOUS
  <1>3. writeQueue' \in [Channel -> Seq(Goroutine)]
    BY <1>2 DEF writeQueueReset, TypeOK
  <1>4. taken' \in [Channel -> Seq(Goroutine)]
    BY DEF writeQueueReset, TypeOK
  <1> QED  BY <1>1, <1>3, <1>4

LEMMA DestroyTypes ==
    ASSUME TypeOK, NEW c \in Channel, NEW ret, destroy(c, ret),
           UNCHANGED <<chanWrite, chanEvent, to, sent, calls, packets, notrudp>>
    PROVE  TypeOK'
  <1>1. writeQueueReset(c, ret)
    BY DEF destroy
  <1>2. out' \in Seq(Event)
    <2>1. out' = <<Ev("Disconnected", c)>> \/ out' = <<>>
      BY DEF destroy
    <2>2. Ev("Disconnected", c) \in Event
      BY DEF Ev, Event
    <2> HIDE DEF Event
    <2>3. <<>> \in Seq(Event) /\ \A e \in Event : <<e>> \in Seq(Event)
      OBVIOUS
    <2> QED  BY <2>1, <2>2, <2>3
  <1>3. life' \in [Channel -> {"none", "open", "stopped"}]
        /\ connected' \in [Channel -> BOOLEAN]
    BY DEF destroy, TypeOK
  <1> QED  BY <1>1, <1>2, <1>3, ResetTypes DEF TypeOK, Place

LEMMA TypeInit == Init => TypeOK
  <1> SUFFICES ASSUME Init PROVE TypeOK
    OBVIOUS
  <1>1. \A S : <<>> \in Seq(S)
    OBVIOUS
  <1>2. (CHOOSE c \in Channel : TRUE) \in Channel
    BY KernelAssumption
  <1> QED  BY <1>1, <1>2, KernelAssumption DEF Init, TypeOK

LEMMA TypeNext == TypeOK /\ [Next]_vars => TypeOK'
  <1> SUFFICES ASSUME TypeOK, [Next]_vars PROVE TypeOK'
    OBVIOUS
  <1>1. CASE UNCHANGED vars
    BY <1>1 DEF vars, queueVars, TypeOK
  <1>2. ASSUME NEW c \in Channel, Kernel(c)
        PROVE  TypeOK'
    <2>1. CASE ConnectChannel(c)
      BY <2>1 DEF ConnectChannel, queueVars, TypeOK
    <2>2. CASE GotAck(c) \/ GotAckAgain(c)
      <3>1. PICK n \in Nat : Acknowledge(c, n)
        BY <2>2 DEF GotAck, GotAckAgain, TypeOK
      <3>2. PICK k \in 0 .. Len(writeQueue[c]) :
              /\ unacked' = [unacked EXCEPT ![c] = n + k]
              /\ writeQueue' = [writeQueue EXCEPT ![c] =
                                  SubSeq(@, k + 1, Len(writeQueue[c]))]
              /\ sent' = [sent EXCEPT ![c] = @ \o SubSeq(writeQueue[c], 1, k)]
              /\ Answer(SubSeq(writeQueue[c], 1, k))
        BY <3>1, Released
      <3>3. writeQueue[c] \in Seq(Goroutine) /\ sent[c] \in Seq(Goroutine)
        BY DEF TypeOK
      <3>4. /\ SubSeq(writeQueue[c], 1, k) \in Seq(Goroutine)
            /\ SubSeq(writeQueue[c], k + 1, Len(writeQueue[c])) \in Seq(Goroutine)
        BY <3>3, QueueSplit
      <3>5. sent[c] \o SubSeq(writeQueue[c], 1, k) \in Seq(Goroutine)
        BY <3>3, <3>4
      <3>6. at' \in [Goroutine -> Place]
        BY <3>2, <3>4, Answered
      <3>7. writeQueue' \in [Channel -> Seq(Goroutine)]
        BY <3>2, <3>4 DEF TypeOK
      <3>8. sent' \in [Channel -> Seq(Goroutine)]
        BY <3>2, <3>5 DEF TypeOK
      <3>9. unacked' \in [Channel -> Nat]
        BY <3>2 DEF TypeOK
      <3>10. /\ connected' = [connected EXCEPT ![c] = TRUE]
             /\ out' = ConnectedEvent(c)
             /\ UNCHANGED <<life, chanWrite, chanEvent, to, taken, calls, packets,
                            notrudp>>
        BY <3>1 DEF Acknowledge
      <3>11. connected' \in [Channel -> BOOLEAN] /\ out' \in Seq(Event)
        BY <3>10, HandlerEvents DEF TypeOK
      <3> QED  BY <3>6, <3>7, <3>8, <3>9, <3>10, <3>11 DEF TypeOK, Place
    <2>3. CASE GotData(c)
      <3>1. out' \in Seq(Event)
        BY <2>3, HandlerEvents DEF GotData
      <3>2. /\ packets' \in [Channel -> Nat]
            /\ life' \in [Channel -> {"none", "open", "stopped"}]
            /\ connected' \in [Channel -> BOOLEAN]
        BY <2>3 DEF GotData, TypeOK
      <3> QED  BY <2>3, <3>1, <3>2 DEF GotData, TypeOK, queueVars
    <2>4. CASE GotReset(c)
      <3>1. out' \in Seq(Event) /\ writeQueueReset(c, {})
        BY <2>4, HandlerEvents DEF GotReset
      <3>2. packets' \in [Channel -> Nat] /\ connected' \in [Channel -> BOOLEAN]
        BY <2>4 DEF GotReset, TypeOK
      <3> QED  BY <2>4, <3>1, <3>2, ResetTypes DEF GotReset, TypeOK, Place
    <2>5. CASE GotNotrudp(c)
      <3>1. out' \in Seq(Event)
        <4>1. Ev("Data", c) \in Event
          BY DEF Ev, Event
        <4> HIDE DEF Event
        <4> QED  BY <2>5, <4>1 DEF GotNotrudp
      <3>2. notrudp' \in 0 .. MaxNotrudp
        BY <2>5, KernelAssumption DEF GotNotrudp, TypeOK
      <3> QED  BY <2>5, <3>1, <3>2 DEF GotNotrudp, TypeOK, queueVars
    <2>6. CASE Disconnect(c)
      BY <2>6, DestroyTypes DEF Disconnect
    <2> QED
      BY <1>2, <2>1, <2>2, <2>3, <2>4, <2>5, <2>6 DEF Kernel
  <1>3. CASE TakeWrite
    <2> DEFINE g == Head(chanWrite)
               c == to[g]
    <2>1. g \in Goroutine /\ chanWrite' \in Seq(Goroutine) /\ c \in Channel
      <3>1. chanWrite # <<>> /\ chanWrite' = Tail(chanWrite)
            /\ chanWrite \in Seq(Goroutine)
        BY <1>3 DEF TakeWrite, TypeOK
      <3>2. g \in Goroutine /\ chanWrite' \in Seq(Goroutine)
        BY <3>1
      <3> QED  BY <3>2 DEF TypeOK
    <2>2. /\ taken' = [taken EXCEPT ![c] = Append(@, g)]
          /\ \/ /\ unacked' = [unacked EXCEPT ![c] = @ + 1]
                /\ sent' = [sent EXCEPT ![c] = Append(@, g)]
                /\ Answer(<<g>>)
                /\ writeQueue' = writeQueue
             \/ /\ writeQueue' = [writeQueue EXCEPT ![c] = Append(@, g)]
                /\ UNCHANGED <<unacked, sent, at>>
          /\ UNCHANGED <<life, connected, chanEvent, out, to, calls, packets, notrudp>>
      BY <1>3 DEF TakeWrite
    <2> HIDE DEF g, c
    <2>3. \A q \in [Channel -> Seq(Goroutine)] :
            [q EXCEPT ![c] = Append(@, g)] \in [Channel -> Seq(Goroutine)]
      <3>1. ASSUME NEW q \in [Channel -> Seq(Goroutine)]
            PROVE  Append(q[c], g) \in Seq(Goroutine)
        <4>1. q[c] \in Seq(Goroutine)
          BY <2>1
        <4> QED  BY <2>1, <4>1
      <3> QED  BY <2>1, <3>1
    <2>4. /\ taken \in [Channel -> Seq(Goroutine)] /\ sent \in [Channel -> Seq(Goroutine)]
          /\ writeQueue \in [Channel -> Seq(Goroutine)] /\ unacked \in [Channel -> Nat]
          /\ at \in [Goroutine -> Place]
      BY DEF TypeOK, Place
    <2>5. taken' \in [Channel -> Seq(Goroutine)]
      BY <2>2, <2>3, <2>4
    <2>6. /\ sent' \in [Channel -> Seq(Goroutine)]
          /\ writeQueue' \in [Channel -> Seq(Goroutine)]
      BY <2>2, <2>3, <2>4
    <2>7. unacked' \in [Channel -> Nat]
      <3>1. unacked[c] + 1 \in Nat
        BY <2>1, <2>4
      <3> QED  BY <2>1, <2>2, <2>4, <3>1
    <2>8. at' \in [Goroutine -> Place]
      <3>1. <<g>> \in Seq(Goroutine)
        BY <2>1
      <3> QED  BY <2>2, <2>4, <3>1, Answered
    <2> QED  BY <2>1, <2>2, <2>5, <2>6, <2>7, <2>8 DEF TypeOK, Place
  <1>4. CASE SendEvent
    <2>1. out' \in Seq(Event) /\ chanEvent' \in Seq(Event)
      BY <1>4, EventSeq DEF SendEvent, TypeOK
    <2> QED  BY <1>4, <2>1 DEF SendEvent, TypeOK, queueVars
  <1>5. CASE ReadEvent
    <2>1. /\ chanEvent' \in Seq(Event) /\ Head(chanEvent) \in Event
      BY <1>5, EventSeq DEF ReadEvent, TypeOK
    <2>2. Head(chanEvent).tcd \in Channel /\ Reader \in Goroutine
      BY <2>1 DEF Event, Goroutine
    <2>3. at' \in [Goroutine -> Place] /\ to' \in [Goroutine -> Channel]
      BY <1>5, <2>2 DEF ReadEvent, Write, TypeOK, Place
    <2> QED  BY <1>5, <2>1, <2>3 DEF ReadEvent, TypeOK, queueVars, Place
  <1>6. ASSUME NEW g \in Goroutine, Enqueue(g)
        PROVE  TypeOK'
    <2>1. chanWrite' \in Seq(Goroutine)
      BY <1>6 DEF Enqueue, TypeOK
    <2>2. at' \in [Goroutine -> Place]
      BY <1>6 DEF Enqueue, TypeOK, Place
    <2> QED  BY <1>6, <2>1, <2>2 DEF Enqueue, TypeOK, queueVars, Place
  <1>7. ASSUME NEW g \in Goroutine, Function(g)
        PROVE  TypeOK'
    <2>1. CASE CloseReturns(g)
      BY <2>1 DEF CloseReturns, TypeOK, queueVars
    <2>2. CASE CloseFunction(g) /\ destroy(to[g], {g})
      <3>1. to[g] \in Channel
        BY DEF TypeOK
      <3> QED  BY <2>2, <3>1, DestroyTypes DEF CloseFunction
    <2>3. CASE CloseFunction(g) /\ ~destroy(to[g], {g})
      BY <2>3 DEF CloseFunction, TypeOK, queueVars
    <2> QED  BY <1>7, <2>1, <2>2, <2>3 DEF Function
  <1>8. ASSUME NEW w \in Writer, NEW c \in Channel,
               UserWrite(w, c) \/ UserClose(w, c)
        PROVE  TypeOK'
    <2>1. w \in Goroutine
      BY DEF Goroutine
    <2>2. \E p \in Place : at' = [at EXCEPT ![w] = p]
      BY <1>8 DEF UserWrite, UserClose, Write, Place
    <2>3. to' = [to EXCEPT ![w] = c] /\ calls' = [calls EXCEPT ![w] = @ + 1]
      BY <1>8 DEF UserWrite, UserClose, Write
    <2>4. at' \in [Goroutine -> Place]
      BY <2>1, <2>2 DEF TypeOK, Place
    <2>5. to' \in [Goroutine -> Channel]
      BY <2>1, <2>3 DEF TypeOK
    <2>6. calls' \in [Writer -> Nat]
      <3>1. calls \in [Writer -> Nat] /\ calls[w] + 1 \in Nat
        BY DEF TypeOK
      <3> QED  BY <2>3, <3>1
    <2>7. UNCHANGED <<life, connected, unacked, writeQueue, chanWrite, chanEvent, out,
                      sent, taken, packets, notrudp>>
      BY <1>8 DEF UserWrite, UserClose, queueVars
    <2> QED  BY <2>4, <2>5, <2>6, <2>7 DEF TypeOK, Place
  <1> QED
    BY <1>1, <1>2, <1>3, <1>4, <1>5, <1>6, <1>7, <1>8 DEF Next

\* Every variable of the kernel has its type, for all parameters.
THEOREM KernelTypeCorrect == Spec => []TypeOK
  BY TypeInit, TypeNext, PTL DEF Spec

-----------------------------------------------------------------------------
(* The order of the writes *)

\* A sequence that is split is its two parts.
LEMMA Joined ==
    ASSUME NEW S, NEW t \in Seq(S), NEW a \in Seq(S), NEW b \in Seq(S),
           NEW k \in 0 .. Len(t), Len(a) = k, Len(b) = Len(t) - k,
           \A i \in 1 .. k : a[i] = t[i],
           \A i \in 1 .. Len(t) - k : b[i] = t[i + k]
    PROVE  a \o b = t
  <1>1. Len(t) \in Nat /\ k \in Nat
    OBVIOUS
  <1>2. a \o b \in Seq(S) /\ Len(a \o b) = Len(t)
    <2>1. a \o b \in Seq(S) /\ Len(a \o b) = Len(a) + Len(b)
      BY ConcatProperties, Zenon
    <2>2. Len(a) + Len(b) = Len(t)
      BY <1>1
    <2> QED  BY <2>1, <2>2
  <1>3. ASSUME NEW i \in 1 .. Len(t) PROVE (a \o b)[i] = t[i]
    <2>1. (a \o b)[i] = IF i <= Len(a) THEN a[i] ELSE b[i - Len(a)]
      BY <1>1, ConcatProperties
    <2>2. CASE i <= k
      BY <1>1, <2>1, <2>2
    <2>3. CASE ~(i <= k)
      <3>1. i - k \in 1 .. Len(t) - k /\ (i - k) + k = i
        BY <1>1, <2>3
      <3>2. b[i - k] = t[(i - k) + k]
        BY <3>1
      <3> QED  BY <2>1, <2>3, <3>1, <3>2
    <2> QED  BY <2>2, <2>3
  <1> QED  BY <1>2, <1>3, SeqEqual

\* Writes that are sent leave the front of the queue for the end of what was sent.
LEMMA SentOrWaiting ==
    ASSUME NEW S, NEW s \in Seq(S), NEW t \in Seq(S)
    PROVE  /\ s \o <<>> = s
           /\ \A e \in S : Append(s, e) \o <<>> = Append(s \o <<>>, e)
           /\ \A e \in S : s \o Append(t, e) = Append(s \o t, e)
           /\ \A k \in 0 .. Len(t) :
                (s \o SubSeq(t, 1, k)) \o SubSeq(t, k + 1, Len(t)) = s \o t
  <1>1. \A u \in Seq(S) : u \o <<>> = u
    BY ConcatEmptySeq
  <1>2. \A e \in S : Append(s, e) \in Seq(S)
    OBVIOUS
  <1>3. ASSUME NEW e \in S
        PROVE  s \o Append(t, e) = Append(s \o t, e)
    <2>1. <<e>> \in Seq(S) /\ s \o t \in Seq(S)
      OBVIOUS
    <2>2. Append(t, e) = t \o <<e>> /\ Append(s \o t, e) = (s \o t) \o <<e>>
      BY <2>1, AppendIsConcat
    <2>3. (s \o t) \o <<e>> = s \o (t \o <<e>>)
      BY <2>1, ConcatAssociative
    <2> QED  BY <2>2, <2>3
  <1>4. ASSUME NEW k \in 0 .. Len(t)
        PROVE  (s \o SubSeq(t, 1, k)) \o SubSeq(t, k + 1, Len(t)) = s \o t
    <2> DEFINE a == SubSeq(t, 1, k)
               b == SubSeq(t, k + 1, Len(t))
    <2>1. /\ a \in Seq(S) /\ Len(a) = k /\ \A i \in 1 .. k : a[i] = t[i]
          /\ b \in Seq(S) /\ Len(b) = Len(t) - k
          /\ \A i \in 1 .. Len(t) - k : b[i] = t[i + k]
      BY QueueSplit
    <2> HIDE DEF a, b
    <2>2. a \o b = t
      BY <2>1, Joined
    <2>3. (s \o a) \o b = s \o (a \o b)
      BY <2>1, ConcatAssociative
    <2>4. (s \o a) \o b = s \o t
      BY <2>2, <2>3
    <2> QED  BY <2>4 DEF a, b
  <1> QED  BY <1>1, <1>2, <1>3, <1>4

LEMMA OrderReset ==
    ASSUME TypeOK, SentInOrder, NEW c \in Channel, NEW ret,
           writeQueueReset(c, ret), sent' = sent
    PROVE  SentInOrder'
  <1> SUFFICES ASSUME NEW d \in Channel
               PROVE  sent'[d] \o writeQueue'[d] = taken'[d]
    BY DEF SentInOrder
  <1>1. sent[d] \o <<>> = sent[d]
    BY SentOrWaiting DEF TypeOK
  <1>2. CASE d = c
    BY <1>1, <1>2 DEF writeQueueReset, TypeOK
  <1>3. CASE d # c
    <2>1. writeQueue'[d] = writeQueue[d] /\ taken'[d] = taken[d]
      BY <1>3 DEF writeQueueReset, TypeOK
    <2> QED  BY <2>1 DEF SentInOrder
  <1> QED  BY <1>2, <1>3

LEMMA OrderNext ==
    ASSUME TypeOK, SentInOrder, [Next]_vars
    PROVE  SentInOrder'
  <1>0. ASSUME UNCHANGED <<sent, writeQueue, taken>>
        PROVE  SentInOrder'
    BY <1>0 DEF SentInOrder
  <1>t. /\ sent \in [Channel -> Seq(Goroutine)] /\ taken \in [Channel -> Seq(Goroutine)]
        /\ writeQueue \in [Channel -> Seq(Goroutine)]
    BY DEF TypeOK
  <1>1. CASE UNCHANGED vars
    BY <1>0, <1>1 DEF vars, queueVars
  <1>2. ASSUME NEW c \in Channel, Kernel(c)
        PROVE  SentInOrder'
    <2>1. CASE ConnectChannel(c) \/ GotData(c) \/ GotNotrudp(c)
      BY <1>0, <2>1 DEF ConnectChannel, GotData, GotNotrudp, queueVars
    <2>2. CASE GotAck(c) \/ GotAckAgain(c)
      <3>1. PICK n \in Nat : Acknowledge(c, n)
        BY <2>2 DEF GotAck, GotAckAgain, TypeOK
      <3>2. PICK k \in 0 .. Len(writeQueue[c]) :
              /\ writeQueue' = [writeQueue EXCEPT ![c] =
                                  SubSeq(@, k + 1, Len(writeQueue[c]))]
              /\ sent' = [sent EXCEPT ![c] = @ \o SubSeq(writeQueue[c], 1, k)]
        BY <3>1, Released
      <3>3. taken' = taken
        BY <3>1 DEF Acknowledge
      <3>4. (sent[c] \o SubSeq(writeQueue[c], 1, k))
              \o SubSeq(writeQueue[c], k + 1, Len(writeQueue[c]))
              = sent[c] \o writeQueue[c]
        <4> DEFINE s == sent[c]
                   t == writeQueue[c]
        <4>1. s \in Seq(Goroutine) /\ t \in Seq(Goroutine) /\ k \in 0 .. Len(t)
          BY <1>t
        <4> HIDE DEF s, t
        <4>2. (s \o SubSeq(t, 1, k)) \o SubSeq(t, k + 1, Len(t)) = s \o t
          BY <4>1, SentOrWaiting
        <4> QED  BY <4>2 DEF s, t
      <3>5. /\ sent'[c] = sent[c] \o SubSeq(writeQueue[c], 1, k)
            /\ writeQueue'[c] = SubSeq(writeQueue[c], k + 1, Len(writeQueue[c]))
        BY <1>t, <3>2
      <3>6. sent'[c] \o writeQueue'[c] = taken'[c]
        BY <3>3, <3>4, <3>5 DEF SentInOrder
      <3>7. \A d \in Channel : d # c => sent'[d] = sent[d] /\ writeQueue'[d] = writeQueue[d]
        BY <1>t, <3>2
      <3> QED  BY <3>3, <3>6, <3>7 DEF SentInOrder
    <2>3. CASE GotReset(c)
      BY <2>3, OrderReset DEF GotReset
    <2>4. CASE Disconnect(c)
      BY <2>4, OrderReset DEF Disconnect, destroy
    <2> QED  BY <1>2, <2>1, <2>2, <2>3, <2>4 DEF Kernel
  <1>3. CASE TakeWrite
    <2> DEFINE g == Head(chanWrite)
               c == to[g]
    <2>1. g \in Goroutine /\ c \in Channel
      <3>1. g \in Goroutine
        BY <1>3 DEF TakeWrite, TypeOK
      <3> QED  BY <3>1 DEF TypeOK
    <2>2. /\ taken' = [taken EXCEPT ![c] = Append(@, g)]
          /\ \/ /\ writeQueue[c] = <<>> /\ writeQueue' = writeQueue
                /\ sent' = [sent EXCEPT ![c] = Append(@, g)]
             \/ /\ writeQueue' = [writeQueue EXCEPT ![c] = Append(@, g)]
                /\ sent' = sent
      BY <1>3 DEF TakeWrite
    <2> HIDE DEF g, c
    <2>3. /\ Append(sent[c], g) \o <<>> = Append(sent[c] \o <<>>, g)
          /\ sent[c] \o Append(writeQueue[c], g) = Append(sent[c] \o writeQueue[c], g)
      BY <1>t, <2>1, SentOrWaiting
    <2>4. sent[c] \o writeQueue[c] = taken[c]
      BY <2>1 DEF SentInOrder
    <2>5. sent'[c] \o writeQueue'[c] = taken'[c]
      <3>1. taken'[c] = Append(taken[c], g)
        BY <1>t, <2>1, <2>2
      <3>2. CASE writeQueue[c] = <<>> /\ writeQueue' = writeQueue
                 /\ sent' = [sent EXCEPT ![c] = Append(@, g)]
        <4>1. sent'[c] = Append(sent[c], g)
          BY <1>t, <2>1, <3>2
        <4> QED  BY <2>3, <2>4, <3>1, <3>2, <4>1
      <3>3. CASE writeQueue' = [writeQueue EXCEPT ![c] = Append(@, g)] /\ sent' = sent
        <4>1. writeQueue'[c] = Append(writeQueue[c], g)
          BY <1>t, <2>1, <3>3
        <4> QED  BY <2>3, <2>4, <3>1, <3>3, <4>1
      <3> QED  BY <2>2, <3>2, <3>3
    <2>6. \A d \in Channel : d # c =>
            /\ sent'[d] = sent[d] /\ writeQueue'[d] = writeQueue[d]
            /\ taken'[d] = taken[d]
      BY <1>t, <2>2
    <2> QED  BY <2>5, <2>6 DEF SentInOrder
  <1>4. CASE SendEvent \/ ReadEvent
    BY <1>0, <1>4 DEF SendEvent, ReadEvent, queueVars
  <1>5. ASSUME NEW g \in Goroutine, Enqueue(g) \/ Function(g)
        PROVE  SentInOrder'
    <2>1. CASE Enqueue(g) \/ CloseReturns(g)
      BY <1>0, <2>1 DEF Enqueue, CloseReturns, queueVars
    <2>2. CASE CloseFunction(g) /\ destroy(to[g], {g})
      <3>1. to[g] \in Channel
        BY DEF TypeOK
      <3> QED  BY <2>2, <3>1, OrderReset DEF CloseFunction, destroy
    <2>3. CASE CloseFunction(g) /\ ~destroy(to[g], {g})
      BY <1>0, <2>3 DEF CloseFunction, queueVars
    <2> QED  BY <1>5, <2>1, <2>2, <2>3 DEF Function
  <1>6. ASSUME NEW w \in Writer, NEW c \in Channel,
               UserWrite(w, c) \/ UserClose(w, c)
        PROVE  SentInOrder'
    BY <1>0, <1>6 DEF UserWrite, UserClose, queueVars
  <1> QED  BY <1>1, <1>2, <1>3, <1>4, <1>5, <1>6 DEF Next

\* The writes of a channel are sent in the order in which the kernel took them,
\* for any number of writers and channels and every limit of the send queue.
THEOREM SentInOrderHolds == Spec => []SentInOrder
  <1>1. Init => SentInOrder
    <2> SUFFICES ASSUME Init PROVE SentInOrder
      OBVIOUS
    <2>1. \A c \in Channel : sent[c] = <<>> /\ writeQueue[c] = <<>> /\ taken[c] = <<>>
      BY DEF Init
    <2>2. <<>> \o <<>> = <<>>
      OBVIOUS
    <2> QED  BY <2>1, <2>2 DEF SentInOrder
  <1>2. TypeOK /\ SentInOrder /\ [Next]_vars => SentInOrder'
    BY OrderNext
  <1> QED  BY <1>1, <1>2, TypeInit, TypeNext, PTL DEF Spec

-----------------------------------------------------------------------------
(* Answers *)

In(g, s) == \E i \in DOMAIN s : s[i] = g
Once(s) == \A i, j \in DOMAIN s : s[i] = s[j] => i = j

\* A goroutine waits for an answer while its write is in chanWrite or in the
\* queue of its channel, in one of the two and there once.
Holding ==
    /\ Once(chanWrite)
    /\ \A c \in Channel : Once(writeQueue[c])
    /\ \A g \in Goroutine, c \in Channel :
         In(g, writeQueue[c]) => to[g] = c /\ ~In(g, chanWrite)
    /\ \A g \in Goroutine :
         at[g] = "waiting" <=> In(g, chanWrite) \/ In(g, writeQueue[to[g]])

LEMMA InAppend ==
    ASSUME NEW S, NEW s \in Seq(S), NEW e \in S
    PROVE  /\ \A g : In(g, Append(s, e)) <=> In(g, s) \/ g = e
           /\ Once(s) /\ ~In(e, s) => Once(Append(s, e))
  <1> DEFINE t == Append(s, e)
  <1>1. /\ DOMAIN s = 1 .. Len(s) /\ Len(s) \in Nat
        /\ DOMAIN t = 1 .. Len(s) + 1
        /\ \A i \in 1 .. Len(s) : t[i] = s[i]
        /\ t[Len(s) + 1] = e
    OBVIOUS
  <1> HIDE DEF t
  <1>2. \A g : In(g, t) <=> In(g, s) \/ g = e
    BY <1>1 DEF In
  <1>3. Once(s) /\ ~In(e, s) => Once(t)
    BY <1>1 DEF In, Once
  <1> QED  BY <1>2, <1>3 DEF t

LEMMA InTail ==
    ASSUME NEW S, NEW s \in Seq(S), s # <<>>, Once(s)
    PROVE  /\ In(Head(s), s)
           /\ \A g : In(g, Tail(s)) <=> In(g, s) /\ g # Head(s)
           /\ Once(Tail(s))
  <1> DEFINE t == Tail(s)
  <1>1. /\ DOMAIN s = 1 .. Len(s) /\ Len(s) \in Nat /\ Len(s) > 0
        /\ DOMAIN t = 1 .. Len(s) - 1
        /\ \A i \in 1 .. Len(s) - 1 : t[i] = s[i + 1]
        /\ Head(s) = s[1]
    OBVIOUS
  <1> HIDE DEF t
  <1>2. In(Head(s), s)
    BY <1>1 DEF In
  <1>3. Once(t)
    BY <1>1 DEF Once
  <1>4. ASSUME NEW g
        PROVE  In(g, t) <=> In(g, s) /\ g # Head(s)
    <2>1. ASSUME NEW i \in DOMAIN t, t[i] = g
          PROVE  In(g, s) /\ g # Head(s)
      <3>1. i + 1 \in DOMAIN s /\ s[i + 1] = g /\ i + 1 # 1 /\ 1 \in DOMAIN s
        BY <1>1, <2>1
      <3> QED  BY <1>1, <3>1 DEF In, Once
    <2>2. ASSUME NEW i \in DOMAIN s, s[i] = g, g # Head(s)
          PROVE  In(g, t)
      <3>1. i - 1 \in DOMAIN t /\ (i - 1) + 1 = i
        BY <1>1, <2>2
      <3>2. t[i - 1] = g
        BY <1>1, <2>2, <3>1
      <3> QED  BY <3>1, <3>2 DEF In
    <2> QED  BY <2>1, <2>2 DEF In
  <1> QED  BY <1>2, <1>3, <1>4 DEF t

LEMMA InSplit ==
    ASSUME NEW S, NEW s \in Seq(S), NEW k \in 0 .. Len(s), Once(s)
    PROVE  /\ \A g : Contains(SubSeq(s, 1, k), g) => In(g, s)
           /\ \A g : In(g, SubSeq(s, k + 1, Len(s)))
                       <=> In(g, s) /\ ~Contains(SubSeq(s, 1, k), g)
           /\ Once(SubSeq(s, k + 1, Len(s)))
  <1> DEFINE a == SubSeq(s, 1, k)
             b == SubSeq(s, k + 1, Len(s))
  <1>1. /\ DOMAIN s = 1 .. Len(s) /\ Len(s) \in Nat /\ k \in Nat
        /\ Len(a) = k /\ \A i \in 1 .. k : a[i] = s[i]
        /\ b \in Seq(S) /\ Len(b) = Len(s) - k
        /\ \A i \in 1 .. Len(s) - k : b[i] = s[i + k]
    BY QueueSplit
  <1> HIDE DEF a, b
  <1>2. DOMAIN b = 1 .. Len(s) - k
    <2>1. \A z \in Seq(S) : DOMAIN z = 1 .. Len(z)
      OBVIOUS
    <2> QED  BY <1>1, <2>1
  <1>3. \A g : Contains(a, g) <=> \E i \in 1 .. k : s[i] = g
    BY <1>1 DEF Contains
  <1>4. \A g : Contains(a, g) => In(g, s)
    <2>1. \A i \in 1 .. k : i \in DOMAIN s
      BY <1>1
    <2> QED  BY <1>3, <2>1, Zenon DEF In
  <1>5. Once(b)
    <2> SUFFICES ASSUME NEW i \in DOMAIN b, NEW j \in DOMAIN b, b[i] = b[j]
                 PROVE  i = j
      BY DEF Once
    <2>1. i \in 1 .. Len(s) - k /\ j \in 1 .. Len(s) - k
      BY <1>2
    <2>2. i + k \in DOMAIN s /\ j + k \in DOMAIN s
      BY <1>1, <2>1
    <2>3. s[i + k] = s[j + k]
      BY <1>1, <2>1
    <2>4. i + k = j + k
      BY <2>2, <2>3 DEF Once
    <2> QED  BY <1>1, <2>1, <2>4
  <1>6. ASSUME NEW g
        PROVE  In(g, b) <=> In(g, s) /\ ~Contains(a, g)
    <2>1. ASSUME NEW i \in DOMAIN b, b[i] = g
          PROVE  In(g, s) /\ ~Contains(a, g)
      <3>1. i + k \in DOMAIN s /\ s[i + k] = g /\ \A j \in 1 .. k : j # i + k
        BY <1>1, <1>2, <2>1
      <3>2. \A j \in 1 .. k : j \in DOMAIN s
        BY <1>1
      <3> QED  BY <1>3, <3>1, <3>2 DEF In, Once
    <2>2. ASSUME NEW i \in DOMAIN s, s[i] = g, ~Contains(a, g)
          PROVE  In(g, b)
      <3>1. i > k
        BY <1>1, <1>3, <2>2
      <3>2. i - k \in DOMAIN b /\ (i - k) + k = i
        BY <1>1, <1>2, <3>1
      <3>3. b[i - k] = g
        BY <1>1, <1>2, <2>2, <3>2
      <3> QED  BY <3>2, <3>3 DEF In
    <2> QED  BY <2>1, <2>2 DEF In
  <1> QED  BY <1>4, <1>5, <1>6 DEF a, b

\* A goroutine that is in no queue goes on.
LEMMA HoldingStays ==
    ASSUME Holding, UNCHANGED <<chanWrite, writeQueue>>,
           \A g \in Goroutine : at'[g] = "waiting" <=> at[g] = "waiting",
           \A g \in Goroutine : to'[g] = to[g] \/ at[g] # "waiting",
           TypeOK, to' \in [Goroutine -> Channel]
    PROVE  Holding'
  <1>1. ASSUME NEW g \in Goroutine, NEW c \in Channel, In(g, writeQueue[c])
        PROVE  to[g] = c /\ ~In(g, chanWrite) /\ at[g] = "waiting"
    BY <1>1 DEF Holding
  <1>2. \A g \in Goroutine :
          at'[g] = "waiting" <=> In(g, chanWrite') \/ In(g, writeQueue'[to'[g]])
    <2> TAKE g \in Goroutine
    <2>1. CASE at[g] = "waiting"
      BY <2>1 DEF Holding
    <2>2. CASE at[g] # "waiting"
      <3>1. ~In(g, chanWrite) /\ to'[g] \in Channel
        BY <2>2 DEF Holding
      <3>2. ~In(g, writeQueue[to'[g]])
        BY <1>1, <2>2, <3>1
      <3> QED  BY <2>2, <3>1, <3>2
    <2> QED  BY <2>1, <2>2
  <1> QED  BY <1>1, <1>2 DEF Holding

\* A reset answers those in the queue of the channel and nobody else.
LEMMA HoldingReset ==
    ASSUME Holding, TypeOK, NEW c \in Channel, NEW ret, writeQueueReset(c, ret),
           UNCHANGED <<chanWrite, to>>,
           \A g \in ret : g \in Goroutine => at[g] # "waiting"
    PROVE  Holding'
  <1>1. /\ writeQueue'[c] = <<>>
        /\ \A d \in Channel : d # c => writeQueue'[d] = writeQueue[d]
    BY DEF writeQueueReset, TypeOK
  <1>2. \A g : ~In(g, writeQueue'[c])
    BY <1>1 DEF In
  <1>3. \A g : Contains(writeQueue[c], g) <=> In(g, writeQueue[c])
    <2>1. writeQueue[c] \in Seq(Goroutine)
      BY DEF TypeOK
    <2>2. DOMAIN writeQueue[c] = 1 .. Len(writeQueue[c])
      BY <2>1
    <2> QED  BY <2>2 DEF Contains, In
  <1>4. \A g \in Goroutine :
          at'[g] = "waiting" <=> at[g] = "waiting" /\ ~In(g, writeQueue[c])
    BY <1>3 DEF writeQueueReset, TypeOK
  <1>5. Once(<<>>)
    BY DEF Once
  <1>6. \A d \in Channel : Once(writeQueue'[d])
    BY <1>1, <1>5 DEF Holding
  <1>7. \A g \in Goroutine, d \in Channel :
          In(g, writeQueue'[d]) => to'[g] = d /\ ~In(g, chanWrite')
    BY <1>1, <1>2 DEF Holding
  <1>8. \A g \in Goroutine :
          at'[g] = "waiting" <=> In(g, chanWrite') \/ In(g, writeQueue'[to'[g]])
    <2> TAKE g \in Goroutine
    <2>1. to[g] \in Channel /\ to'[g] = to[g]
      BY DEF TypeOK
    <2>2. CASE to[g] = c
      BY <1>2, <1>4, <2>1, <2>2 DEF Holding
    <2>3. CASE to[g] # c
      BY <1>1, <1>4, <2>1, <2>3 DEF Holding
    <2> QED  BY <2>2, <2>3
  <1> QED  BY <1>6, <1>7, <1>8 DEF Holding

LEMMA HoldingEnqueue ==
    ASSUME Holding, TypeOK, NEW g \in Goroutine, Enqueue(g)
    PROVE  Holding'
  <1>1. /\ at[g] = "checked" /\ chanWrite' = Append(chanWrite, g)
        /\ at' = [at EXCEPT ![g] = "waiting"]
        /\ UNCHANGED <<writeQueue, to>>
    BY DEF Enqueue, queueVars
  <1>2. chanWrite \in Seq(Goroutine) /\ to[g] \in Channel
    BY DEF TypeOK
  <1>3. ~In(g, chanWrite) /\ \A c \in Channel : ~In(g, writeQueue[c])
    BY <1>1, <1>2 DEF Holding
  <1>4. Once(chanWrite') /\ \A h : In(h, chanWrite') <=> In(h, chanWrite) \/ h = g
    BY <1>1, <1>2, <1>3, InAppend DEF Holding
  <1>5. \A h \in Goroutine : at'[h] = "waiting" <=> at[h] = "waiting" \/ h = g
    BY <1>1 DEF TypeOK
  <1> QED  BY <1>1, <1>3, <1>4, <1>5 DEF Holding

LEMMA HoldingTake ==
    ASSUME Holding, TypeOK, TakeWrite
    PROVE  Holding'
  <1> DEFINE g == Head(chanWrite)
             c == to[g]
  <1>1. /\ chanWrite \in Seq(Goroutine) /\ chanWrite # <<>>
        /\ chanWrite' = Tail(chanWrite) /\ to' = to
    BY DEF TakeWrite, TypeOK
  <1>2. g \in Goroutine
    BY <1>1
  <1>3. /\ In(g, chanWrite) /\ Once(chanWrite')
        /\ \A h : In(h, chanWrite') <=> In(h, chanWrite) /\ h # g
    BY <1>1, InTail DEF Holding
  <1>4. c \in Channel /\ writeQueue[c] \in Seq(Goroutine)
    BY <1>2 DEF TypeOK
  <1>5. \/ Answer(<<g>>) /\ writeQueue' = writeQueue
        \/ at' = at /\ writeQueue' = [writeQueue EXCEPT ![c] = Append(@, g)]
    BY DEF TakeWrite
  <1> HIDE DEF g
  <1>6. \A d \in Channel : ~In(g, writeQueue[d])
    BY <1>2, <1>3 DEF Holding
  <1>7. CASE Answer(<<g>>) /\ writeQueue' = writeQueue
    <2>1. \A h : Contains(<<g>>, h) <=> h = g
      BY DEF Contains
    <2>2. \A h \in Goroutine : at'[h] = "waiting" <=> at[h] = "waiting" /\ h # g
      BY <1>7, <2>1 DEF Answer, TypeOK
    <2>3. \A h \in Goroutine : to[h] \in Channel
      BY DEF TypeOK
    <2> QED  BY <1>1, <1>3, <1>6, <1>7, <2>2, <2>3 DEF Holding
  <1>8. CASE at' = at /\ writeQueue' = [writeQueue EXCEPT ![c] = Append(@, g)]
    <2>1. /\ writeQueue'[c] = Append(writeQueue[c], g)
          /\ \A d \in Channel : d # c => writeQueue'[d] = writeQueue[d]
      BY <1>4, <1>8 DEF TypeOK
    <2>2. /\ Once(writeQueue'[c])
          /\ \A h : In(h, writeQueue'[c]) <=> In(h, writeQueue[c]) \/ h = g
      BY <1>2, <1>4, <1>6, <2>1, InAppend DEF Holding
    <2>3. \A d \in Channel : Once(writeQueue'[d])
      BY <2>1, <2>2 DEF Holding
    <2>4. \A h \in Goroutine, d \in Channel :
            In(h, writeQueue'[d]) => to'[h] = d /\ ~In(h, chanWrite')
      BY <1>1, <1>3, <2>1, <2>2 DEF Holding
    <2>5. \A h \in Goroutine :
            at'[h] = "waiting" <=> In(h, chanWrite') \/ In(h, writeQueue'[to'[h]])
      <3> TAKE h \in Goroutine
      <3>1. to'[h] = to[h] /\ to[h] \in Channel /\ at'[h] = at[h]
        BY <1>1, <1>8 DEF TypeOK
      <3>2. CASE h = g
        BY <1>3, <2>2, <3>1, <3>2 DEF Holding
      <3>3. CASE h # g
        BY <1>3, <2>1, <2>2, <3>1, <3>3 DEF Holding
      <3> QED  BY <3>2, <3>3
    <2> QED  BY <1>3, <2>3, <2>4, <2>5 DEF Holding
  <1> QED  BY <1>5, <1>7, <1>8

LEMMA HoldingAck ==
    ASSUME Holding, TypeOK, NEW c \in Channel, NEW n \in Nat, Acknowledge(c, n)
    PROVE  Holding'
  <1>1. PICK k \in 0 .. Len(writeQueue[c]) :
          /\ writeQueue' = [writeQueue EXCEPT ![c] =
                              SubSeq(@, k + 1, Len(writeQueue[c]))]
          /\ Answer(SubSeq(writeQueue[c], 1, k))
    BY Released
  <1>2. UNCHANGED <<chanWrite, to>>
    BY DEF Acknowledge
  <1>3. writeQueue[c] \in Seq(Goroutine) /\ Once(writeQueue[c])
    BY DEF TypeOK, Holding
  <1> DEFINE rel == SubSeq(writeQueue[c], 1, k)
             rest == SubSeq(writeQueue[c], k + 1, Len(writeQueue[c]))
  <1>4. /\ \A g : Contains(rel, g) => In(g, writeQueue[c])
        /\ \A g : In(g, rest) <=> In(g, writeQueue[c]) /\ ~Contains(rel, g)
        /\ Once(rest)
    BY <1>3, InSplit
  <1>5. /\ writeQueue'[c] = rest /\ Answer(rel)
        /\ \A d \in Channel : d # c => writeQueue'[d] = writeQueue[d]
    BY <1>1 DEF TypeOK
  <1> HIDE DEF rel, rest
  <1>6. \A g \in Goroutine :
          at'[g] = "waiting" <=> at[g] = "waiting" /\ ~Contains(rel, g)
    BY <1>5 DEF Answer, TypeOK
  <1>7. \A d \in Channel : Once(writeQueue'[d])
    BY <1>4, <1>5 DEF Holding
  <1>8. \A g \in Goroutine, d \in Channel :
          In(g, writeQueue'[d]) => In(g, writeQueue[d])
    BY <1>4, <1>5
  <1>9. \A g \in Goroutine, d \in Channel :
          In(g, writeQueue'[d]) => to'[g] = d /\ ~In(g, chanWrite')
    BY <1>2, <1>8 DEF Holding
  <1>10. \A g \in Goroutine :
           at'[g] = "waiting" <=> In(g, chanWrite') \/ In(g, writeQueue'[to'[g]])
    <2> TAKE g \in Goroutine
    <2>1. to'[g] = to[g] /\ to[g] \in Channel
      BY <1>2 DEF TypeOK
    <2>2. CASE to[g] = c
      <3>1. Contains(rel, g) => ~In(g, chanWrite)
        BY <1>4 DEF Holding
      <3> QED  BY <1>2, <1>4, <1>5, <1>6, <2>1, <2>2, <3>1 DEF Holding
    <2>3. CASE to[g] # c
      <3>1. ~Contains(rel, g)
        BY <1>4, <2>3 DEF Holding
      <3> QED  BY <1>2, <1>5, <1>6, <2>1, <2>3, <3>1 DEF Holding
    <2> QED  BY <2>2, <2>3
  <1> QED  BY <1>2, <1>7, <1>9, <1>10 DEF Holding

LEMMA HoldingNext == TypeOK /\ Holding /\ [Next]_vars => Holding'
  <1> SUFFICES ASSUME TypeOK, Holding, [Next]_vars PROVE Holding'
    OBVIOUS
  <1>t. at \in [Goroutine -> Place] /\ to \in [Goroutine -> Channel]
    BY DEF TypeOK, Place
  <1>0. TypeOK'
    BY TypeNext
  <1>1. ASSUME UNCHANGED <<chanWrite, writeQueue, at, to>>
        PROVE  Holding'
    BY <1>1, <1>t, HoldingStays
  <1>2. CASE UNCHANGED vars
    BY <1>1, <1>2 DEF vars, queueVars
  <1>3. ASSUME NEW c \in Channel, Kernel(c)
        PROVE  Holding'
    <2>1. CASE ConnectChannel(c) \/ GotData(c) \/ GotNotrudp(c)
      BY <1>1, <2>1 DEF ConnectChannel, GotData, GotNotrudp, queueVars
    <2>2. CASE GotAck(c) \/ GotAckAgain(c)
      <3>1. PICK n \in Nat : Acknowledge(c, n)
        BY <2>2 DEF GotAck, GotAckAgain, TypeOK
      <3> QED  BY <3>1, HoldingAck
    <2>3. CASE GotReset(c)
      BY <2>3, HoldingReset DEF GotReset
    <2>4. CASE Disconnect(c)
      BY <2>4, HoldingReset DEF Disconnect, destroy
    <2> QED  BY <1>3, <2>1, <2>2, <2>3, <2>4 DEF Kernel
  <1>4. CASE TakeWrite
    BY <1>4, HoldingTake
  <1>5. CASE SendEvent
    BY <1>1, <1>5 DEF SendEvent, queueVars
  <1>6. CASE ReadEvent
    <2>1. UNCHANGED <<chanWrite, writeQueue>> /\ at[Reader] = "idle"
      BY <1>6 DEF ReadEvent, queueVars
    <2>2. \/ UNCHANGED <<at, to>>
          \/ \E p \in {"checked", "closing"} : \E c :
               at' = [at EXCEPT ![Reader] = p] /\ to' = [to EXCEPT ![Reader] = c]
      BY <1>6 DEF ReadEvent, Write
    <2>3. \A g \in Goroutine : /\ at'[g] = "waiting" <=> at[g] = "waiting"
                               /\ to'[g] = to[g] \/ at[g] # "waiting"
      BY <1>t, <2>1, <2>2
    <2>4. to' \in [Goroutine -> Channel]
      BY <1>0 DEF TypeOK
    <2> QED  BY <2>1, <2>3, <2>4, HoldingStays
  <1>7. ASSUME NEW g \in Goroutine, Enqueue(g)
        PROVE  Holding'
    BY <1>7, HoldingEnqueue
  <1>8. ASSUME NEW g \in Goroutine, Function(g)
        PROVE  Holding'
    <2>1. ASSUME NEW p \in {"idle", "closed"}, at[g] \in {"closing", "closed"},
                 at' = [at EXCEPT ![g] = p], UNCHANGED <<chanWrite, writeQueue, to>>
          PROVE  Holding'
      <3>1. \A h \in Goroutine : at'[h] = "waiting" <=> at[h] = "waiting"
        BY <1>t, <2>1
      <3> QED  BY <1>t, <2>1, <3>1, HoldingStays
    <2>2. CASE CloseReturns(g)
      BY <2>1, <2>2 DEF CloseReturns, queueVars
    <2>3. CASE CloseFunction(g) /\ destroy(to[g], {g})
      <3>1. to[g] \in Channel /\ at[g] = "closing" /\ UNCHANGED <<chanWrite, to>>
        BY <1>t, <2>3 DEF CloseFunction
      <3> QED  BY <2>3, <3>1, HoldingReset DEF destroy
    <2>4. CASE CloseFunction(g) /\ ~destroy(to[g], {g})
      BY <2>1, <2>4 DEF CloseFunction, queueVars
    <2> QED  BY <1>8, <2>2, <2>3, <2>4 DEF Function
  <1>9. ASSUME NEW w \in Writer, NEW c \in Channel,
               UserWrite(w, c) \/ UserClose(w, c)
        PROVE  Holding'
    <2>1. /\ w \in Goroutine /\ at[w] = "idle"
          /\ UNCHANGED <<chanWrite, writeQueue>>
          /\ to' = [to EXCEPT ![w] = c]
          /\ \E p \in {"checked", "closing"} : at' = [at EXCEPT ![w] = p]
      BY <1>9 DEF UserWrite, UserClose, Write, Goroutine, queueVars
    <2>2. \A g \in Goroutine : /\ at'[g] = "waiting" <=> at[g] = "waiting"
                               /\ to'[g] = to[g] \/ at[g] # "waiting"
      BY <1>t, <2>1
    <2>3. to' \in [Goroutine -> Channel]
      BY <1>0 DEF TypeOK
    <2> QED  BY <2>1, <2>2, <2>3, HoldingStays
  <1> QED
    BY <1>2, <1>3, <1>4, <1>5, <1>6, <1>7, <1>8, <1>9 DEF Next

\* What is held once is counted once.
LEMMA HoldingCounts == TypeOK /\ Holding => AnsweredOnce
  <1> SUFFICES ASSUME TypeOK, Holding, NEW g \in Goroutine
               PROVE  Held(g) = IF at[g] = "waiting" THEN 1 ELSE 0
    BY DEF AnsweredOnce
  <1> DEFINE A == {i \in DOMAIN chanWrite : chanWrite[i] = g}
             P == UNION {{<<c, i>> : i \in DOMAIN writeQueue[c]} : c \in Channel}
             B == {x \in P : writeQueue[x[1]][x[2]] = g}
             q == writeQueue[to[g]]
  <1>1. to[g] \in Channel
    BY DEF TypeOK
  <1>2. Cardinality(A) = IF In(g, chanWrite) THEN 1 ELSE 0
    <2>1. CASE In(g, chanWrite)
      <3>1. PICK i \in DOMAIN chanWrite : chanWrite[i] = g
        BY <2>1 DEF In
      <3>2. A = {i}
        BY <3>1 DEF Holding, Once
      <3> QED  BY <2>1, <3>2, FS_Singleton
    <2>2. CASE ~In(g, chanWrite)
      <3>1. A = {}
        BY <2>2 DEF In
      <3> QED  BY <2>2, <3>1, FS_EmptySet
    <2> QED  BY <2>1, <2>2
  <1>3. ASSUME NEW x \in B
        PROVE  \E i \in DOMAIN q : x = <<to[g], i>> /\ q[i] = g
    <2>1. \E c \in Channel : \E i \in DOMAIN writeQueue[c] : x = <<c, i>>
      <3>1. x \in P
        OBVIOUS
      <3>2. PICK s \in {{<<d, k>> : k \in DOMAIN writeQueue[d]} : d \in Channel} : x \in s
        BY <3>1, Zenon
      <3>3. PICK d \in Channel : s = {<<d, k>> : k \in DOMAIN writeQueue[d]}
        BY <3>2, Zenon
      <3> QED  BY <3>2, <3>3, Zenon
    <2>2. PICK c \in Channel : \E i \in DOMAIN writeQueue[c] : x = <<c, i>>
      BY <2>1
    <2>3. PICK i \in DOMAIN writeQueue[c] : x = <<c, i>>
      BY <2>2
    <2>4. x[1] = c /\ x[2] = i
      BY <2>3
    <2>5. writeQueue[c][i] = g
      BY <2>4
    <2>6. to[g] = c
      BY <2>5 DEF Holding, In
    <2> QED  BY <2>3, <2>5, <2>6
  <1>4. ASSUME NEW i \in DOMAIN q, q[i] = g
        PROVE  <<to[g], i>> \in B
    <2>1. <<to[g], i>> \in P
      BY <1>1
    <2>2. <<to[g], i>>[1] = to[g] /\ <<to[g], i>>[2] = i
      OBVIOUS
    <2> QED  BY <1>4, <2>1, <2>2
  <1>5. Cardinality(B) = IF In(g, q) THEN 1 ELSE 0
    <2> HIDE DEF B
    <2>1. CASE In(g, q)
      <3>1. PICK i \in DOMAIN q : q[i] = g
        BY <2>1 DEF In
      <3>2. Once(q)
        BY <1>1 DEF Holding
      <3>3. B = {<<to[g], i>>}
        <4>1. \A x \in B : x = <<to[g], i>>
          BY <1>3, <3>1, <3>2 DEF Once
        <4> QED  BY <1>4, <3>1, <4>1
      <3> QED  BY <2>1, <3>3, FS_Singleton
    <2>2. CASE ~In(g, q)
      <3>1. B = {}
        BY <1>3, <2>2 DEF In
      <3> QED  BY <2>2, <3>1, FS_EmptySet
    <2> QED  BY <2>1, <2>2
  <1>6. Held(g) = Cardinality(A) + Cardinality(B)
    BY DEF Held
  <1>7. /\ ~(In(g, chanWrite) /\ In(g, q))
        /\ at[g] = "waiting" <=> In(g, chanWrite) \/ In(g, q)
    BY <1>1 DEF Holding
  <1> HIDE DEF A, B, q
  <1> QED  BY <1>2, <1>5, <1>6, <1>7

\* Every caller of Write waits for exactly one answer, and none comes for a caller
\* that does not wait, for any number of goroutines and channels.
THEOREM AnsweredOnceHolds == Spec => []AnsweredOnce
  <1>1. Init => Holding
    <2> SUFFICES ASSUME Init PROVE Holding
      OBVIOUS
    <2>1. /\ chanWrite = <<>> /\ \A c \in Channel : writeQueue[c] = <<>>
          /\ \A g \in Goroutine : at[g] = "idle" /\ to[g] \in Channel
      BY KernelAssumption DEF Init
    <2>2. Once(<<>>) /\ \A g : ~In(g, <<>>)
      BY DEF Once, In
    <2> QED  BY <2>1, <2>2 DEF Holding
  <1> QED
    BY <1>1, HoldingNext, HoldingCounts, TypeInit, TypeNext, PTL DEF Spec
==============================================================================
