------------------------------ MODULE PeerProofs ------------------------------
(***************************************************************************)
(* Theorems about PeerArp, for any routes and names and every value of the *)
(* bounds; and about the large commands that peers send in parts (Split).  *)
(***************************************************************************)
EXTENDS PeerArp, Split, SequenceTheorems, FiniteSetTheorems,
        WellFoundedInduction, TLAPS

-----------------------------------------------------------------------------
(* The invariant of a host s whose peer has the own name o *)

IsOpen(s, t) == s.chan[t[1]] = t[2]

\* Channel t is open and was connected, so that its end is an event, or an event
\* after the i-th one tells that the channel of its route has ended.
Armed(s, t, i) ==
    IF IsOpen(s, t) THEN s.heard[t[1]]
    ELSE \E j \in DOMAIN s.events : /\ j > i
                                    /\ s.events[j].type = "Disconnected"
                                    /\ s.events[j].tcd[1] = t[1]

Numbered(s, t) == t[2] <= s.created[t[1]]

\* Channels are numbered: one that has ended never opens again.
NumbersOK(s) ==
    /\ \A r \in Route : s.chan[r] <= s.created[r]
    /\ \A n \in Name : s.arp[n] # NoTcd => Numbered(s, s.arp[n])
    /\ \A i \in DOMAIN s.events : Numbered(s, s.events[i].tcd)

\* The command of an event may put its channel into the table.
EventsOK(s) ==
    \A i \in DOMAIN s.events :
        s.events[i].type = "Data" /\ s.events[i].cmd # "DISCONNECTED"
            => Armed(s, s.events[i].tcd, i)

\* Without new names there is one entry at most, that of the peer.
NamesOK(s, o) ==
    MayRename \/ /\ \A n \in Name : s.arp[n] # NoTcd => n = o
                 /\ \A i \in DOMAIN s.events :
                       s.events[i].type = "Data" => s.events[i].from = o

\* Only deleteAll sends datagrams that are not trudp.
SentOK(p, o) ==
    /\ p.type \in {"DATA", "RAW"} => p.from = o \/ MayRename
    /\ p.type = "RAW" => p.cmd = "DISCONNECTED"

OutOK(s) ==
    \A r \in Route : \A i \in DOMAIN s.out[r] : SentOK(s.out[r][i], s.name)

HostOK(s, o) == /\ s \in HostState
                /\ NumbersOK(s) /\ EventsOK(s) /\ NamesOK(s, o) /\ OutOK(s)

\* An entry of the table is armed.
EntriesOK(s) ==
    MayRename \/ \A n \in Name : s.arp[n] # NoTcd => Armed(s, s.arp[n], 0)

PeerInv ==
    /\ asked \in [Host -> SUBSET Route]
    /\ watched \in [Host -> SUBSET Tcd]
    /\ told \in [Host -> [Route -> 0 .. MaxTold]]
    /\ restarts \in 0 .. MaxRestart
    /\ host \in [Host -> HostState]
    /\ \A h \in Host : /\ host[h].name = FirstName[h] \/ MayRename
                       /\ HostOK(host[h], FirstName[Peer(h)])
                       /\ EntriesOK(host[h])

-----------------------------------------------------------------------------
(* Facts *)

\* There are two hosts, each the peer of the other.
LEMMA PeerFacts ==
    ASSUME NEW h \in Host
    PROVE  /\ Peer(h) \in Host /\ Peer(h) # h /\ Peer(Peer(h)) = h
           /\ \A g \in Host : g = h \/ g = Peer(h)
  <1>1. PICK g : Host \ {h} = {g}
    <2>1. IsFiniteSet(Host \ {h}) /\ Cardinality(Host \ {h}) = 2 - 1
      BY PeerAssumption, FS_RemoveElement, Zenon
    <2>2. Cardinality(Host \ {h}) = 1
      BY <2>1
    <2> QED
      BY <2>1, <2>2, FS_Singleton, Zenon
  <1>2. g \in Host /\ g # h /\ \A f \in Host : f = h \/ f = g
    BY <1>1, Zenon
  <1>3. Peer(h) = g
    BY <1>2, Zenon DEF Peer
  <1>4. Peer(g) = h
    BY <1>2, Zenon DEF Peer
  <1> QED
    BY <1>2, <1>3, <1>4, Zenon

\* A channel of the table is a pair, unlike NoTcd.
LEMMA TcdFacts ==
    ASSUME NEW t \in Tcd
    PROVE  /\ t[1] \in Route /\ t[2] \in 1 .. MaxChannel /\ t[2] # 0
           /\ t = <<t[1], t[2]>> /\ t # NoTcd
  <1>1. MaxChannel \in Nat
    BY PeerAssumption
  <1>2. t[1] \in Route /\ t[2] \in 1 .. MaxChannel /\ t = <<t[1], t[2]>>
    BY DEF Tcd
  <1> QED
    BY <1>1, <1>2 DEF NoTcd

\* The fields of a host.
LEMMA HostFields ==
    ASSUME NEW s \in HostState
    PROVE  /\ s.name \in Name
           /\ s.chan \in [Route -> 0 .. MaxChannel]
           /\ s.created \in [Route -> 0 .. MaxChannel]
           /\ s.heard \in [Route -> BOOLEAN]
           /\ s.fresh \in [Route -> BOOLEAN]
           /\ s.expect \in [Route -> BOOLEAN]
           /\ s.out \in [Route -> Seq(Packet)]
           /\ s.events \in Seq(Event)
           /\ s.arp \in [Name -> Tcd \cup {NoTcd}]
           /\ s.calling \in [Name -> Nat]
           /\ s.waits \in [Name -> Nat]
           /\ s.answered \in [Name -> Nat]
           /\ s.missed \in [Name -> BOOLEAN]
           /\ s.user \in [Name -> Nat]
           /\ MaxChannel \in Nat
  BY PeerAssumption DEF HostState

LEMMA EventFields ==
    ASSUME NEW e \in Event
    PROVE  /\ e.type \in {"Data", "Disconnected"} /\ e.cmd \in Cmd
           /\ e.from \in Name /\ e.tcd \in Tcd
  BY DEF Event

\* An event at the end of the others.
LEMMA AddedEvent ==
    ASSUME NEW s \in HostState, NEW e \in Event
    PROVE  LET q == Append(s.events, e) IN
           /\ q \in Seq(Event)
           /\ Len(q) = Len(s.events) + 1
           /\ DOMAIN q = DOMAIN s.events \cup {Len(s.events) + 1}
           /\ q[Len(s.events) + 1] = e
           /\ \A i \in DOMAIN s.events : q[i] = s.events[i] /\ i < Len(s.events) + 1
           /\ Len(s.events) \in Nat /\ DOMAIN s.events = 1 .. Len(s.events)
           /\ DOMAIN s.events \subseteq Nat
  <1> DEFINE q == Append(s.events, e)
  <1>1. s.events \in Seq(Event)
    BY HostFields
  <1>2. Len(s.events) \in Nat /\ DOMAIN s.events = 1 .. Len(s.events)
    BY <1>1, LenProperties
  <1>3. /\ q \in Seq(Event)
        /\ Len(q) = Len(s.events) + 1
        /\ \A i \in 1 .. Len(s.events) : q[i] = s.events[i]
        /\ q[Len(s.events) + 1] = e
    BY <1>1, AppendProperties
  <1>4. DOMAIN q = 1 .. Len(s.events) + 1
    BY <1>3, LenProperties
  <1> HIDE DEF q
  <1> QED
    BY <1>2, <1>3, <1>4 DEF q

-----------------------------------------------------------------------------
(* What the operators do to the invariant of a host *)

\* Two states with the same channels, events and table.
Alike(s, u) ==
    /\ u.name = s.name /\ u.chan = s.chan /\ u.created = s.created
    /\ u.heard = s.heard /\ u.events = s.events /\ u.arp = s.arp

LEMMA AlikeOK ==
    ASSUME NEW o, NEW s, NEW u, HostOK(s, o), u \in HostState, Alike(s, u), OutOK(u)
    PROVE  /\ HostOK(u, o)
           /\ \A t, i : Armed(u, t, i) <=> Armed(s, t, i)
           /\ EntriesOK(s) => EntriesOK(u)
  <1>1. \A t, i : Armed(u, t, i) <=> Armed(s, t, i)
    BY Zenon DEF Alike, Armed, IsOpen
  <1>2. NumbersOK(u)
    BY Zenon DEF HostOK, Alike, NumbersOK, Numbered
  <1>3. EventsOK(u)
    BY <1>1, Zenon DEF HostOK, Alike, EventsOK
  <1>4. NamesOK(u, o)
    BY Zenon DEF HostOK, Alike, NamesOK
  <1>5. EntriesOK(s) => EntriesOK(u)
    BY <1>1, Zenon DEF Alike, EntriesOK
  <1> QED
    BY <1>1, <1>2, <1>3, <1>4, <1>5 DEF HostOK

\* A packet at the end of what was sent on route r.
LEMMA SentPacket ==
    ASSUME NEW o, NEW s, HostOK(s, o), NEW r \in Route, NEW p \in Packet,
           SentOK(p, s.name)
    PROVE  LET out == [s.out EXCEPT ![r] = Append(@, p)] IN
           /\ out \in [Route -> Seq(Packet)]
           /\ \A k \in Route : \A i \in DOMAIN out[k] : SentOK(out[k][i], s.name)
  <1> DEFINE out == [s.out EXCEPT ![r] = Append(@, p)]
             q == Append(s.out[r], p)
  <1>1. s.out \in [Route -> Seq(Packet)] /\ s.out[r] \in Seq(Packet)
    BY HostFields DEF HostOK
  <1>2. Len(s.out[r]) \in Nat /\ DOMAIN s.out[r] = 1 .. Len(s.out[r])
    BY <1>1, LenProperties
  <1>3. /\ q \in Seq(Packet)
        /\ Len(q) = Len(s.out[r]) + 1
        /\ \A i \in 1 .. Len(s.out[r]) : q[i] = s.out[r][i]
        /\ q[Len(s.out[r]) + 1] = p
    BY <1>1, AppendProperties
  <1>4. DOMAIN q = 1 .. Len(s.out[r]) + 1
    BY <1>3, LenProperties
  <1>5. out = [s.out EXCEPT ![r] = q]
    OBVIOUS
  <1> HIDE DEF q, out
  <1>6. out[r] = q /\ \A k \in Route : k # r => out[k] = s.out[k]
    BY <1>1, <1>5
  <1>7. \A i \in DOMAIN q : SentOK(q[i], s.name)
    BY <1>2, <1>3, <1>4 DEF HostOK, OutOK
  <1>8. \A k \in Route : \A i \in DOMAIN out[k] : SentOK(out[k][i], s.name)
    BY <1>6, <1>7 DEF HostOK, OutOK
  <1>9. out \in [Route -> Seq(Packet)]
    BY <1>1, <1>3, <1>5
  <1> QED
    BY <1>8, <1>9 DEF out

LEMMA SendToTcdOK ==
    ASSUME NEW o, NEW s, HostOK(s, o), NEW t \in Tcd, NEW cmd \in Cmd
    PROVE  LET u == sendToTcd(s, t, cmd) IN
           /\ HostOK(u, o)
           /\ Alike(s, u) /\ u.waits = s.waits /\ u.answered = s.answered
           /\ u.user = s.user
           /\ \A k, i : Armed(u, k, i) <=> Armed(s, k, i)
           /\ EntriesOK(s) => EntriesOK(u)
  <1> DEFINE u == sendToTcd(s, t, cmd)
             r == t[1]
             p == [type |-> "DATA", cmd |-> cmd, from |-> s.name,
                   first |-> s.fresh[r]]
             out == [s.out EXCEPT ![r] = Append(@, p)]
  <1>1. s \in HostState /\ r \in Route
    BY TcdFacts DEF HostOK
  <1>2. CASE s.chan[r] # t[2]
    BY <1>1, <1>2, AlikeOK DEF sendToTcd, HostOK, Alike
  <1>3. CASE s.chan[r] = t[2]
    <2>1. p \in Packet /\ SentOK(p, s.name)
      BY <1>1, HostFields DEF Packet, SentOK
    <2>2. /\ out \in [Route -> Seq(Packet)]
          /\ \A k \in Route : \A i \in DOMAIN out[k] : SentOK(out[k][i], s.name)
      BY <1>1, <2>1, SentPacket
    <2>3. u = [s EXCEPT !.out = out, !.fresh = [s.fresh EXCEPT ![r] = FALSE]]
      BY <1>3, Zenon DEF sendToTcd
    <2> HIDE DEF u, out, p
    <2>4. [s.fresh EXCEPT ![r] = FALSE] \in [Route -> BOOLEAN]
      BY <1>1, HostFields
    <2>5. u \in HostState
      BY <1>1, <2>2, <2>3, <2>4 DEF HostState
    <2>6. Alike(s, u) /\ u.waits = s.waits /\ u.answered = s.answered /\ u.user = s.user
          /\ u.out = out
      BY <1>1, <2>3 DEF Alike, HostState
    <2>7. OutOK(u)
      BY <2>2, <2>6 DEF OutOK, Alike
    <2> QED
      BY <2>5, <2>6, <2>7, AlikeOK DEF u
  <1> QED
    BY <1>2, <1>3

LEMMA NewChannelOK ==
    ASSUME NEW o, NEW s, HostOK(s, o), NEW r \in Route,
           s.chan[r] # 0 \/ s.created[r] < MaxChannel
    PROVE  LET u == newChannelData(s, r) IN
           /\ HostOK(u, o)
           /\ u.chan[r] # 0 /\ <<r, u.chan[r]>> \in Tcd
           /\ s.chan[r] # 0 => u = s
           /\ u.name = s.name /\ u.arp = s.arp /\ u.out = s.out
           /\ EntriesOK(s) => EntriesOK(u)
  <1> DEFINE u == newChannelData(s, r)
             n == s.created[r] + 1
  <1>1. s \in HostState
    BY DEF HostOK
  <1>2. CASE s.chan[r] # 0
    <2>1. u = s
      BY <1>2 DEF newChannelData
    <2>2. <<r, s.chan[r]>> \in Tcd
      BY <1>1, <1>2, HostFields DEF Tcd
    <2> QED
      BY <1>2, <2>1, <2>2
  <1>3. CASE s.chan[r] = 0
    <2>1. n \in 1 .. MaxChannel /\ s.created[r] \in Nat /\ n > s.created[r] /\ n # 0
      BY <1>1, <1>3, HostFields
    <2>2. u = [s EXCEPT !.chan = [s.chan EXCEPT ![r] = n],
                        !.created = [s.created EXCEPT ![r] = n],
                        !.heard = [s.heard EXCEPT ![r] = FALSE],
                        !.fresh = [s.fresh EXCEPT ![r] = TRUE],
                        !.expect = [s.expect EXCEPT ![r] = TRUE]]
      BY <1>3 DEF newChannelData
    <2> HIDE DEF u, n
    <2>3. /\ u.name = s.name /\ u.out = s.out /\ u.events = s.events
          /\ u.arp = s.arp
          /\ u.chan = [s.chan EXCEPT ![r] = n]
          /\ u.created = [s.created EXCEPT ![r] = n]
          /\ u.heard = [s.heard EXCEPT ![r] = FALSE]
      BY <1>1, <2>2 DEF HostState
    <2>4. u \in HostState
      <3>1. /\ [s.chan EXCEPT ![r] = n] \in [Route -> 0 .. MaxChannel]
            /\ [s.created EXCEPT ![r] = n] \in [Route -> 0 .. MaxChannel]
            /\ [s.heard EXCEPT ![r] = FALSE] \in [Route -> BOOLEAN]
            /\ [s.fresh EXCEPT ![r] = TRUE] \in [Route -> BOOLEAN]
            /\ [s.expect EXCEPT ![r] = TRUE] \in [Route -> BOOLEAN]
        BY <1>1, <2>1, HostFields
      <3> QED
        BY <1>1, <2>2, <3>1 DEF HostState
    <2>5. /\ u.chan[r] = n /\ u.created[r] = n
          /\ \A k \in Route : k # r => /\ u.chan[k] = s.chan[k]
                                       /\ u.created[k] = s.created[k]
                                       /\ u.heard[k] = s.heard[k]
      BY <1>1, <2>3, HostFields
    <2>6. \A t \in Tcd : Numbered(s, t) =>
             /\ Numbered(u, t)
             /\ \A i : Armed(s, t, i) => Armed(u, t, i)
      <3> SUFFICES ASSUME NEW t \in Tcd, Numbered(s, t)
                   PROVE  /\ Numbered(u, t)
                          /\ \A i : Armed(s, t, i) => Armed(u, t, i)
        OBVIOUS
      <3>1. t[1] \in Route /\ t[2] \in 1 .. MaxChannel /\ t[2] # 0 /\ MaxChannel \in Nat
        BY TcdFacts, PeerAssumption
      <3>2. Numbered(u, t)
        BY <2>1, <2>5, <3>1 DEF Numbered
      <3>3. CASE t[1] # r
        <4>1. u.chan[t[1]] = s.chan[t[1]] /\ u.heard[t[1]] = s.heard[t[1]]
          BY <2>5, <3>1, <3>3
        <4>2. IsOpen(u, t) <=> IsOpen(s, t)
          BY <4>1, Zenon DEF IsOpen
        <4>3. u.events = s.events
          BY <2>3
        <4>4. \A i : Armed(u, t, i) <=> Armed(s, t, i)
          BY <4>1, <4>2, <4>3 DEF Armed
        <4> QED
          BY <3>2, <4>4, Zenon
      <3>4. CASE t[1] = r
        <4>1. t[2] # n
          BY <2>1, <3>1, <3>4 DEF Numbered
        <4>2. ~IsOpen(s, t) /\ ~IsOpen(u, t)
          BY <1>3, <2>5, <3>1, <3>4, <4>1, Zenon DEF IsOpen
        <4> QED
          BY <2>3, <3>2, <4>2, Zenon DEF Armed
      <3> QED
        BY <3>3, <3>4
    <2>7. /\ \A k \in Name : s.arp[k] # NoTcd => s.arp[k] \in Tcd /\ Numbered(s, s.arp[k])
          /\ \A i \in DOMAIN s.events : s.events[i].tcd \in Tcd
                                        /\ Numbered(s, s.events[i].tcd)
      BY <1>1, HostFields, EventFields DEF HostOK, NumbersOK
    <2>8. NumbersOK(u)
      <3>1. \A k \in Route : u.chan[k] <= u.created[k]
        BY <2>1, <2>5 DEF HostOK, NumbersOK
      <3> QED
        BY <2>3, <2>6, <2>7, <3>1, Zenon DEF NumbersOK
    <2>9. EventsOK(u)
      BY <2>3, <2>6, <2>7, Zenon DEF HostOK, EventsOK
    <2>10. NamesOK(u, o) /\ OutOK(u)
      BY <2>3, Zenon DEF HostOK, NamesOK, OutOK
    <2>11. EntriesOK(s) => EntriesOK(u)
      BY <2>3, <2>6, <2>7, Zenon DEF EntriesOK
    <2>12. <<r, u.chan[r]>> \in Tcd /\ u.chan[r] # 0
      BY <2>1, <2>5 DEF Tcd
    <2> QED
      BY <1>3, <2>3, <2>4, <2>8, <2>9, <2>10, <2>11, <2>12 DEF HostOK, u
  <1> QED
    BY <1>2, <1>3

\* The end of a channel is told at the end of the events if it ever connected, which
\* an armed one has.
LEMMA CloseOK ==
    ASSUME NEW o, NEW s, HostOK(s, o), NEW t \in Tcd
    PROVE  LET u == Close(s, t) IN
           /\ HostOK(u, o)
           /\ u.name = s.name /\ u.arp = s.arp /\ u.out = s.out
           /\ u.waits = s.waits /\ u.answered = s.answered /\ u.user = s.user
           /\ EntriesOK(s) => EntriesOK(u)
  <1> DEFINE u == Close(s, t)
             r == t[1]
             e == [type |-> "Disconnected", cmd |-> "NONE", from |-> s.name, tcd |-> t]
             events == IF s.heard[r] THEN Append(s.events, e) ELSE s.events
  <1>1. s \in HostState /\ r \in Route /\ t[2] # 0 /\ t[2] \in Nat
    BY TcdFacts, PeerAssumption DEF HostOK
  <1>2. CASE s.chan[r] # t[2]
    BY <1>2 DEF Close
  <1>3. CASE s.chan[r] = t[2]
    <2>1. u = [s EXCEPT !.chan = [s.chan EXCEPT ![r] = 0], !.events = events]
      BY <1>3 DEF Close
    <2>2. e \in Event /\ e.type = "Disconnected" /\ e.tcd = t
      BY <1>1, HostFields DEF Event, Cmd
    <2> HIDE DEF e
    <2>3. /\ events \in Seq(Event)
          /\ \A i \in DOMAIN s.events : i \in DOMAIN events /\ events[i] = s.events[i]
          /\ s.heard[r] => \E j \in DOMAIN events :
                              /\ events[j] = e
                              /\ \A i \in 0 .. Len(s.events) : j > i
          /\ \A j \in DOMAIN events : j \in DOMAIN s.events \/ events[j] = e
          /\ DOMAIN s.events = 1 .. Len(s.events)
      <3>1. CASE s.heard[r]
        BY <1>1, <2>2, <3>1, AddedEvent
      <3>2. CASE ~s.heard[r]
        BY <1>1, <3>2, HostFields, LenProperties
      <3> QED
        BY <3>1, <3>2
    <2> HIDE DEF u, events
    <2>4. /\ u.name = s.name /\ u.out = s.out /\ u.events = events
          /\ u.arp = s.arp /\ u.created = s.created /\ u.heard = s.heard
          /\ u.waits = s.waits /\ u.answered = s.answered /\ u.user = s.user
          /\ u.chan = [s.chan EXCEPT ![r] = 0]
      BY <1>1, <2>1 DEF HostState
    <2>5. u \in HostState
      <3>1. [s.chan EXCEPT ![r] = 0] \in [Route -> 0 .. MaxChannel]
        BY <1>1, HostFields
      <3> QED
        BY <1>1, <2>1, <2>3, <3>1 DEF HostState
    <2>6. u.chan[r] = 0 /\ \A k \in Route : k # r => u.chan[k] = s.chan[k]
      BY <1>1, <2>4, HostFields
    <2>7. ASSUME NEW k \in Tcd, NEW i \in 0 .. Len(s.events), Armed(s, k, i)
          PROVE  Armed(u, k, i)
      <3>1. k[1] \in Route /\ k[2] # 0
        BY TcdFacts
      <3>2. CASE ~IsOpen(s, k)
        <4>1. ~IsOpen(u, k)
          BY <2>6, <3>1, <3>2, Zenon DEF IsOpen
        <4>2. PICK j \in DOMAIN s.events : /\ j > i
                                           /\ s.events[j].type = "Disconnected"
                                           /\ s.events[j].tcd[1] = k[1]
          BY <2>7, <3>2, Zenon DEF Armed
        <4> QED
          BY <2>3, <2>4, <4>1, <4>2, Zenon DEF Armed
      <3>3. CASE IsOpen(s, k) /\ k[1] # r
        BY <2>4, <2>6, <2>7, <3>1, <3>3, Zenon DEF IsOpen, Armed
      <3>4. CASE IsOpen(s, k) /\ k[1] = r
        <4>1. s.heard[r] /\ ~IsOpen(u, k)
          BY <2>6, <2>7, <3>1, <3>4, Zenon DEF IsOpen, Armed
        <4>2. PICK j \in DOMAIN events : events[j] = e /\ j > i
          BY <2>3, <4>1, Zenon
        <4> QED
          BY <2>2, <2>4, <3>4, <4>1, <4>2, Zenon DEF Armed
      <3> QED
        BY <3>2, <3>3, <3>4
    <2>8. NumbersOK(u)
      <3>1. \A k \in Route : u.chan[k] <= u.created[k]
        BY <1>1, <2>4, <2>6, HostFields DEF HostOK, NumbersOK
      <3>2. Numbered(u, t)
        BY <1>1, <1>3, <2>4 DEF HostOK, NumbersOK, Numbered
      <3>3. \A j \in DOMAIN u.events : Numbered(u, u.events[j].tcd)
        BY <2>2, <2>3, <2>4, <3>2, Zenon DEF HostOK, NumbersOK, Numbered
      <3>4. \A n \in Name : u.arp[n] # NoTcd => Numbered(u, u.arp[n])
        BY <2>4, Zenon DEF HostOK, NumbersOK, Numbered
      <3> QED
        BY <3>1, <3>3, <3>4 DEF NumbersOK
    <2>9. EventsOK(u)
      <3> SUFFICES ASSUME NEW i \in DOMAIN u.events, u.events[i].type = "Data",
                          u.events[i].cmd # "DISCONNECTED"
                   PROVE  Armed(u, u.events[i].tcd, i)
        BY DEF EventsOK
      <3>1. i \in DOMAIN s.events /\ u.events[i] = s.events[i]
        BY <2>2, <2>3, <2>4
      <3>2. i \in 0 .. Len(s.events) /\ s.events[i].tcd \in Tcd
        BY <1>1, <2>3, <3>1, HostFields, EventFields
      <3>3. Armed(s, s.events[i].tcd, i)
        BY <3>1 DEF HostOK, EventsOK
      <3> QED
        BY <2>7, <3>1, <3>2, <3>3
    <2>10. NamesOK(u, o)
      BY <2>2, <2>3, <2>4 DEF HostOK, NamesOK
    <2>11. OutOK(u)
      BY <2>4, Zenon DEF HostOK, OutOK
    <2>12. EntriesOK(s) => EntriesOK(u)
      <3>1. 0 \in 0 .. Len(s.events)
        BY <1>1, HostFields, LenProperties
      <3>2. \A n \in Name : s.arp[n] # NoTcd => s.arp[n] \in Tcd
        BY <1>1, HostFields
      <3> QED
        BY <2>4, <2>7, <3>1, <3>2, Zenon DEF EntriesOK
    <2> QED
      BY <2>4, <2>5, <2>8, <2>9, <2>10, <2>11, <2>12 DEF HostOK, u
  <1> QED
    BY <1>2, <1>3

LEMMA ResetOK ==
    ASSUME NEW o, NEW s, HostOK(s, o), NEW r \in Route
    PROVE  LET u == reset(s, r) IN
           /\ HostOK(u, o) /\ Alike(s, u)
           /\ EntriesOK(s) => EntriesOK(u)
  <1> DEFINE u == reset(s, r)
             out == [s.out EXCEPT ![r] = <<>>]
  <1>1. s \in HostState
    BY DEF HostOK
  <1>2. u = [s EXCEPT !.fresh = [s.fresh EXCEPT ![r] = TRUE],
                      !.expect = [s.expect EXCEPT ![r] = TRUE], !.out = out]
    BY DEF reset
  <1> HIDE DEF u
  <1>3. Alike(s, u) /\ u.out = out
    BY <1>1, <1>2 DEF Alike, HostState
  <1>4. /\ out \in [Route -> Seq(Packet)]
        /\ [s.fresh EXCEPT ![r] = TRUE] \in [Route -> BOOLEAN]
        /\ [s.expect EXCEPT ![r] = TRUE] \in [Route -> BOOLEAN]
    BY <1>1, HostFields
  <1>5. out[r] = <<>> /\ \A k \in Route : k # r => out[k] = s.out[k]
    BY <1>1, HostFields
  <1> HIDE DEF out
  <1>6. u \in HostState
    BY <1>1, <1>2, <1>4 DEF HostState
  <1>7. OutOK(u)
    <2>1. DOMAIN <<>> = {}
      OBVIOUS
    <2> QED
      BY <1>3, <1>5, <2>1 DEF HostOK, OutOK, Alike
  <1> QED
    BY <1>3, <1>6, <1>7, AlikeOK DEF u

\* The channel of a packet is connected by it, and an event for it is added.
LEMMA AddData ==
    ASSUME NEW o, NEW s, HostOK(s, o), NEW r \in Route, NEW e \in Event, NEW u,
           u \in HostState,
           u.name = s.name, u.chan = s.chan, u.created = s.created, u.arp = s.arp,
           u.out = s.out, u.events = Append(s.events, e),
           \A k \in Route : u.heard[k] = (s.heard[k] \/ (k = r /\ u.heard[r])),
           e.type = "Data", e.tcd = <<r, s.chan[r]>>, e.from = o \/ MayRename,
           e.cmd # "DISCONNECTED" => u.heard[r] = TRUE
    PROVE  HostOK(u, o) /\ (EntriesOK(s) => EntriesOK(u))
  <1>1. s \in HostState
    BY DEF HostOK
  <1> DEFINE last == Len(s.events) + 1
  <1>2. /\ DOMAIN u.events = DOMAIN s.events \cup {last}
        /\ u.events[last] = e
        /\ \A i \in DOMAIN s.events : u.events[i] = s.events[i] /\ i < last
        /\ DOMAIN s.events = 1 .. Len(s.events)
        /\ Len(s.events) \in Nat
    BY <1>1, AddedEvent
  <1> HIDE DEF last
  <1>3. ASSUME NEW k \in Tcd, NEW i, Armed(s, k, i)
        PROVE  Armed(u, k, i)
    <2>1. k[1] \in Route
      BY TcdFacts
    <2>2. IsOpen(u, k) <=> IsOpen(s, k)
      BY DEF IsOpen
    <2>3. CASE IsOpen(s, k)
      <3>1. s.heard[k[1]]
        BY <1>3, <2>3 DEF Armed
      <3>2. u.heard[k[1]]
        BY <2>1, <3>1
      <3> QED
        BY <2>2, <2>3, <3>2 DEF Armed
    <2>4. CASE ~IsOpen(s, k)
      <3>1. PICK j \in DOMAIN s.events : /\ j > i
                                         /\ s.events[j].type = "Disconnected"
                                         /\ s.events[j].tcd[1] = k[1]
        BY <1>3, <2>4, Zenon DEF Armed
      <3>2. j \in DOMAIN u.events /\ u.events[j] = s.events[j]
        BY <1>2, <3>1, Zenon
      <3>3. ~IsOpen(u, k)
        BY <2>2, <2>4
      <3> QED
        BY <3>1, <3>2, <3>3, Zenon DEF Armed
    <2> QED
      BY <2>3, <2>4
  <1>4. NumbersOK(u)
    <2>1. Numbered(u, e.tcd)
      BY DEF HostOK, NumbersOK, Numbered
    <2>2. \A j \in DOMAIN u.events : Numbered(u, u.events[j].tcd)
      BY <1>2, <2>1, Zenon DEF HostOK, NumbersOK, Numbered
    <2>3. \A n \in Name : u.arp[n] # NoTcd => Numbered(u, u.arp[n])
      BY Zenon DEF HostOK, NumbersOK, Numbered
    <2>4. \A k \in Route : u.chan[k] <= u.created[k]
      BY DEF HostOK, NumbersOK
    <2> QED
      BY <2>2, <2>3, <2>4 DEF NumbersOK
  <1>5. EventsOK(u)
    <2> SUFFICES ASSUME NEW i \in DOMAIN u.events, u.events[i].type = "Data",
                        u.events[i].cmd # "DISCONNECTED"
                 PROVE  Armed(u, u.events[i].tcd, i)
      BY DEF EventsOK
    <2>1. CASE i = last
      <3>1. e.tcd[1] = r /\ e.tcd[2] = s.chan[r]
        OBVIOUS
      <3>2. IsOpen(u, e.tcd) /\ u.heard[e.tcd[1]]
        BY <1>2, <2>1, <3>1 DEF IsOpen
      <3> QED
        BY <1>2, <2>1, <3>2 DEF Armed
    <2>2. CASE i # last
      <3>1. i \in DOMAIN s.events /\ u.events[i] = s.events[i]
        BY <1>2, <2>2
      <3>2. s.events[i].tcd \in Tcd
        BY <1>1, <1>2, <3>1, HostFields, EventFields
      <3> QED
        BY <1>3, <3>1, <3>2 DEF HostOK, EventsOK
    <2> QED
      BY <2>1, <2>2
  <1>6. NamesOK(u, o)
    BY <1>2, Zenon DEF HostOK, NamesOK
  <1>7. OutOK(u)
    BY Zenon DEF HostOK, OutOK
  <1>8. EntriesOK(s) => EntriesOK(u)
    <2>1. \A n \in Name : s.arp[n] # NoTcd => s.arp[n] \in Tcd
      BY <1>1, HostFields
    <2> QED
      BY <1>3, <2>1, Zenon DEF EntriesOK
  <1> QED
    BY <1>4, <1>5, <1>6, <1>7, <1>8 DEF HostOK

LEMMA ReceivedOK ==
    ASSUME NEW o, NEW s, HostOK(s, o), NEW r \in Route, NEW p \in Packet,
           <<r, s.chan[r]>> \in Tcd, p.from = o \/ MayRename
    PROVE  LET u == Received(s, r, p) IN
           HostOK(u, o) /\ u.name = s.name /\ (EntriesOK(s) => EntriesOK(u))
  <1> DEFINE u == Received(s, r, p)
             e == [type |-> "Data", cmd |-> p.cmd, from |-> p.from,
                   tcd |-> <<r, s.chan[r]>>]
             heard == [s.heard EXCEPT ![r] = TRUE]
             expect == [s.expect EXCEPT ![r] = FALSE]
             events == Append(s.events, e)
  <1>1. s \in HostState
    BY DEF HostOK
  <1>2. /\ e \in Event /\ e.type = "Data" /\ e.from = p.from
        /\ e.tcd = <<r, s.chan[r]>>
    BY DEF Event, Packet
  <1>3. events \in Seq(Event)
    BY <1>1, <1>2, AddedEvent
  <1>4. u = [s EXCEPT !.heard = heard, !.expect = expect, !.events = events]
    BY DEF Received
  <1>5. heard \in [Route -> BOOLEAN] /\ expect \in [Route -> BOOLEAN]
    BY <1>1, HostFields
  <1>6. \A k \in Route : heard[k] = (s.heard[k] \/ (k = r /\ heard[r])) /\ heard[r] = TRUE
    BY <1>1, HostFields
  <1> HIDE DEF u, events, heard, expect
  <1>7. /\ u.name = s.name /\ u.chan = s.chan /\ u.created = s.created
        /\ u.arp = s.arp /\ u.out = s.out /\ u.events = events /\ u.heard = heard
    BY <1>1, <1>4 DEF HostState
  <1>8. u \in HostState
    BY <1>1, <1>3, <1>4, <1>5 DEF HostState
  <1> HIDE DEF e
  <1>9. HostOK(u, o) /\ (EntriesOK(s) => EntriesOK(u))
    <2>1. u.events = Append(s.events, e)
      BY <1>7 DEF events
    <2>2. \A k \in Route : u.heard[k] = (s.heard[k] \/ (k = r /\ u.heard[r]))
      BY <1>6, <1>7
    <2>3. u.heard[r] = TRUE
      BY <1>6, <1>7
    <2>4. e.from = o \/ MayRename
      BY <1>2
    <2> QED
      BY <1>2, <1>7, <1>8, <2>1, <2>2, <2>3, <2>4, AddData
  <1> QED
    BY <1>7, <1>9 DEF u

\* A datagram that is not trudp.
LEMMA RawOK ==
    ASSUME NEW o, NEW s, HostOK(s, o), NEW r \in Route, NEW p \in Packet,
           <<r, s.chan[r]>> \in Tcd, p.from = o \/ MayRename,
           p.cmd = "DISCONNECTED"
    PROVE  LET u == [s EXCEPT !.events = Append(@, [type |-> "Data", cmd |-> p.cmd,
                                                    from |-> p.from,
                                                    tcd |-> <<r, s.chan[r]>>])]
           IN HostOK(u, o) /\ u.name = s.name /\ (EntriesOK(s) => EntriesOK(u))
  <1> DEFINE e == [type |-> "Data", cmd |-> p.cmd, from |-> p.from,
                   tcd |-> <<r, s.chan[r]>>]
             events == Append(s.events, e)
             u == [s EXCEPT !.events = events]
  <1>1. s \in HostState
    BY DEF HostOK
  <1>2. /\ e \in Event /\ e.type = "Data" /\ e.from = p.from
        /\ e.tcd = <<r, s.chan[r]>> /\ e.cmd = "DISCONNECTED"
    BY DEF Event, Packet
  <1>3. events \in Seq(Event)
    BY <1>1, <1>2, AddedEvent
  <1> HIDE DEF events
  <1>4. /\ u.name = s.name /\ u.chan = s.chan /\ u.created = s.created
        /\ u.arp = s.arp /\ u.out = s.out /\ u.events = events /\ u.heard = s.heard
    BY <1>1 DEF HostState
  <1>5. u \in HostState
    BY <1>1, <1>3 DEF HostState
  <1> HIDE DEF e, u
  <1>6. \A k \in Route : u.heard[k] = (s.heard[k] \/ (k = r /\ u.heard[r]))
    BY <1>1, <1>4, HostFields
  <1>7. HostOK(u, o) /\ (EntriesOK(s) => EntriesOK(u))
    <2>1. u.events = Append(s.events, e)
      BY <1>4 DEF events
    <2>2. e.from = o \/ MayRename
      BY <1>2
    <2>3. e.cmd # "DISCONNECTED" => u.heard[r] = TRUE
      BY <1>2
    <2> QED
      BY <1>2, <1>4, <1>5, <1>6, <2>1, <2>2, <2>3, AddData
  <1> QED
    BY <1>4, <1>7 DEF u, events, e

\* A packet of the protocol itself.
LEMMA ControlOK ==
    ASSUME NEW o, NEW type \in {"RESET", "ACKRESET"}
    PROVE  Control(type) \in Packet /\ SentOK(Control(type), o)
  <1>1. \E n \in Name : TRUE
    <2>1. \E h : h \in Host
      BY PeerAssumption, FS_EmptySet
    <2> QED
      BY <2>1, PeerAssumption
  <1>2. (CHOOSE n \in Name : TRUE) \in Name
    BY <1>1, Zenon
  <1> QED
    BY <1>2 DEF Control, Packet, Cmd, SentOK

\* A packet of the protocol connects the channel, and may be answered.
LEMMA HeardOK ==
    ASSUME NEW o, NEW s, HostOK(s, o), NEW r \in Route, NEW q \in Seq(Packet),
           \A i \in DOMAIN q : SentOK(q[i], s.name)
    PROVE  LET u == [s EXCEPT !.heard = [s.heard EXCEPT ![r] = TRUE],
                              !.out = [s.out EXCEPT ![r] = q]]
           IN HostOK(u, o) /\ u.name = s.name /\ (EntriesOK(s) => EntriesOK(u))
  <1> DEFINE heard == [s.heard EXCEPT ![r] = TRUE]
             out == [s.out EXCEPT ![r] = q]
             u == [s EXCEPT !.heard = heard, !.out = out]
  <1>1. s \in HostState
    BY DEF HostOK
  <1>2. heard \in [Route -> BOOLEAN] /\ out \in [Route -> Seq(Packet)]
    BY <1>1, HostFields
  <1>3. /\ out[r] = q /\ heard[r] = TRUE
        /\ \A k \in Route : k # r => out[k] = s.out[k] /\ heard[k] = s.heard[k]
    BY <1>1, HostFields
  <1> HIDE DEF heard, out
  <1>4. /\ u.name = s.name /\ u.chan = s.chan /\ u.created = s.created
        /\ u.arp = s.arp /\ u.out = out /\ u.events = s.events /\ u.heard = heard
    BY <1>1 DEF HostState
  <1>5. u \in HostState
    BY <1>1, <1>2 DEF HostState
  <1> HIDE DEF u
  <1>6. ASSUME NEW k \in Tcd, NEW i, Armed(s, k, i)
        PROVE  Armed(u, k, i)
    <2>1. k[1] \in Route
      BY TcdFacts
    <2>2. (IsOpen(u, k) <=> IsOpen(s, k)) /\ (s.heard[k[1]] => u.heard[k[1]])
      BY <1>3, <1>4, <2>1 DEF IsOpen
    <2> QED
      BY <1>4, <1>6, <2>2, Zenon DEF Armed
  <1>7. NumbersOK(u)
    BY <1>4, Zenon DEF HostOK, NumbersOK, Numbered
  <1>8. EventsOK(u)
    <2>1. \A i \in DOMAIN s.events : s.events[i].tcd \in Tcd
      BY <1>1, HostFields, EventFields
    <2> QED
      BY <1>4, <1>6, <2>1, Zenon DEF HostOK, EventsOK
  <1>9. NamesOK(u, o)
    BY <1>4, Zenon DEF HostOK, NamesOK
  <1>10. OutOK(u)
    BY <1>3, <1>4, Zenon DEF HostOK, OutOK
  <1>11. EntriesOK(s) => EntriesOK(u)
    <2>1. \A n \in Name : s.arp[n] # NoTcd => s.arp[n] \in Tcd
      BY <1>1, HostFields
    <2> QED
      BY <1>4, <1>6, <2>1, Zenon DEF EntriesOK
  <1>12. HostOK(u, o) /\ u.name = s.name /\ (EntriesOK(s) => EntriesOK(u))
    BY <1>4, <1>5, <1>7, <1>8, <1>9, <1>10, <1>11 DEF HostOK
  <1> QED
    BY <1>12 DEF u, heard, out

\* processPacket: a packet arrives.
LEMMA ProcessPacketOK ==
    ASSUME NEW o, NEW old, HostOK(old, o), NEW r \in Route, NEW p \in Packet,
           SentOK(p, o),
           old.chan[r] # 0 \/ p.type # "DATA" \/ old.created[r] < MaxChannel
    PROVE  LET u == processPacket(old, r, p) IN
           HostOK(u, o) /\ u.name = old.name /\ (EntriesOK(old) => EntriesOK(u))
  <1> DEFINE s == newChannelData(old, r)
             u == processPacket(old, r, p)
             Goal(v) == /\ HostOK(v, o) /\ v.name = old.name
                        /\ EntriesOK(old) => EntriesOK(v)
  <1>1. old \in HostState /\ p.type \in {"DATA", "RESET", "ACKRESET", "RAW"}
        /\ p.first \in BOOLEAN
    BY DEF HostOK, Packet
  <1>2. CASE p.type # "DATA" /\ old.chan[r] = 0
    <2>1. u = old
      BY <1>1, <1>2 DEF processPacket
    <2> QED
      BY <2>1
  <1>3. CASE p.type = "DATA" \/ old.chan[r] # 0
    <2>1. /\ HostOK(s, o) /\ <<r, s.chan[r]>> \in Tcd
          /\ old.chan[r] # 0 => s = old
          /\ s.name = old.name
          /\ EntriesOK(old) => EntriesOK(s)
      BY <1>3, NewChannelOK
    <2>2. s.expect[r] \in BOOLEAN
      BY <2>1, HostFields DEF HostOK
    <2> DEFINE v == reset(s, r)
    <2>3. /\ HostOK(v, o) /\ v.name = s.name /\ v.chan = s.chan /\ v.heard = s.heard
          /\ EntriesOK(s) => EntriesOK(v)
      BY <2>1, ResetOK DEF Alike
    <2>4. /\ s.out[r] \in Seq(Packet) /\ v.out[r] \in Seq(Packet)
          /\ \A i \in DOMAIN s.out[r] : SentOK(s.out[r][i], s.name)
          /\ \A j \in DOMAIN v.out[r] : SentOK(v.out[r][j], v.name)
      BY <2>1, <2>3, HostFields DEF HostOK, OutOK
    <2>5. CASE p.type = "DATA" /\ p.first = s.expect[r]
      <3>1. u = Received(s, r, p)
        BY <2>5 DEF processPacket
      <3> QED
        BY <2>1, <2>5, <3>1, ReceivedOK DEF SentOK
    <2>6. CASE p.type = "DATA" /\ p.first /\ ~s.expect[r]
      <3>1. u = Received(v, r, p)
        BY <1>1, <2>2, <2>6 DEF processPacket
      <3> HIDE DEF s, u, v
      <3>2. <<r, v.chan[r]>> \in Tcd /\ (p.from = o \/ MayRename)
        BY <2>1, <2>3, <2>6 DEF SentOK
      <3>3. HostOK(u, o) /\ u.name = v.name /\ (EntriesOK(v) => EntriesOK(u))
        BY <2>3, <3>1, <3>2, ReceivedOK
      <3>4. HostOK(u, o) /\ u.name = old.name /\ (EntriesOK(old) => EntriesOK(u))
        BY <2>1, <2>3, <3>3
      <3> QED
        BY <3>4 DEF u
    <2>7. CASE p.type = "DATA" /\ ~p.first /\ s.expect[r]
      <3> DEFINE q == Append(s.out[r], Control("RESET"))
                 w == [s EXCEPT !.heard = [s.heard EXCEPT ![r] = TRUE],
                                !.out = [s.out EXCEPT ![r] = q]]
      <3>1. u = w
        BY <1>1, <2>2, <2>7 DEF processPacket
      <3>2. q \in Seq(Packet) /\ \A i \in DOMAIN q : SentOK(q[i], s.name)
        <4>1. Control("RESET") \in Packet /\ SentOK(Control("RESET"), s.name)
          BY ControlOK
        <4>2. /\ [s.out EXCEPT ![r] = q] \in [Route -> Seq(Packet)]
              /\ \A k \in Route : \A i \in DOMAIN [s.out EXCEPT ![r] = q][k] :
                    SentOK([s.out EXCEPT ![r] = q][k][i], s.name)
          BY <2>1, <4>1, SentPacket
        <4>3. [s.out EXCEPT ![r] = q][r] = q
          BY <2>1, HostFields DEF HostOK
        <4> QED
          BY <4>2, <4>3
      <3> HIDE DEF q, s, u
      <3>3. HostOK(w, o) /\ w.name = s.name /\ (EntriesOK(s) => EntriesOK(w))
        BY <2>1, <3>2, HeardOK
      <3> HIDE DEF w
      <3>4. HostOK(u, o) /\ u.name = old.name /\ (EntriesOK(old) => EntriesOK(u))
        BY <2>1, <3>1, <3>3
      <3> QED
        BY <3>4 DEF u
    <2>8. CASE p.type = "RESET" /\ old.chan[r] # 0
      <3> DEFINE q == <<Control("ACKRESET")>>
                 w == [v EXCEPT !.heard = [v.heard EXCEPT ![r] = TRUE],
                                !.out = [v.out EXCEPT ![r] = q]]
      <3>1. u = w
        BY <1>1, <2>8 DEF processPacket
      <3>2. q \in Seq(Packet) /\ \A i \in DOMAIN q : SentOK(q[i], v.name)
        BY ControlOK
      <3> HIDE DEF q, s, v, u
      <3>3. HostOK(w, o) /\ w.name = v.name /\ (EntriesOK(v) => EntriesOK(w))
        BY <2>3, <3>2, HeardOK
      <3> HIDE DEF w
      <3>4. HostOK(u, o) /\ u.name = old.name /\ (EntriesOK(old) => EntriesOK(u))
        BY <2>1, <2>3, <3>1, <3>3
      <3> QED
        BY <3>4 DEF u
    <2>9. CASE p.type = "ACKRESET" /\ old.chan[r] # 0
      <3> DEFINE w == [v EXCEPT !.heard = [v.heard EXCEPT ![r] = TRUE],
                                !.out = [v.out EXCEPT ![r] = v.out[r]]]
      <3>1. u = [v EXCEPT !.heard = [v.heard EXCEPT ![r] = TRUE]]
        BY <1>1, <2>9 DEF processPacket
      <3> HIDE DEF s, v, u
      <3>2. v \in HostState /\ v.out \in [Route -> Seq(Packet)]
        BY <2>3, HostFields DEF HostOK
      <3>3. [v.out EXCEPT ![r] = v.out[r]] = v.out
        BY <3>2
      <3>4. u = w
        BY <3>1, <3>2, <3>3 DEF HostState
      <3>5. HostOK(w, o) /\ w.name = v.name /\ (EntriesOK(v) => EntriesOK(w))
        <4>1. v.out[r] \in Seq(Packet) /\ \A i \in DOMAIN v.out[r] : SentOK(v.out[r][i], v.name)
          BY <2>4
        <4> DEFINE q == v.out[r]
        <4> HIDE DEF q
        <4>2. /\ q \in Seq(Packet)
              /\ \A i \in DOMAIN q : SentOK(q[i], v.name)
          BY <4>1 DEF q
        <4>3. LET x == [v EXCEPT !.heard = [v.heard EXCEPT ![r] = TRUE],
                                 !.out = [v.out EXCEPT ![r] = q]]
              IN HostOK(x, o) /\ x.name = v.name /\ (EntriesOK(v) => EntriesOK(x))
          BY <2>3, <4>2, HeardOK
        <4> QED
          BY <4>3 DEF q
      <3> HIDE DEF w
      <3>6. HostOK(u, o) /\ u.name = old.name /\ (EntriesOK(old) => EntriesOK(u))
        BY <2>1, <2>3, <3>4, <3>5
      <3> QED
        BY <3>6 DEF u
    <2>10. CASE p.type = "RAW" /\ old.chan[r] # 0
      <3> DEFINE w == [s EXCEPT !.events =
                          Append(@, [type |-> "Data", cmd |-> p.cmd, from |-> p.from,
                                     tcd |-> <<r, s.chan[r]>>])]
      <3>1. u = w
        BY <1>1, <2>10 DEF processPacket
      <3>2. (p.from = o \/ MayRename) /\ p.cmd = "DISCONNECTED"
        BY <2>10 DEF SentOK
      <3> HIDE DEF s, u
      <3>3. HostOK(w, o) /\ w.name = s.name /\ (EntriesOK(s) => EntriesOK(w))
        BY <2>1, <3>2, RawOK
      <3> HIDE DEF w
      <3>4. HostOK(u, o) /\ u.name = old.name /\ (EntriesOK(old) => EntriesOK(u))
        BY <2>1, <3>1, <3>3
      <3> QED
        BY <3>4 DEF u
    <2> QED
      BY <1>1, <1>3, <2>2, <2>5, <2>6, <2>7, <2>8, <2>9, <2>10
  <1> QED
    BY <1>2, <1>3

\* peerNew: a command of peer n on channel t.
LEMMA PeerNewOK ==
    ASSUME NEW o, NEW s, HostOK(s, o), NEW n \in Name, NEW t \in Tcd,
           n = o \/ MayRename, Numbered(s, t)
    PROVE  LET u == peerNew(s, n, t) IN
           /\ HostOK(u, o) /\ u.name = s.name
           /\ EntriesOK(s) /\ Armed(s, t, 0) => EntriesOK(u)
  <1> DEFINE u == peerNew(s, n, t)
  <1>1. s \in HostState
    BY DEF HostOK
  <1>2. CASE s.arp[n] # NoTcd
    <2>1. CASE s.arp[n] # t
      BY <1>2, <2>1, CloseOK DEF peerNew
    <2>2. CASE s.arp[n] = t
      BY <1>2, <2>2 DEF peerNew
    <2> QED
      BY <2>1, <2>2
  <1>3. CASE s.arp[n] = NoTcd
    <2> DEFINE arp == [s.arp EXCEPT ![n] = t]
               calling == [s.calling EXCEPT ![n] = @ + 1]
               v == [s EXCEPT !.arp = arp, !.calling = calling]
               w == sendToTcd(v, t, "NONE")
    <2>1. arp \in [Name -> Tcd \cup {NoTcd}] /\ calling \in [Name -> Nat]
      BY <1>1, HostFields
    <2>2. arp[n] = t /\ \A k \in Name : k # n => arp[k] = s.arp[k]
      BY <1>1, HostFields
    <2> HIDE DEF arp, calling
    <2>3. /\ v.name = s.name /\ v.chan = s.chan /\ v.created = s.created
          /\ v.heard = s.heard /\ v.events = s.events /\ v.out = s.out /\ v.arp = arp
      BY <1>1 DEF HostState
    <2>4. v \in HostState
      BY <1>1, <2>1 DEF HostState
    <2>5. u = sendToTcd(w, t, "HOST_INFO")
      BY <1>3 DEF peerNew, arp, calling
    <2> HIDE DEF v
    <2>6. \A k, i : Armed(v, k, i) <=> Armed(s, k, i)
      BY <2>3, Zenon DEF Armed, IsOpen
    <2>7. NumbersOK(v)
      BY <2>2, <2>3, Zenon DEF HostOK, NumbersOK, Numbered
    <2>8. EventsOK(v)
      BY <2>3, <2>6, Zenon DEF HostOK, EventsOK
    <2>9. NamesOK(v, o)
      BY <2>2, <2>3, Zenon DEF HostOK, NamesOK
    <2>10. OutOK(v)
      BY <2>3, Zenon DEF HostOK, OutOK
    <2>11. HostOK(v, o)
      BY <2>4, <2>7, <2>8, <2>9, <2>10 DEF HostOK
    <2>12. EntriesOK(s) /\ Armed(s, t, 0) => EntriesOK(v)
      BY <2>2, <2>3, <2>6, Zenon DEF EntriesOK
    <2>13. /\ HostOK(w, o) /\ w.name = v.name
           /\ EntriesOK(v) => EntriesOK(w)
      BY <2>11, SendToTcdOK DEF Cmd, Alike
    <2> HIDE DEF w, u
    <2>14. /\ HostOK(u, o) /\ u.name = w.name
           /\ EntriesOK(w) => EntriesOK(u)
      <3>1. "HOST_INFO" \in Cmd /\ HostOK(w, o)
        BY <2>13 DEF Cmd
      <3> QED
        BY <2>5, <3>1, SendToTcdOK DEF Alike
    <2>15. /\ HostOK(u, o) /\ u.name = s.name
           /\ EntriesOK(s) /\ Armed(s, t, 0) => EntriesOK(u)
      BY <2>3, <2>12, <2>13, <2>14
    <2> QED
      BY <2>15 DEF u
  <1> QED
    BY <1>2, <1>3

\* deletePeer: the only entry that there may be, or one of those with new names.
LEMMA DeletePeerOK ==
    ASSUME NEW o, NEW s, HostOK(s, o), NEW n \in Name, n = o \/ MayRename
    PROVE  LET u == deletePeer(s, n) IN
           HostOK(u, o) /\ u.name = s.name /\ EntriesOK(u)
  <1> DEFINE arp == [s.arp EXCEPT ![n] = NoTcd]
             user == [s.user EXCEPT ![n] = 0]
             missed == [s.missed EXCEPT ![n] = FALSE]
             u == deletePeer(s, n)
  <1>1. s \in HostState
    BY DEF HostOK
  <1>2. /\ arp \in [Name -> Tcd \cup {NoTcd}] /\ user \in [Name -> Nat]
        /\ missed \in [Name -> BOOLEAN]
    BY <1>1, HostFields
  <1>3. arp[n] = NoTcd /\ \A k \in Name : k # n => arp[k] = s.arp[k]
    BY <1>1, HostFields
  <1>4. u = [s EXCEPT !.arp = arp, !.user = user, !.missed = missed]
    BY DEF deletePeer
  <1> HIDE DEF arp, user, missed, u
  <1>5. /\ u.name = s.name /\ u.chan = s.chan /\ u.created = s.created
        /\ u.heard = s.heard /\ u.events = s.events /\ u.out = s.out /\ u.arp = arp
    BY <1>1, <1>4 DEF HostState
  <1>6. u \in HostState
    BY <1>1, <1>2, <1>4 DEF HostState
  <1>7. NumbersOK(u)
    BY <1>3, <1>5, Zenon DEF HostOK, NumbersOK, Numbered
  <1>8. \A k, i : Armed(u, k, i) <=> Armed(s, k, i)
    BY <1>5, Zenon DEF Armed, IsOpen
  <1>9. EventsOK(u)
    BY <1>5, <1>8, Zenon DEF HostOK, EventsOK
  <1>10. NamesOK(u, o)
    BY <1>3, <1>5, Zenon DEF HostOK, NamesOK
  <1>11. OutOK(u)
    BY <1>5, Zenon DEF HostOK, OutOK
  <1>12. EntriesOK(u)
    BY <1>3, <1>5, <1>10, Zenon DEF EntriesOK, NamesOK
  <1> QED
    BY <1>5, <1>6, <1>7, <1>9, <1>10, <1>11, <1>12 DEF HostOK, u

\* What goroutines wait for says nothing of channels and entries.
LEMMA WaitingOK ==
    ASSUME NEW o, NEW s, HostOK(s, o),
           NEW calling \in [Name -> Nat], NEW waits \in [Name -> Nat],
           NEW answered \in [Name -> Nat], NEW missed \in [Name -> BOOLEAN],
           NEW user \in [Name -> Nat]
    PROVE  LET u == [s EXCEPT !.calling = calling, !.waits = waits,
                              !.answered = answered, !.missed = missed,
                              !.user = user] IN
           HostOK(u, o) /\ u.name = s.name /\ (EntriesOK(s) => EntriesOK(u))
  <1> DEFINE u == [s EXCEPT !.calling = calling, !.waits = waits,
                            !.answered = answered, !.missed = missed, !.user = user]
  <1>1. s \in HostState
    BY DEF HostOK
  <1>2. u \in HostState /\ Alike(s, u) /\ u.out = s.out
    BY <1>1 DEF HostState, Alike
  <1> HIDE DEF u
  <1>3. OutOK(u)
    BY <1>2, Zenon DEF HostOK, OutOK, Alike
  <1>4. HostOK(u, o) /\ u.name = s.name /\ (EntriesOK(s) => EntriesOK(u))
    BY <1>2, <1>3, AlikeOK DEF Alike
  <1> QED
    BY <1>4 DEF u

\* check: the goroutines whose request is registered get the host info.
LEMMA CheckOK ==
    ASSUME NEW o, NEW s, HostOK(s, o), NEW n \in Name
    PROVE  LET u == check(s, n) IN
           HostOK(u, o) /\ u.name = s.name /\ (EntriesOK(s) => EntriesOK(u))
  <1> DEFINE answered == [s.answered EXCEPT ![n] = s.answered[n] + s.waits[n]]
             waits == [s.waits EXCEPT ![n] = 0]
             missed == [s.missed EXCEPT ![n] = @ \/ s.calling[n] > 0]
             u == [s EXCEPT !.calling = s.calling, !.waits = waits,
                            !.answered = answered, !.missed = missed, !.user = s.user]
  <1>1. s \in HostState
    BY DEF HostOK
  <1>2. answered \in [Name -> Nat] /\ waits \in [Name -> Nat]
    BY <1>1, HostFields
  <1>3. missed \in [Name -> BOOLEAN]
    <2> DEFINE late == s.missed[n] \/ s.calling[n] > 0
    <2>1. late \in BOOLEAN /\ s.missed \in [Name -> BOOLEAN]
      BY <1>1, HostFields
    <2>2. missed = [s.missed EXCEPT ![n] = late]
      OBVIOUS
    <2> HIDE DEF late, missed
    <2> QED
      BY <2>1, <2>2, Zenon
  <1>4. s.calling \in [Name -> Nat] /\ s.user \in [Name -> Nat]
    BY <1>1, HostFields
  <1>5. check(s, n) = u
    BY <1>1 DEF check, HostState
  <1> HIDE DEF answered, waits, missed
  <1>6. HostOK(u, o) /\ u.name = s.name /\ (EntriesOK(s) => EntriesOK(u))
    BY <1>2, <1>3, <1>4, WaitingOK
  <1> QED
    BY <1>5, <1>6

\* process: a command of peer n that came on channel t. One that disconnects leaves
\* no entry, whatever its channel; any other came on an armed channel.
LEMMA ProcessOK ==
    ASSUME NEW o, NEW old, HostOK(old, o), NEW cmd \in Cmd, NEW n \in Name,
           NEW t \in Tcd, n = o \/ MayRename, Numbered(old, t), EntriesOK(old),
           cmd # "DISCONNECTED" => Armed(old, t, 0)
    PROVE  LET u == process(old, cmd, n, t) IN
           HostOK(u, o) /\ u.name = old.name /\ EntriesOK(u)
  <1> DEFINE s == peerNew(old, n, t)
             u == process(old, cmd, n, t)
  <1>1. /\ HostOK(s, o) /\ s.name = old.name
        /\ Armed(old, t, 0) => EntriesOK(s)
    BY PeerNewOK
  <1>2. CASE cmd = "NONE"
    <2>1. u = s
      BY <1>2 DEF process
    <2> QED
      BY <1>1, <1>2, <2>1
  <1>3. CASE cmd = "HOST_INFO"
    <2>1. u = sendToTcd(s, t, "HOST_INFO_ANSWER")
      BY <1>3 DEF process
    <2>2. EntriesOK(s) /\ "HOST_INFO_ANSWER" \in Cmd
      BY <1>1, <1>3 DEF Cmd
    <2> HIDE DEF s, u
    <2>3. HostOK(u, o) /\ u.name = s.name /\ EntriesOK(u)
      BY <1>1, <2>1, <2>2, SendToTcdOK DEF Alike
    <2>4. HostOK(u, o) /\ u.name = old.name /\ EntriesOK(u)
      BY <1>1, <2>3
    <2> QED
      BY <2>4 DEF u
  <1>4. CASE cmd = "HOST_INFO_ANSWER"
    <2>1. u = check(s, n)
      BY <1>4 DEF process
    <2>2. EntriesOK(s)
      BY <1>1, <1>4
    <2> HIDE DEF s, u
    <2>3. HostOK(u, o) /\ u.name = s.name /\ EntriesOK(u)
      BY <1>1, <2>1, <2>2, CheckOK
    <2>4. HostOK(u, o) /\ u.name = old.name /\ EntriesOK(u)
      BY <1>1, <2>3
    <2> QED
      BY <2>4 DEF u
  <1>5. CASE cmd = "DISCONNECTED"
    <2>1. CASE s.arp[n] = NoTcd
      <3>1. u = s
        BY <1>5, <2>1 DEF process
      <3>2. EntriesOK(s)
        BY <1>1, <2>1, Zenon DEF EntriesOK, HostOK, NamesOK
      <3> QED
        BY <1>1, <3>1, <3>2
    <2>2. CASE s.arp[n] # NoTcd
      <3>1. u = deletePeer(Close(s, s.arp[n]), n)
        BY <1>5, <2>2 DEF process
      <3>2. s.arp[n] \in Tcd
        BY <1>1, <2>2, HostFields DEF HostOK
      <3> DEFINE v == Close(s, s.arp[n])
      <3> HIDE DEF s
      <3>3. HostOK(v, o) /\ v.name = s.name
        BY <1>1, <3>2, CloseOK
      <3> HIDE DEF v, u
      <3>4. HostOK(u, o) /\ u.name = v.name /\ EntriesOK(u)
        <4>1. u = deletePeer(v, n)
          BY <3>1 DEF v
        <4> QED
          BY <3>3, <4>1, DeletePeerOK
      <3>5. HostOK(u, o) /\ u.name = old.name /\ EntriesOK(u)
        BY <1>1, <3>3, <3>4
      <3> QED
        BY <3>5 DEF u
    <2> QED
      BY <2>1, <2>2
  <1> QED
    BY <1>2, <1>3, <1>4, <1>5 DEF Cmd

\* deleteKey: the end of a channel is read. When no entry has its key the others are
\* armed by other events.
LEMMA DeleteKeyOK ==
    ASSUME NEW o, NEW s, HostOK(s, o), NEW r \in Route, NEW u \in deleteKey(s, r),
           WithKey(s, r) = {} => EntriesOK(s)
    PROVE  HostOK(u, o) /\ u.name = s.name /\ EntriesOK(u)
  <1>1. CASE WithKey(s, r) = {}
    BY <1>1 DEF deleteKey
  <1>2. CASE WithKey(s, r) # {}
    <2>1. PICK n \in WithKey(s, r) : u = deletePeer(Close(s, s.arp[n]), n)
      BY <1>2 DEF deleteKey
    <2>2. n \in Name /\ s.arp[n] # NoTcd
      BY <2>1 DEF WithKey
    <2>3. n = o \/ MayRename
      BY <2>2, Zenon DEF HostOK, NamesOK
    <2>4. s.arp[n] \in Tcd
      BY <2>2, HostFields DEF HostOK
    <2> DEFINE v == Close(s, s.arp[n])
    <2>5. HostOK(v, o) /\ v.name = s.name
      BY <2>4, CloseOK
    <2>6. u = deletePeer(v, n)
      BY <2>1
    <2> HIDE DEF v
    <2>7. HostOK(u, o) /\ u.name = v.name /\ EntriesOK(u)
      BY <2>2, <2>3, <2>5, <2>6, DeletePeerOK
    <2> QED
      BY <2>5, <2>7
  <1> QED
    BY <1>1, <1>2

-----------------------------------------------------------------------------
(* The steps *)

HostInv(h, s) ==
    /\ s.name = FirstName[h] \/ MayRename
    /\ HostOK(s, FirstName[Peer(h)])
    /\ EntriesOK(s)

\* What PeerInv says besides of the hosts.
CountersOK ==
    /\ asked \in [Host -> SUBSET Route]
    /\ watched \in [Host -> SUBSET Tcd]
    /\ told \in [Host -> [Route -> 0 .. MaxTold]]
    /\ restarts \in 0 .. MaxRestart

LEMMA InvIs == PeerInv <=> /\ CountersOK /\ host \in [Host -> HostState]
                           /\ \A h \in Host : HostInv(h, host[h])
  BY DEF PeerInv, CountersOK, HostInv

\* A step changes the state of one host.
LEMMA OneHost ==
    ASSUME PeerInv, NEW h \in Host, NEW s, HostInv(h, s), CountersOK',
           host' = [host EXCEPT ![h] = s]
    PROVE  PeerInv'
  <1>1. host \in [Host -> HostState] /\ \A g \in Host : HostInv(g, host[g])
    BY InvIs
  <1>2. host' \in [Host -> HostState]
    BY <1>1 DEF HostInv, HostOK
  <1>3. \A g \in Host : host'[g] = IF g = h THEN s ELSE host[g]
    BY <1>1
  <1>4. \A g \in Host : HostInv(g, host'[g])
    BY <1>1, <1>3
  <1>5. \A g \in Host : HostInv(g, host[g])'
    BY <1>4 DEF HostInv
  <1> QED
    BY <1>2, <1>5 DEF PeerInv, CountersOK, HostInv

\* The first packet on a route is taken from what was sent.
LEMMA TakenPacket ==
    ASSUME NEW h, NEW s, HostInv(h, s), NEW r \in Route, s.out[r] # <<>>
    PROVE  /\ HostInv(h, [s EXCEPT !.out[r] = Tail(@)])
           /\ Head(s.out[r]) \in Packet /\ SentOK(Head(s.out[r]), s.name)
  <1> DEFINE q == Tail(s.out[r])
             out == [s.out EXCEPT ![r] = q]
             u == [s EXCEPT !.out = out]
             o == FirstName[Peer(h)]
  <1>1. s \in HostState /\ s.out \in [Route -> Seq(Packet)] /\ s.out[r] \in Seq(Packet)
    BY HostFields DEF HostInv, HostOK
  <1>2. /\ Head(s.out[r]) \in Packet
        /\ q \in Seq(Packet)
        /\ Len(q) = Len(s.out[r]) - 1
        /\ \A i \in 1 .. Len(q) : q[i] = s.out[r][i + 1]
    BY <1>1, HeadTailProperties
  <1>3. /\ Head(s.out[r]) = s.out[r][1]
        /\ 1 \in DOMAIN s.out[r]
        /\ DOMAIN s.out[r] = 1 .. Len(s.out[r]) /\ Len(s.out[r]) \in Nat
        /\ DOMAIN q = 1 .. Len(q)
    <2>1. /\ DOMAIN s.out[r] = 1 .. Len(s.out[r]) /\ Len(s.out[r]) \in Nat
          /\ DOMAIN q = 1 .. Len(q)
      BY <1>1, <1>2, LenProperties
    <2>2. Len(s.out[r]) # 0
      BY <1>1, EmptySeq
    <2> QED
      BY <1>1, <2>1, <2>2
  <1>4. SentOK(Head(s.out[r]), s.name)
    BY <1>3 DEF HostInv, HostOK, OutOK
  <1>5. \A i \in DOMAIN q : SentOK(q[i], s.name)
    BY <1>2, <1>3 DEF HostInv, HostOK, OutOK
  <1> HIDE DEF q
  <1>6. out[r] = q /\ (\A k \in Route : k # r => out[k] = s.out[k])
        /\ out \in [Route -> Seq(Packet)]
    BY <1>1, <1>2
  <1> HIDE DEF out
  <1>7. u \in HostState /\ Alike(s, u) /\ u.out = out
    BY <1>1, <1>6 DEF HostState, Alike
  <1> HIDE DEF u
  <1>8. OutOK(u)
    BY <1>5, <1>6, <1>7 DEF HostInv, HostOK, OutOK, Alike
  <1>9. HostOK(u, o) /\ (EntriesOK(s) => EntriesOK(u)) /\ u.name = s.name
    BY <1>7, <1>8, AlikeOK DEF HostInv, Alike
  <1>10. HostInv(h, u)
    BY <1>9 DEF HostInv
  <1> QED
    BY <1>2, <1>4, <1>10 DEF u, out, q

LEMMA DeliverKeeps ==
    ASSUME PeerInv, NEW h \in Host, NEW r \in Route, Deliver(h, r)
    PROVE  PeerInv'
  <1> DEFINE g == Peer(h)
             p == Head(host[g].out[r])
             s == processPacket(host[h], r, p)
             q == [host[g] EXCEPT !.out[r] = Tail(@)]
  <1>1. g \in Host /\ g # h /\ Peer(g) = h
    BY PeerFacts
  <1>2. CountersOK /\ host \in [Host -> HostState] /\ HostInv(h, host[h]) /\ HostInv(g, host[g])
    BY <1>1, InvIs
  <1>3. host' = [host EXCEPT ![h] = s, ![g].out[r] = Tail(@)]
    BY DEF Deliver
  <1>4. CountersOK'
    BY <1>2 DEF Deliver, CountersOK
  <1>5. HostInv(g, q) /\ p \in Packet /\ SentOK(p, host[g].name)
    BY <1>2, TakenPacket DEF Deliver
  <1>6. SentOK(p, FirstName[g])
    BY <1>2, <1>5 DEF SentOK, HostInv
  <1>7. host[h].chan[r] # 0 \/ p.type # "DATA" \/ host[h].created[r] < MaxChannel
    BY DEF Deliver, MayCreate
  <1>8. HostInv(h, s)
    <2> HIDE DEF p, g
    <2>1. HostOK(host[h], FirstName[g]) /\ EntriesOK(host[h])
      BY <1>2 DEF HostInv, g
    <2>2. HostOK(s, FirstName[g]) /\ s.name = host[h].name /\ EntriesOK(s)
      BY <1>5, <1>6, <1>7, <2>1, ProcessPacketOK
    <2> QED
      BY <1>2, <2>2 DEF HostInv, g
  <1>9. host' = [host EXCEPT ![h] = s, ![g] = q]
    BY <1>1, <1>2, <1>3
  <1> HIDE DEF s, q
  <1>10. PeerInv
    OBVIOUS
  <1>11. host' \in [Host -> HostState]
         /\ \A f \in Host : host'[f] = IF f = g THEN q ELSE IF f = h THEN s ELSE host[f]
    BY <1>1, <1>2, <1>5, <1>8, <1>9 DEF HostInv, HostOK
  <1>12. \A f \in Host : HostInv(f, host'[f])
    BY <1>5, <1>8, <1>10, <1>11, InvIs
  <1>13. \A f \in Host : HostInv(f, host[f])'
    BY <1>12 DEF HostInv
  <1> QED
    BY <1>4, <1>11, <1>13 DEF PeerInv, CountersOK, HostInv

\* The first event is taken: its channel is armed by the others.
LEMMA TakenEvent ==
    ASSUME NEW o, NEW s, HostOK(s, o), s.events # <<>>
    PROVE  LET u == [s EXCEPT !.events = Tail(@)]
               e == Head(s.events)
           IN  /\ HostOK(u, o) /\ u.name = s.name
               /\ e \in Event /\ Numbered(u, e.tcd)
               /\ e.type = "Data" => e.from = o \/ MayRename
               /\ e.type = "Data" /\ e.cmd # "DISCONNECTED" => Armed(u, e.tcd, 0)
               /\ e.type = "Data" /\ EntriesOK(s) => EntriesOK(u)
               /\ EntriesOK(s) /\ WithKey(u, e.tcd[1]) = {} => EntriesOK(u)
  <1> DEFINE u == [s EXCEPT !.events = Tail(@)]
             e == Head(s.events)
             q == Tail(s.events)
  <1>1. s \in HostState /\ s.events \in Seq(Event)
    BY HostFields DEF HostOK
  <1>2. /\ e \in Event /\ e = s.events[1]
        /\ q \in Seq(Event)
        /\ Len(q) = Len(s.events) - 1
        /\ \A i \in 1 .. Len(q) : q[i] = s.events[i + 1]
    BY <1>1, HeadTailProperties
  <1>3. /\ DOMAIN s.events = 1 .. Len(s.events) /\ Len(s.events) \in Nat
        /\ DOMAIN q = 1 .. Len(q) /\ Len(s.events) # 0
    BY <1>1, <1>2, LenProperties, EmptySeq
  <1> HIDE DEF q, e
  <1>4. u = [s EXCEPT !.events = q]
    BY DEF q
  <1> HIDE DEF u
  <1>5. /\ u.name = s.name /\ u.chan = s.chan /\ u.created = s.created
        /\ u.heard = s.heard /\ u.events = q /\ u.out = s.out /\ u.arp = s.arp
    BY <1>1, <1>4 DEF HostState
  <1>6. u \in HostState
    BY <1>1, <1>2, <1>4 DEF HostState
  <1>7. \A i \in DOMAIN q : i + 1 \in DOMAIN s.events /\ q[i] = s.events[i + 1]
    BY <1>2, <1>3
  <1>8. ASSUME NEW k, NEW i \in Nat, Armed(s, k, i + 1)
        PROVE  Armed(u, k, i)
    <2>1. CASE IsOpen(s, k)
      BY <1>5, <1>8, <2>1, Zenon DEF Armed, IsOpen
    <2>2. CASE ~IsOpen(s, k)
      <3>1. PICK j \in DOMAIN s.events : /\ j > i + 1
                                         /\ s.events[j].type = "Disconnected"
                                         /\ s.events[j].tcd[1] = k[1]
        BY <1>8, <2>2 DEF Armed
      <3>2. j - 1 \in DOMAIN q /\ j - 1 > i /\ q[j - 1] = s.events[j]
        BY <1>2, <1>3, <3>1
      <3> QED
        BY <1>5, <2>2, <3>1, <3>2, Zenon DEF Armed, IsOpen
    <2> QED
      BY <2>1, <2>2
  <1>9. NumbersOK(u) /\ Numbered(u, e.tcd)
    <2>1. \A t : Numbered(u, t) <=> Numbered(s, t)
      BY <1>5, Zenon DEF Numbered
    <2>2. 1 \in DOMAIN s.events
      BY <1>3
    <2> QED
      BY <1>2, <1>5, <1>7, <2>1, <2>2, Zenon DEF HostOK, NumbersOK
  <1>10. EventsOK(u)
    <2>1. \A i \in DOMAIN q : i \in Nat
      BY <1>3
    <2> QED
      BY <1>5, <1>7, <1>8, <2>1, Zenon DEF HostOK, EventsOK
  <1>11. NamesOK(u, o) /\ (e.type = "Data" => e.from = o \/ MayRename)
    <2>1. 1 \in DOMAIN s.events
      BY <1>3
    <2> QED
      BY <1>2, <1>5, <1>7, <2>1, Zenon DEF HostOK, NamesOK
  <1>12. OutOK(u)
    BY <1>5, Zenon DEF HostOK, OutOK
  <1>13. e.type = "Data" /\ e.cmd # "DISCONNECTED" => Armed(u, e.tcd, 0)
    <2>1. 1 \in DOMAIN s.events /\ 0 \in Nat /\ 0 + 1 = 1
      BY <1>3
    <2>2. e.type = "Data" /\ e.cmd # "DISCONNECTED" => Armed(s, e.tcd, 1)
      BY <1>2, <2>1, Zenon DEF HostOK, EventsOK
    <2> QED
      BY <1>8, <2>1, <2>2
  <1>14. ASSUME NEW k, Armed(s, k, 0), e.type = "Data" \/ k[1] # e.tcd[1]
         PROVE  Armed(u, k, 0)
    <2>1. CASE IsOpen(s, k)
      BY <1>5, <1>14, <2>1, Zenon DEF Armed, IsOpen
    <2>2. CASE ~IsOpen(s, k)
      <3>1. PICK j \in DOMAIN s.events : /\ j > 0
                                         /\ s.events[j].type = "Disconnected"
                                         /\ s.events[j].tcd[1] = k[1]
        BY <1>14, <2>2 DEF Armed
      <3>2. j # 1
        BY <1>2, <1>14, <3>1
      <3>3. j - 1 \in DOMAIN q /\ j - 1 > 0 /\ q[j - 1] = s.events[j]
        BY <1>2, <1>3, <3>1, <3>2
      <3> QED
        BY <1>5, <2>2, <3>1, <3>3, Zenon DEF Armed, IsOpen
    <2> QED
      BY <2>1, <2>2
  <1>15. e.type = "Data" /\ EntriesOK(s) => EntriesOK(u)
    BY <1>5, <1>14, Zenon DEF EntriesOK
  <1>16. EntriesOK(s) /\ WithKey(u, e.tcd[1]) = {} => EntriesOK(u)
    <2>1. WithKey(u, e.tcd[1]) = {} =>
             \A n \in Name : s.arp[n] # NoTcd => s.arp[n][1] # e.tcd[1]
      BY <1>5 DEF WithKey
    <2> QED
      BY <1>5, <1>14, <2>1, Zenon DEF EntriesOK
  <1> QED
    BY <1>2, <1>5, <1>6, <1>9, <1>10, <1>11, <1>12, <1>13, <1>15, <1>16 DEF HostOK, u, e

LEMMA ReadKeeps ==
    ASSUME PeerInv, NEW h \in Host, Read(h)
    PROVE  PeerInv'
  <1> DEFINE old == host[h]
             s == [old EXCEPT !.events = Tail(@)]
             e == Head(old.events)
             o == FirstName[Peer(h)]
  <1>1. CountersOK /\ host \in [Host -> HostState] /\ HostInv(h, old)
    BY InvIs
  <1>2. CountersOK'
    BY <1>1 DEF Read, CountersOK
  <1>3. /\ HostOK(s, o) /\ s.name = old.name
        /\ e \in Event /\ Numbered(s, e.tcd)
        /\ e.type = "Data" => e.from = o \/ MayRename
        /\ e.type = "Data" /\ e.cmd # "DISCONNECTED" => Armed(s, e.tcd, 0)
        /\ e.type = "Data" /\ EntriesOK(old) => EntriesOK(s)
        /\ EntriesOK(old) /\ WithKey(s, e.tcd[1]) = {} => EntriesOK(s)
    BY <1>1, TakenEvent DEF Read, HostInv
  <1>4. e.cmd \in Cmd /\ e.from \in Name /\ e.tcd \in Tcd /\ e.tcd[1] \in Route
    BY <1>3, EventFields, TcdFacts
  <1>5. \/ /\ e.type = "Data"
           /\ host' = [host EXCEPT ![h] = process(s, e.cmd, e.from, e.tcd)]
        \/ \E u \in deleteKey(s, e.tcd[1]) : host' = [host EXCEPT ![h] = u]
    BY DEF Read
  <1>6. EntriesOK(old) /\ (old.name = FirstName[h] \/ MayRename)
    BY <1>1 DEF HostInv
  <1> HIDE DEF s, e, o
  <1>7. CASE e.type = "Data" /\ host' = [host EXCEPT ![h] = process(s, e.cmd, e.from, e.tcd)]
    <2> DEFINE u == process(s, e.cmd, e.from, e.tcd)
    <2>1. HostOK(u, o) /\ u.name = s.name /\ EntriesOK(u)
      BY <1>3, <1>4, <1>6, <1>7, ProcessOK
    <2> HIDE DEF u
    <2>2. HostInv(h, u)
      BY <1>3, <1>6, <2>1 DEF HostInv, o
    <2> QED
      BY <1>2, <1>7, <2>2, OneHost DEF u
  <1>8. ASSUME NEW u \in deleteKey(s, e.tcd[1]), host' = [host EXCEPT ![h] = u]
        PROVE  PeerInv'
    <2>1. HostOK(u, o) /\ u.name = s.name /\ EntriesOK(u)
      BY <1>3, <1>4, <1>6, <1>8, DeleteKeyOK
    <2>2. HostInv(h, u)
      BY <1>3, <1>6, <2>1 DEF HostInv, o
    <2> QED
      BY <1>2, <1>8, <2>2, OneHost
  <1> QED
    BY <1>5, <1>7, <1>8
\* A lost packet is taken like one that arrives.
LEMMA LoseKeeps ==
    ASSUME PeerInv, NEW h \in Host, NEW r \in Route, Lose(h, r)
    PROVE  PeerInv'
  <1> DEFINE u == [host[h] EXCEPT !.out[r] = Tail(@)]
  <1>1. CountersOK /\ HostInv(h, host[h])
    BY InvIs
  <1>2. CountersOK'
    BY <1>1 DEF Lose, CountersOK
  <1>3. HostInv(h, u)
    BY <1>1, TakenPacket DEF Lose
  <1>4. host' = [host EXCEPT ![h] = u]
    BY DEF Lose
  <1> HIDE DEF u
  <1> QED
    BY <1>2, <1>3, <1>4, OneHost

LEMMA SilentKeeps ==
    ASSUME PeerInv, NEW h \in Host, NEW r \in Route, Silent(h, r)
    PROVE  PeerInv'
  <1> DEFINE t == <<r, host[h].chan[r]>>
             u == Close(host[h], t)
  <1>1. CountersOK /\ HostInv(h, host[h])
    BY InvIs
  <1>2. CountersOK'
    BY <1>1 DEF Silent, CountersOK
  <1>3. t \in Tcd
    BY <1>1, HostFields DEF HostInv, HostOK, Silent, Tcd
  <1>4. host' = [host EXCEPT ![h] = u]
    BY DEF Silent
  <1> HIDE DEF t
  <1>5. HostInv(h, u)
    BY <1>1, <1>3, CloseOK DEF HostInv
  <1> HIDE DEF u
  <1> QED
    BY <1>2, <1>4, <1>5, OneHost

LEMMA DiscoverKeeps ==
    ASSUME PeerInv, NEW h \in Host, NEW r \in Route, Discover(h, r)
    PROVE  PeerInv'
  <1> DEFINE s == newChannelData(host[h], r)
             t == <<r, s.chan[r]>>
             u == sendToTcd(s, t, "NONE")
             o == FirstName[Peer(h)]
  <1>1. CountersOK /\ HostInv(h, host[h])
    BY InvIs
  <1>2. /\ HostOK(s, o) /\ t \in Tcd /\ s.name = host[h].name
        /\ EntriesOK(s)
    BY <1>1, NewChannelOK DEF Discover, MayCreate, HostInv
  <1>3. /\ host' = [host EXCEPT ![h] = u]
        /\ asked' = [asked EXCEPT ![h] = @ \ {r}]
        /\ watched' = [watched EXCEPT ![h] = @ \cup {t}]
        /\ told' = told /\ restarts' = restarts
    BY DEF Discover
  <1> HIDE DEF s, t
  <1>4. CountersOK'
    BY <1>1, <1>2, <1>3 DEF CountersOK
  <1>5. "NONE" \in Cmd
    BY DEF Cmd
  <1>6. HostOK(u, o) /\ u.name = s.name /\ EntriesOK(u)
    BY <1>2, <1>5, SendToTcdOK DEF Alike
  <1> HIDE DEF u
  <1>7. HostInv(h, u)
    BY <1>1, <1>2, <1>6 DEF HostInv
  <1> QED
    BY <1>3, <1>4, <1>7, OneHost

LEMMA DiscoverEndKeeps ==
    ASSUME PeerInv, NEW h \in Host, NEW t \in Tcd, DiscoverEnd(h, t)
    PROVE  PeerInv'
  <1> DEFINE u == IF \E n \in Name : host[h].arp[n] = t THEN host[h]
                  ELSE Close(host[h], t)
  <1>1. CountersOK /\ HostInv(h, host[h])
    BY InvIs
  <1>2. CountersOK'
    BY <1>1 DEF DiscoverEnd, CountersOK
  <1>3. HostInv(h, Close(host[h], t))
    BY <1>1, CloseOK DEF HostInv
  <1>4. HostInv(h, u)
    BY <1>1, <1>3
  <1>5. host' = [host EXCEPT ![h] = u]
    BY DEF DiscoverEnd
  <1> HIDE DEF u
  <1> QED
    BY <1>2, <1>4, <1>5, OneHost

\* A step of a goroutine that waits, or of the reader for its request.
LEMMA WaiterKeeps ==
    ASSUME PeerInv, NEW h \in Host, NEW n \in Name,
           Register(h, n) \/ Expire(h, n) \/ Tell(h, n)
    PROVE  PeerInv'
  <1> DEFINE s == host[h]
             o == FirstName[Peer(h)]
  <1>1. CountersOK /\ host \in [Host -> HostState] /\ HostInv(h, s)
    BY InvIs
  <1>2. CountersOK'
    BY <1>1 DEF Register, Expire, Tell, CountersOK
  <1>3. s \in HostState /\ HostOK(s, o) /\ EntriesOK(s)
    BY <1>1 DEF HostInv, HostOK
  <1>4. PICK calling \in [Name -> Nat], waits \in [Name -> Nat],
             answered \in [Name -> Nat], user \in [Name -> Nat],
             missed \in [Name -> BOOLEAN] :
             host' = [host EXCEPT ![h] =
                        [s EXCEPT !.calling = calling, !.waits = waits,
                                  !.answered = answered, !.missed = missed,
                                  !.user = user]]
    <2> DEFINE less(f) == [f EXCEPT ![n] = @ - 1]
               more(f) == [f EXCEPT ![n] = @ + 1]
    <2>1. \A f \in [Name -> Nat] : more(f) \in [Name -> Nat]
                                   /\ (f[n] > 0 => less(f) \in [Name -> Nat])
      OBVIOUS
    <2>2. /\ s.calling \in [Name -> Nat] /\ s.waits \in [Name -> Nat]
          /\ s.answered \in [Name -> Nat] /\ s.user \in [Name -> Nat]
          /\ s.missed \in [Name -> BOOLEAN]
      BY <1>3, HostFields
    <2>3. CASE Register(h, n)
      <3>1. less(s.calling) \in [Name -> Nat] /\ more(s.waits) \in [Name -> Nat]
        BY <2>1, <2>2, <2>3 DEF Register
      <3>2. host' = [host EXCEPT ![h] =
                       [s EXCEPT !.calling = less(s.calling), !.waits = more(s.waits),
                                 !.answered = s.answered, !.missed = s.missed,
                                 !.user = s.user]]
        BY <1>3, <2>3 DEF Register, HostState
      <3> QED
        BY <2>2, <3>1, <3>2
    <2>4. CASE Expire(h, n)
      <3>1. more(s.calling) \in [Name -> Nat] /\ less(s.waits) \in [Name -> Nat]
        BY <2>1, <2>2, <2>4 DEF Expire
      <3>2. host' = [host EXCEPT ![h] =
                       [s EXCEPT !.calling = more(s.calling), !.waits = less(s.waits),
                                 !.answered = s.answered, !.missed = s.missed,
                                 !.user = s.user]]
        BY <1>3, <2>4 DEF Expire, HostState
      <3> QED
        BY <2>2, <3>1, <3>2
    <2>5. CASE Tell(h, n)
      <3>1. less(s.answered) \in [Name -> Nat] /\ more(s.user) \in [Name -> Nat]
        BY <2>1, <2>2, <2>5 DEF Tell
      <3>2. host' = [host EXCEPT ![h] =
                       [s EXCEPT !.calling = s.calling, !.waits = s.waits,
                                 !.answered = less(s.answered), !.missed = s.missed,
                                 !.user = more(s.user)]]
        BY <1>3, <2>5 DEF Tell, HostState
      <3> QED
        BY <2>2, <3>1, <3>2
    <2> QED
      BY <2>3, <2>4, <2>5
  <1> DEFINE v == [s EXCEPT !.calling = calling, !.waits = waits,
                            !.answered = answered, !.missed = missed, !.user = user]
  <1>6. HostOK(v, o) /\ v.name = s.name /\ EntriesOK(v)
    <2>1. LET w == [s EXCEPT !.calling = calling, !.waits = waits,
                             !.answered = answered, !.missed = missed, !.user = user]
          IN  HostOK(w, o) /\ w.name = s.name /\ (EntriesOK(s) => EntriesOK(w))
      <3> HIDE DEF s, o
      <3> QED  BY <1>3, WaitingOK, Zenon
    <2>2. EntriesOK(s)
      BY <1>3
    <2> HIDE DEF s, o
    <2> QED
      BY <2>1, <2>2, Zenon
  <1>7. host' = [host EXCEPT ![h] = v]
    BY <1>4
  <1> HIDE DEF v
  <1>8. HostInv(h, v)
    BY <1>1, <1>6 DEF HostInv
  <1> QED
    BY <1>2, <1>7, <1>8, OneHost

\* A host that starts has channels of new numbers, no entries and no events.
LEMMA StartedOK ==
    ASSUME NEW h \in Host, NEW n \in Name, n = FirstName[h] \/ MayRename,
           NEW old, old.created \in [Route -> 0 .. MaxChannel],
           old.out \in [Route -> Seq(Packet)],
           \A r \in Route : \A i \in DOMAIN old.out[r] : SentOK(old.out[r][i], n)
    PROVE  HostInv(h, Started(n, old))
  <1> DEFINE u == Started(n, old)
             o == FirstName[Peer(h)]
  <1>1. MaxChannel \in Nat
    BY PeerAssumption
  <1>2. /\ u.name = n /\ u.chan = [r \in Route |-> 0] /\ u.created = old.created
        /\ u.heard = [r \in Route |-> FALSE] /\ u.out = old.out
        /\ u.fresh = [r \in Route |-> TRUE] /\ u.expect = [r \in Route |-> TRUE]
        /\ u.events = <<>> /\ u.arp = [k \in Name |-> NoTcd]
        /\ u.calling = [k \in Name |-> 0] /\ u.waits = [k \in Name |-> 0]
        /\ u.answered = [k \in Name |-> 0] /\ u.missed = [k \in Name |-> FALSE]
        /\ u.user = [k \in Name |-> 0]
    BY DEF Started
  <1>3. u \in HostState
    <2>1. [r \in Route |-> 0] \in [Route -> 0 .. MaxChannel]
      BY <1>1
    <2>2. [k \in Name |-> NoTcd] \in [Name -> Tcd \cup {NoTcd}]
      OBVIOUS
    <2>3. [k \in Name |-> 0] \in [Name -> Nat] /\ [k \in Name |-> FALSE] \in [Name -> BOOLEAN]
      OBVIOUS
    <2>4. <<>> \in Seq(Event)
      OBVIOUS
    <2>5. /\ [r \in Route |-> FALSE] \in [Route -> BOOLEAN]
          /\ [r \in Route |-> TRUE] \in [Route -> BOOLEAN]
      OBVIOUS
    <2> QED
      BY <2>1, <2>2, <2>3, <2>4, <2>5 DEF Started, HostState
  <1> HIDE DEF u
  <1>4. DOMAIN u.events = {}
    BY <1>2
  <1>5. \A k \in Name : u.arp[k] = NoTcd
    BY <1>2
  <1>6. NumbersOK(u)
    BY <1>1, <1>2, <1>4, <1>5 DEF NumbersOK
  <1>7. EventsOK(u) /\ NamesOK(u, o) /\ EntriesOK(u)
    BY <1>4, <1>5, Zenon DEF EventsOK, NamesOK, EntriesOK
  <1>8. OutOK(u)
    BY <1>2 DEF OutOK
  <1>9. HostInv(h, u)
    BY <1>2, <1>3, <1>6, <1>7, <1>8 DEF HostInv, HostOK
  <1> QED
    BY <1>9 DEF u

LEMMA RestartKeeps ==
    ASSUME PeerInv, NEW h \in Host, NEW n \in Name, NEW closed \in BOOLEAN,
           Restart(h, n, closed)
    PROVE  PeerInv'
  <1> DEFINE s == host[h]
             bye == [type |-> "RAW", cmd |-> "DISCONNECTED", from |-> s.name,
                     first |-> FALSE]
             out == [r \in Route |-> IF WithKey(s, r) = {} THEN s.out[r]
                                     ELSE Append(s.out[r], bye)]
             v == IF ~closed THEN s ELSE [s EXCEPT !.out = out]
             u == Started(n, v)
  <1>1. CountersOK /\ host \in [Host -> HostState] /\ HostInv(h, s)
    BY InvIs
  <1>2. s \in HostState
    BY <1>1 DEF HostInv, HostOK
  <1>3. /\ host' = [host EXCEPT ![h] = u]
        /\ restarts < MaxRestart /\ restarts' = restarts + 1
        /\ n = s.name \/ MayRename
        /\ asked' = [asked EXCEPT ![h] = {}]
        /\ watched' = [watched EXCEPT ![h] = {}]
        /\ told' = [told EXCEPT ![h] = [r \in Route |-> 0]]
    BY DEF Restart
  <1>4. n = FirstName[h] \/ MayRename
    BY <1>1, <1>3 DEF HostInv
  <1>5. \A p : SentOK(p, s.name) => SentOK(p, n)
    BY <1>3 DEF SentOK
  <1>6. CountersOK'
    <2>1. MaxTold \in Nat /\ MaxRestart \in Nat
      BY PeerAssumption
    <2>2. [r \in Route |-> 0] \in [Route -> 0 .. MaxTold]
      BY <2>1
    <2> QED
      BY <1>1, <1>3, <2>1, <2>2 DEF CountersOK
  <1>7. s.out \in [Route -> Seq(Packet)] /\ s.created \in [Route -> 0 .. MaxChannel]
    BY <1>2, HostFields
  <1>8. /\ bye \in Packet /\ SentOK(bye, s.name)
    BY <1>2, HostFields DEF Packet, Cmd, SentOK
  <1> HIDE DEF bye
  <1>9. \A r \in Route : \A i \in DOMAIN s.out[r] : SentOK(s.out[r][i], n)
    BY <1>1, <1>5, Zenon DEF HostInv, HostOK, OutOK
  <1>10. ASSUME NEW r \in Route
         PROVE  /\ Append(s.out[r], bye) \in Seq(Packet)
                /\ \A i \in DOMAIN Append(s.out[r], bye) :
                      SentOK(Append(s.out[r], bye)[i], n)
    <2>1. s.out[r] \in Seq(Packet)
      BY <1>7
    <2>2. Len(s.out[r]) \in Nat /\ DOMAIN s.out[r] = 1 .. Len(s.out[r])
      BY <2>1, LenProperties
    <2> DEFINE q == Append(s.out[r], bye)
    <2>3. /\ q \in Seq(Packet)
          /\ Len(q) = Len(s.out[r]) + 1
          /\ \A i \in 1 .. Len(s.out[r]) : q[i] = s.out[r][i]
          /\ q[Len(s.out[r]) + 1] = bye
      BY <1>8, <2>1, AppendProperties
    <2>4. DOMAIN q = 1 .. Len(s.out[r]) + 1
      BY <2>3, LenProperties
    <2> HIDE DEF q
    <2>5. \A i \in DOMAIN q : SentOK(q[i], n)
      <3> SUFFICES ASSUME NEW i \in DOMAIN q PROVE SentOK(q[i], n)
        OBVIOUS
      <3>1. CASE i = Len(s.out[r]) + 1
        BY <1>5, <1>8, <2>3, <3>1
      <3>2. CASE i # Len(s.out[r]) + 1
        <4>1. i \in DOMAIN s.out[r] /\ q[i] = s.out[r][i]
          BY <2>2, <2>3, <2>4, <3>2
        <4> QED
          BY <1>9, <4>1
      <3> QED
        BY <3>1, <3>2
    <2> QED
      BY <2>3, <2>5 DEF q
  <1>11. /\ out \in [Route -> Seq(Packet)]
         /\ \A r \in Route : \A i \in DOMAIN out[r] : SentOK(out[r][i], n)
    <2>1. \A r \in Route : out[r] = s.out[r] \/ out[r] = Append(s.out[r], bye)
      OBVIOUS
    <2>2. out \in [Route -> Seq(Packet)]
      BY <1>7, <1>10
    <2> HIDE DEF out
    <2> QED
      BY <1>9, <1>10, <2>1, <2>2, Zenon
  <1> HIDE DEF out
  <1>12. /\ v.created = s.created
         /\ v.out = s.out \/ v.out = out
    BY <1>2 DEF HostState
  <1> HIDE DEF v
  <1>13. HostInv(h, u)
    <2>1. v.created \in [Route -> 0 .. MaxChannel] /\ v.out \in [Route -> Seq(Packet)]
      BY <1>7, <1>11, <1>12
    <2>2. \A r \in Route : \A i \in DOMAIN v.out[r] : SentOK(v.out[r][i], n)
      BY <1>9, <1>11, <1>12, Zenon
    <2> QED
      BY <1>4, <2>1, <2>2, StartedOK
  <1> HIDE DEF u, s
  <1> QED
    BY <1>3, <1>6, <1>13, OneHost

-----------------------------------------------------------------------------
(* The invariant of the hosts *)

LEMMA InvInit == Init => PeerInv
  <1> SUFFICES ASSUME Init PROVE PeerInv
    OBVIOUS
  <1>1. MaxChannel \in Nat /\ MaxTold \in Nat /\ MaxRestart \in Nat
        /\ FirstName \in [Host -> Name]
    BY PeerAssumption
  <1> DEFINE old == [created |-> [r \in Route |-> 0], out |-> [r \in Route |-> <<>>]]
  <1>2. /\ old.created \in [Route -> 0 .. MaxChannel]
        /\ old.out \in [Route -> Seq(Packet)]
        /\ \A r \in Route : DOMAIN old.out[r] = {}
    BY <1>1
  <1>3. host = [h \in Host |-> Started(FirstName[h], old)]
    BY DEF Init
  <1> HIDE DEF old
  <1>4. \A h \in Host : HostInv(h, Started(FirstName[h], old))
    BY <1>1, <1>2, StartedOK
  <1>5. host \in [Host -> HostState] /\ \A h \in Host : HostInv(h, host[h])
    BY <1>3, <1>4 DEF HostInv, HostOK
  <1>6. CountersOK
    BY <1>1 DEF Init, CountersOK
  <1> QED
    BY <1>5, <1>6, InvIs

LEMMA InvNext == PeerInv /\ [Next]_vars => PeerInv'
  <1> SUFFICES ASSUME PeerInv, [Next]_vars PROVE PeerInv'
    OBVIOUS
  <1>1. ASSUME NEW h \in Host, NEW r \in Route, cmdConnect(h, r)
        PROVE  PeerInv'
    <2>1. host' = host
      BY <1>1 DEF cmdConnect
    <2>2. CountersOK
      BY InvIs
    <2>3. CountersOK'
      BY <1>1, <2>2, PeerAssumption DEF cmdConnect, CountersOK
    <2> QED
      BY <2>1, <2>3 DEF PeerInv, CountersOK
  <1>2. ASSUME NEW h \in Host, Step(h)
        PROVE  PeerInv'
    BY <1>1, <1>2, DeliverKeeps, LoseKeeps, SilentKeeps, DiscoverKeeps,
       DiscoverEndKeeps, ReadKeeps, WaiterKeeps, RestartKeeps DEF Step
  <1>3. CASE UNCHANGED vars
    BY <1>3 DEF vars, PeerInv
  <1> QED
    BY <1>2, <1>3 DEF Next

LEMMA InvHolds == Spec => []PeerInv
  BY InvInit, InvNext, PTL DEF Spec

\* Whatever the order in which packets, events and timers meet, with restarts under
\* any names, every variable has its type: a channel number stays within the channels
\* of its route, and no goroutine that waits for a host info is counted below zero.
THEOREM PeerTypeCorrect == Spec => []TypeOK
  <1>1. PeerInv => TypeOK
    BY DEF PeerInv, TypeOK
  <1> QED
    BY <1>1, InvHolds, PTL

\* While hosts start again under their own names, an entry of the arp table has an
\* open channel, or the event that removes it is on its way to the reader
\* (ChannelData.destroy sends it once, deleteKey removes one peer for it).
THEOREM NoStalePeerHolds ==
    ASSUME MayRename = FALSE
    PROVE  Spec => []NoStalePeer
  <1>1. PeerInv => NoStalePeer
    <2> SUFFICES ASSUME PeerInv, NEW h \in Host, NEW n \in Name,
                        host[h].arp[n] # NoTcd, ~Open(h, host[h].arp[n])
                 PROVE  \E i \in DOMAIN host[h].events :
                           /\ host[h].events[i].type = "Disconnected"
                           /\ host[h].events[i].tcd[1] = host[h].arp[n][1]
      BY DEF NoStalePeer
    <2>1. Armed(host[h], host[h].arp[n], 0)
      BY DEF PeerInv, EntriesOK
    <2>2. ~IsOpen(host[h], host[h].arp[n])
      BY DEF Open, IsOpen
    <2> QED
      BY <2>1, <2>2, Zenon DEF Armed
  <1> QED
    BY <1>1, InvHolds, PTL

-----------------------------------------------------------------------------
(* Large packets: what is in their parts and what a receiver puts together *)

\* The least element of a set of natural numbers, by the order of the intervals up to
\* its members.
LEMMA LeastNatural ==
    ASSUME NEW T, T \subseteq Nat, T # {}
    PROVE  \E x \in T : \A y \in T : x <= y
  <1>1. PICK n \in T : TRUE
    OBVIOUS
  <1> DEFINE I == 1 .. n
             U == {1 .. x : x \in {y \in T : y <= n}}
  <1>2. IsFiniteSet(I)
    BY FS_Interval
  <1>3. IsWellFoundedOn(StrictSubsetOrdering(I), FiniteSubsetsOf(I))
    BY <1>2, FS_StrictSubsetOrderingWellFounded, FS_FiniteSubsetsOfFinite
  <1>4. U \subseteq FiniteSubsetsOf(I)
    <2>1. U \subseteq SUBSET I
      OBVIOUS
    <2> QED
      BY <1>2, <2>1, FS_FiniteSubsetsOfFinite
  <1>5. U # {}
    BY <1>1
  <1>6. PICK u \in U : \A v \in U : <<v, u>> \notin StrictSubsetOrdering(I)
    <2> HIDE DEF U, I
    <2> QED
      BY <1>3, <1>4, <1>5, WFMin
  <1>7. PICK x \in T : u = 1 .. x /\ x <= n
    OBVIOUS
  <1>8. ASSUME NEW y \in T, y < x PROVE FALSE
    <2>1. 1 .. y \in U
      BY <1>1, <1>7, <1>8
    <2>2. 1 .. y \subseteq 1 .. x
      BY <1>7, <1>8
    <2>3. x \in 1 .. x /\ x \notin 1 .. y
      BY <1>7, <1>8
    <2>4. 1 .. y # 1 .. x
      BY <2>3
    <2>5. 1 .. y \in SUBSET I /\ 1 .. x \in SUBSET I
      BY <1>1, <1>7, <1>8
    <2>6. <<1 .. y, 1 .. x>> \in StrictSubsetOrdering(I)
      BY <2>2, <2>4, <2>5 DEF StrictSubsetOrdering
    <2> QED
      BY <1>6, <1>7, <2>1, <2>6
  <1> QED
    BY <1>7, <1>8

Cell == Nat \X Nat

\* The part i of packet n of those that were sent, with the number it got.
LastPart(s, n, i) == (i + 1) * maxDataLen >= s[n].length
PartData(s, n, i) ==
    Data(n, i * maxDataLen + 1, IF LastPart(s, n, i) THEN s[n].length
                                ELSE (i + 1) * maxDataLen)
PartOf(s, n, i, num) ==
    [split |-> TRUE, num |-> num, part |-> i, last |-> LastPart(s, n, i),
     data |-> IF i = 0 /\ ~LastPart(s, n, i) THEN Append(PartData(s, n, i), <<n, 0>>)
              ELSE PartData(s, n, i)]

LEMMA DataFacts ==
    ASSUME NEW n \in Nat, NEW i \in Nat, NEW j \in Nat, i <= j
    PROVE  /\ Data(n, i + 1, j) \in Seq(Cell)
           /\ Len(Data(n, i + 1, j)) = j - i
           /\ \A k \in 1 .. j - i : Data(n, i + 1, j)[k] = <<n, i + k>>
  <1> DEFINE d == [k \in 1 .. j - i |-> <<n, i + k>>]
  <1>1. j - i \in Nat /\ (j - (i + 1)) + 1 = j - i
    OBVIOUS
  <1>2. \A k \in 1 .. j - i : (i + 1) + k - 1 = i + k
    OBVIOUS
  <1>3. Data(n, i + 1, j) = d
    BY <1>1, <1>2 DEF Data
  <1>4. d \in [1 .. j - i -> Cell]
    BY DEF Cell
  <1>5. d \in Seq(Cell) /\ Len(d) = j - i
    BY <1>1, <1>4
  <1>6. \A k \in 1 .. j - i : d[k] = <<n, i + k>>
    OBVIOUS
  <1> QED
    BY <1>3, <1>5, <1>6

LEMMA DataFromOne ==
    ASSUME NEW n \in Nat, NEW j \in Nat
    PROVE  /\ Data(n, 1, j) \in Seq(Cell)
           /\ Len(Data(n, 1, j)) = j
           /\ \A k \in 1 .. j : Data(n, 1, j)[k] = <<n, k>>
  <1> DEFINE i == 0
  <1>1. i \in Nat /\ i <= j /\ i + 1 = 1 /\ j - i = j
    OBVIOUS
  <1>2. \A k \in 1 .. j : i + k = k
    OBVIOUS
  <1> HIDE DEF i
  <1>3. /\ Data(n, i + 1, j) \in Seq(Cell)
        /\ Len(Data(n, i + 1, j)) = j - i
        /\ \A k \in 1 .. j - i : Data(n, i + 1, j)[k] = <<n, i + k>>
    BY <1>1, DataFacts
  <1> QED
    BY <1>1, <1>2, <1>3

LEMMA DataJoin ==
    ASSUME NEW n \in Nat, NEW i \in Nat, NEW j \in Nat, i <= j
    PROVE  Data(n, 1, i) \o Data(n, i + 1, j) = Data(n, 1, j)
  <1> DEFINE d == Data(n, 1, i)
             e == Data(n, i + 1, j)
             f == Data(n, 1, j)
  <1>1. d \in Seq(Cell) /\ Len(d) = i /\ \A k \in 1 .. i : d[k] = <<n, k>>
    BY DataFromOne
  <1>2. e \in Seq(Cell) /\ Len(e) = j - i /\ \A k \in 1 .. j - i : e[k] = <<n, i + k>>
    BY DataFacts
  <1>3. f \in Seq(Cell) /\ Len(f) = j /\ \A k \in 1 .. j : f[k] = <<n, k>>
    BY DataFromOne
  <1> HIDE DEF d, e, f
  <1>4. /\ d \o e \in Seq(Cell) /\ Len(d \o e) = Len(d) + Len(e)
        /\ \A k \in 1 .. Len(d) + Len(e) :
              (d \o e)[k] = IF k <= Len(d) THEN d[k] ELSE e[k - Len(d)]
    BY <1>1, <1>2, ConcatProperties
  <1>5. Len(d \o e) = j
    BY <1>1, <1>2, <1>4
  <1>6. ASSUME NEW k \in 1 .. j PROVE (d \o e)[k] = f[k]
    <2>1. CASE k <= i
      <3>1. (d \o e)[k] = d[k] /\ k \in 1 .. i
        BY <1>1, <1>2, <1>4, <2>1
      <3> QED
        BY <1>1, <1>3, <3>1
    <2>2. CASE ~(k <= i)
      <3>1. (d \o e)[k] = e[k - i] /\ k - i \in 1 .. j - i /\ i + (k - i) = k
        BY <1>1, <1>2, <1>4, <2>2
      <3> QED
        BY <1>2, <1>3, <3>1
    <2> QED
      BY <2>1, <2>2
  <1>7. d \o e = f
    BY <1>3, <1>4, <1>5, <1>6, SeqEqual
  <1> QED
    BY <1>7 DEF d, e, f

\* The parts of a packet are those up to the last one.
LEMMA PartCount ==
    ASSUME maxDataLen \in Nat, NEW len \in Nat, NEW i \in Nat, NEW j \in Nat, j < i,
           i * maxDataLen < len
    PROVE  ~((j + 1) * maxDataLen >= len)
  <1>1. PICK k \in Nat : i = (j + 1) + k
    <2>1. i - (j + 1) \in Nat /\ i = (j + 1) + (i - (j + 1))
      OBVIOUS
    <2> QED
      BY <2>1
  <1>2. k * maxDataLen \in Nat /\ (j + 1) * maxDataLen \in Nat
    OBVIOUS
  <1>3. i * maxDataLen = (j + 1) * maxDataLen + k * maxDataLen
    BY <1>1
  <1> QED
    BY <1>2, <1>3

\* The function that puts the parts together.
LEMMA UpTo ==
    ASSUME NEW all, NEW num, NEW i \in Nat,
           NEW f0, DOMAIN f0 = 0 .. i + 1, f0[0] = <<>>,
           f0 = [k \in 0 .. i + 1 |-> f0[k]],
           NEW c, \A k \in 0 .. i :
              LET q == CHOOSE q \in all : q.num = num /\ q.part = k
              IN c[k] = IF k = 0 THEN Front(q.data) ELSE q.data,
           \A k \in 0 .. i : f0[k + 1] = f0[k] \o c[k]
    PROVE  Combined(all, num, i) = f0[i + 1]
  <1> DEFINE PD(k) == LET q == CHOOSE q \in all : q.num = num /\ q.part = k
                      IN IF k = 0 THEN Front(q.data) ELSE q.data
             G(f) == [k \in 0 .. i + 1 |-> IF k = 0 THEN <<>> ELSE f[k - 1] \o PD(k - 1)]
             h == CHOOSE f : f = G(f)
  <1>1. Combined(all, num, i) = h[i + 1]
    BY DEF Combined
  <1>2. \A k \in 0 .. i : PD(k) = c[k]
    OBVIOUS
  <1> HIDE DEF PD
  <1>3. f0 = G(f0)
    <2>1. ASSUME NEW k \in 0 .. i + 1
          PROVE  f0[k] = IF k = 0 THEN <<>> ELSE f0[k - 1] \o PD(k - 1)
      <3>1. CASE k = 0
        BY <3>1
      <3>2. CASE k # 0
        <4>1. k - 1 \in 0 .. i /\ (k - 1) + 1 = k
          BY <3>2
        <4> QED
          BY <1>2, <3>2, <4>1
      <3> QED
        BY <3>1, <3>2
    <2> QED
      BY <2>1
  <1>4. h = G(h)
    <2>1. \E f : f = G(f)
      BY <1>3
    <2> HIDE DEF G
    <2> QED
      BY <2>1
  <1>5. \A k \in 0 .. i + 1 : h[k] = IF k = 0 THEN <<>> ELSE h[k - 1] \o PD(k - 1)
    <2> HIDE DEF h
    <2> QED
      BY <1>4
  <1> HIDE DEF h
  <1> DEFINE T == {k \in 0 .. i + 1 : h[k] # f0[k]}
  <1>6. ASSUME T # {} PROVE FALSE
    <2>0. T \subseteq Nat
      OBVIOUS
    <2>1. PICK k \in T : \A y \in T : k <= y
      <3> HIDE DEF T
      <3> QED
        BY <1>6, <2>0, LeastNatural
    <2>2. k \in 0 .. i + 1 /\ h[k] # f0[k] /\ k # 0
      BY <1>5
    <2>3. k - 1 \in 0 .. i + 1 /\ k - 1 \in 0 .. i /\ (k - 1) + 1 = k
      BY <2>2
    <2>4. k - 1 \notin T
      BY <2>1, <2>2
    <2>5. h[k - 1] = f0[k - 1]
      BY <2>3, <2>4
    <2>6. h[k] = h[k - 1] \o PD(k - 1)
      BY <1>5, <2>2
    <2>7. PD(k - 1) = c[k - 1] /\ f0[(k - 1) + 1] = f0[k - 1] \o c[k - 1]
      BY <1>2, <2>3
    <2>8. f0[k] = f0[k - 1] \o c[k - 1]
      BY <2>3, <2>7
    <2> QED
      BY <2>2, <2>5, <2>6, <2>7, <2>8
  <1>7. i + 1 \in 0 .. i + 1 /\ i + 1 \notin T
    BY <1>6
  <1> QED
    BY <1>1, <1>7

-----------------------------------------------------------------------------
Message == [split : {FALSE}, cmd : Cell, data : Seq(Cell)]
           \cup [split : {TRUE}, num : Nat, part : Nat, last : BOOLEAN, data : Seq(Cell)]

\* A command that is not split.
Unsplit(s, n) == [split |-> FALSE, cmd |-> <<n, 0>>, data |-> Data(n, 1, s[n].length)]

\* What packet a message belongs to, and that its command is processed then.
Of(p) == IF p.split THEN p.data[1][1] ELSE p.cmd[1]
Completes(p) == ~p.split \/ p.last

LEMMA UnsplitFacts ==
    ASSUME NEW s, NEW n \in Nat, s[n].length \in Nat
    PROVE  /\ Unsplit(s, n) \in Message
           /\ ~Unsplit(s, n).split
           /\ Unsplit(s, n).cmd = <<n, 0>>
           /\ Unsplit(s, n).data = Data(n, 1, s[n].length)
           /\ Of(Unsplit(s, n)) = n
  <1> DEFINE d == Data(n, 1, s[n].length)
  <1>1. d \in Seq(Cell)
    BY DataFromOne
  <1> HIDE DEF d
  <1>2. Unsplit(s, n) = [split |-> FALSE, cmd |-> <<n, 0>>, data |-> d]
    BY DEF Unsplit, d
  <1>3. <<n, 0>> \in Cell /\ <<n, 0>>[1] = n
    BY DEF Cell
  <1>4. Of(Unsplit(s, n)) = n
    BY <1>2, <1>3 DEF Of
  <1>5. Unsplit(s, n) \in Message
    <2>1. Unsplit(s, n) \in [split : {FALSE}, cmd : Cell, data : Seq(Cell)]
      BY <1>1, <1>2, <1>3
    <2> QED
      BY <2>1 DEF Message
  <1> QED
    BY <1>2, <1>4, <1>5 DEF d

LEMMA PartFacts ==
    ASSUME maxDataLen \in Nat \ {0}, NEW s, NEW n \in Nat, s[n].length \in Nat,
           NEW i \in Nat, i * maxDataLen < s[n].length, NEW num \in Nat
    PROVE  /\ PartOf(s, n, i, num) \in Message
           /\ PartOf(s, n, i, num).split
           /\ PartOf(s, n, i, num).num = num
           /\ PartOf(s, n, i, num).part = i
           /\ PartOf(s, n, i, num).last = LastPart(s, n, i)
           /\ Of(PartOf(s, n, i, num)) = n
           /\ PartData(s, n, i) \in Seq(Cell)
  <1> DEFINE len == s[n].length
             from == i * maxDataLen
             to == IF LastPart(s, n, i) THEN len ELSE (i + 1) * maxDataLen
             d == PartData(s, n, i)
             a == IF i = 0 /\ ~LastPart(s, n, i) THEN Append(d, <<n, 0>>) ELSE d
  <1>1. from \in Nat /\ to \in Nat /\ from < to
    <2>1. from \in Nat /\ (i + 1) * maxDataLen = from + maxDataLen
      OBVIOUS
    <2> QED
      BY <2>1
  <1>2. d = Data(n, from + 1, to)
    BY DEF PartData
  <1>3. PartOf(s, n, i, num) = [split |-> TRUE, num |-> num, part |-> i,
                                last |-> LastPart(s, n, i), data |-> a]
    BY DEF PartOf
  <1>4. LastPart(s, n, i) \in BOOLEAN
    BY DEF LastPart
  <1> HIDE DEF from, to, d, len
  <1>5. d \in Seq(Cell) /\ Len(d) = to - from
        /\ \A k \in 1 .. to - from : d[k] = <<n, from + k>>
    <2>1. from \in Nat /\ to \in Nat /\ from <= to
      BY <1>1
    <2>2. /\ Data(n, from + 1, to) \in Seq(Cell)
          /\ Len(Data(n, from + 1, to)) = to - from
          /\ \A k \in 1 .. to - from : Data(n, from + 1, to)[k] = <<n, from + k>>
      BY <2>1, DataFacts
    <2> QED
      BY <1>2, <2>2, Zenon
  <1>6. Len(d) > 0 /\ Len(d) \in Nat /\ d[1] = <<n, from + 1>>
    BY <1>1, <1>5
  <1>7. a \in Seq(Cell) /\ a[1] = d[1]
    <2>1. CASE i = 0 /\ ~LastPart(s, n, i)
      <3>1. a = Append(d, <<n, 0>>) /\ <<n, 0>> \in Cell
        BY <2>1 DEF Cell
      <3> QED
        BY <1>5, <1>6, <3>1, AppendProperties
    <2>2. CASE ~(i = 0 /\ ~LastPart(s, n, i))
      BY <1>5, <2>2
    <2> QED
      BY <2>1, <2>2
  <1> HIDE DEF a
  <1>8. Of(PartOf(s, n, i, num)) = n
    <2>1. PartOf(s, n, i, num).split /\ PartOf(s, n, i, num).data = a
      BY <1>3
    <2>2. a[1][1] = n
      BY <1>6, <1>7
    <2> QED
      BY <2>1, <2>2 DEF Of
  <1>9. PartOf(s, n, i, num) \in Message
    <2>1. PartOf(s, n, i, num) \in [split : {TRUE}, num : Nat, part : Nat, last : BOOLEAN,
                                    data : Seq(Cell)]
      BY <1>3, <1>4, <1>7
    <2> QED
      BY <2>1 DEF Message
  <1> QED
    BY <1>3, <1>5, <1>8, <1>9 DEF d

\* What a receiver that has all parts of a packet puts together.
LEMMA CombinedWhole ==
    ASSUME maxDataLen \in Nat \ {0}, NEW s, NEW n \in Nat, s[n].length \in Nat,
           s[n].length > maxDataLen, NEW i \in Nat, i * maxDataLen < s[n].length,
           LastPart(s, n, i), NEW num \in Nat, NEW all,
           \A j \in 0 .. i : PartOf(s, n, j, num) \in all,
           \A q, r \in all : q.num = r.num /\ q.part = r.part => q = r
    PROVE  /\ Combined(all, num, i) = Data(n, 1, s[n].length)
           /\ Last(FirstPart(all, num).data) = <<n, 0>>
  <1> DEFINE len == s[n].length
             E(k) == IF k <= i THEN k * maxDataLen ELSE len
             f0 == [k \in 0 .. i + 1 |-> Data(n, 1, E(k))]
             c == [k \in 0 .. i |-> PartData(s, n, k)]
  <1>1. i # 0
    <2>1. (0 + 1) * maxDataLen = maxDataLen
      OBVIOUS
    <2> QED
      BY <2>1 DEF LastPart
  <1>2. \A k \in 0 .. i : k < i => ~LastPart(s, n, k)
    BY PartCount DEF LastPart
  <1>3. \A k \in 0 .. i : /\ k * maxDataLen \in Nat /\ (k + 1) * maxDataLen \in Nat
                          /\ k * maxDataLen <= (k + 1) * maxDataLen
                          /\ k * maxDataLen < len
    <2> TAKE k \in 0 .. i
    <2>1. k \in Nat /\ (k + 1) * maxDataLen = k * maxDataLen + maxDataLen
          /\ k * maxDataLen \in Nat
      OBVIOUS
    <2>2. CASE k = i
      BY <2>1, <2>2
    <2>3. CASE k < i
      <3>1. ~((k + 1) * maxDataLen >= len)
        BY <1>2, <2>3 DEF LastPart
      <3> QED
        BY <2>1, <3>1
    <2> QED
      BY <2>1, <2>2, <2>3
  <1>4. \A k \in 0 .. i : /\ PartOf(s, n, k, num).num = num
                          /\ PartOf(s, n, k, num).part = k
                          /\ PartData(s, n, k) \in Seq(Cell)
    <2> TAKE k \in 0 .. i
    <2>1. k \in Nat /\ k * maxDataLen < s[n].length
      BY <1>3
    <2> QED
      BY <2>1, PartFacts
  <1>5. \A k \in 0 .. i :
          (CHOOSE q \in all : q.num = num /\ q.part = k) = PartOf(s, n, k, num)
    <2> TAKE k \in 0 .. i
    <2> DEFINE p == PartOf(s, n, k, num)
    <2>1. p \in all /\ p.num = num /\ p.part = k
      BY <1>4
    <2> HIDE DEF p
    <2>2. \A q \in all : q.num = num /\ q.part = k => q = p
      BY <2>1
    <2> QED
      BY <2>1, <2>2 DEF p
  <1>6. PartOf(s, n, 0, num).data = Append(PartData(s, n, 0), <<n, 0>>)
    BY <1>1, <1>2 DEF PartOf
  <1>7. \A k \in 0 .. i : k # 0 => PartOf(s, n, k, num).data = PartData(s, n, k)
    BY DEF PartOf
  <1>8. /\ Front(Append(PartData(s, n, 0), <<n, 0>>)) = PartData(s, n, 0)
        /\ Last(Append(PartData(s, n, 0), <<n, 0>>)) = <<n, 0>>
    <2> DEFINE d == PartData(s, n, 0)
               x == <<n, 0>>
    <2>1. d \in Seq(Cell) /\ x \in Cell
      BY <1>4 DEF Cell
    <2> HIDE DEF d, x
    <2>2. Front(Append(d, x)) = d
      BY <2>1 DEF Front
    <2>3. Last(Append(d, x)) = x
      BY <2>1 DEF Last
    <2> QED
      BY <2>2, <2>3 DEF d, x
  <1>9. Last(FirstPart(all, num).data) = <<n, 0>>
    <2>1. 0 \in 0 .. i
      OBVIOUS
    <2>2. FirstPart(all, num) = PartOf(s, n, 0, num)
      BY <1>5, <2>1 DEF FirstPart
    <2> QED
      BY <1>6, <1>8, <2>2
  <1>10. \A k \in 0 .. i :
            LET q == CHOOSE q \in all : q.num = num /\ q.part = k
            IN c[k] = IF k = 0 THEN Front(q.data) ELSE q.data
    <2> TAKE k \in 0 .. i
    <2>1. c[k] = PartData(s, n, k)
      OBVIOUS
    <2>2. CASE k = 0
      BY <1>5, <1>6, <1>8, <2>1, <2>2
    <2>3. CASE k # 0
      BY <1>5, <1>7, <2>1, <2>3
    <2> QED
      BY <2>2, <2>3
  <1>11. \A k \in 0 .. i : f0[k + 1] = f0[k] \o c[k]
    <2> TAKE k \in 0 .. i
    <2> DEFINE from == k * maxDataLen
               to == IF LastPart(s, n, k) THEN len ELSE (k + 1) * maxDataLen
    <2>1. f0[k] = Data(n, 1, from)
      OBVIOUS
    <2>2. E(k + 1) = to
      <3>1. CASE k = i
        BY <3>1
      <3>2. CASE k < i
        BY <1>2, <3>2
      <3> QED
        BY <3>1, <3>2
    <2>3. f0[k + 1] = Data(n, 1, to)
      BY <2>2
    <2>4. c[k] = Data(n, from + 1, to)
      BY DEF PartData
    <2>5. from \in Nat /\ to \in Nat /\ from <= to
      BY <1>3
    <2> HIDE DEF from, to, f0, c
    <2>6. Data(n, 1, from) \o Data(n, from + 1, to) = Data(n, 1, to)
      BY <2>5, DataJoin
    <2> QED
      BY <2>1, <2>3, <2>4, <2>6
  <1>12. f0[0] = <<>>
    <2>1. f0[0] = Data(n, 1, 0)
      OBVIOUS
    <2>2. Data(n, 1, 0) \in Seq(Cell) /\ Len(Data(n, 1, 0)) = 0
      BY DataFromOne
    <2> QED
      BY <2>1, <2>2, EmptySeq
  <1>13. DOMAIN f0 = 0 .. i + 1 /\ f0 = [k \in 0 .. i + 1 |-> f0[k]]
         /\ f0[i + 1] = Data(n, 1, len)
    OBVIOUS
  <1> HIDE DEF f0, c, E
  <1>14. Combined(all, num, i) = f0[i + 1]
    <2>1. DOMAIN f0 = 0 .. i + 1 /\ f0[0] = <<>> /\ f0 = [k \in 0 .. i + 1 |-> f0[k]]
      BY <1>12, <1>13
    <2> QED
      BY <1>10, <1>11, <2>1, UpTo
  <1> QED
    BY <1>9, <1>13, <1>14

-----------------------------------------------------------------------------
\* From y on, what is on its way before x of large packets are parts of n, and the last
\* part is not among them.
OnlyOf(way, n, y, x) ==
    \A z \in y .. x - 1 : way[z].split => Of(way[z]) = n /\ ~way[z].last

\* The receiver has, or gets before the message x, the part j of packet n, and nothing
\* comes between that takes it away.
Waits(s, kept, way, n, j, num, x) ==
    \/ PartOf(s, n, j, num) \in kept /\ OnlyOf(way, n, 1, x)
    \/ \E y \in 1 .. x - 1 : way[y] = PartOf(s, n, j, num) /\ OnlyOf(way, n, y, x)

\* So it is with all parts before the part i.
Ready(s, kept, way, n, i, num, x) ==
    \A j \in 0 .. i - 1 : Waits(s, kept, way, n, j, num, x)

Large(s, n) == n \in DOMAIN s /\ s[n].length > maxDataLen

\* A message is a whole command that was sent, or a part of one.
Sound(s, p) ==
    \/ /\ ~p.split /\ Of(p) \in DOMAIN s
       /\ p = Unsplit(s, Of(p))
    \/ /\ p.split /\ Large(s, Of(p))
       /\ p.part \in Nat /\ p.num \in Nat /\ p.part * maxDataLen < s[Of(p)].length
       /\ p = PartOf(s, Of(p), p.part, p.num)

LEMMA ReadyKeeps ==
    ASSUME NEW s, NEW s2, NEW kept, NEW way, NEW way2, NEW n, NEW i, NEW num, NEW x \in Nat,
           s2[n] = s[n], \A z \in 1 .. x - 1 : way2[z] = way[z],
           Ready(s, kept, way, n, i, num, x)
    PROVE  Ready(s2, kept, way2, n, i, num, x)
  <1>1. \A j : PartOf(s2, n, j, num) = PartOf(s, n, j, num)
    BY DEF PartOf, PartData, LastPart
  <1>2. \A y \in 1 .. x : OnlyOf(way, n, y, x) => OnlyOf(way2, n, y, x)
    <2>1. ASSUME NEW y \in 1 .. x, OnlyOf(way, n, y, x), NEW z \in y .. x - 1, way2[z].split
          PROVE  Of(way2[z]) = n /\ ~way2[z].last
      <3>1. z \in 1 .. x - 1
        OBVIOUS
      <3>2. way2[z] = way[z]
        BY <3>1
      <3> QED
        BY <2>1, <3>2 DEF OnlyOf
    <2> QED
      BY <2>1 DEF OnlyOf
  <1>3. ASSUME NEW j \in 0 .. i - 1 PROVE Waits(s2, kept, way2, n, j, num, x)
    <2>1. Waits(s, kept, way, n, j, num, x)
      BY DEF Ready
    <2>2. CASE PartOf(s, n, j, num) \in kept /\ OnlyOf(way, n, 1, x)
      <3>1. OnlyOf(way2, n, 1, x)
        <4>1. CASE x = 0
          <5>1. \A z : z \notin 1 .. x - 1
            BY <4>1
          <5> QED
            BY <5>1 DEF OnlyOf
        <4>2. CASE x # 0
          <5>1. 1 \in 1 .. x
            BY <4>2
          <5> QED
            BY <1>2, <2>2, <5>1
        <4> QED
          BY <4>1, <4>2
      <3> QED
        BY <1>1, <2>2, <3>1 DEF Waits
    <2>3. CASE \E y \in 1 .. x - 1 : way[y] = PartOf(s, n, j, num) /\ OnlyOf(way, n, y, x)
      <3>1. PICK y \in 1 .. x - 1 : way[y] = PartOf(s, n, j, num) /\ OnlyOf(way, n, y, x)
        BY <2>3
      <3>2. y \in 1 .. x /\ way2[y] = way[y]
        OBVIOUS
      <3>3. way2[y] = PartOf(s2, n, j, num) /\ OnlyOf(way2, n, y, x)
        BY <1>1, <1>2, <3>1, <3>2
      <3> QED
        BY <3>3 DEF Waits
    <2> QED
      BY <2>1, <2>2, <2>3 DEF Waits
  <1> QED
    BY <1>3 DEF Ready

\* A message after which they still are there.
LEMMA ReadyOver ==
    ASSUME NEW s, NEW kept, NEW way, NEW n, NEW i, NEW num, NEW x \in Nat \ {0},
           way[x].split => Of(way[x]) = n /\ ~way[x].last,
           Ready(s, kept, way, n, i, num, x)
    PROVE  Ready(s, kept, way, n, i, num, x + 1)
  <1>1. \A y \in 1 .. x : OnlyOf(way, n, y, x) => OnlyOf(way, n, y, x + 1)
    <2>1. ASSUME NEW y \in 1 .. x, OnlyOf(way, n, y, x),
                 NEW z \in y .. (x + 1) - 1, way[z].split
          PROVE  Of(way[z]) = n /\ ~way[z].last
      <3>1. CASE z = x
        BY <2>1, <3>1
      <3>2. CASE z # x
        <4>1. z \in y .. x - 1
          BY <3>2
        <4> QED
          BY <2>1, <4>1 DEF OnlyOf
      <3> QED
        BY <3>1, <3>2
    <2> QED
      BY <2>1 DEF OnlyOf
  <1>2. ASSUME NEW j \in 0 .. i - 1 PROVE Waits(s, kept, way, n, j, num, x + 1)
    <2>1. Waits(s, kept, way, n, j, num, x)
      BY DEF Ready
    <2>2. CASE PartOf(s, n, j, num) \in kept /\ OnlyOf(way, n, 1, x)
      <3>1. 1 \in 1 .. x
        OBVIOUS
      <3> QED
        BY <1>1, <2>2, <3>1 DEF Waits
    <2>3. CASE \E y \in 1 .. x - 1 : way[y] = PartOf(s, n, j, num) /\ OnlyOf(way, n, y, x)
      <3>1. PICK y \in 1 .. x - 1 : way[y] = PartOf(s, n, j, num) /\ OnlyOf(way, n, y, x)
        BY <2>3
      <3>2. y \in 1 .. x /\ y \in 1 .. (x + 1) - 1
        OBVIOUS
      <3> QED
        BY <1>1, <3>1, <3>2 DEF Waits
    <2> QED
      BY <2>1, <2>2, <2>3 DEF Waits
  <1> QED
    BY <1>2 DEF Ready

\* The next part of the same packet, which is not the last one.
LEMMA ReadyPart ==
    ASSUME NEW s, NEW kept, NEW way, NEW n, NEW i \in Nat, NEW num, NEW x \in Nat \ {0},
           way[x] = PartOf(s, n, i, num), Of(way[x]) = n, ~way[x].last,
           Ready(s, kept, way, n, i, num, x)
    PROVE  Ready(s, kept, way, n, i + 1, num, x + 1)
  <1>1. Ready(s, kept, way, n, i, num, x + 1)
    BY ReadyOver
  <1>2. OnlyOf(way, n, x, x + 1)
    <2>1. \A z \in x .. (x + 1) - 1 : z = x
      OBVIOUS
    <2> QED
      BY <2>1 DEF OnlyOf
  <1>3. Waits(s, kept, way, n, i, num, x + 1)
    <2>1. x \in 1 .. (x + 1) - 1
      OBVIOUS
    <2> QED
      BY <1>2, <2>1 DEF Waits
  <1>4. \A j \in 0 .. (i + 1) - 1 : j = i \/ j \in 0 .. i - 1
    OBVIOUS
  <1> QED
    BY <1>1, <1>3, <1>4 DEF Ready

\* The receiver takes the first message, from which it keeps what it is told to.
LEMMA ReadyTail ==
    ASSUME NEW s, NEW kept, NEW kept2, NEW way \in Seq(Message), way # <<>>, NEW n, NEW i,
           NEW num, NEW x \in Nat, x >= 2, x <= Len(way) + 1,
           Ready(s, kept, way, n, i, num, x),
           ~Head(way).split => kept2 = kept,
           Head(way).split /\ ~Head(way).last =>
              /\ Head(way) \in kept2
              /\ \A q \in kept : q.num # Head(way).num \/ q.part # Head(way).part => q \in kept2,
           Head(way).split => Head(way) = PartOf(s, Of(Head(way)), Head(way).part, Head(way).num)
    PROVE  Ready(s, kept2, Tail(way), n, i, num, x - 1)
  <1> DEFINE p == Head(way)
             way2 == Tail(way)
  <1>1. p = way[1] /\ \A z \in 1 .. Len(way) - 1 : way2[z] = way[z + 1]
    BY HeadTailProperties
  <1>2. Len(way) \in Nat
    BY LenProperties
  <1> HIDE DEF p, way2
  <1>3. \A z \in 1 .. x - 2 : way2[z] = way[z + 1]
    BY <1>1, <1>2
  <1>4. \A y \in 1 .. x - 2 : OnlyOf(way, n, y + 1, x) => OnlyOf(way2, n, y, x - 1)
    <2>1. ASSUME NEW y \in 1 .. x - 2, OnlyOf(way, n, y + 1, x),
                 NEW z \in y .. (x - 1) - 1, way2[z].split
          PROVE  Of(way2[z]) = n /\ ~way2[z].last
      <3>1. z \in 1 .. x - 2 /\ z + 1 \in (y + 1) .. x - 1
        OBVIOUS
      <3>2. way2[z] = way[z + 1]
        BY <1>3, <3>1
      <3> QED
        BY <2>1, <3>1, <3>2 DEF OnlyOf
    <2> QED
      BY <2>1 DEF OnlyOf
  <1>5. OnlyOf(way, n, 1, x) => /\ p.split => Of(p) = n /\ ~p.last
                               /\ OnlyOf(way2, n, 1, x - 1)
    <2> SUFFICES ASSUME OnlyOf(way, n, 1, x)
                 PROVE  /\ p.split => Of(p) = n /\ ~p.last
                        /\ OnlyOf(way2, n, 1, x - 1)
      OBVIOUS
    <2>1. 1 \in 1 .. x - 1
      OBVIOUS
    <2>2. p.split => Of(p) = n /\ ~p.last
      BY <1>1, <2>1 DEF OnlyOf
    <2>3. ASSUME NEW z \in 1 .. (x - 1) - 1, way2[z].split
          PROVE  Of(way2[z]) = n /\ ~way2[z].last
      <3>1. z \in 1 .. x - 2 /\ z + 1 \in 1 .. x - 1
        OBVIOUS
      <3>2. way2[z] = way[z + 1]
        BY <1>3, <3>1
      <3> QED
        BY <2>3, <3>1, <3>2 DEF OnlyOf
    <2> QED
      BY <2>2, <2>3 DEF OnlyOf
  <1>6. ASSUME NEW j, PartOf(s, n, j, num) \in kept, p.split => Of(p) = n /\ ~p.last
        PROVE  PartOf(s, n, j, num) \in kept2
    <2> DEFINE q == PartOf(s, n, j, num)
    <2>1. q.num = num /\ q.part = j
      BY DEF PartOf
    <2>2. CASE ~p.split
      BY <1>6, <2>2 DEF p
    <2>3. CASE p.split
      <3>1. p \in kept2 /\ p = PartOf(s, n, p.part, p.num)
        BY <1>6, <2>3 DEF p
      <3>2. CASE p.num = num /\ p.part = j
        BY <3>1, <3>2
      <3>3. CASE ~(p.num = num /\ p.part = j)
        BY <1>6, <2>1, <2>3, <3>3 DEF p
      <3> QED
        BY <3>2, <3>3
    <2> QED
      BY <2>2, <2>3
  <1>7. ASSUME NEW j \in 0 .. i - 1 PROVE Waits(s, kept2, way2, n, j, num, x - 1)
    <2>1. Waits(s, kept, way, n, j, num, x)
      BY DEF Ready
    <2>2. CASE PartOf(s, n, j, num) \in kept /\ OnlyOf(way, n, 1, x)
      BY <1>5, <1>6, <2>2 DEF Waits
    <2>3. CASE \E y \in 1 .. x - 1 : way[y] = PartOf(s, n, j, num) /\ OnlyOf(way, n, y, x)
      <3>1. PICK y \in 1 .. x - 1 : way[y] = PartOf(s, n, j, num) /\ OnlyOf(way, n, y, x)
        BY <2>3
      <3>2. CASE y = 1
        <4>1. p = PartOf(s, n, j, num) /\ OnlyOf(way, n, 1, x)
          BY <1>1, <3>1, <3>2
        <4>2. p.split
          BY <4>1 DEF PartOf
        <4>3. p \in kept2 /\ OnlyOf(way2, n, 1, x - 1)
          BY <1>5, <4>1, <4>2 DEF p
        <4> QED
          BY <4>1, <4>3 DEF Waits
      <3>3. CASE y # 1
        <4> DEFINE y2 == y - 1
        <4>1. y2 \in 1 .. x - 2 /\ y2 \in 1 .. (x - 1) - 1 /\ y2 + 1 = y
          BY <3>3
        <4> HIDE DEF y2
        <4>2. way2[y2] = PartOf(s, n, j, num)
          BY <1>3, <3>1, <4>1
        <4>3. OnlyOf(way2, n, y2, x - 1)
          BY <1>4, <3>1, <4>1
        <4> QED
          BY <4>1, <4>2, <4>3 DEF Waits
      <3> QED
        BY <3>2, <3>3
    <2> QED
      BY <2>1, <2>2, <2>3 DEF Waits
  <1> QED
    BY <1>7 DEF Ready, way2

\* What is ready for the first message has been received.
LEMMA ReadyHere ==
    ASSUME NEW s, NEW kept, NEW way, NEW n, NEW i, NEW num, Ready(s, kept, way, n, i, num, 1)
    PROVE  \A j \in 0 .. i - 1 : PartOf(s, n, j, num) \in kept
  <1>1. \A y : y \notin 1 .. 1 - 1
    OBVIOUS
  <1> QED
    BY <1>1 DEF Ready, Waits

-----------------------------------------------------------------------------
\* What the goroutine of packet n sent and is completed, done or on its way before the
\* message x, was sent before n.
Older(s, way, done, x, n) ==
    /\ \A z \in 1 .. x - 1 :
          Completes(way[z]) /\ s[Of(way[z])].by = s[n].by => Of(way[z]) < n
    /\ \A i \in DOMAIN done : s[done[i].cmd[1]].by = s[n].by => done[i].cmd[1] < n

\* The receiver keeps one part of a number.
OneOfNumber(kept) == \A q, r \in kept : q.num = r.num /\ q.part = r.part => q = r

WholeOf(s, n) == [cmd |-> <<n, 0>>, data |-> Data(n, 1, s[n].length)]

OnWay(s, kept, way, done) ==
    \A x \in DOMAIN way :
        /\ Sound(s, way[x])
        /\ way[x].split => Ready(s, kept, way, Of(way[x]), way[x].part, way[x].num, x)
        /\ Older(s, way, done, x, Of(way[x]))

Done(s, done) ==
    \A i \in DOMAIN done :
        /\ done[i].cmd[1] \in DOMAIN s
        /\ done[i] = WholeOf(s, done[i].cmd[1])
        /\ \A j \in 1 .. i - 1 : s[done[j].cmd[1]].by = s[done[i].cmd[1]].by
                                    => done[j].cmd[1] < done[i].cmd[1]

\* A goroutine that sends a large packet is the only one that does.
Sending(s, kept, way, done, num, at) ==
    \A g \in SplitSender : at[g] # Resting =>
        /\ at[g].at \in {"number", "parts"}
        /\ Large(s, at[g].n) /\ s[at[g].n].by = g
        /\ at[g].part * maxDataLen < s[at[g].n].length
        /\ at[g].at = "number" => at[g].part = 0
        /\ at[g].at = "parts" => Ready(s, kept, way, at[g].n, at[g].part, num, Len(way) + 1)
        /\ Older(s, way, done, Len(way) + 1, at[g].n)
        /\ \A h \in SplitSender \ {g} : at[h] = Resting

\* Who sent how much, and where a goroutine is.
Posted == [by : SplitSender, length : Nat]
Place == [at : {"idle", "number", "parts"}, n : Nat, part : Nat, num : Nat]

SplitTypes ==
    /\ posted \in Seq(Posted) /\ packetNum \in Nat
    /\ sender \in [SplitSender -> Place]
    /\ parts \in Seq(Message)
    /\ handled \in Seq([cmd : Cell, data : Seq(Cell)])

\* The inductive invariant: what is on its way, what the receiver keeps and where the
\* senders are agree, so that every last part finds the others.
SplitInv ==
    ~mixed => /\ SplitTypes
              /\ OnWay(posted, m, parts, handled)
              /\ OneOfNumber(m)
              /\ Done(posted, handled)
              /\ Sending(posted, m, parts, handled, packetNum, sender)

LEMMA SoundFacts ==
    ASSUME maxDataLen \in Nat \ {0}, NEW s \in Seq(Posted), NEW p, Sound(s, p)
    PROVE  /\ p \in Message
           /\ Of(p) \in DOMAIN s /\ Of(p) \in Nat /\ s[Of(p)].length \in Nat
           /\ p.split => /\ p.part \in Nat /\ p.num \in Nat
                         /\ p.part * maxDataLen < s[Of(p)].length
                         /\ Large(s, Of(p))
                         /\ p = PartOf(s, Of(p), p.part, p.num)
                         /\ p.last = LastPart(s, Of(p), p.part)
           /\ ~p.split => p = Unsplit(s, Of(p))
  <1>1. Of(p) \in DOMAIN s
    BY DEF Sound, Large
  <1>2. DOMAIN s = 1 .. Len(s) /\ Len(s) \in Nat
    BY LenProperties
  <1>3. Of(p) \in Nat /\ s[Of(p)].length \in Nat
    <2>1. s[Of(p)] \in Posted
      BY <1>1, ElementOfSeq, <1>2
    <2> QED
      BY <1>1, <1>2, <2>1 DEF Posted
  <1>4. CASE p.split
    <2>1. /\ p.part \in Nat /\ p.num \in Nat /\ p.part * maxDataLen < s[Of(p)].length
          /\ Large(s, Of(p)) /\ p = PartOf(s, Of(p), p.part, p.num)
      BY <1>4 DEF Sound
    <2> DEFINE q == PartOf(s, Of(p), p.part, p.num)
    <2>2. q \in Message /\ q.last = LastPart(s, Of(p), p.part)
      BY <1>3, <2>1, PartFacts
    <2> QED
      BY <1>1, <1>3, <1>4, <2>1, <2>2
  <1>5. CASE ~p.split
    <2>1. p = Unsplit(s, Of(p))
      BY <1>5 DEF Sound
    <2>2. Unsplit(s, Of(p)) \in Message
      BY <1>3, UnsplitFacts
    <2> QED
      BY <1>1, <1>3, <1>5, <2>1, <2>2
  <1> QED
    BY <1>4, <1>5

\* A packet more that was sent.
Extends(s, s2) == \A n \in DOMAIN s : n \in DOMAIN s2 /\ s2[n] = s[n]

LEMMA SoundGrows ==
    ASSUME NEW s, NEW s2, Extends(s, s2), NEW p, Sound(s, p)
    PROVE  Sound(s2, p)
  <1>1. Of(p) \in DOMAIN s /\ Of(p) \in DOMAIN s2 /\ s2[Of(p)] = s[Of(p)]
    BY DEF Sound, Large, Extends
  <1>2. \A j, num : PartOf(s2, Of(p), j, num) = PartOf(s, Of(p), j, num)
    BY <1>1 DEF PartOf, PartData, LastPart
  <1>3. Unsplit(s2, Of(p)) = Unsplit(s, Of(p))
    BY <1>1 DEF Unsplit
  <1>4. Large(s, Of(p)) => Large(s2, Of(p))
    BY <1>1 DEF Large
  <1> QED
    BY <1>1, <1>2, <1>3, <1>4 DEF Sound

LEMMA OlderGrows ==
    ASSUME NEW s, NEW s2, Extends(s, s2), NEW way, NEW done, NEW x, NEW n \in DOMAIN s,
           \A z \in 1 .. x - 1 : Of(way[z]) \in DOMAIN s,
           \A i \in DOMAIN done : done[i].cmd[1] \in DOMAIN s,
           Older(s, way, done, x, n)
    PROVE  Older(s2, way, done, x, n)
  <1>1. s2[n] = s[n]
    BY DEF Extends
  <1>2. \A z \in 1 .. x - 1 : s2[Of(way[z])] = s[Of(way[z])]
    BY DEF Extends
  <1>3. \A i \in DOMAIN done : s2[done[i].cmd[1]] = s[done[i].cmd[1]]
    BY DEF Extends
  <1> QED
    BY <1>1, <1>2, <1>3 DEF Older

LEMMA OnWayGrows ==
    ASSUME NEW s, NEW s2, Extends(s, s2), NEW kept, NEW way \in Seq(Message), NEW done,
           OnWay(s, kept, way, done), Done(s, done)
    PROVE  OnWay(s2, kept, way, done)
  <1>1. DOMAIN way = 1 .. Len(way) /\ Len(way) \in Nat
    BY LenProperties
  <1>2. \A z \in DOMAIN way : Of(way[z]) \in DOMAIN s
    BY DEF OnWay, Sound, Large
  <1>3. \A i \in DOMAIN done : done[i].cmd[1] \in DOMAIN s
    BY DEF Done
  <1> SUFFICES ASSUME NEW x \in DOMAIN way
               PROVE  /\ Sound(s2, way[x])
                      /\ way[x].split => Ready(s2, kept, way, Of(way[x]), way[x].part,
                                               way[x].num, x)
                      /\ Older(s2, way, done, x, Of(way[x]))
    BY DEF OnWay
  <1>4. Sound(s2, way[x])
    BY SoundGrows DEF OnWay
  <1>5. x \in Nat /\ \A z \in 1 .. x - 1 : z \in DOMAIN way
    BY <1>1
  <1>6. ASSUME way[x].split
        PROVE  Ready(s2, kept, way, Of(way[x]), way[x].part, way[x].num, x)
    <2>1. Ready(s, kept, way, Of(way[x]), way[x].part, way[x].num, x)
      BY <1>6 DEF OnWay
    <2>2. s2[Of(way[x])] = s[Of(way[x])]
      BY <1>2 DEF Extends
    <2> QED
      BY <1>5, <2>1, <2>2, ReadyKeeps
  <1>7. Older(s2, way, done, x, Of(way[x]))
    <2>1. Older(s, way, done, x, Of(way[x]))
      BY DEF OnWay
    <2> QED
      BY <1>2, <1>3, <1>5, <2>1, OlderGrows
  <1> QED
    BY <1>4, <1>6, <1>7

LEMMA DoneGrows ==
    ASSUME NEW s, NEW s2, Extends(s, s2), NEW done \in Seq([cmd : Cell, data : Seq(Cell)]),
           Done(s, done)
    PROVE  Done(s2, done)
  <1>1. DOMAIN done = 1 .. Len(done) /\ Len(done) \in Nat
    BY LenProperties
  <1>2. \A i \in DOMAIN done : /\ done[i].cmd[1] \in DOMAIN s2
                               /\ s2[done[i].cmd[1]] = s[done[i].cmd[1]]
    BY DEF Done, Extends
  <1> SUFFICES ASSUME NEW i \in DOMAIN done
               PROVE  /\ done[i].cmd[1] \in DOMAIN s2
                      /\ done[i] = WholeOf(s2, done[i].cmd[1])
                      /\ \A j \in 1 .. i - 1 : s2[done[j].cmd[1]].by = s2[done[i].cmd[1]].by
                                                  => done[j].cmd[1] < done[i].cmd[1]
    BY DEF Done
  <1>3. done[i] = WholeOf(s2, done[i].cmd[1])
    BY <1>2 DEF Done, WholeOf
  <1>4. \A j \in 1 .. i - 1 : j \in DOMAIN done
    BY <1>1
  <1> QED
    BY <1>2, <1>3, <1>4 DEF Done

LEMMA SendingGrows ==
    ASSUME NEW s, NEW s2, Extends(s, s2), NEW kept, NEW way \in Seq(Message), NEW done,
           NEW num, NEW at, OnWay(s, kept, way, done), Done(s, done),
           Sending(s, kept, way, done, num, at)
    PROVE  Sending(s2, kept, way, done, num, at)
  <1>1. DOMAIN way = 1 .. Len(way) /\ Len(way) \in Nat
    BY LenProperties
  <1>2. \A z \in DOMAIN way : Of(way[z]) \in DOMAIN s
    BY DEF OnWay, Sound, Large
  <1>3. \A i \in DOMAIN done : done[i].cmd[1] \in DOMAIN s
    BY DEF Done
  <1> SUFFICES ASSUME NEW g \in SplitSender, at[g] # Resting
               PROVE  /\ at[g].at \in {"number", "parts"}
                      /\ Large(s2, at[g].n) /\ s2[at[g].n].by = g
                      /\ at[g].part * maxDataLen < s2[at[g].n].length
                      /\ at[g].at = "number" => at[g].part = 0
                      /\ at[g].at = "parts" => Ready(s2, kept, way, at[g].n, at[g].part, num,
                                                     Len(way) + 1)
                      /\ Older(s2, way, done, Len(way) + 1, at[g].n)
                      /\ \A h \in SplitSender \ {g} : at[h] = Resting
    BY DEF Sending
  <1> DEFINE n == at[g].n
             x == Len(way) + 1
  <1>4. n \in DOMAIN s /\ n \in DOMAIN s2 /\ s2[n] = s[n]
    BY DEF Sending, Large, Extends
  <1>5. x \in Nat /\ \A z \in 1 .. x - 1 : z \in DOMAIN way
    BY <1>1
  <1>6. Large(s2, n) /\ s2[n].by = g /\ at[g].part * maxDataLen < s2[n].length
    BY <1>4 DEF Sending, Large
  <1>7. /\ Older(s, way, done, x, n)
        /\ at[g].at = "parts" => Ready(s, kept, way, n, at[g].part, num, x)
    BY DEF Sending
  <1>8. /\ at[g].at \in {"number", "parts"}
        /\ at[g].at = "number" => at[g].part = 0
        /\ \A h \in SplitSender \ {g} : at[h] = Resting
    BY DEF Sending
  <1> HIDE DEF n, x
  <1>9. at[g].at = "parts" => Ready(s2, kept, way, n, at[g].part, num, x)
    BY <1>4, <1>5, <1>7, ReadyKeeps
  <1>10. Older(s2, way, done, x, n)
    BY <1>2, <1>3, <1>4, <1>5, <1>7, OlderGrows
  <1> QED
    BY <1>6, <1>8, <1>9, <1>10 DEF n, x

\* A message at the end of those on the way.
LEMMA OlderKeeps ==
    ASSUME NEW s, NEW way, NEW way2, NEW done, NEW x \in Nat, NEW n,
           \A z \in 1 .. x - 1 : way2[z] = way[z],
           Older(s, way, done, x, n)
    PROVE  Older(s, way2, done, x, n)
  BY DEF Older

LEMMA OlderOver ==
    ASSUME NEW s, NEW way, NEW done, NEW x \in Nat \ {0}, NEW n,
           Completes(way[x]) /\ s[Of(way[x])].by = s[n].by => Of(way[x]) < n,
           Older(s, way, done, x, n)
    PROVE  Older(s, way, done, x + 1, n)
  <1>1. \A z \in 1 .. (x + 1) - 1 : z = x \/ z \in 1 .. x - 1
    OBVIOUS
  <1> QED
    BY <1>1 DEF Older

LEMMA OnWayAppend ==
    ASSUME NEW s, NEW kept, NEW way \in Seq(Message), NEW done, OnWay(s, kept, way, done),
           NEW p \in Message, Sound(s, p),
           p.split => Ready(s, kept, way, Of(p), p.part, p.num, Len(way) + 1),
           Older(s, way, done, Len(way) + 1, Of(p))
    PROVE  OnWay(s, kept, Append(way, p), done)
  <1> DEFINE way2 == Append(way, p)
             l == Len(way)
  <1>1. l \in Nat /\ DOMAIN way = 1 .. l
    BY LenProperties
  <1>2. /\ DOMAIN way2 = 1 .. l + 1
        /\ \A z \in 1 .. l : way2[z] = way[z]
        /\ way2[l + 1] = p
    <2>1. way2 \in Seq(Message) /\ Len(way2) = l + 1
          /\ (\A z \in 1 .. l : way2[z] = way[z]) /\ way2[l + 1] = p
      BY AppendProperties
    <2>2. DOMAIN way2 = 1 .. Len(way2)
      BY <2>1, LenProperties
    <2> QED
      BY <2>1, <2>2
  <1>3. /\ p.split => Ready(s, kept, way, Of(p), p.part, p.num, l + 1)
        /\ Older(s, way, done, l + 1, Of(p))
    OBVIOUS
  <1> HIDE DEF way2, l
  <1> SUFFICES ASSUME NEW x \in 1 .. l + 1
               PROVE  /\ Sound(s, way2[x])
                      /\ way2[x].split => Ready(s, kept, way2, Of(way2[x]), way2[x].part,
                                                way2[x].num, x)
                      /\ Older(s, way2, done, x, Of(way2[x]))
    BY <1>2 DEF OnWay, way2
  <1>4. x \in Nat /\ \A z \in 1 .. x - 1 : way2[z] = way[z]
    BY <1>1, <1>2
  <1>5. CASE x = l + 1
    <2>1. way2[x] = p
      BY <1>2, <1>5
    <2>2. ASSUME p.split PROVE Ready(s, kept, way2, Of(p), p.part, p.num, x)
      BY <1>3, <1>4, <1>5, <2>2, ReadyKeeps
    <2>3. Older(s, way2, done, x, Of(p))
      BY <1>3, <1>4, <1>5, OlderKeeps
    <2> QED
      BY <2>1, <2>2, <2>3
  <1>6. CASE x # l + 1
    <2>1. x \in 1 .. l /\ x \in DOMAIN way
      BY <1>1, <1>6
    <2>2. way2[x] = way[x]
      BY <1>2, <2>1
    <2>3. /\ Sound(s, way[x])
          /\ way[x].split => Ready(s, kept, way, Of(way[x]), way[x].part, way[x].num, x)
          /\ Older(s, way, done, x, Of(way[x]))
      BY <2>1 DEF OnWay
    <2>4. ASSUME way[x].split
          PROVE  Ready(s, kept, way2, Of(way[x]), way[x].part, way[x].num, x)
      BY <1>4, <2>3, <2>4, ReadyKeeps
    <2>5. Older(s, way2, done, x, Of(way[x]))
      BY <1>4, <2>3, OlderKeeps
    <2> QED
      BY <2>2, <2>3, <2>4, <2>5
  <1> QED
    BY <1>5, <1>6

\* The receiver takes the first message, and processes a command if that completes one.
LEMMA OlderTail ==
    ASSUME NEW s, NEW way \in Seq(Message), way # <<>>,
           NEW done \in Seq([cmd : Cell, data : Seq(Cell)]), NEW done2,
           NEW n, NEW x \in Nat, x >= 2, x <= Len(way) + 1,
           Older(s, way, done, x, n),
           \/ done2 = done
           \/ /\ Completes(Head(way))
              /\ done2 = Append(done, WholeOf(s, Of(Head(way))))
              /\ WholeOf(s, Of(Head(way))) \in [cmd : Cell, data : Seq(Cell)]
    PROVE  Older(s, Tail(way), done2, x - 1, n)
  <1> DEFINE p == Head(way)
             way2 == Tail(way)
             w == WholeOf(s, Of(p))
  <1>1. p = way[1] /\ (\A z \in 1 .. Len(way) - 1 : way2[z] = way[z + 1]) /\ Len(way) \in Nat
    BY HeadTailProperties, LenProperties
  <1>2. w.cmd[1] = Of(p)
    BY DEF WholeOf
  <1>3. \/ done2 = done
        \/ Completes(p) /\ done2 = Append(done, w) /\ w \in [cmd : Cell, data : Seq(Cell)]
    OBVIOUS
  <1> HIDE DEF p, way2, w
  <1>4. ASSUME NEW z \in 1 .. (x - 1) - 1, Completes(way2[z]), s[Of(way2[z])].by = s[n].by
        PROVE  Of(way2[z]) < n
    <2>1. z \in 1 .. Len(way) - 1 /\ z + 1 \in 1 .. x - 1
      BY <1>1
    <2>2. way2[z] = way[z + 1]
      BY <1>1, <2>1
    <2> QED
      BY <1>4, <2>1, <2>2 DEF Older
  <1>5. ASSUME NEW i \in DOMAIN done2, s[done2[i].cmd[1]].by = s[n].by
        PROVE  done2[i].cmd[1] < n
    <2>1. CASE done2 = done
      BY <1>5, <2>1 DEF Older
    <2>2. CASE Completes(p) /\ done2 = Append(done, w) /\ w \in [cmd : Cell, data : Seq(Cell)]
      <3>1. /\ done2 \in Seq([cmd : Cell, data : Seq(Cell)])
            /\ Len(done2) = Len(done) + 1
            /\ \A j \in 1 .. Len(done) : done2[j] = done[j]
            /\ done2[Len(done) + 1] = w
        BY <2>2, AppendProperties
      <3>2. DOMAIN done2 = 1 .. Len(done2) /\ DOMAIN done = 1 .. Len(done) /\ Len(done) \in Nat
        BY <3>1, LenProperties
      <3>3. CASE i = Len(done) + 1
        <4>1. done2[i].cmd[1] = Of(p)
          BY <1>2, <3>1, <3>3
        <4>2. 1 \in 1 .. x - 1
          OBVIOUS
        <4>3. Completes(way[1]) /\ s[Of(way[1])].by = s[n].by
          BY <1>1, <1>5, <2>2, <4>1
        <4> QED
          BY <1>1, <4>1, <4>2, <4>3 DEF Older
      <3>4. CASE i # Len(done) + 1
        <4>1. i \in DOMAIN done /\ done2[i] = done[i]
          BY <3>1, <3>2, <3>4
        <4> QED
          BY <1>5, <4>1 DEF Older
      <3> QED
        BY <3>3, <3>4
    <2> QED
      BY <1>3, <2>1, <2>2
  <1> QED
    BY <1>4, <1>5 DEF Older, way2

\* What the receiver keeps of the first message.
Takes(kept, kept2, p) ==
    /\ ~p.split => kept2 = kept
    /\ p.split /\ ~p.last =>
          /\ p \in kept2
          /\ \A q \in kept : q.num # p.num \/ q.part # p.part => q \in kept2

LEMMA OnWayTail ==
    ASSUME maxDataLen \in Nat \ {0}, NEW s \in Seq(Posted), NEW kept, NEW kept2,
           NEW way \in Seq(Message), way # <<>>,
           NEW done \in Seq([cmd : Cell, data : Seq(Cell)]), NEW done2,
           OnWay(s, kept, way, done), Takes(kept, kept2, Head(way)),
           \/ done2 = done
           \/ /\ Completes(Head(way))
              /\ done2 = Append(done, WholeOf(s, Of(Head(way))))
              /\ WholeOf(s, Of(Head(way))) \in [cmd : Cell, data : Seq(Cell)]
    PROVE  OnWay(s, kept2, Tail(way), done2)
  <1> DEFINE way2 == Tail(way)
             l == Len(way)
  <1>1. /\ l \in Nat /\ l >= 1 /\ DOMAIN way = 1 .. l
        /\ Head(way) = way[1]
        /\ DOMAIN way2 = 1 .. l - 1
        /\ \A z \in 1 .. l - 1 : way2[z] = way[z + 1]
    <2>1. l \in Nat /\ l # 0 /\ DOMAIN way = 1 .. l
      BY LenProperties, EmptySeq
    <2>2. /\ way2 \in Seq(Message) /\ Len(way2) = l - 1 /\ Head(way) = way[1]
          /\ \A z \in 1 .. l - 1 : way2[z] = way[z + 1]
      BY <2>1, HeadTailProperties
    <2>3. DOMAIN way2 = 1 .. Len(way2)
      BY <2>2, LenProperties
    <2> QED
      BY <2>1, <2>2, <2>3
  <1>2. Head(way).split => Head(way) = PartOf(s, Of(Head(way)), Head(way).part, Head(way).num)
    <2>1. Sound(s, way[1])
      BY <1>1 DEF OnWay
    <2> QED
      BY <1>1, <2>1, SoundFacts
  <1> HIDE DEF way2, l
  <1> SUFFICES ASSUME NEW z \in 1 .. l - 1
               PROVE  /\ Sound(s, way2[z])
                      /\ way2[z].split => Ready(s, kept2, way2, Of(way2[z]), way2[z].part,
                                                way2[z].num, z)
                      /\ Older(s, way2, done2, z, Of(way2[z]))
    BY <1>1 DEF OnWay, way2
  <1> DEFINE x == z + 1
             p == way[x]
  <1>3. x \in Nat /\ x >= 2 /\ x <= Len(way) + 1 /\ x \in DOMAIN way /\ x - 1 = z
    BY <1>1 DEF l
  <1>4. way2[z] = p
    BY <1>1
  <1>5. /\ Sound(s, p)
        /\ p.split => Ready(s, kept, way, Of(p), p.part, p.num, x)
        /\ Older(s, way, done, x, Of(p))
    BY <1>3 DEF OnWay
  <1> HIDE DEF x, p
  <1>6. ASSUME p.split PROVE Ready(s, kept2, way2, Of(p), p.part, p.num, x - 1)
    BY <1>2, <1>3, <1>5, <1>6, ReadyTail DEF Takes, way2
  <1>7. Older(s, way2, done2, x - 1, Of(p))
    BY <1>3, <1>5, OlderTail DEF way2
  <1> QED
    BY <1>3, <1>4, <1>5, <1>6, <1>7

LEMMA SendingTail ==
    ASSUME maxDataLen \in Nat \ {0}, NEW s \in Seq(Posted), NEW kept, NEW kept2,
           NEW way \in Seq(Message), way # <<>>,
           NEW done \in Seq([cmd : Cell, data : Seq(Cell)]), NEW done2, NEW num, NEW at,
           OnWay(s, kept, way, done), Takes(kept, kept2, Head(way)),
           \/ done2 = done
           \/ /\ Completes(Head(way))
              /\ done2 = Append(done, WholeOf(s, Of(Head(way))))
              /\ WholeOf(s, Of(Head(way))) \in [cmd : Cell, data : Seq(Cell)],
           Sending(s, kept, way, done, num, at)
    PROVE  Sending(s, kept2, Tail(way), done2, num, at)
  <1> DEFINE way2 == Tail(way)
             x == Len(way) + 1
  <1>1. Len(way) \in Nat /\ Len(way) # 0 /\ DOMAIN way = 1 .. Len(way)
    BY LenProperties, EmptySeq
  <1>2. Head(way) = way[1] /\ Len(way2) + 1 = x - 1
    BY <1>1, HeadTailProperties
  <1>3. Head(way).split => Head(way) = PartOf(s, Of(Head(way)), Head(way).part, Head(way).num)
    <2>1. Sound(s, way[1])
      BY <1>1 DEF OnWay
    <2> QED
      BY <1>2, <2>1, SoundFacts
  <1>4. x \in Nat /\ x >= 2 /\ x <= Len(way) + 1
    BY <1>1
  <1> SUFFICES ASSUME NEW g \in SplitSender, at[g] # Resting
               PROVE  /\ at[g].at \in {"number", "parts"}
                      /\ Large(s, at[g].n) /\ s[at[g].n].by = g
                      /\ at[g].part * maxDataLen < s[at[g].n].length
                      /\ at[g].at = "number" => at[g].part = 0
                      /\ at[g].at = "parts" => Ready(s, kept2, way2, at[g].n, at[g].part, num,
                                                     Len(way2) + 1)
                      /\ Older(s, way2, done2, Len(way2) + 1, at[g].n)
                      /\ \A h \in SplitSender \ {g} : at[h] = Resting
    BY DEF Sending
  <1>5. /\ at[g].at = "parts" => Ready(s, kept, way, at[g].n, at[g].part, num, x)
        /\ Older(s, way, done, x, at[g].n)
    BY DEF Sending
  <1> HIDE DEF x, way2
  <1>6. ASSUME at[g].at = "parts"
        PROVE  Ready(s, kept2, way2, at[g].n, at[g].part, num, Len(way2) + 1)
    <2>1. Ready(s, kept2, way2, at[g].n, at[g].part, num, x - 1)
      BY <1>3, <1>4, <1>5, <1>6, ReadyTail DEF Takes, way2
    <2> QED
      BY <1>2, <2>1
  <1>7. Older(s, way2, done2, Len(way2) + 1, at[g].n)
    <2>1. Older(s, way2, done2, x - 1, at[g].n)
      BY <1>4, <1>5, OlderTail DEF way2
    <2> QED
      BY <1>2, <2>1
  <1> QED
    BY <1>6, <1>7 DEF Sending

\* A command that is processed now.
LEMMA DoneAppend ==
    ASSUME NEW s \in Seq(Posted), NEW done \in Seq([cmd : Cell, data : Seq(Cell)]), NEW way,
           Done(s, done), NEW n \in DOMAIN s, Older(s, way, done, 1, n),
           WholeOf(s, n) \in [cmd : Cell, data : Seq(Cell)]
    PROVE  Done(s, Append(done, WholeOf(s, n)))
  <1> DEFINE w == WholeOf(s, n)
             done2 == Append(done, w)
             l == Len(done)
  <1>1. l \in Nat /\ DOMAIN done = 1 .. l
    BY LenProperties
  <1>2. /\ DOMAIN done2 = 1 .. l + 1
        /\ \A j \in 1 .. l : done2[j] = done[j]
        /\ done2[l + 1] = w
    <2> HIDE DEF w
    <2>1. w \in [cmd : Cell, data : Seq(Cell)]
      BY DEF w
    <2>2. done2 \in Seq([cmd : Cell, data : Seq(Cell)]) /\ Len(done2) = l + 1
          /\ (\A z \in 1 .. l : done2[z] = done[z]) /\ done2[l + 1] = w
      BY <2>1, AppendProperties
    <2>3. DOMAIN done2 = 1 .. Len(done2)
      BY <2>2, LenProperties
    <2> QED
      BY <2>2, <2>3
  <1>3. w.cmd[1] = n
    BY DEF WholeOf
  <1> HIDE DEF w, done2, l
  <1> SUFFICES ASSUME NEW i \in 1 .. l + 1
               PROVE  /\ done2[i].cmd[1] \in DOMAIN s
                      /\ done2[i] = WholeOf(s, done2[i].cmd[1])
                      /\ \A j \in 1 .. i - 1 :
                            s[done2[j].cmd[1]].by = s[done2[i].cmd[1]].by
                               => done2[j].cmd[1] < done2[i].cmd[1]
    BY <1>2 DEF Done, done2, w
  <1>4. \A j \in 1 .. i - 1 : j \in DOMAIN done /\ done2[j] = done[j]
    BY <1>1, <1>2
  <1>5. CASE i = l + 1
    <2>1. done2[i] = w
      BY <1>2, <1>5
    <2>2. \A j \in 1 .. i - 1 : s[done[j].cmd[1]].by = s[n].by => done[j].cmd[1] < n
      BY <1>4 DEF Older
    <2> QED
      BY <1>3, <1>4, <2>1, <2>2 DEF w
  <1>6. CASE i # l + 1
    <2>1. i \in DOMAIN done /\ done2[i] = done[i]
      BY <1>1, <1>2, <1>6
    <2> QED
      BY <1>4, <2>1 DEF Done
  <1> QED
    BY <1>5, <1>6

-----------------------------------------------------------------------------
LEMMA SplitInvInit == SplitInit => SplitInv
  <1> SUFFICES ASSUME SplitInit PROVE SplitInv
    OBVIOUS
  <1>1. SplitTypes
    <2>1. Resting \in Place
      BY DEF Resting, Place
    <2> QED
      BY <2>1 DEF SplitInit, SplitTypes
  <1>2. DOMAIN parts = {} /\ DOMAIN handled = {}
    BY DEF SplitInit
  <1>3. OnWay(posted, m, parts, handled) /\ Done(posted, handled)
    BY <1>2 DEF OnWay, Done
  <1>4. OneOfNumber(m)
    BY DEF SplitInit, OneOfNumber
  <1>5. Sending(posted, m, parts, handled, packetNum, sender)
    BY DEF SplitInit, Sending
  <1> QED
    BY <1>1, <1>3, <1>4, <1>5 DEF SplitInv

\* The packet that is sent next, and that those before it are older.
LEMMA NextPacket ==
    ASSUME NEW s \in Seq(Posted), NEW r \in Posted
    PROVE  LET s2 == Append(s, r) IN
           /\ s2 \in Seq(Posted)
           /\ Extends(s, s2)
           /\ Len(s) \in Nat /\ DOMAIN s = 1 .. Len(s)
           /\ Len(s) + 1 \in DOMAIN s2 /\ s2[Len(s) + 1] = r
  <1> DEFINE s2 == Append(s, r)
  <1>1. Len(s) \in Nat /\ DOMAIN s = 1 .. Len(s)
    BY LenProperties
  <1>2. /\ s2 \in Seq(Posted) /\ Len(s2) = Len(s) + 1
        /\ (\A z \in 1 .. Len(s) : s2[z] = s[z]) /\ s2[Len(s) + 1] = r
    BY AppendProperties
  <1>3. DOMAIN s2 = 1 .. Len(s2)
    BY <1>2, LenProperties
  <1> HIDE DEF s2
  <1>4. Extends(s, s2)
    BY <1>1, <1>2, <1>3 DEF Extends
  <1> QED
    BY <1>1, <1>2, <1>3, <1>4 DEF s2

LEMMA NewerThanAll ==
    ASSUME maxDataLen \in Nat \ {0}, NEW s \in Seq(Posted), NEW kept,
           NEW way \in Seq(Message), NEW done \in Seq([cmd : Cell, data : Seq(Cell)]),
           NEW s2, OnWay(s, kept, way, done), Done(s, done)
    PROVE  Older(s2, way, done, Len(way) + 1, Len(s) + 1)
  <1>1. /\ Len(s) \in Nat /\ DOMAIN s = 1 .. Len(s)
        /\ Len(way) \in Nat /\ DOMAIN way = 1 .. Len(way)
    BY LenProperties
  <1>2. ASSUME NEW z \in 1 .. (Len(way) + 1) - 1 PROVE Of(way[z]) < Len(s) + 1
    <2>1. z \in DOMAIN way
      BY <1>1
    <2>2. Sound(s, way[z])
      BY <2>1 DEF OnWay
    <2>3. Of(way[z]) \in 1 .. Len(s)
      BY <1>1, <2>2 DEF Sound, Large
    <2> QED
      BY <1>1, <2>3
  <1>3. ASSUME NEW i \in DOMAIN done PROVE done[i].cmd[1] < Len(s) + 1
    <2>1. done[i].cmd[1] \in 1 .. Len(s)
      BY <1>1 DEF Done
    <2> QED
      BY <1>1, <2>1
  <1> QED
    BY <1>2, <1>3 DEF Older

LEMMA SendToKeeps ==
    ASSUME maxDataLen \in Nat \ {0}, MaxLength \in Nat,
           SplitInv, NEW g \in SplitSender, SendTo(g)
    PROVE  SplitInv'
  <1> SUFFICES ASSUME ~mixed' PROVE SplitInv'
    BY DEF SplitInv
  <1>1. PICK length \in 0 .. MaxLength :
          LET n == Len(posted) + 1 IN
          /\ sender[g] = Resting
          /\ posted' = Append(posted, [by |-> g, length |-> length])
          /\ IF length < maxDataLen
             THEN /\ parts' = Append(parts, [split |-> FALSE, cmd |-> <<n, 0>>,
                                             data |-> Data(n, 1, length)])
                  /\ UNCHANGED <<sender, mixed>>
             ELSE /\ sender' = [sender EXCEPT ![g] = [at |-> "number", n |-> n,
                                                      part |-> 0, num |-> packetNum]]
                  /\ mixed' = (mixed \/ length = maxDataLen
                                  \/ \E h \in SplitSender \ {g} : sender[h] # Resting)
                  /\ UNCHANGED parts
          /\ UNCHANGED <<packetNum, m, handled>>
    BY DEF SendTo
  <1> DEFINE n == Len(posted) + 1
             r == [by |-> g, length |-> length]
             p == Unsplit(posted', n)
             x == Len(parts) + 1
  <1>2. ~mixed
    <2>1. CASE length < maxDataLen
      BY <1>1, <2>1, Zenon
    <2>2. CASE ~(length < maxDataLen)
      BY <1>1, <2>2, Zenon
    <2> QED
      BY <2>1, <2>2
  <1>3. /\ SplitTypes /\ OnWay(posted, m, parts, handled) /\ OneOfNumber(m) /\ Done(posted, handled)
        /\ Sending(posted, m, parts, handled, packetNum, sender)
    BY <1>2 DEF SplitInv
  <1>4. r \in Posted /\ length \in Nat
    BY DEF Posted
  <1>5. /\ posted' \in Seq(Posted) /\ Extends(posted, posted')
        /\ Len(posted) \in Nat /\ DOMAIN posted = 1 .. Len(posted)
        /\ n \in DOMAIN posted' /\ posted'[n] = r
    <2>1. posted \in Seq(Posted) /\ posted' = Append(posted, r)
      BY <1>1, <1>3 DEF SplitTypes
    <2> QED
      BY <1>4, <2>1, NextPacket
  <1>6. n \in Nat /\ posted'[n].length = length /\ posted'[n].by = g
    BY <1>5
  <1>7. /\ posted \in Seq(Posted) /\ parts \in Seq(Message) /\ packetNum \in Nat
        /\ sender \in [SplitSender -> Place]
        /\ handled \in Seq([cmd : Cell, data : Seq(Cell)])
    BY <1>3 DEF SplitTypes
  <1>8. packetNum' = packetNum /\ m' = m /\ handled' = handled
    BY <1>1
  <1> HIDE DEF r
  <1>9. /\ OnWay(posted', m, parts, handled) /\ Done(posted', handled)
        /\ Sending(posted', m, parts, handled, packetNum, sender)
    BY <1>3, <1>5, <1>7, OnWayGrows, DoneGrows, SendingGrows
  <1>10. Older(posted', parts, handled, x, n)
    BY <1>3, <1>7, NewerThanAll
  <1>11. x \in Nat \ {0}
    BY <1>7, LenProperties
  <1>12. CASE length < maxDataLen
    <2>1. p \in Message /\ ~p.split /\ Of(p) = n
      BY <1>6, <1>4, UnsplitFacts
    <2>2. parts' = Append(parts, p) /\ sender' = sender
      <3>1. p = [split |-> FALSE, cmd |-> <<n, 0>>, data |-> Data(n, 1, length)]
        BY <1>6 DEF Unsplit
      <3> QED
        BY <1>1, <1>12, <3>1
    <2>3. Sound(posted', p)
      BY <1>5, <2>1 DEF Sound
    <2>4. /\ parts' \in Seq(Message) /\ Len(parts') = x
          /\ \A z \in 1 .. x - 1 : parts'[z] = parts[z]
          /\ parts'[x] = p
      <3> HIDE DEF p
      <3>1. Len(parts) \in Nat
        BY <1>7, LenProperties
      <3>2. \A z \in 1 .. Len(parts) : parts'[z] = parts[z]
        BY <1>7, <2>1, <2>2, AppendProperties
      <3>3. parts' \in Seq(Message) /\ Len(parts') = x /\ parts'[x] = p
        BY <1>7, <2>1, <2>2, AppendProperties
      <3> QED
        BY <3>1, <3>2, <3>3
    <2> HIDE DEF p, n
    <2>5. OnWay(posted', m, parts', handled)
      BY <1>7, <1>9, <1>10, <2>1, <2>2, <2>3, OnWayAppend
    <2>6. ASSUME NEW h \in SplitSender, sender[h] # Resting
          PROVE  /\ sender[h].at \in {"number", "parts"}
                 /\ Large(posted', sender[h].n) /\ posted'[sender[h].n].by = h
                 /\ sender[h].part * maxDataLen < posted'[sender[h].n].length
                 /\ sender[h].at = "number" => sender[h].part = 0
                 /\ sender[h].at = "parts" => Ready(posted', m, parts', sender[h].n,
                                                    sender[h].part, packetNum, x + 1)
                 /\ Older(posted', parts', handled, x + 1, sender[h].n)
                 /\ \A f \in SplitSender \ {h} : sender[f] = Resting
      <3>1. /\ sender[h].at \in {"number", "parts"}
            /\ Large(posted', sender[h].n) /\ posted'[sender[h].n].by = h
            /\ sender[h].part * maxDataLen < posted'[sender[h].n].length
            /\ sender[h].at = "number" => sender[h].part = 0
            /\ sender[h].at = "parts" => Ready(posted', m, parts, sender[h].n, sender[h].part,
                                               packetNum, x)
            /\ Older(posted', parts, handled, x, sender[h].n)
            /\ \A f \in SplitSender \ {h} : sender[f] = Resting
        BY <1>9, <2>6 DEF Sending
      <3>2. ASSUME sender[h].at = "parts"
            PROVE  Ready(posted', m, parts', sender[h].n, sender[h].part, packetNum, x + 1)
        <4>1. Ready(posted', m, parts', sender[h].n, sender[h].part, packetNum, x)
          BY <1>11, <2>4, <3>1, <3>2, ReadyKeeps
        <4> QED
          BY <1>11, <2>1, <2>4, <4>1, ReadyOver
      <3>3. Older(posted', parts', handled, x + 1, sender[h].n)
        <4>1. Older(posted', parts', handled, x, sender[h].n)
          BY <1>11, <2>4, <3>1, OlderKeeps
        <4>2. h # g
          BY <1>1, <2>6
        <4>3. posted'[Of(parts'[x])].by # posted'[sender[h].n].by
          BY <1>6, <2>1, <2>4, <3>1, <4>2
        <4> QED
          BY <1>11, <4>1, <4>3, OlderOver
      <3> QED
        BY <3>1, <3>2, <3>3
    <2>7. Sending(posted', m, parts', handled, packetNum, sender)
      BY <2>4, <2>6 DEF Sending
    <2>8. SplitTypes'
      BY <1>5, <1>7, <1>8, <2>2, <2>4 DEF SplitTypes
    <2> QED
      BY <1>3, <1>8, <1>9, <2>2, <2>5, <2>7, <2>8 DEF SplitInv
  <1>13. CASE ~(length < maxDataLen)
    <2> DEFINE w == [at |-> "number", n |-> n, part |-> 0, num |-> packetNum]
    <2>1. /\ sender' = [sender EXCEPT ![g] = w]
          /\ mixed' = (mixed \/ length = maxDataLen
                          \/ \E h \in SplitSender \ {g} : sender[h] # Resting)
          /\ parts' = parts
      BY <1>1, <1>13
    <2>2. length # maxDataLen /\ \A h \in SplitSender \ {g} : sender[h] = Resting
      BY <2>1, Zenon
    <2>3. Large(posted', n) /\ 0 * maxDataLen < posted'[n].length
      BY <1>5, <1>6, <1>4, <1>13, <2>2 DEF Large
    <2>4. w \in Place
      BY <1>6, <1>7 DEF Place
    <2>5. /\ w.at = "number" /\ w.n = n /\ w.part = 0
      OBVIOUS
    <2> HIDE DEF w, n
    <2>6. sender' \in [SplitSender -> Place] /\ sender'[g] = w
          /\ \A h \in SplitSender \ {g} : sender'[h] = Resting
      BY <1>7, <2>1, <2>2, <2>4
    <2>7. ASSUME NEW h \in SplitSender, sender'[h] # Resting
          PROVE  /\ sender'[h].at \in {"number", "parts"}
                 /\ Large(posted', sender'[h].n) /\ posted'[sender'[h].n].by = h
                 /\ sender'[h].part * maxDataLen < posted'[sender'[h].n].length
                 /\ sender'[h].at = "number" => sender'[h].part = 0
                 /\ sender'[h].at = "parts" => Ready(posted', m, parts, sender'[h].n,
                                                     sender'[h].part, packetNum, x)
                 /\ Older(posted', parts, handled, x, sender'[h].n)
                 /\ \A f \in SplitSender \ {h} : sender'[f] = Resting
      <3>1. h = g /\ sender'[h] = w
        BY <2>6, <2>7
      <3> QED
        BY <1>6, <1>10, <2>3, <2>5, <2>6, <3>1
    <2>8. Sending(posted', m, parts, handled, packetNum, sender')
      BY <2>7 DEF Sending
    <2>9. SplitTypes'
      BY <1>5, <1>7, <1>8, <2>1, <2>6 DEF SplitTypes
    <2> QED
      BY <1>3, <1>8, <1>9, <2>1, <2>8, <2>9 DEF SplitInv
  <1> QED
    BY <1>12, <1>13

LEMMA NextNumberKeeps ==
    ASSUME PacketNums \in Nat \ {0}, SplitInv, NEW g \in SplitSender, NextNumber(g)
    PROVE  SplitInv'
  <1> SUFFICES ASSUME ~mixed' PROVE SplitInv'
    BY DEF SplitInv
  <1>1. /\ sender[g].at = "number"
        /\ packetNum' = (sender[g].num + 1) % PacketNums
        /\ sender' = [sender EXCEPT ![g].at = "parts"]
        /\ parts' = parts /\ m' = m /\ posted' = posted /\ handled' = handled /\ mixed' = mixed
    BY DEF NextNumber
  <1>2. /\ SplitTypes /\ OnWay(posted, m, parts, handled) /\ OneOfNumber(m) /\ Done(posted, handled)
        /\ Sending(posted, m, parts, handled, packetNum, sender)
    BY <1>1 DEF SplitInv
  <1>3. sender \in [SplitSender -> Place] /\ sender[g] \in Place
    BY <1>2 DEF SplitTypes
  <1>4. sender[g] # Resting
    BY <1>1 DEF Resting
  <1>5. /\ Large(posted, sender[g].n) /\ posted[sender[g].n].by = g
        /\ sender[g].part * maxDataLen < posted[sender[g].n].length
        /\ sender[g].part = 0
        /\ Older(posted, parts, handled, Len(parts) + 1, sender[g].n)
        /\ \A h \in SplitSender \ {g} : sender[h] = Resting
    BY <1>1, <1>2, <1>4 DEF Sending
  <1>6. /\ sender' \in [SplitSender -> Place]
        /\ sender'[g].at = "parts" /\ sender'[g].n = sender[g].n
        /\ sender'[g].part = sender[g].part
        /\ \A h \in SplitSender \ {g} : sender'[h] = Resting
    <2>1. [sender[g] EXCEPT !.at = "parts"] \in Place
      BY <1>3 DEF Place
    <2>2. sender' = [sender EXCEPT ![g] = [sender[g] EXCEPT !.at = "parts"]]
      BY <1>1, <1>3
    <2>3. sender'[g] = [sender[g] EXCEPT !.at = "parts"]
      BY <1>3, <2>2
    <2> QED
      BY <1>3, <1>5, <2>1, <2>2, <2>3 DEF Place
  <1>7. packetNum' \in Nat
    <2>1. sender[g].num + 1 \in Nat
      BY <1>3 DEF Place
    <2> QED
      BY <1>1, <2>1
  <1>8. Ready(posted, m, parts, sender[g].n, 0, packetNum', Len(parts) + 1)
    BY DEF Ready
  <1>9. Sending(posted, m, parts, handled, packetNum', sender')
    BY <1>5, <1>6, <1>8 DEF Sending
  <1>10. SplitTypes'
    BY <1>1, <1>2, <1>6, <1>7 DEF SplitTypes
  <1> QED
    BY <1>1, <1>2, <1>9, <1>10 DEF SplitInv

LEMMA SplitPartKeeps ==
    ASSUME maxDataLen \in Nat \ {0}, SplitInv, NEW g \in SplitSender, SplitPart(g)
    PROVE  SplitInv'
  <1> SUFFICES ASSUME ~mixed' PROVE SplitInv'
    BY DEF SplitInv
  <1> DEFINE n == sender[g].n
             i == sender[g].part
             last == LastPart(posted, n, i)
             p == PartOf(posted, n, i, packetNum)
             x == Len(parts) + 1
  <1>1. /\ sender[g].at = "parts"
        /\ parts' = Append(parts, p)
        /\ sender' = [sender EXCEPT ![g] =
                         IF last THEN Resting ELSE [sender[g] EXCEPT !.part = i + 1]]
        /\ packetNum' = packetNum /\ m' = m /\ mixed' = mixed
        /\ posted' = posted /\ handled' = handled
    BY DEF SplitPart, PartOf, PartData, LastPart
  <1>2. /\ SplitTypes /\ OnWay(posted, m, parts, handled) /\ OneOfNumber(m) /\ Done(posted, handled)
        /\ Sending(posted, m, parts, handled, packetNum, sender)
    BY <1>1 DEF SplitInv
  <1>3. /\ posted \in Seq(Posted) /\ parts \in Seq(Message) /\ packetNum \in Nat
        /\ sender \in [SplitSender -> Place] /\ sender[g] \in Place
        /\ handled \in Seq([cmd : Cell, data : Seq(Cell)])
    BY <1>2 DEF SplitTypes
  <1>4. n \in Nat /\ i \in Nat
    BY <1>3 DEF Place
  <1>5. sender[g] # Resting
    BY <1>1 DEF Resting
  <1>6. /\ Large(posted, n) /\ posted[n].by = g /\ i * maxDataLen < posted[n].length
        /\ Ready(posted, m, parts, n, i, packetNum, x)
        /\ Older(posted, parts, handled, x, n)
        /\ \A h \in SplitSender \ {g} : sender[h] = Resting
    BY <1>1, <1>2, <1>5 DEF Sending
  <1>7. posted[n].length \in Nat
    <2>1. posted[n] \in Posted
      BY <1>3, <1>6, ElementOfSeq, LenProperties DEF Large
    <2> QED
      BY <2>1 DEF Posted
  <1>8. x \in Nat \ {0}
    BY <1>3, LenProperties
  <1> HIDE DEF n, i
  <1>9. /\ p \in Message /\ p.split /\ p.num = packetNum /\ p.part = i
        /\ p.last = last /\ Of(p) = n
    <2>0. posted[n].length \in Nat /\ i * maxDataLen < posted[n].length /\ packetNum \in Nat
      BY <1>3, <1>6, <1>7
    <2>1. /\ PartOf(posted, n, i, packetNum) \in Message
          /\ PartOf(posted, n, i, packetNum).split
          /\ PartOf(posted, n, i, packetNum).num = packetNum
          /\ PartOf(posted, n, i, packetNum).part = i
          /\ PartOf(posted, n, i, packetNum).last = LastPart(posted, n, i)
          /\ Of(PartOf(posted, n, i, packetNum)) = n
      BY <1>4, <2>0, PartFacts
    <2> QED
      BY <2>1
  <1>10. /\ parts' \in Seq(Message) /\ Len(parts') = x
         /\ \A z \in 1 .. x - 1 : parts'[z] = parts[z]
         /\ parts'[x] = p
    <2> HIDE DEF p
    <2>1. Len(parts) \in Nat
      BY <1>3, LenProperties
    <2>2. \A z \in 1 .. Len(parts) : parts'[z] = parts[z]
      BY <1>1, <1>3, <1>9, AppendProperties
    <2>3. parts' \in Seq(Message) /\ Len(parts') = x /\ parts'[x] = p
      BY <1>1, <1>3, <1>9, AppendProperties
    <2> QED
      BY <2>1, <2>2, <2>3
  <1>11. Sound(posted, p)
    BY <1>3, <1>4, <1>6, <1>9 DEF Sound
  <1> HIDE DEF p
  <1>12. OnWay(posted, m, parts', handled)
    <2>1. /\ p.split => Ready(posted, m, parts, Of(p), p.part, p.num, Len(parts) + 1)
          /\ Older(posted, parts, handled, Len(parts) + 1, Of(p))
      BY <1>6, <1>9
    <2> QED
      BY <1>1, <1>2, <1>3, <1>9, <1>11, <2>1, OnWayAppend
  <1>13. CASE last
    <2>1. sender' = [sender EXCEPT ![g] = Resting]
      BY <1>1, <1>13
    <2>2. \A h \in SplitSender : sender'[h] = Resting
      BY <1>3, <1>6, <2>1
    <2>3. Resting \in Place
      BY DEF Resting, Place
    <2>4. Sending(posted, m, parts', handled, packetNum, sender')
      BY <2>2 DEF Sending
    <2>5. sender' \in [SplitSender -> Place]
      BY <1>3, <2>1, <2>3
    <2>6. SplitTypes'
      BY <1>1, <1>3, <1>10, <2>5 DEF SplitTypes
    <2> QED
      BY <1>1, <1>2, <1>12, <2>4, <2>6 DEF SplitInv
  <1>14. CASE ~last
    <2> DEFINE w == [sender[g] EXCEPT !.part = i + 1]
    <2>1. sender' = [sender EXCEPT ![g] = w]
      BY <1>1, <1>14
    <2>2. w \in Place /\ w.at = "parts" /\ w.n = n /\ w.part = i + 1
      <3>1. sender[g].n = n
        BY DEF n
      <3>2. i + 1 \in Nat
        BY <1>4
      <3> QED
        BY <1>1, <1>3, <3>1, <3>2 DEF Place
    <2> HIDE DEF w
    <2>3. /\ sender' \in [SplitSender -> Place] /\ sender'[g] = w
          /\ \A h \in SplitSender \ {g} : sender'[h] = Resting
      BY <1>3, <1>6, <2>1, <2>2
    <2>4. (i + 1) * maxDataLen < posted[n].length
      <3>1. ~((i + 1) * maxDataLen >= posted[n].length)
        BY <1>14 DEF LastPart
      <3>2. (i + 1) * maxDataLen \in Nat
        BY <1>4
      <3> QED
        BY <1>7, <3>1, <3>2
    <2>5. Ready(posted, m, parts', n, i + 1, packetNum, x + 1)
      <3>1. Ready(posted, m, parts', n, i, packetNum, x)
        BY <1>6, <1>8, <1>10, ReadyKeeps
      <3>2. parts'[x] = PartOf(posted, n, i, packetNum) /\ Of(parts'[x]) = n /\ ~parts'[x].last
        BY <1>9, <1>10, <1>14 DEF p
      <3> QED
        BY <1>4, <1>8, <3>1, <3>2, ReadyPart
    <2>6. Older(posted, parts', handled, x + 1, n)
      <3>1. Older(posted, parts', handled, x, n)
        BY <1>6, <1>8, <1>10, OlderKeeps
      <3>2. ~Completes(parts'[x])
        BY <1>9, <1>10, <1>14 DEF Completes
      <3> QED
        BY <1>8, <3>1, <3>2, OlderOver
    <2>7. ASSUME NEW h \in SplitSender, sender'[h] # Resting
          PROVE  /\ sender'[h].at \in {"number", "parts"}
                 /\ Large(posted, sender'[h].n) /\ posted[sender'[h].n].by = h
                 /\ sender'[h].part * maxDataLen < posted[sender'[h].n].length
                 /\ sender'[h].at = "number" => sender'[h].part = 0
                 /\ sender'[h].at = "parts" => Ready(posted, m, parts', sender'[h].n,
                                                     sender'[h].part, packetNum, x + 1)
                 /\ Older(posted, parts', handled, x + 1, sender'[h].n)
                 /\ \A f \in SplitSender \ {h} : sender'[f] = Resting
      <3>1. h = g /\ sender'[h] = w
        BY <2>3, <2>7
      <3> QED
        BY <1>6, <2>2, <2>3, <2>4, <2>5, <2>6, <3>1
    <2>8. Sending(posted, m, parts', handled, packetNum, sender')
      BY <1>10, <2>7 DEF Sending
    <2>9. SplitTypes'
      BY <1>1, <1>3, <1>10, <2>3 DEF SplitTypes
    <2> QED
      BY <1>1, <1>2, <1>12, <2>8, <2>9 DEF SplitInv
  <1> QED
    BY <1>13, <1>14

LEMMA SplitRestartKeeps ==
    ASSUME SplitInv, SplitRestart
    PROVE  SplitInv'
  <1> SUFFICES ASSUME ~mixed' PROVE SplitInv'
    BY DEF SplitInv
  <1>1. /\ packetNum' = 0 /\ sender' = [h \in SplitSender |-> Resting] /\ parts' = <<>>
        /\ m' = m /\ posted' = posted /\ handled' = handled /\ mixed' = mixed
    BY DEF SplitRestart
  <1>2. SplitTypes /\ OneOfNumber(m) /\ Done(posted, handled)
    BY <1>1 DEF SplitInv
  <1>3. SplitTypes'
    <2>1. Resting \in Place
      BY DEF Resting, Place
    <2> QED
      BY <1>1, <1>2, <2>1 DEF SplitTypes
  <1>4. OnWay(posted, m, parts', handled)
    <2>1. DOMAIN parts' = {}
      BY <1>1
    <2> QED
      BY <2>1 DEF OnWay
  <1>5. Sending(posted, m, parts', handled, packetNum', sender')
    BY <1>1 DEF Sending
  <1> QED
    BY <1>1, <1>2, <1>3, <1>4, <1>5 DEF SplitInv

LEMMA OneOfNumberTakes ==
    ASSUME NEW p, OneOfNumber(m)
    PROVE  /\ OneOfNumber(addToMap(p))
           /\ p \in addToMap(p)
           /\ \A q \in m : q.num # p.num \/ q.part # p.part => q \in addToMap(p)
  BY DEF OneOfNumber, addToMap

\* Putting together what the last part of a packet completes.
LEMMA CombineLast ==
    ASSUME maxDataLen \in Nat \ {0}, NEW s \in Seq(Posted), NEW way, NEW p,
           Sound(s, p), p.split, p.last, OneOfNumber(m),
           Ready(s, m, way, Of(p), p.part, p.num, 1), combine(p)
    PROVE  /\ handled' = Append(handled, WholeOf(s, Of(p)))
           /\ m' \subseteq addToMap(p)
  <1> DEFINE n == Of(p)
             i == p.part
             num == p.num
             all == addToMap(p)
  <1>1. /\ n \in Nat /\ s[n].length \in Nat /\ i \in Nat /\ num \in Nat
        /\ i * maxDataLen < s[n].length /\ Large(s, n)
        /\ p = PartOf(s, n, i, num) /\ LastPart(s, n, i)
    BY SoundFacts
  <1>2. s[n].length > maxDataLen
    BY <1>1 DEF Large
  <1>3. /\ OneOfNumber(all) /\ p \in all
        /\ \A q \in m : q.num # num \/ q.part # i => q \in all
    BY OneOfNumberTakes
  <1>4. \A j \in 0 .. i - 1 : PartOf(s, n, j, num) \in m
    BY ReadyHere
  <1>5. \A j \in 0 .. i : /\ PartOf(s, n, j, num) \in all
                          /\ PartOf(s, n, j, num).num = num
                          /\ PartOf(s, n, j, num).part = j
    <2> TAKE j \in 0 .. i
    <2>1. PartOf(s, n, j, num).num = num /\ PartOf(s, n, j, num).part = j
      BY DEF PartOf
    <2>2. CASE j = i
      BY <1>1, <1>3, <2>1, <2>2
    <2>3. CASE j # i
      <3>1. j \in 0 .. i - 1
        BY <1>1, <2>3
      <3> QED
        BY <1>3, <1>4, <2>1, <2>3, <3>1
    <2> QED
      BY <2>2, <2>3
  <1>6. \A j \in 0 .. i : \E q \in all : q.num = num /\ q.part = j
    BY <1>5
  <1>7. /\ handled' = Append(handled, [cmd |-> Last(FirstPart(all, num).data),
                               data |-> Combined(all, num, i)])
        /\ m' = {q \in all : q.num # num \/ q.part > i}
    BY <1>6 DEF combine
  <1> HIDE DEF all, n, i, num
  <1>8. Combined(all, num, i) = Data(n, 1, s[n].length)
        /\ Last(FirstPart(all, num).data) = <<n, 0>>
    BY <1>1, <1>2, <1>3, <1>5, CombinedWhole DEF OneOfNumber
  <1>9. handled' = Append(handled, WholeOf(s, n))
    BY <1>7, <1>8 DEF WholeOf
  <1> QED
    BY <1>7, <1>9 DEF n, all

LEMMA SplitReceiveKeeps ==
    ASSUME maxDataLen \in Nat \ {0}, SplitInv, Receive
    PROVE  SplitInv'
  <1> SUFFICES ASSUME ~mixed' PROVE SplitInv'
    BY DEF SplitInv
  <1> DEFINE p == Head(parts)
             w == WholeOf(posted, Of(p))
             C == [cmd : Cell, data : Seq(Cell)]
  <1>1. /\ parts # <<>> /\ parts' = Tail(parts)
        /\ packetNum' = packetNum /\ sender' = sender /\ posted' = posted /\ mixed' = mixed
    BY DEF Receive
  <1>2. /\ SplitTypes /\ OnWay(posted, m, parts, handled) /\ OneOfNumber(m) /\ Done(posted, handled)
        /\ Sending(posted, m, parts, handled, packetNum, sender)
    BY <1>1 DEF SplitInv
  <1>3. /\ posted \in Seq(Posted) /\ parts \in Seq(Message) /\ packetNum \in Nat
        /\ sender \in [SplitSender -> Place] /\ handled \in Seq(C)
    BY <1>2 DEF SplitTypes
  <1>4. 1 \in DOMAIN parts /\ p = parts[1] /\ Tail(parts) \in Seq(Message)
    BY <1>1, <1>3, LenProperties, EmptySeq, HeadTailProperties
  <1>5. /\ Sound(posted, p)
        /\ p.split => Ready(posted, m, parts, Of(p), p.part, p.num, 1)
        /\ Older(posted, parts, handled, 1, Of(p))
    BY <1>2, <1>4 DEF OnWay
  <1>6. /\ Of(p) \in DOMAIN posted /\ Of(p) \in Nat /\ posted[Of(p)].length \in Nat
        /\ p \in Message /\ (~p.split => p = Unsplit(posted, Of(p)))
    BY <1>3, <1>5, SoundFacts
  <1>7. w \in C
    <2>1. Data(Of(p), 1, posted[Of(p)].length) \in Seq(Cell)
      BY <1>6, DataFromOne
    <2>2. <<Of(p), 0>> \in Cell
      BY <1>6 DEF Cell
    <2> QED
      BY <2>1, <2>2 DEF WholeOf
  <1>8. /\ ~p.split => handled' = Append(handled, [cmd |-> p.cmd, data |-> p.data]) /\ m' = m
        /\ p.split /\ ~p.last => m' = addToMap(p) /\ handled' = handled
        /\ p.split /\ p.last => combine(p)
    BY DEF Receive
  <1> HIDE DEF p, w
  <1>9. /\ Takes(m, m', p) /\ OneOfNumber(m')
        /\ \/ handled' = handled
           \/ Completes(p) /\ handled' = Append(handled, w)
    <2>1. CASE ~p.split
      <3>1. [cmd |-> p.cmd, data |-> p.data] = w
        BY <1>6, <2>1 DEF Unsplit, WholeOf, w
      <3> QED
        BY <1>2, <1>8, <2>1, <3>1 DEF Takes, Completes
    <2>2. CASE p.split /\ ~p.last
      <3>1. m' = addToMap(p) /\ handled' = handled
        BY <1>8, <2>2
      <3> QED
        BY <1>2, <2>2, <3>1, OneOfNumberTakes DEF Takes
    <2>3. CASE p.split /\ p.last
      <3>1. handled' = Append(handled, w) /\ m' \subseteq addToMap(p)
        BY <1>2, <1>3, <1>5, <1>8, <2>3, CombineLast DEF w
      <3>2. OneOfNumber(addToMap(p))
        BY <1>2, OneOfNumberTakes
      <3>3. OneOfNumber(m')
        BY <3>1, <3>2 DEF OneOfNumber
      <3> QED
        BY <2>3, <3>1, <3>3 DEF Takes, Completes
    <2> QED
      BY <2>1, <2>2, <2>3
  <1>10. Takes(m, m', Head(parts))
         /\ (\/ handled' = handled
             \/ /\ Completes(Head(parts))
                /\ handled' = Append(handled, WholeOf(posted, Of(Head(parts))))
                /\ WholeOf(posted, Of(Head(parts))) \in [cmd : Cell, data : Seq(Cell)])
    BY <1>7, <1>9 DEF p, w
  <1>11. OnWay(posted, m', parts', handled')
    BY <1>1, <1>2, <1>3, <1>10, OnWayTail
  <1>12. Sending(posted, m', parts', handled', packetNum, sender)
    BY <1>1, <1>2, <1>3, <1>10, SendingTail
  <1>13. handled' \in Seq(C) /\ Done(posted, handled')
    <2>1. CASE handled' = handled
      BY <1>2, <1>3, <2>1
    <2>2. CASE handled' = Append(handled, w)
      <3>1. Append(handled, w) \in Seq(C)
        BY <1>3, <1>7, AppendProperties
      <3>2. Done(posted, Append(handled, w))
        BY <1>2, <1>3, <1>5, <1>6, <1>7, DoneAppend DEF w
      <3> QED
        BY <2>2, <3>1, <3>2
    <2> QED
      BY <1>9, <2>1, <2>2
  <1>14. SplitTypes'
    BY <1>1, <1>3, <1>4, <1>13 DEF SplitTypes
  <1> QED
    BY <1>1, <1>9, <1>11, <1>12, <1>13, <1>14 DEF SplitInv

LEMMA SplitInvNext ==
    ASSUME maxDataLen \in Nat \ {0}, MaxLength \in Nat, PacketNums \in Nat \ {0},
           SplitInv, [SplitNext]_splitVars
    PROVE  SplitInv'
  <1>1. ASSUME NEW g \in SplitSender, SendTo(g) PROVE SplitInv'
    BY <1>1, SendToKeeps
  <1>2. ASSUME NEW g \in SplitSender, NextNumber(g) PROVE SplitInv'
    BY <1>2, NextNumberKeeps
  <1>3. ASSUME NEW g \in SplitSender, SplitPart(g) PROVE SplitInv'
    BY <1>3, SplitPartKeeps
  <1>4. CASE SplitRestart
    BY <1>4, SplitRestartKeeps
  <1>5. CASE Receive
    BY <1>5, SplitReceiveKeeps
  <1>6. CASE UNCHANGED splitVars
    BY <1>6 DEF splitVars, SplitInv, SplitTypes
  <1> QED
    BY <1>1, <1>2, <1>3, <1>4, <1>5, <1>6 DEF SplitNext

\* A peer processes whole commands only, each as it was sent, and those of one goroutine
\* in the order it sent them, for any number of goroutines, any length of a part and of
\* the data, any wrap of the packet numbers, and when the sending host is started again
\* between two parts, as long as no two goroutines sent large commands at once and none
\* sent data of exactly maxDataLen (SendTo, splitDataHelper, combine). A part's number
\* has 15 bits in the code, so that a command has no more than 2^15 parts.
THEOREM CommandsWholeHolds ==
    ASSUME maxDataLen \in Nat \ {0}, MaxLength \in Nat, MaxLength <= 32768 * maxDataLen,
           PacketNums \in Nat \ {0}
    PROVE  SplitSpec => []CommandsWhole
  <1>1. SplitInit => SplitInv
    BY SplitInvInit
  <1>2. SplitInv /\ [SplitNext]_splitVars => SplitInv'
    BY SplitInvNext
  <1>3. SplitInv => CommandsWhole
    BY DEF SplitInv, Done, CommandsWhole, Command, WholeOf
  <1> QED
    BY <1>1, <1>2, <1>3, PTL DEF SplitSpec
==============================================================================
