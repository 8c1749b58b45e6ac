------------------------------- MODULE PeerArp -------------------------------
(***************************************************************************)
(* Two teonet peers find each other (teonet/teonet/arp.go, rhost.go,       *)
(* command.go, the reader in teonet.go). The r-host tells both of the      *)
(* addresses of the other; there may be more than one route between them,  *)
(* for instance localhost, a local network and the addresses the r-host    *)
(* sees. A peer opens a trudp channel on each route it is told and sends a *)
(* command; the first channel on which a command of the other peer comes   *)
(* goes to the arp table, and channels that are not in it are closed.      *)
(*                                                                         *)
(* trudp is reduced to its sessions: DATA packets of a channel arrive in   *)
(* order, a packet knows if it is the first since its channel was created  *)
(* or reset, and only a DATA packet creates a channel. A handler of the    *)
(* reader is one step; its interleavings with the trudp kernel are in      *)
(* module TrudpKernel. The r-host itself is environment.                   *)
(***************************************************************************)
EXTENDS Integers, Sequences, SequencesExt, FiniteSets

CONSTANTS
    Host,       \* the two hosts
    Route,      \* network paths between them
    Name,       \* peer names
    FirstName,  \* FirstName[h]: the name host h starts with
    MaxChannel, \* bound: channel objects of a host and route
    MaxTold,    \* bound: CMD_CONNECT commands of a host and route
    MaxRestart, \* bound: restarts of hosts
    MayRename,  \* may a host restart under another name?
    Timely      \* are packets and events faster than the timeouts?

ASSUME PeerAssumption ==
    /\ IsFiniteSet(Host) /\ Cardinality(Host) = 2
    /\ FirstName \in [Host -> Name]
    /\ MaxChannel \in Nat /\ MaxTold \in Nat /\ MaxRestart \in Nat
    /\ MayRename \in BOOLEAN /\ Timely \in BOOLEAN

VARIABLES
    host,       \* the state of a host (see HostState)
    asked,      \* routes of a host for which cmdConnect starts a goroutine
    watched,    \* channels that such a goroutine of a host may close later
    told,       \* counts CMD_CONNECT commands (bound)
    restarts    \* counts restarts (bound)

vars == <<host, asked, watched, told, restarts>>

Peer(h) == CHOOSE g \in Host : g # h

Tcd == Route \X (1 .. MaxChannel)     \* ChannelData objects

NoTcd == <<>>

Cmd == {"NONE", "HOST_INFO", "HOST_INFO_ANSWER", "DISCONNECTED"}

\* DATA packets, RESET and ACKReset, and datagrams that are not trudp (RAW).
Packet == [type : {"DATA", "RESET", "ACKRESET", "RAW"},
           cmd  : Cmd, from : Name, first : BOOLEAN]

Event == [type : {"Data", "Disconnected"}, cmd : Cmd, from : Name, tcd : Tcd]

HostState ==
    [name     : Name,
     chan     : [Route -> 0 .. MaxChannel],  \* the open channel, 0 for none
     created  : [Route -> 0 .. MaxChannel],  \* number of channels so far
     heard    : [Route -> BOOLEAN],          \* its tcd.connected
     fresh    : [Route -> BOOLEAN],          \* its next DATA packet is a first
     expect   : [Route -> BOOLEAN],          \* it expects a first DATA packet
     out      : [Route -> Seq(Packet)],      \* what it sent, on its way
     events   : Seq(Event),                  \* for the reader
     arp      : [Name -> Tcd \cup {NoTcd}],  \* the arp table
     calling  : [Name -> Nat],               \* goroutines that are about to wait
                                             \* for the host info of a peer
     waits    : [Name -> Nat],               \* those whose request is registered
     answered : [Name -> Nat],               \* those that have got it
     missed   : [Name -> BOOLEAN],           \* history: did it come before the
                                             \* request of one was registered?
     user     : [Name -> Nat]]               \* EventConnected that the user got
                                             \* since the last EventDisconnected

\* A host starts with an empty table; the objects it had are gone.
Started(n, old) ==
    [name     |-> n,
     chan     |-> [r \in Route |-> 0],
     created  |-> old.created,
     heard    |-> [r \in Route |-> FALSE],
     fresh    |-> [r \in Route |-> TRUE],
     expect   |-> [r \in Route |-> TRUE],
     out      |-> old.out,
     events   |-> <<>>,
     arp      |-> [m \in Name |-> NoTcd],
     calling  |-> [m \in Name |-> 0],
     waits    |-> [m \in Name |-> 0],
     answered |-> [m \in Name |-> 0],
     missed   |-> [m \in Name |-> FALSE],
     user     |-> [m \in Name |-> 0]]

-----------------------------------------------------------------------------
(* What handlers do to the state s of their host *)

Control(type) ==
    [type |-> type, cmd |-> "NONE", from |-> CHOOSE n \in Name : TRUE,
     first |-> FALSE]

\* newChannelData: selects the open channel of a route or creates one.
newChannelData(s, r) ==
    IF s.chan[r] # 0 THEN s
    ELSE [s EXCEPT !.chan[r] = s.created[r] + 1, !.created[r] = @ + 1,
                   !.heard[r] = FALSE, !.fresh[r] = TRUE, !.expect[r] = TRUE]

\* sendToTcd: a command on channel t, nothing but an error if it was closed.
sendToTcd(s, t, cmd) ==
    IF s.chan[t[1]] # t[2] THEN s
    ELSE [s EXCEPT !.out[t[1]] = Append(@, [type |-> "DATA", cmd |-> cmd,
                                            from |-> s.name,
                                            first |-> s.fresh[t[1]]]),
                   !.fresh[t[1]] = FALSE]

\* ChannelData.Close and destroy: once, with an event if it ever connected.
Close(s, t) ==
    IF s.chan[t[1]] # t[2] THEN s
    ELSE [s EXCEPT !.chan[t[1]] = 0,
                   !.events = IF s.heard[t[1]]
                              THEN Append(@, [type |-> "Disconnected",
                                              cmd |-> "NONE", from |-> s.name,
                                              tcd |-> t])
                              ELSE @]

\* ChannelData.reset: ids start again and the send queue is emptied.
reset(s, r) ==
    [s EXCEPT !.fresh[r] = TRUE, !.expect[r] = TRUE, !.out[r] = <<>>]

\* deletePeer of a name that is in the table.
deletePeer(s, n) ==
    [s EXCEPT !.arp[n] = NoTcd, !.user[n] = 0, !.missed[n] = FALSE]

\* The peers whose channel has the key of route r.
WithKey(s, r) == {n \in Name : s.arp[n] # NoTcd /\ s.arp[n][1] = r}

\* Fault: the entry of a peer stays in the table.
deleteKeyKeeps(s, r) ==
    IF WithKey(s, r) = {} THEN {s}
    ELSE {Close(s, s.arp[n]) : n \in WithKey(s, r)}

\* deleteKey closes and removes one peer whose channel has the key: the states
\* it may lead to (the order of a map is random).
deleteKey(s, r) ==
    IF WithKey(s, r) = {} THEN {s}
    ELSE {deletePeer(Close(s, s.arp[n]), n) : n \in WithKey(s, r)}

\* peerNew for a command of peer n on channel t. A second channel of a known
\* peer is closed. arp.find(rec) has no case for its argument and finds nothing:
\* a channel may get a second name. The peer is asked for its host info once; a
\* goroutine is started that waits for it.
peerNew(s, n, t) ==
    IF s.arp[n] # NoTcd
    THEN IF s.arp[n] # t THEN Close(s, t) ELSE s
    ELSE sendToTcd(sendToTcd([s EXCEPT !.arp[n] = t, !.calling[n] = @ + 1],
                             t, "NONE"), t, "HOST_INFO")

\* check() of the host info of n: it goes to the requests that are registered.
check(s, n) ==
    [s EXCEPT !.answered[n] = @ + s.waits[n], !.waits[n] = 0,
              !.missed[n] = @ \/ s.calling[n] > 0]

\* command.process of command cmd of peer n on channel t.
process(old, cmd, n, t) ==
    LET s == peerNew(old, n, t) IN
    CASE cmd = "HOST_INFO" -> sendToTcd(s, t, "HOST_INFO_ANSWER")
      [] cmd = "HOST_INFO_ANSWER" -> check(s, n)
      [] cmd = "DISCONNECTED" ->
            IF s.arp[n] = NoTcd THEN s ELSE deletePeer(Close(s, s.arp[n]), n)
      [] OTHER -> s

\* A DATA packet in its turn: the first one connects the channel.
Received(s, r, p) ==
    [s EXCEPT !.heard[r] = TRUE,
              !.expect[r] = FALSE,
              !.events = Append(@, [type |-> "Data", cmd |-> p.cmd,
                                    from |-> p.from,
                                    tcd |-> <<r, s.chan[r]>>])]

\* packetType.process for packet p on route r.
processPacket(old, r, p) ==
    LET s == newChannelData(old, r) IN
    CASE p.type = "DATA" /\ p.first = s.expect[r] -> Received(s, r, p)
      [] p.type = "DATA" /\ p.first /\ ~s.expect[r] ->
            Received(reset(s, r), r, p)
      [] p.type = "DATA" /\ ~p.first /\ s.expect[r] ->
            [s EXCEPT !.heard[r] = TRUE, !.out[r] = Append(@, Control("RESET"))]
      [] p.type # "DATA" /\ old.chan[r] = 0 -> old
      [] p.type = "RESET" /\ old.chan[r] # 0 ->
            [reset(s, r) EXCEPT !.heard[r] = TRUE,
                                !.out[r] = <<Control("ACKRESET")>>]
      [] p.type = "ACKRESET" /\ old.chan[r] # 0 ->
            [reset(s, r) EXCEPT !.heard[r] = TRUE]
      [] p.type = "RAW" /\ old.chan[r] # 0 ->
            [s EXCEPT !.events = Append(@, [type |-> "Data", cmd |-> p.cmd,
                                            from |-> p.from,
                                            tcd |-> <<r, s.chan[r]>>])]

-----------------------------------------------------------------------------
Init ==
    /\ host = [h \in Host |->
                 Started(FirstName[h],
                         [created |-> [r \in Route |-> 0],
                          out     |-> [r \in Route |-> <<>>]])]
    /\ asked = [h \in Host |-> {}]
    /\ watched = [h \in Host |-> {}]
    /\ told = [h \in Host |-> [r \in Route |-> 0]]
    /\ restarts = 0

\* Room for a new channel object (bound).
MayCreate(h, r) == host[h].created[r] < MaxChannel

\* Nothing is on its way between the hosts or to their readers.
Quiet ==
    \A h \in Host : /\ host[h].events = <<>>
                    /\ \A r \in Route : host[h].out[r] = <<>>

(* The trudp kernel *)

\* The oldest packet on route r arrives at host h.
Deliver(h, r) ==
    LET g == Peer(h)
        p == Head(host[g].out[r])
    IN
    /\ host[g].out[r] # <<>>
    /\ host[h].chan[r] # 0 \/ p.type # "DATA" \/ MayCreate(h, r)
    /\ host' = [host EXCEPT ![h] = processPacket(@, r, p),
                            ![g].out[r] = Tail(@)]
    /\ UNCHANGED <<asked, watched, told, restarts>>

\* A packet is lost for good if its channel is gone: nobody sends it again.
Lose(h, r) ==
    /\ host[h].out[r] # <<>>
    /\ host[h].chan[r] = 0
    /\ host' = [host EXCEPT ![h].out[r] = Tail(@)]
    /\ UNCHANGED <<asked, watched, told, restarts>>

\* keepAlive, sendQueueResendProcess: the other side has no channel for pings,
\* or cannot be reached.
Silent(h, r) ==
    /\ host[h].chan[r] # 0
    /\ Timely => Quiet /\ host[Peer(h)].chan[r] = 0
    /\ host' = [host EXCEPT ![h] = Close(@, <<r, @.chan[r]>>)]
    /\ UNCHANGED <<asked, watched, told, restarts>>

(* The reader *)

\* A trudp event.
Read(h) ==
    LET s == [host[h] EXCEPT !.events = Tail(@)]
        e == Head(host[h].events)
    IN
    /\ host[h].events # <<>>
    /\ \/ /\ e.type = "Data"
          /\ host' = [host EXCEPT ![h] = process(s, e.cmd, e.from, e.tcd)]
       \/ /\ e.type = "Disconnected"
          /\ \E t \in deleteKey(s, e.tcd[1]) : host' = [host EXCEPT ![h] = t]
    /\ UNCHANGED <<asked, watched, told, restarts>>

\* CMD_CONNECT of the r-host: the peer may be reached on route r.
cmdConnect(h, r) ==
    /\ told[h][r] < MaxTold
    /\ told' = [told EXCEPT ![h][r] = @ + 1]
    /\ host[h].arp[host[Peer(h)].name] = NoTcd
    /\ WithKey(host[h], r) = {}
    /\ asked' = [asked EXCEPT ![h] = @ \cup {r}]
    /\ UNCHANGED <<host, watched, restarts>>

(* Goroutines *)

\* The goroutine of cmdConnect opens a channel and sends a command on it.
Discover(h, r) ==
    /\ r \in asked[h]
    /\ asked' = [asked EXCEPT ![h] = @ \ {r}]
    /\ host[h].chan[r] # 0 \/ MayCreate(h, r)
    /\ LET s == newChannelData(host[h], r) IN
       /\ host' = [host EXCEPT ![h] = sendToTcd(s, <<r, s.chan[r]>>, "NONE")]
       /\ watched' = [watched EXCEPT ![h] = @ \cup {<<r, s.chan[r]>>}]
    /\ UNCHANGED <<told, restarts>>

\* Fault: it closes the channel without a look at the arp table.
DiscoverEndAlways(h, t) ==
    /\ t \in watched[h]
    /\ Timely => Quiet
    /\ watched' = [watched EXCEPT ![h] = @ \ {t}]
    /\ host' = [host EXCEPT ![h] = Close(@, t)]
    /\ UNCHANGED <<asked, told, restarts>>

\* After 1.5 seconds it closes the channel if it is not in the arp table.
DiscoverEnd(h, t) ==
    /\ t \in watched[h]
    /\ Timely => Quiet
    /\ watched' = [watched EXCEPT ![h] = @ \ {t}]
    /\ host' = [host EXCEPT ![h] = IF \E n \in Name : @.arp[n] = t THEN @
                                   ELSE Close(@, t)]
    /\ UNCHANGED <<asked, told, restarts>>

\* WaitFrom of a goroutine of peerNew: the reader registers its request.
Register(h, n) ==
    /\ host[h].calling[n] > 0
    /\ host' = [host EXCEPT ![h].calling[n] = @ - 1, ![h].waits[n] = @ + 1]
    /\ UNCHANGED <<asked, watched, told, restarts>>

\* Fault: a goroutine whose request timed out ends.
ExpireEnds(h, n) ==
    /\ host[h].waits[n] > 0
    /\ host' = [host EXCEPT ![h].waits[n] = @ - 1]
    /\ UNCHANGED <<asked, watched, told, restarts>>

\* After two seconds the reader removes a request that nobody has answered, and
\* its goroutine calls WaitFrom again.
Expire(h, n) ==
    /\ host[h].waits[n] > 0
    /\ host' = [host EXCEPT ![h].waits[n] = @ - 1, ![h].calling[n] = @ + 1]
    /\ UNCHANGED <<asked, watched, told, restarts>>

\* A goroutine of peerNew that has got the host info sends EventConnected.
Tell(h, n) ==
    /\ host[h].answered[n] > 0
    /\ host' = [host EXCEPT ![h].answered[n] = @ - 1, ![h].user[n] = @ + 1]
    /\ UNCHANGED <<asked, watched, told, restarts>>

(* Failure *)

\* A host ends and starts again at the same address. If it was closed, deleteAll
\* sends CMD_DISCONNECTED to the peers in its table.
Restart(h, n, closed) ==
    /\ restarts < MaxRestart
    /\ restarts' = restarts + 1
    /\ n = host[h].name \/ MayRename
    /\ n # host[Peer(h)].name
    /\ LET bye == [type |-> "RAW", cmd |-> "DISCONNECTED",
                   from |-> host[h].name, first |-> FALSE]
           s   == IF ~closed THEN host[h]
                  ELSE [host[h] EXCEPT !.out =
                          [r \in Route |->
                             IF WithKey(host[h], r) = {} THEN @[r]
                             ELSE Append(@[r], bye)]]
       IN host' = [host EXCEPT ![h] = Started(n, s)]
    /\ asked' = [asked EXCEPT ![h] = {}]
    /\ watched' = [watched EXCEPT ![h] = {}]
    /\ told' = [told EXCEPT ![h] = [r \in Route |-> 0]]

-----------------------------------------------------------------------------
Step(h) ==
    \/ \E r \in Route : \/ Deliver(h, r)
                        \/ Lose(h, r)
                        \/ Silent(h, r)
                        \/ cmdConnect(h, r)
                        \/ Discover(h, r)
    \/ \E t \in Tcd : DiscoverEnd(h, t)
    \/ Read(h)
    \/ \E n \in Name : Register(h, n) \/ Expire(h, n) \/ Tell(h, n)
    \/ \E n \in Name : Restart(h, n, TRUE) \/ Restart(h, n, FALSE)

Next == \E h \in Host : Step(h)

Spec == Init /\ [][Next]_vars

(* Packets that are sent again arrive, goroutines proceed, timers fire, and the
   r-host tells both sides of each other. *)
FairSpec ==
    /\ Spec
    /\ \A h \in Host :
         /\ WF_vars(Read(h))
         /\ \A r \in Route : /\ WF_vars(Deliver(h, r))
                             /\ WF_vars(Silent(h, r))
                             /\ WF_vars(cmdConnect(h, r))
                             /\ WF_vars(Discover(h, r))
         /\ \A t \in Tcd : WF_vars(DiscoverEnd(h, t))
         /\ \A n \in Name : WF_vars(Register(h, n)) /\ WF_vars(Tell(h, n))

-----------------------------------------------------------------------------
(* Properties *)

\* Every variable has its type.
TypeOK ==
    /\ host \in [Host -> HostState]
    /\ asked \in [Host -> SUBSET Route]
    /\ watched \in [Host -> SUBSET Tcd]
    /\ told \in [Host -> [Route -> 0 .. MaxTold]]
    /\ restarts \in 0 .. MaxRestart

Open(h, t) == host[h].chan[t[1]] = t[2]

\* A peer in the arp table has an open channel, or the event that removes it is
\* on its way to the reader: no entry is left behind, which would keep the peer
\* from ever connecting again.
NoStalePeer ==
    \A h \in Host, n \in Name :
        LET t == host[h].arp[n] IN
        t # NoTcd /\ ~Open(h, t) =>
            \E i \in DOMAIN host[h].events :
                /\ host[h].events[i].type = "Disconnected"
                /\ host[h].events[i].tcd[1] = t[1]

Known(h) == host[h].arp[host[Peer(h)].name] # NoTcd

\* In the end two peers that the r-host tells of each other know each other,
\* whatever the order in which their channels and commands meet, if they are not
\* restarted.
PeersConnect == [](restarts = 0) => <>[](\A h \in Host : Known(h))

\* ... and the user of each was told so, once, however often the requests for
\* the host info time out and are registered again, unless the only answer came
\* while the request was not registered.
UsersTold ==
    [](restarts = 0)
        => <>[](\A h \in Host :
                   LET n == host[Peer(h)].name IN
                   host[h].user[n] = IF host[h].missed[n] THEN 0 ELSE 1)
==============================================================================
