# A TLA+ model of teonet-go

teonet-go joins programs on many computers into one network. A program is a
*peer*: it connects to a *r-host*, which tells the peers of each other, and then
talks to every other peer over *trudp*, a reliable protocol on top of UDP. Some
peers are *l0 servers*, which let simple clients in, and some are services: a key
value database, a registry, users, game rooms, a tunnel.

This directory holds specifications of the parts in which something can go wrong
that a test would hardly show, the TLC configurations that check them, and proofs
of the results that matter most. `PROJECT.json` maps every definition to the lines
of code it stands for and lists the hazards, the runs and the theorems.

Run a check with `tlc -config TrudpChannel.cfg MCTrudpChannel.tla`, and a
proof with `tlapm TrudpChannelProofs.tla`.

## The system

### trudp (`trudp/trudp`)

**The channel** (`channel.go`, `send_queue.go`, `receive_queue.go`,
`packet_process.go`). State per remote address: the id of the next packet, the id
expected next, the send queue of unacknowledged packets, the receive queue of
packets that came too early, the write queue of writes that wait for room in the
send queue, and the limit of the send queue, which changes with the packet rate.
Operations: a write, the packets DATA, ACK, RESET, ACKReset, PING and ACKPing, the
resend timer, the keep-alive timer, `Close`. Hard: the network loses, repeats and
reorders packets; a reset forgets ids on one side while old packets are still on
the way; a full channel of events stops the delivery in the middle. It is correct
if the events are a prefix of what the peer wrote until one side is told of a
reset, if nothing that was acknowledged is lost, and if every write is delivered
or a reset is reported.

**The kernel** (`process.go`, `trudp.go`). One goroutine owns all channels. Others
send it writes (`chanWrite`) and functions (`chanKernel`) and wait for an answer;
it sends events (`chanEvent`) to a reader, which itself writes. Hard: three
bounded channels in a circle, a writer that looked at a channel before it was
destroyed, an answer that has to come exactly once. It is correct if nobody waits
for ever and every call of Write gets one answer.

**Packets, udp, statistics** (`packet.c`, `udp.go`, `channel_stat.go`): a packet
layout, a socket, counters.

### teonet (`teonet/teonet`)

**The reader** (`teonet.go`) is the reader of trudp's events and the kernel of
teonet: it decrypts and parses packets, processes commands, deletes peers whose
channel was closed, and runs functions that other goroutines hand it through
`chanKernel`.

**Peers and arp table** (`arp.go`, `command.go`, `rhost.go`): for every peer the
channel that leads to it. The r-host tells two peers of each other
(`CMD_CONNECT`), both open channels on every route they are told, and the first
channel on which a command of the other side comes is the one that is kept. Hard:
the two sides see the routes in different orders, channels are closed behind the
table's back, hosts restart. It is correct if peers get to know each other and no
entry outlives its channel.

**Connection to the r-host** (`rhost.go`, `Run` and `Close` in `teonet.go`): a
goroutine that connects, waits in a wait group until the reader says that the
channel was lost, and connects again.

**Waiting for commands** (`command_wait.go`): `WaitFrom` returns a channel on
which the answer of a peer or a timeout comes. Requests are kept in a map by peer
and command. Hard: answers that race with timeouts, several callers that wait for
the same command. It is correct if every caller is answered and the reader, which
serves the map, is never blocked.

**Splitting** (`split.go`): data of 448 bytes and more go in parts, which the
receiver keeps in a map by sender, number of the packet and number of the part, and
puts together when the last one comes. Hard: all goroutines of the sender share the
number of packets, and the sender may be restarted between two parts. It is correct if
only whole commands are processed, in the order of each goroutine.

**Running, events and the end** (`teonet.go`, `event.go`): the reader and every
goroutine that sends to its own node give events to the channel of the user's loop and
to those of subscribers, one place each. Close closes the peers, the socket and the
reader's channel; the worker of trudp then closes its channels and ends, the reader
closes the event channels, and Run waits for all. Hard: every one of these waits for
another one, while events are still being sent. It is correct if every loop gets the
events of a goroutine in order, and Run returns.

**Packets and encryption** (`packet.*`, `crypt.*`). **Configuration, menu**
(`config.go`, `menu.go`).

**The l0 server** (`l0*.go`): simple clients over TCP, trudp and web sockets. State:
the tables of clients by address and by name, each client's name and connection.
One goroutine takes packets from the unbuffered `l0.ch`, logs clients in and passes
packets on; a reader per TCP connection and the reader of teonet feed it; a goroutine
per login waits for the users registrar. All four close, rename and send to clients.
The mutex guards single accesses to the tables only. Hard: two clients with one name,
a rename while the client is closed, the end of a connection while its login is in
hand, a packet to a client that has just left. It is correct if the two tables agree,
no client outlives its connection, and a connection that is closed is given up.

### Services and clients

**Key value database** (`teocdb`): values, lists, counters and queues in tables of a
Cassandra cluster; **its client** (`teocdbcli`) sends requests with an id and waits for
the answer. Commands are taken by several workers (`teoapi/workers.go`). Hard: a counter
and a queue need several queries, each of which another worker, an old replica or a
crash may come between; answers come after their timeout. It is correct if a value of a
queue is taken once, a number is given once, and an answer is the one that was asked for.

**Users** (`teousers`, `teouserscli`): a client that logs in with its access token is the
same user as before. **Registry** (`teoregistry`): an application and its commands.
**Configuration** (`teoconf`, `teocdbcli/conf`): defaults, a file, and a value of the key
value database, read and written by several holders.

**Game rooms** (`teoroom`): clients ask for a room, load, play and leave; a room starts
when enough have loaded, closes, and stops. Its state is a list of clients by position,
who has been in it, and a state, without a lock, used by the workers and by three timers
for each room. It is correct if a room with enough clients starts, a game that runs ends,
and no client is used after it has left. **Statistics of rooms** (`teoroom/stats`,
`teoroomcli/stats`): the states that rooms report, in a table.

**The l0 client** (`teocli`) sends packets over TCP, or in parts over trudp, and finds
packets in what it reads (`PacketCheck`), as the l0 server does. `teovpn` moves packets
of a network interface.

## What is modelled

| module | models | state | actions |
|---|---|---|---|
| `TrudpId` | packet ids and their distance | | |
| `TrudpChannel` | the two ends of a channel and the network | the fields of `ChannelData`, packets on the way | one per turn of the kernel's select loop: a write, each packet type and each case of `packetDataProcess`, a timer |
| `ReliableStream` | what a channel promises | what was written, what was delivered, was a reset reported | write, deliver, reset |
| `TrudpKernel` | the goroutines around the kernel | channels with the number of unacknowledged packets, `chanWrite`, `chanEvent`, where every goroutine is | one per case of the select loop, one per step of a caller |
| `WaitCommand` | `WaitFrom` and `check` | the map of requests, the goroutine of each call, the channels | one per function that is run in the teonet kernel, one per received command |
| `PeerArp` | two peers that find each other | arp table, channels as sessions, events, goroutines that wait for a host info, with and without a registered request | one per handler of the reader, per goroutine step, per packet, per timeout of a request |
| `L0Clients` | the clients of an l0 server | the two tables, clients, connections, where each goroutine is and what it has in hand | one per access to a table or to `client.conn`, one per packet, per end of a connection, per answer of the services |
| `Rhost` | the connection to the r-host, and Close | `rhostData`, channels to the r-host, events, where the three goroutines are | one per access to a shared field, one per event, one per call |
| `Split` | large packets in parts | the shared number, what each goroutine sends, the parts on the way, the receiver's map | one per step of `split`, one per part received, a restart |
| `Teocli` | the stream between l0 client and server | what was written and not read, the read buffer, `readBuffer` with the slices that share an array, the packet in hand | one per write of a part, per read, `PacketCheck` with its cases, the hand-over to the process |
| `TeonetRun` | how a node runs and stops | flags, the worker of trudp, the reader, the event channels and the loops at them, Close and Run | one per send on a channel, per event taken, per step of Close |
| `Teocdb` | the key value database and its client | tables with old replicas, commands, what each worker does, callers with their requests | one per query, per command taken, per answer, timeout, crash |
| `Users` | logins | the table, requests and answers on the way, what the client keeps | one per query, per answer, a request sent again |
| `Registry` | an application and its commands | the two tables, the callers | one per query |
| `Conf` | a configuration in file and service | the file's text and the service's, each with the fields it has, the configuration of every holder, its goroutines | one per step of reading and writing, a crash |
| `Teoroom` | game rooms | client objects, rooms, timers, where every goroutine is and what it has found | one per piece of a handler between which others run, one per timer |
| `RoomStats` | the statistics of rooms | reports on the way, what workers write, the tables | one per report, per query |
| `Codecs` | how packets are written and read | an item, its bytes, what was read | write, read; one pair of operators per format |

`TrudpChannel` has the protocol without goroutines, `TrudpKernel` the goroutines
without the protocol. What joins them: a turn of the kernel is not interrupted
(`process.init` is one goroutine and owns the channels), so a turn is one action in
`TrudpChannel`; a turn only stops in `sendEvent`, which is what `TrudpKernel` is
about. `PeerArp` takes from `TrudpChannel` that DATA packets of an open channel
arrive in order, and has the resets and the first packets, on which the handshake
depends. `WaitCommand` is the reader's other half. `Rhost` takes one address and
has every access of the runner, the reader and Close to `rhostData` as a step of
its own; the steps of `TrudpKernel` that it needs (a channel is made, is lost, the
kernel stops) are in it again, with what they do to events. `L0Clients` takes from
the others only that a connection delivers packets and ends once. `TeonetRun` takes
the same goroutines as `TrudpKernel` at their end, with the channels of user events in
the place of writes. The services share nothing with each other but their form: commands
in a queue, workers that take them, a database behind one query each; `MCServices` and
`MCTeonet` check modules that share no state side by side, each behaviour about one of
them (`part`). `ServicesProofs`, `PeerProofs` (of `PeerArp` and `Split`) and
`L0ClientsProofs` (of `L0Clients` and `Teocli`) extend several modules and prove about
each of them on its own.

Left out everywhere: time (a timer may fire in every state in which it is armed),
payloads (the n-th write is the number n; in `Codecs`, texts of a few letters),
formatting, logs, statistics, memory in C. `TrudpChannel` leaves out the packets of
`sendTestMsgF`, a flag for tests.

## Runs

Every run lists its properties in its cfg; the comment of a property says which
behaviour it is about.

| run | configuration | shows |
|---|---|---|
| channel | `TrudpChannel` | 3 writes one way over a network that loses, repeats and reorders, with a reset, a ping and an event channel that may be full: the stream stays in order, nothing acknowledged is lost, no write waits behind an empty send queue |
| channel_live | `TrudpChannelLive` | writes both ways, two resets or disconnects, a queue limit that grows and shrinks under waiting writes: the channel implements `ReliableStream`, every write is delivered or a reset is reported, no write waits for ever |
| channel_duplicate_first | `TrudpChannelDuplicateFirst` | *fails*: a second copy of packet 0 resets the receiver and is delivered again |
| kernel | `TrudpKernel` | a user and the reader write and close, packets arrive, the channel is destroyed: every write gets one answer and returns, writes are sent in the order in which they were taken, the kernel is never blocked in `sendEvent` while its reader waits for it |
| kernel_deadlock | `TrudpKernelDeadlock` | *fails*: as many channels as reserved places |
| wait | `WaitCommand` | two callers for one command and one for another, late and repeated answers, timeouts, a Close: unless two waited for one command at a time, the reader is never blocked and every caller is answered |
| peers | `PeerArp` | one route, a host may restart: no entry outlives its channel, and without a restart both peers get into each other's table and the user of each is told once, unless the one answer that tells came while no request for it was registered |
| rhost | `Rhost` | three channels to the r-host, a Close at any time: a lost connection to an r-host that had answered is noticed and opened again, a Close that finds the runner waiting ends it |
| l0_clients | `L0Clients` | a TCP and a trudp client log in with one name, are renamed by the registrar and the auth service, leave and are closed: the tables agree about every open client, no client outlives its connection unless its login was in hand, a connection that we close is given up |
| node | `Teonet` (`MCTeonet`) | a node with a peer, a subscriber and a goroutine that sends to its own node runs and is closed at any time: events in order, Run returns; two goroutines send large packets and the sender restarts: whole commands only; an l0 client's packets over TCP and trudp: what is processed is what was sent |
| l0_stream | `L0Stream` (`MCTeonet`) | *fails*: the same stream with the one read buffer that the l0 server uses |
| services | `Services` (`MCServices`) | the services, each with two workers and two clients, with failures, old replicas and crashes: what a queue gives, it gives once; numbers are given once; answers are those asked for; users stay the same; formats keep what they carry; no field of a configuration is made up; rooms start and end; the table of rooms follows them |

Bounds, and why they are enough:

- *Channel.* Three writes with a send queue of two: a packet can be ahead of, behind
  and beyond the expected one with one more waiting. A reset of each side can cross
  an earlier one in `TrudpChannelLive`. The network makes copies of packets in
  `TrudpChannel` only; in the other two the only copies are those that are sent again,
  which is enough to deliver the first packet twice (`TrudpChannelDuplicateFirst`). That
  resets the channel, so the other properties excuse it, and the theorems about the stream
  allow any copies. `packetIDlimit = 10` keeps ids
  from wrapping, as `BoundAssumption` requires (see *Not modelled*).
- *Kernel.* The code's reserve of 16 places becomes 3 and the channels go with it:
  what matters is which of the two is larger, and the theorem covers the rest.
- *Waiting.* `check` and `exists` treat the requests of a key alone; two callers of
  one key and one of another have every pair there is. `RegisteredOnce` is in no run:
  it is part of what is proved inductive.
- *Peers.* Two hosts, since the table treats every peer alone; one route; as many
  channel objects per route as these can create. A request for the host info may time
  out and be registered again without a bound.
- *Rhost.* A third channel makes a reconnection meet an event of the channel before the
  last one; the theorems cover any number. The run calls Close once, from the goroutine
  of Ctrl-C; Close from a menu is a call of the reader itself.
- *L0.* Two connections that want one name are what closes a client for its name; two
  packets on one of them are a login and a command, or a first packet that is none; two
  new names let the answers of the two services meet. At most one goroutine waits for
  the registrar at a time, and an address connects once: a client that comes back has
  another port. The theorems cover any number of the rest.
- *Node.* One place in every event channel, as in the code; three in `chanEvent` with two
  reserved, against a peer's channel and one packet, as `RunAssumption` asks of the code's
  numbers. Data of up to 5 cells in parts of 2: none, one, two and three parts, and the
  boundary. Packets of 3 to 5 cells with a header of 2 in a buffer of 6: a read ends in
  the header, in the body, at the end, or in the next packet.
- *Services.* Two workers and two callers are all that a race of this code needs: every
  handler looks at one row or one room, and a third one only repeats what the second does.
  Three requests let an answer meet the retry of its caller and a request of the other;
  two rooms let a client be in an old and a new one; five reports are all the states of a
  room and one of its client. A configuration is that of a room: it has no defaults that
  are read again, and its fields have `omitempty`; of two fields, one text of the
  administrator leaves out the first and sets the second to zero, the other leaves out
  the second. json.Unmarshal is one step. Numbers are bounded; texts have up to three letters against
  lengths that hold two or three, so that each length is reached and exceeded.

## Fairness

- `TrudpChannel`: the resend timer of a host ticks again and again (a
  `time.Ticker` in the select loop). Nothing is assumed of the network: when no
  packet arrives, the resends run out and the channel is destroyed.
- `TrudpKernel`: the kernel and the reader go on when they can. Strong fairness of
  the cases of the select loop: Go's `select` chooses at random among the ready
  cases, so a case that is ready again and again is taken. Strong fairness of a
  send to a channel: the runtime queues blocked senders in order. An unacknowledged
  packet is acknowledged or its channel destroyed, which is `DeliveredOrReset` of
  `TrudpChannel`.
- `WaitCommand`: the goroutine of a call goes on, by itself and in the kernel.
- `PeerArp`: packets that are sent again arrive, the reader reads, silent channels
  time out, goroutines go on. Nothing is assumed of the timeouts of requests
  (`Expire`): they may come at any time and as often as they like. `Timely` says that packets and events take less than
  the timeouts of 1.5 and 3 seconds.
- `Rhost`: the three goroutines and the kernel go on. Nothing is assumed of the
  network or of the r-host.
- `L0Clients`: every goroutine that can go on does, and the end of a connection that we
  closed is seen by its reader. Clients and services may be silent.
- `TeonetRun`: every goroutine goes on when it can. Nothing is assumed of packets, of
  those that send, of when a subscriber comes, and of Close. The user's loop reads until
  its channel is closed.
- The services, `Split` and `Teocli` have safety properties only. A worker waits for a
  database and a client for the network; the code promises nothing of either.

## Proofs

| theorem | says |
|---|---|
| `TrudpChannelProofs!TypeCorrect` | type correctness, for all parameters |
| `TrudpChannelProofs!NoLostWakeupHolds` | no write waits behind an empty send queue |
| `TrudpChannelProofs!InTransitHolds` | the inductive invariant of the stream |
| `TrudpChannelProofs!DeliveredInOrderHolds`, `NothingLostHolds` | the two safety properties of the stream |
| `TrudpChannelProofs!StreamSpecHolds` | `TrudpChannel` implements `ReliableStream` |
| `TrudpKernelProofs!NoDeadlockHolds` | fewer connected channels and other datagrams than reserved places: no deadlock |
| `TrudpKernelProofs!KernelTypeCorrect` | type correctness |
| `TrudpKernelProofs!AnsweredOnceHolds` | every call of Write gets exactly one answer |
| `TrudpKernelProofs!SentInOrderHolds` | writes of a channel are sent in the order in which they were taken |
| `WaitCommandProofs!UnsharedServesHolds`, `RegisteredOnceHolds` | as long as no command had two callers at a time, the reader is never blocked and every unanswered request is in the map once |
| `RhostProofs!LossIsNoticedHolds`, `FlagHasWakerHolds` | the loss of the r-host is noticed, a cleared flag has somebody who wakes the runner |
| `RhostProofs!RhostTypeCorrect` | type correctness; the counter of the wait group is at most one |
| `L0ClientsProofs!L0TypeCorrect` | type correctness; whoever closes, renames or logs in a client has one in hand |
| `L0ClientsProofs!NamesMatchHolds`, `FoundByNameHolds`, `OpenIsListedHolds` | the tables of clients agree |
| `L0ClientsProofs!NoGhostsHold` | no client outlives its connection, but for a login in hand |
| `ServicesProofs!RoomTypeCorrect`, `CdbTypeCorrect` | type correctness of `Teoroom` and `Teocdb` |
| `ServicesProofs!TakenOnceHolds`, `IdsUniqueHolds` | a value of a queue is returned once, a number is given once |
| `ServicesProofs!OwnAnswerHolds` | a caller gets the answer to its own last request |
| `ServicesProofs!NoLostStartHolds`, `RunningEndsHolds` | a room with enough clients starts, a game that runs has a timer that ends it |
| `ServicesProofs!RowFollowsRoomHolds` | the table of rooms shows what was reported last |
| `ServicesProofs!UserTypeCorrect` | type correctness of `Users` |
| `ServicesProofs!SameUserHolds` | a client that logs in with the token it got is the same user |
| `ServicesProofs!FieldsGivenHolds` | every field of a configuration, of its file and of the service's value is a default or was given by an administrator |
| `ServicesProofs!AllTypesHold` | type correctness of the services side by side |
| `ServicesProofs!RoundTripHolds` | what is read from a packet is what was written into it, for every format |
| `PeerProofs!PeerTypeCorrect` | type correctness of `PeerArp`; no goroutine that waits is counted below zero |
| `PeerProofs!NoStalePeerHolds` | an entry of the arp table has an open channel, or its removal is on the way |
| `PeerProofs!CommandsWholeHolds` | a peer processes large commands whole and in order |
| `NodeProofs!EventsInOrderHolds` | every loop gets the events of a sender in order, without a gap |
| `L0ClientsProofs!StreamInOrderHolds` | the packets found in a stream are those that were sent |

*The stream.* That the events are a prefix of the writes is not inductive: it says
nothing of the packets that will become events. `InTransit` adds that ids, queues
and packets on the way carry the payload that belongs to their place
(`Numbered`, `Arriving`), that the expected id counts what was handed over
(`HandedOver`), and that whatever was acknowledged is in the receiver
(`Acknowledged`). The last is what makes removing a packet from the send queue
safe. The module begins with the arithmetic of ids. The assumption is that a host
writes less than half of `packetIDlimit` packets, so that ids do not wrap.

*The refinement.* `StreamSpecHolds` also speaks of the time after a reset, when ids are
used again and `InTransit` says nothing. What remains is `Authentic`: everything that a
host keeps, or that is on its way to it, was written by the host it is kept for, whatever
its id. A step that hands something to a host is then `Deliver` by `DeliveredInOrder` as
long as the channel is intact, and `Break` by `Authentic` afterwards.

*The kernel.* `NoDeadlock` is strengthened to `Room`: the events in `chanEvent`,
those about to be sent, one for each connected channel and one for each datagram of
another protocol still to come fit in `chEventSize`. A packet's event is only taken
with `EventReserve` places free, and a destroyed channel turns its connected bit into
its event. The assumption is `FewConnected`: connected channels and other datagrams
together are fewer than `EventReserve`. `TrudpKernelDeadlock` shows that it cannot be
dropped for the channels; a datagram's event is sent from `trudp.go:338` without a
look at the room, and the code does not bound their number as `MaxNotrudp` does.

*Answers of the kernel.* `AnsweredOnce` speaks of callers that are released. Its
invariant `Holding` says where a write is before that: while a goroutine waits, its
write is in `chanWrite` or in the write queue of its channel, in one of the two and
once, and nobody else's is there under its name. Taking the head of a queue, removing
one write from the middle and flushing the queue of a destroyed channel each keep
that. `SentInOrder` is inductive as it stands. Neither needs an assumption about the
number of channels or the limits.

*Waiting.* `RegisteredOnce` says that the map holds exactly the registered,
unanswered requests, each once; it is inductive together with the fact that a key
has at most one waiter, until the history variable `shared` is set.
After that `KernelServes` can fail.

*The r-host.* `LossIsNoticed` only speaks of a runner that waits. The event of its
channel may come at any step before, so the invariant follows the channel from the
moment ConnectChannel returns it (`Before`), says the same of a runner that is about
to wait (`LossArmed`), needs that the flag is only cleared by somebody who is about to
call `wg.Done` (`FlagArmed`), that the counter is zero whenever nobody waits
(`Counter`), and that channel objects are numbered, so that a lost one never opens
again (`Numbered`). No assumption but the type of the bounds.

*The l0 server.* Each property speaks of the tables; what breaks them is what a
goroutine has in hand. The invariant adds where a client in hand comes from: a client
in a table or in hand (`Known`) has its name, and has had it (`KnownOK`); the client of
a packet on the way, or in the hands of the process, is new (`OfferOK`, `PacketOK`),
so a login never lists a client twice; a connection is closed before its client leaves
a table, and a client about to be renamed is closed or still listed (`ClosedOK`); after
the end of a connection its reader has the listed client in hand until it is deleted
(`OverOK`). Steps that leave the tables alone share one lemma (`GoStep`). The assumption
says how the constants fit together (`L0Assumption`), and bounds nothing.

*The services.* A worker's handler is a sequence of queries, so every invariant says
what a worker has in hand between two of them.
For `TakenOnce`, a row that a worker is about to return was locked by its own
conditional update, and a locked row is never given to another (`RowsOwned`). For
`IdsUnique`, the counter is larger than every number given since it was last set
(`IdsBelow`), and the conditional update makes the age of what a worker had read
irrelevant. For `OwnAnswer`, requests that are on the way, in the hands of a worker or
answered (`Alive`) have different ids (`RequestsOnce`), so an answer that carries the id
of a caller's request was made for it.
In the rooms, `NoLostStart` needs that a goroutine that made a client ready has still to
count, and that the last one to count sees all of them; `RunningEnds` that whoever
starts a room starts its timer in the same step. `RowFollowsRoom` is carried by
`StatInv`: the row shows the last report, or that report is still queued or in the
hands of a worker. The assumptions are the types of the bounds (`TeocdbAssumption`) and
that clients are finitely many and at least one is needed to start (`RoomAssumption`).
For `SameUser`, ids that are drawn and tokens that are made are never equal, so that a
row which is written again belongs to a user for whom something went wrong (`troubled`);
a client has one request at a time, and the row of its token stays as it was.

*Peers.* That an entry has an open channel or an end on the way is not inductive: a
command that is still to be read can make an entry. `PeerInv` says that for every event
that can do so, as for every entry, the channel is open and connected or its
`Disconnected` comes later in the queue (`Armed`), and that channels are numbered, so that
an ended one never opens again (`NumbersOK`). `deleteKey` removes one peer for one event:
the assumption `MayRename = FALSE` gives a channel at most one name (`NamesOK`).

*Large packets.* `CommandsWhole` speaks of what was processed. `SplitInv` speaks of the
place of a message on the way: the parts of its packet that come before it are kept by
the receiver or are on the way before it, and nothing between takes them away (`Ready`);
and what its goroutine completed before is older (`Older`). The same holds for the place
where a goroutine will write its next part. Each step of either end moves those places by
one, and the last part finds all others (`CombineLast`); what they are put together to
is an argument about the least place at which the loop of `combine` could differ
(`UpTo`, `CombinedWhole`). The assumptions: a part is not empty, and a packet has no more
than 2^15 parts, since the highest bit of a part's number marks the last one.

*The stream of an l0 client.* What the client keeps, the read it has in hand, what is in
the network and what a goroutine has still to write are consecutive pieces of what was
sent (`Piece`, `After`); a piece that begins where packet `Due` begins has packet `Due`
at its head, which is what `PacketCheck` cuts off. The assumption `SharedBuffer = FALSE`
is that every read has a buffer of its own, as in `teocli`; the l0 server has one for
all, and `L0Stream` shows what comes of that.

*Events of a node.* `EventInv` follows a number from its sender to a loop: a loop has,
or has in its channel, every event of a sender but the one the sender still owes it
(`Reached`, `Owes`, `UpToDate`); a loop that has not subscribed has got nothing; and a
channel is closed by the reader only when nobody is about to send to it. `RunAssumption`
says that the names of the places differ.

*The services together.* A behaviour of `MCSpec`, which the run `services` checks, is a
behaviour of each service's own specification (`EachService`), so every theorem about one
of them is one about the run. `AllTypesHold` joins their types, from the types of the
bounds.

*Configurations.* The file is written without a lock: a holder truncates it and then
writes at its beginning, so a text may go over a longer one that another holder has
written meanwhile; the mixture of two is taken for a text that cannot be parsed. What
is read is merged: a text sets the fields it has, and `omitempty` leaves out those that
are zero, so a configuration may be one that nobody set as a whole. `FieldsGiven` says
what remains: each field, wherever it is, is its default or was given by an
administrator. The history variable `wasSet` has the texts that were given, and only
grows. `MarshalTypes` and `WrittenText` say that a text has the fields of the
configuration it was made from, and that the file holds after a write that text or one
that nobody can read; so merging and writing take every field from one that was given
(`KnownFacts`), and each step keeps that (`GivenStep`). The assumption is the types of the bounds
(`ConfAssumption`).

*Formats.* `CodecInv` says where the packet and what is read come from, and `RoundTrip`
then is one lemma per format (`KeyValueTrip` to `KeyListTrip`). A field at the head of a
packet is read and cut off (`OneField`, `TextRead`); a separator ends the text before it
(`IndexBehind`), so that `Split` returns the parts a text was put together from
(`SplitIs`, which counts the separators); a list is read element by element from what is
left (`Pieces`). `CodecAssumption` says that cells are natural numbers, that letters,
separators and the values of fields differ, and that the limits of lengths are positive.

Induction over data: the library's induction theorems cannot be used, as they take an
operator. `LeastNatural` (from the well-foundedness of strict subsets of an interval)
takes its place where one was needed, as an argument about the least counterexample
(`UpToN`: what holds of 0 and is handed on holds up to n). So `FlattenSeq` and the loops
of the readers, recursive functions on an interval, can be proved about (`Flattened`,
`LeftIs`).

Checked by TLC alone, because they are out of this prover's reach: all liveness
properties (`DeliveredOrReset`, `WriteReleased`, `WriteReturns`, `Answered`,
`PeersConnect`, `UsersTold`, `Reconnects`, `CloseEnds`, `ClosedIsServed`, `RunReturns`).
Every safety invariant that a run expects to hold has a theorem; `NoStalePeer` and
`StreamInOrder` under the assumptions named above.

## Findings

Three are runs that fail; `PROJECT.json` quotes the doc or comment each contradicts.

- A copy of the first DATA packet resets the channel (`packet_process.go:167`;
  `TrudpChannelDuplicateFirst`).
- A destroyed channel sends its event without looking for room (`channel.go:87`;
  `TrudpKernelDeadlock`).
- The l0 server reads every connection into one buffer, and what it hands on are slices
  of it (`l0.go:174`; `L0Stream`).

Others were met on the way; each is a hazard in `PROJECT.json`, and the models show
it when a parameter is changed or an excuse is taken out of a property:

- Packets left in the receive queue while the event channel was full wait for a DATA
  packet that need not come (`receive_queue.go:39`): `EventsMayFill = TRUE` in
  `TrudpChannelLive` stops the stream.
- A packet is acknowledged before the receiver knows if it keeps it
  (`packet_process.go:179`), and an ACK releases a waiting write without looking at
  the limit (`process.go:213`).
- A late write waits in the queue of a destroyed channel (`channel.go:131`): more
  writers than `maxQueueSize` in `TrudpKernel` break `WriteReturns`.
- A timeout shortens a copy of the list of requests only (`command_wait.go:60`): two
  callers for one command and one timeout block the reader, which `KernelServes` of
  `WaitCommand` would forbid. A refused answer drops the request (`command_wait.go:101`):
  two callers of one key in `Checking` break `Answered`.
- With two routes each side keeps the channel that the other closes (`arp.go:71`):
  `Route` with two members breaks `PeersConnect`. A peer that restarts early is not
  answered (`arp.go:64`) and the user is told twice (`arp.go:93`): without
  `restarts = 0` in their premise `PeersConnect` and `UsersTold` fail. A peer is asked
  for its host info once (`arp.go:91`), and the request for the answer is registered by
  another goroutine, removed after two seconds and registered again (`arp.go:92`,
  `command_wait.go:143`): an answer that comes in between is dropped, the goroutine asks
  the map for ever, and `EventConnected`, "New peer connected to this host"
  (`event.go:33`), is never sent. `missed` is reachable in `PeerArp`, and without it
  `UsersTold` fails. A channel may
  have two names (`arp.go:76`): `MayRename = TRUE` breaks `NoStalePeer`.
- An r-host that does not answer the first command is not tried again
  (`channel.go:86`). The flag of the r-host connection is set before the counter and
  cleared without a lock: `panicked` is reachable in `Rhost`, and so is a runner that
  waits for an event that was read before (`early`). A Close while the runner sleeps
  leaves it in ConnectChannel for ever (`rhost.go:308`): `CloseEnds` without `Waiting`
  fails.
- Two goroutines that close one client, or one that writes to it, may call a `conn` that
  the other has set to nil (`l0_client.go:72`): `panicked` is reachable in `L0Clients`. A
  connection that ends while its login is in hand leaves a client without one
  (`l0_process.go:82`): without `overtaken`, `NoGhosts` fails. The goroutine that asks
  the registrar shares the loop variable `pac` (`l0_process.go:104`).
- Parts of two packets mix, in `split` (`split.go:47`) and in the stream of an l0 client
  (`teonet_l0_client.go:224`); data of exactly 448 bytes lose their command
  (`split.go:64`): `CommandsWhole` without `mixed` and `StreamInOrder` without `spoiled`
  fail.
- The reader closes the user's channel while another goroutine may be sending to it
  (`event.go:71`): `panicked` is reachable in `TeonetRun`.
- After `DeleteID` the loop of `GetID` never ends (`teocdb.go:244`), two first requests both
  create the counter, and a row that is locked when the service crashes is never returned
  (`teocdb.go:285`). Several clients in one process share the ids of requests.
- A failing look-up creates a user (`teousers/process.go:95`), and the check for an existing
  one always fails (`:127`): without `troubled`, `SameUser` fails.
- A zero that an administrator sets in the parameters of a room is not written to the
  file (`omitempty`, `game_conf.go:25`), so the next room begins with what the code gives
  the field.
- A room uses a client that may have left (`room.go:99`; `crashed` is reachable in
  `Teoroom`), loses one of two clients that are added at once (`client.go:47`), and starts
  again after it has stopped when a client that had not loaded is disconnected
  (`teoroom.go:106`).

## Not modelled

- Ids that wrap around after 2^32 packets. `incID` skips 0, so distances across the
  wrap are off by one.
- The cipher, menus, logs, terminal programs, the vpn tunnel, the counters of trudp.
- Unsynchronised access to Go maps and freed C memory are listed as hazards; a
  model has neither torn maps nor memory.
- In the l0 server: web sockets, packets from peers to clients (`cmdL0To`), `destroy`,
  which closes `l0.ch` while readers may send to it, and `closeAll`, which walks the table
  of names while `close` deletes from it.
- A user's loop that sends to its own node, and `check()` in the goroutine of such a
  sender. Several peers that send parts to one receiver, whose map keeps them apart.
- The redirection of the output and the menu of `teoapi`, and the loops of `teocli_run.go`.

## Plan

What would come next, in this order:

1. The rest of the l0 server (see above), in `L0Clients`, with its proofs.
2. A user's loop that calls `WaitFrom` and `SendTo` while the reader waits for a place in its
   channel: `TeonetRun` with the map of `WaitCommand`.
