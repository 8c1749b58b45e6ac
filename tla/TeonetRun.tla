------------------------------ MODULE TeonetRun ------------------------------
(***************************************************************************)
(* How a node runs and stops (teonet/teonet/teonet.go: Run, Close, read;   *)
(* event.go; the worker and Run of trudp at their end). The worker of      *)
(* trudp puts events into chanEvent; the reader of teonet takes them and   *)
(* sends events to the channel of the user's loop and to the subscribed    *)
(* ones, which hold one event each; a subscriber gives commands to the     *)
(* workers of the api. A goroutine that sends a command to its own node    *)
(* processes it itself and sends the event itself.                         *)
(*                                                                         *)
(* What the reader does for a packet is left to the other modules: it      *)
(* sends an event or not. The user's loop reads until its channel is       *)
(* closed; Close is called by a goroutine of its own (Ctrl-C).             *)
(***************************************************************************)
EXTENDS Naturals, Sequences

CONSTANTS
    SelfSender,     \* goroutines that send commands to their own node
    Subscriber,     \* the loops of the api and of the configuration
    ApiLoop,        \* the one of the api
    EventSize,      \* the capacity of chanEvent (chEventSize)
    Reserve,        \* what sendEventAvailable keeps free (16)
    Peers,          \* open channels of peers, which Close closes
    Clients,        \* open channels of others, which the worker closes
    MaxBurst,       \* packets that one received packet releases
    CommandSize,    \* the capacity of commandChan
    MaxPackets,     \* bound: packets that are received
    MaxSelf         \* bound: commands a goroutine sends to its own node

\* The events of one packet and of the channels fit into the reserve. The user's
\* loop and the reader are none of the others.
ASSUME RunAssumption == /\ ApiLoop \in Subscriber
                        /\ "main" \notin Subscriber /\ "reader" \notin SelfSender
                        /\ MaxBurst + Peers + Clients <= Reserve
                        /\ Reserve < EventSize

Queue == {"main"} \cup Subscriber
Actor == {"reader"} \cup SelfSender

VARIABLES
    running,    \* teo.running
    kernel,     \* chanKernel of teonet is open
    udp,        \* the socket of trudp is open
    packets,    \* packets received
    worker,     \* of trudp: "run", "close" or "ended"
    pending,    \* events the worker has to send before it goes on
    chanEvent,  \* the events of trudp
    eventsEnd,  \* chanEvent is closed
    open,       \* the channels of peers that Close has not closed yet
    reader,     \* the place of the reader
    sending,    \* of an actor: how far it is in event.send
    sent,       \* of an actor: the events it has sent
    chan,       \* of a queue: its channel
    ended,      \* of a queue: its channel is closed
    loop,       \* of a queue: the place of the loop that reads it
    commands,   \* the commands in commandChan
    got,        \* history of a queue: the last event of every actor it has got
    closer,     \* the place of Close
    main,       \* the place of Run
    panicked    \* the program has sent on a closed channel

runVars == <<running, kernel, udp, packets, worker, pending, chanEvent, eventsEnd,
             open, reader, sending, sent, chan, ended, loop, commands, got,
             closer, main, panicked>>

Free == [at |-> "no", left |-> {}]

RunInit ==
    /\ running = TRUE /\ kernel = TRUE /\ udp = TRUE
    /\ packets = 0
    /\ worker = "run" /\ pending = 0
    /\ chanEvent = 0 /\ eventsEnd = FALSE
    /\ open = Peers
    /\ reader = "start"
    /\ sending = [a \in Actor |-> Free]
    /\ sent = [a \in Actor |-> 0]
    /\ chan = [q \in Queue |-> <<>>]
    /\ ended = [q \in Queue |-> FALSE]
    /\ loop = [q \in Queue |-> IF q = ApiLoop THEN "start" ELSE "read"]
    /\ commands = 0
    /\ got = [q \in Queue |-> [a \in Actor |-> 0]]
    /\ closer = "no" /\ main = "run"
    /\ panicked = FALSE

atTrudp == <<udp, packets, worker, pending, chanEvent, eventsEnd>>
atQueues == <<chan, ended, loop, commands, got>>
atSending == <<sending, sent>>
atClose == <<running, kernel, open, closer, main>>

-----------------------------------------------------------------------------
(* The worker of trudp *)

sendEventAvailable == chanEvent < EventSize - Reserve

\* A packet is processed when there is room for events, or dropped; the ones that
\* it releases are sent one by one.
Packet ==
    /\ udp /\ worker = "run" /\ pending = 0
    /\ packets < MaxPackets
    /\ packets' = packets + 1
    /\ pending' \in IF sendEventAvailable THEN 1 .. MaxBurst ELSE {0}
    /\ UNCHANGED <<udp, worker, chanEvent, eventsEnd, reader, atSending, atQueues,
                   atClose>>

sendEvent ==
    /\ pending > 0 /\ chanEvent < EventSize
    /\ pending' = pending - 1
    /\ chanEvent' = chanEvent + 1
    /\ UNCHANGED <<udp, packets, worker, eventsEnd, reader, atSending, atQueues,
                   atClose>>

\* The socket was closed: Run of trudp closes the channel of packets, and the
\* worker closes all channels, which sends an event for each, and one at the end.
WorkerStops ==
    /\ ~udp /\ worker = "run" /\ pending = 0
    /\ worker' = "close"
    /\ pending' = open + Clients + 1
    /\ UNCHANGED <<udp, packets, chanEvent, eventsEnd, reader, atSending, atQueues,
                   atClose>>

WorkerEnds ==
    /\ worker = "close" /\ pending = 0
    /\ worker' = "ended"
    /\ eventsEnd' = TRUE
    /\ UNCHANGED <<udp, packets, pending, chanEvent, reader, atSending, atQueues,
                   atClose>>

Worker == sendEvent \/ WorkerStops \/ WorkerEnds

-----------------------------------------------------------------------------
(* Events (event.go) *)

\* The goroutine sends an event when the node is running.
send(a) ==
    IF running
    THEN /\ sending' = [sending EXCEPT ![a].at = "main"]
         /\ sent' = [sent EXCEPT ![a] = @ + 1]
    ELSE UNCHANGED atSending

\* To the user's channel, which may be closed while the goroutine waits.
SendMain(a) ==
    /\ sending[a].at = "main"
    /\ IF ended["main"]
       THEN panicked' = TRUE /\ UNCHANGED <<sending, chan>>
       ELSE /\ chan["main"] = <<>>
            /\ chan' = [chan EXCEPT !["main"] = <<<<a, sent[a]>>>>]
            /\ sending' = [sending EXCEPT ![a].at = "lock"]
            /\ UNCHANGED panicked
    /\ UNCHANGED <<atTrudp, reader, sent, ended, loop, commands, got, atClose>>

Subscribed == {q \in Subscriber : loop[q] \in {"read", "command"}}

ReadLocked == \E a \in Actor : sending[a].at = "subs"

\* The lock is taken for reading: not when the reader waits to close.
RLock(a) ==
    /\ sending[a].at = "lock"
    /\ reader # "close"
    /\ sending' = [sending EXCEPT ![a] =
                      IF reader = "ended" \/ Subscribed = {} THEN Free
                      ELSE [at |-> "subs", left |-> Subscribed]]
    /\ UNCHANGED <<atTrudp, reader, sent, atQueues, atClose, panicked>>

\* Fault: a subscriber that is not ready misses the event.
SendSubReady(a) == \E q \in sending[a].left :
    /\ chan' = [chan EXCEPT ![q] = IF @ = <<>> THEN <<<<a, sent[a]>>>> ELSE @]
    /\ sending' = [sending EXCEPT ![a] =
                      IF @.left = {q} THEN Free
                      ELSE [at |-> "subs", left |-> @.left \ {q}]]
    /\ UNCHANGED <<atTrudp, reader, sent, ended, loop, commands, got, atClose,
                   panicked>>

\* To a subscribed channel. The last one gives the lock back.
SendSub(a) == \E q \in sending[a].left :
    /\ chan[q] = <<>>
    /\ chan' = [chan EXCEPT ![q] = <<<<a, sent[a]>>>>]
    /\ sending' = [sending EXCEPT ![a] =
                      IF @.left = {q} THEN Free
                      ELSE [at |-> "subs", left |-> @.left \ {q}]]
    /\ UNCHANGED <<atTrudp, reader, sent, ended, loop, commands, got, atClose,
                   panicked>>

\* A goroutine sends a command to its own node.
SelfSend(a) ==
    /\ sending[a] = Free /\ sent[a] < MaxSelf
    /\ running
    /\ send(a)
    /\ UNCHANGED <<atTrudp, reader, atQueues, atClose, panicked>>

Sending(a) == SendMain(a) \/ RLock(a) \/ SendSub(a)

-----------------------------------------------------------------------------
(* The reader of teonet *)

ReaderStarts ==
    /\ reader = "start"
    /\ reader' = "read"
    /\ send("reader")
    /\ UNCHANGED <<atTrudp, atQueues, atClose, panicked>>

\* Between two events the reader looks whether the node is running.
ReaderReads ==
    /\ reader = "read" /\ sending["reader"] = Free
    /\ reader' = IF running THEN "select" ELSE "stop"
    /\ UNCHANGED <<atTrudp, atSending, atQueues, atClose, panicked>>

\* An event of trudp is taken; a packet or the end of a channel may be an event
\* for the user.
ReaderTakes ==
    /\ reader = "select" /\ chanEvent > 0
    /\ chanEvent' = chanEvent - 1
    /\ reader' = "read"
    /\ send("reader") \/ UNCHANGED atSending
    /\ UNCHANGED <<udp, packets, worker, pending, eventsEnd, atQueues, atClose,
                   panicked>>

\* Both channels are closed at the end, and wake the reader.
ReaderWakes ==
    /\ reader = "select"
    /\ ~kernel \/ (eventsEnd /\ chanEvent = 0)
    /\ reader' = "read"
    /\ UNCHANGED <<atTrudp, atSending, atQueues, atClose, panicked>>

\* It tells Run that it has ended, and goes on to close the channels. The events
\* of the stop are not sent, because the node is not running any more.
ReaderStops ==
    /\ reader = "stop"
    /\ reader' = "close"
    /\ UNCHANGED <<atTrudp, atSending, atQueues, atClose, panicked>>

\* Fault: the user's channel is not closed.
ReaderClosesSubs ==
    /\ reader = "close" /\ ~ReadLocked
    /\ reader' = "ended"
    /\ ended' = [q \in Queue |-> q \in Subscribed]
    /\ UNCHANGED <<atTrudp, atSending, chan, loop, commands, got, atClose, panicked>>

\* event.close.
ReaderCloses ==
    /\ reader = "close" /\ ~ReadLocked
    /\ reader' = "ended"
    /\ ended' = [q \in Queue |-> q \in Subscribed \cup {"main"}]
    /\ UNCHANGED <<atTrudp, atSending, chan, loop, commands, got, atClose, panicked>>

Reader == \/ ReaderStarts \/ ReaderReads \/ ReaderTakes \/ ReaderWakes
          \/ ReaderStops \/ ReaderCloses

-----------------------------------------------------------------------------
(* The loops that read events, and the workers of the api *)

\* The loop of the api starts late, maybe after the end; the configuration has
\* subscribed before Run.
Subscribe ==
    /\ loop[ApiLoop] = "start" /\ ~ReadLocked /\ reader # "close"
    /\ loop' = [loop EXCEPT ![ApiLoop] = "read"]
    /\ UNCHANGED <<atTrudp, reader, atSending, chan, ended, commands, got, atClose>>

\* An event is taken; the loop of the api makes a command of it.
LoopTakes(q) ==
    /\ loop[q] = "read" /\ chan[q] # <<>>
    /\ got' = [got EXCEPT ![q][chan[q][1][1]] = chan[q][1][2]]
    /\ chan' = [chan EXCEPT ![q] = <<>>]
    /\ loop' = [loop EXCEPT ![q] = IF q = ApiLoop THEN "command" ELSE "read"]
    /\ UNCHANGED <<atTrudp, reader, atSending, ended, commands, atClose>>

LoopCommands(q) ==
    /\ loop[q] = "command" /\ commands < CommandSize
    /\ commands' = commands + 1
    /\ loop' = [loop EXCEPT ![q] = "read"]
    /\ UNCHANGED <<atTrudp, reader, atSending, chan, ended, got, atClose>>

LoopEnds(q) ==
    /\ loop[q] = "read" /\ chan[q] = <<>> /\ ended[q]
    /\ loop' = [loop EXCEPT ![q] = "ended"]
    /\ UNCHANGED <<atTrudp, reader, atSending, chan, ended, commands, got, atClose>>

Loop(q) == LoopTakes(q) \/ LoopCommands(q) \/ LoopEnds(q)

\* A worker of the api takes a command.
ApiWorker ==
    /\ commands > 0
    /\ commands' = commands - 1
    /\ UNCHANGED <<atTrudp, reader, atSending, chan, ended, loop, got, atClose>>

-----------------------------------------------------------------------------
(* Close and Run *)

Close ==
    /\ closer = "no" /\ running
    /\ running' = FALSE
    /\ closer' = "channels"
    /\ UNCHANGED <<atTrudp, reader, atSending, atQueues, kernel, open, main>>

\* The worker of trudp closes the channel of a peer for deleteAll.
ClosePeer ==
    /\ closer = "channels" /\ open > 0
    /\ worker = "run" /\ pending = 0
    /\ open' = open - 1
    /\ pending' = 1
    /\ UNCHANGED <<udp, packets, worker, chanEvent, eventsEnd, reader, atSending,
                   atQueues, running, kernel, closer, main>>

\* Then the socket and the kernel channel are closed.
CloseUdp ==
    /\ closer = "channels" /\ open = 0 /\ pending = 0
    /\ udp' = FALSE
    /\ closer' = "kernel"
    /\ UNCHANGED <<packets, worker, pending, chanEvent, eventsEnd, reader, atSending,
                   atQueues, running, kernel, open, main>>

CloseKernel ==
    /\ closer = "kernel"
    /\ kernel' = FALSE
    /\ closer' = "done"
    /\ UNCHANGED <<atTrudp, reader, atSending, atQueues, running, open, main>>

\* Run of trudp returns when its worker and the reader have ended, which tells it
\* so last of all; Run of teonet then waits for the loops.
TrudpEnds ==
    /\ main = "run" /\ worker = "ended" /\ reader = "ended"
    /\ main' = "wait"
    /\ UNCHANGED <<atTrudp, reader, atSending, atQueues, running, kernel, open, closer>>

RunEnds ==
    /\ main = "wait"
    /\ \A q \in Queue \ {ApiLoop} : loop[q] = "ended"
    /\ main' = "returned"
    /\ UNCHANGED <<atTrudp, reader, atSending, atQueues, running, kernel, open, closer>>

Closing == ClosePeer \/ CloseUdp \/ CloseKernel
Running == TrudpEnds \/ RunEnds

\* After a panic nothing runs.
RunNext ==
    /\ ~panicked
    /\ \/ Reader
       \/ \E a \in Actor : Sending(a)
       \/ \E a \in SelfSender : SelfSend(a)
       \/ /\ UNCHANGED panicked
          /\ \/ Packet \/ Worker
             \/ Subscribe
             \/ \E q \in Queue : Loop(q)
             \/ ApiWorker
             \/ Close \/ Closing \/ Running

\* Every goroutine that can go on does so in the end; nothing is assumed of
\* packets, of those who send commands, of when a subscriber comes, and of Close.
RunFairness ==
    /\ WF_runVars(~panicked /\ Reader)
    /\ \A a \in Actor : WF_runVars(~panicked /\ Sending(a))
    /\ WF_runVars(~panicked /\ UNCHANGED panicked /\ Worker)
    /\ \A q \in Queue : WF_runVars(~panicked /\ UNCHANGED panicked /\ Loop(q))
    /\ WF_runVars(~panicked /\ UNCHANGED panicked /\ ApiWorker)
    /\ WF_runVars(~panicked /\ UNCHANGED panicked /\ Closing)
    /\ WF_runVars(~panicked /\ UNCHANGED panicked /\ Running)

RunSpec == RunInit /\ [][RunNext]_runVars /\ RunFairness

-----------------------------------------------------------------------------
(* Properties *)

\* The user's loop gets all events of a goroutine in the order in which it has
\* sent them, and a subscriber all of them from its first one on, however many
\* goroutines send at once and whichever loop is slow.
EventsInOrder ==
    [][\A q \in Queue, a \in Actor :
          got'[q][a] # got[q][a] =>
             \/ got'[q][a] = got[q][a] + 1
             \/ q # "main" /\ got[q][a] = 0]_got

\* Once Close is called Run returns, whatever is in the channels and whoever is
\* sending, or the program ends in a panic: send(a) of another goroutine waits at
\* the user's channel while the reader closes it.
RunReturns == closer # "no" ~> (main = "returned" \/ panicked)
==============================================================================
