------------------------------- MODULE Teoroom -------------------------------
(***************************************************************************)
(* The game room service (services/teoroom). A client asks for a room,     *)
(* loads, plays, and leaves; a room is created, starts when MinClients are *)
(* ready, is closed to new clients and is stopped. The commands of clients *)
(* are served by workers side by side (services/teoapi), and the timers of *)
(* a room are goroutines too; the slices and maps of a room have no lock.  *)
(* Each handler is cut where another one can change what it goes on with.  *)
(*                                                                         *)
(* A Client object is a number: a client that comes back gets another one. *)
(* The statistics that a room sends are in RoomStats.                      *)
(***************************************************************************)
EXTENDS Naturals, Sequences, FiniteSets

CONSTANTS
    Client,         \* names of clients
    RoomWorker,     \* the workers of the service
    MinClients,     \* MinClientsToStart
    MaxClients,     \* MaxClientsInRoom
    MaxObjects,     \* bound: Client objects
    MaxRooms        \* bound: rooms

ASSUME RoomAssumption ==
    /\ IsFiniteSet(Client)
    /\ MinClients \in Nat \ {0}
    /\ MaxRooms \in Nat

Room == 1 .. MaxRooms
Object == 1 .. MaxObjects

\* A goroutine: a worker, or a timer of a room.
Timer == Room \X {"stop", "close"}
Actor == RoomWorker \cup Timer

VARIABLES
    object,     \* the Client objects: [name, loaded]; loaded is data # nil
    mcli,       \* the object of each name; 0 is none
    room,       \* the rooms: [state, client, was]; a client 0 is nil
    creating,   \* the rooms that roomRequest looks through
    timers,     \* the timers of each kind that a room has running
    act,        \* the place and the locals of each goroutine
    crashed     \* a nil client was used: the process has ended

roomVars == <<object, mcli, room, creating, timers, act, crashed>>

\* Locals: a client's name, its object, a room, a position and whether the
\* client leaves; a timer has served i of n positions.
Resting == [at |-> "idle", name |-> "none", obj |-> 0, r |-> 0, pos |-> 0,
            leave |-> FALSE, i |-> 0, n |-> 0]

NoTimers == [wait |-> 0, game |-> 0, close |-> 0]

RoomInit ==
    /\ object = <<>>
    /\ mcli = [c \in Client |-> 0]
    /\ room = <<>>
    /\ creating = <<>>
    /\ timers = [r \in Room |-> NoTimers]
    /\ act = [a \in Actor |-> Resting]
    /\ crashed = FALSE

-----------------------------------------------------------------------------
go(a, at) == act' = [act EXCEPT ![a].at = at]

\* A worker is free again; a timer goes on with the next client of its room.
done(a) ==
    act' = [act EXCEPT ![a] =
              IF a \in RoomWorker THEN Resting
              ELSE [Resting EXCEPT !.at = "each", !.i = act[a].i + 1,
                                     !.n = act[a].n]]

At(a, at) == ~crashed /\ act[a].at = at

\* Another goroutine is at the same place: of two appends to one slice that run
\* at once, one is lost.
Races(a, at, r) == \E b \in Actor \ {a} : act[b].at = at /\ act[b].r = r

numClients(r) == Cardinality({i \in DOMAIN room[r].client : room[r].client[i] # 0})

numReady(r) == Cardinality({c \in Client : room[r].was[c] = "running"})

-----------------------------------------------------------------------------
(* ComRoomRequest *)

\* A worker takes a request; a client that is in the map is refused.
ComRoomRequest(w, c) ==
    /\ At(w, "idle")
    /\ mcli[c] = 0
    /\ act' = [act EXCEPT ![w].at = "new client", ![w].name = c]
    /\ UNCHANGED <<object, mcli, room, creating, timers, crashed>>

\* Fault: the map is given the number of the next object.
newClientNext(w) ==
    /\ At(w, "new client")
    /\ Len(object) < MaxObjects
    /\ object' = Append(object, [name |-> act[w].name, loaded |-> FALSE])
    /\ mcli' = [mcli EXCEPT ![act[w].name] = Len(object') + 1]
    /\ act' = [act EXCEPT ![w].at = "choose", ![w].obj = Len(object')]
    /\ UNCHANGED <<room, creating, timers, crashed>>

newClient(w) ==
    /\ At(w, "new client")
    /\ Len(object) < MaxObjects
    /\ object' = Append(object, [name |-> act[w].name, loaded |-> FALSE])
    /\ mcli' = [mcli EXCEPT ![act[w].name] = Len(object')]
    /\ act' = [act EXCEPT ![w].at = "choose", ![w].obj = Len(object')]
    /\ UNCHANGED <<room, creating, timers, crashed>>

Open(r, c) ==
    /\ room[r].state \notin {"closed", "stopped"}
    /\ room[r].was[c] = "no"
    /\ Len(room[r].client) < MaxClients

\* The first room of the list that is open to the client, or a new one.
roomRequest(w) ==
    LET c == act[w].name
        open == {i \in DOMAIN creating : Open(creating[i], c)} IN
    /\ At(w, "choose")
    /\ \/ open = {} /\ go(w, "new room")
       \/ \E first \in open :
            /\ \A i \in open : first <= i
            /\ act' = [act EXCEPT ![w].at = "add", ![w].r = creating[first]]
    /\ UNCHANGED <<object, mcli, room, creating, timers, crashed>>

\* A room is created and listed, and waits for its clients.
newRoom(w) ==
    LET r == Len(room) + 1 IN
    /\ At(w, "new room")
    /\ r \in Room
    /\ room' = Append(room, [state |-> "creating", client |-> <<>>,
                             was |-> [c \in Client |-> "no"]])
    /\ \/ creating' = Append(creating, r)
       \/ Races(w, "new room", 0) /\ UNCHANGED creating
    /\ timers' = [timers EXCEPT ![r].wait = 1]
    /\ act' = [act EXCEPT ![w].at = "add", ![w].r = r]
    /\ UNCHANGED <<object, mcli, crashed>>

\* The client is added and told its position.
addClient(w) ==
    LET r == act[w].r IN
    /\ At(w, "add")
    /\ \/ room' = [room EXCEPT ![r].was[act[w].name] = "creating",
                               ![r].client = Append(@, act[w].obj)]
       \/ /\ Races(w, "add", r)
          /\ room' = [room EXCEPT ![r].was[act[w].name] = "creating"]
    /\ done(w)
    /\ UNCHANGED <<object, mcli, creating, timers, crashed>>

-----------------------------------------------------------------------------
(* ComRoomData and ComDisconnect *)

\* The rooms and positions of an object (roomClientID returns one of them).
places(o) == {p \in (1 .. Len(room)) \X (1 .. MaxObjects) :
                /\ p[2] \in DOMAIN room[p[1]].client
                /\ room[p[1]].client[p[2]] = o}

\* resendData finds the client; its first data mean that it is loaded and ready.
\* Leaving passes here as well.
resendData(a, c, leave) ==
    LET o == mcli[c] IN
    IF o = 0 THEN done(a) /\ UNCHANGED mcli
    ELSE IF places(o) = {}
    THEN /\ done(a)
         /\ mcli' = IF leave THEN [mcli EXCEPT ![c] = 0] ELSE mcli
    ELSE IF object[o].loaded /\ ~leave THEN done(a) /\ UNCHANGED mcli
    ELSE \E p \in places(o) :
           /\ act' = [act EXCEPT ![a].at =
                          IF object[o].loaded THEN "leave" ELSE "ready",
                        ![a].name = c, ![a].obj = o, ![a].r = p[1],
                        ![a].pos = p[2], ![a].leave = leave]
           /\ UNCHANGED mcli

ComRoomData(w, c) ==
    /\ At(w, "idle")
    /\ resendData(w, c, FALSE)
    /\ UNCHANGED <<object, room, creating, timers, crashed>>

ComDisconnect(w, c) ==
    /\ At(w, "idle")
    /\ resendData(w, c, TRUE)
    /\ UNCHANGED <<object, room, creating, timers, crashed>>

\* clientReady marks the client as ready, also in a room that is closed or
\* stopped. In a running room it is all; otherwise the ready ones are counted.
\* The position may have become nil since it was found.
clientReady(a) ==
    LET r == act[a].r
        o == room[r].client[act[a].pos] IN
    /\ At(a, "ready")
    /\ IF o = 0 THEN crashed' = TRUE /\ UNCHANGED <<room, act>>
       ELSE /\ UNCHANGED crashed
            /\ room' = [room EXCEPT ![r].was[object[o].name] = "running"]
            /\ go(a, IF room[r].state = "running" THEN "saved" ELSE "count")
    /\ UNCHANGED <<object, mcli, creating, timers>>

\* Fault: the timers are started with the first game only.
startRoomOnce(a) ==
    LET r == act[a].r IN
    /\ room' = [room EXCEPT ![r].state = "running"]
    /\ timers' = IF room[r].state # "creating" THEN timers
                 ELSE [timers EXCEPT ![r].game = @ + 1, ![r].close = @ + 1]

\* startRoom: the room runs, and its timers are started.
startRoom(a) ==
    LET r == act[a].r IN
    /\ room' = [room EXCEPT ![r].state = "running"]
    /\ timers' = [timers EXCEPT ![r].game = @ + 1, ![r].close = @ + 1]

\* Fault: the client itself is not counted.
countOthers(a) ==
    LET r == act[a].r IN
    /\ At(a, "count")
    /\ IF numReady(r) > MinClients THEN startRoom(a)
       ELSE UNCHANGED <<room, timers>>
    /\ go(a, "saved")
    /\ UNCHANGED <<object, mcli, creating, crashed>>

\* The room is started when enough are ready, whatever its state is by now: also
\* one that has stopped, as a client that had not loaded counts as ready when it
\* is disconnected.
countReady(a) ==
    LET r == act[a].r IN
    /\ At(a, "count")
    /\ IF numReady(r) >= MinClients THEN startRoom(a)
       ELSE UNCHANGED <<room, timers>>
    /\ go(a, "saved")
    /\ UNCHANGED <<object, mcli, creating, crashed>>

\* resendData keeps the data and sends them to the others of the room.
saveData(a) ==
    /\ At(a, "saved")
    /\ object' = [object EXCEPT ![act[a].obj].loaded = TRUE]
    /\ IF act[a].leave THEN go(a, "leave") ELSE done(a)
    /\ UNCHANGED <<mcli, room, creating, timers, crashed>>

\* ComDisconnect takes the client out of the room and its name out of the map,
\* whatever object the name has by now.
leaveRoom(a) ==
    /\ At(a, "leave")
    /\ room' = [room EXCEPT ![act[a].r].client[act[a].pos] = 0]
    /\ mcli' = [mcli EXCEPT ![act[a].name] = 0]
    /\ done(a)
    /\ UNCHANGED <<object, creating, timers, crashed>>

-----------------------------------------------------------------------------
(* The timers of a room *)

\* A timer of room r ends. A room is stopped by one goroutine at a time.
Ends(t, kind) ==
    /\ At(t, "idle")
    /\ timers[t[1]][kind] > 0
    /\ timers' = [timers EXCEPT ![t[1]][kind] = @ - 1]
    /\ UNCHANGED <<object, mcli, creating, crashed>>

\* The room stops, and its clients are disconnected one after the other.
stopRoom(t) ==
    /\ room' = [room EXCEPT ![t[1]].state = "stopped"]
    /\ act' = [act EXCEPT ![t].at = "each", ![t].n = Len(room[t[1]].client)]

\* Not enough clients have come in time.
WaitEnds(r) ==
    /\ Ends(<<r, "stop">>, "wait")
    /\ IF room[r].state = "creating" /\ numClients(r) < MinClients
       THEN stopRoom(<<r, "stop">>)
       ELSE UNCHANGED <<room, act>>

\* The game is over.
GameEnds(r) ==
    /\ Ends(<<r, "stop">>, "game")
    /\ stopRoom(<<r, "stop">>)

\* The room is closed to new clients unless it has stopped.
CloseEnds(r) ==
    /\ Ends(<<r, "close">>, "close")
    /\ IF room[r].state = "stopped" THEN UNCHANGED act
       ELSE go(<<r, "close">>, "closing")
    /\ UNCHANGED room

closeRoom(r) ==
    /\ At(<<r, "close">>, "closing")
    /\ room' = [room EXCEPT ![r].state = "closed"]
    /\ go(<<r, "close">>, "idle")
    /\ UNCHANGED <<object, mcli, creating, timers, crashed>>

\* funcToClients: the next client of a room that stops is disconnected.
disconnectNext(t) ==
    LET clients == room[t[1]].client
        i == act[t].i + 1 IN
    /\ At(t, "each")
    /\ IF i > act[t].n
       THEN act' = [act EXCEPT ![t] = Resting] /\ UNCHANGED mcli
       ELSE IF clients[i] = 0 THEN done(t) /\ UNCHANGED mcli
       ELSE resendData(t, object[clients[i]].name, TRUE)
    /\ UNCHANGED <<object, room, creating, timers, crashed>>

-----------------------------------------------------------------------------
RoomNext ==
    \/ \E w \in RoomWorker :
         \/ \E c \in Client : \/ ComRoomRequest(w, c)
                              \/ ComRoomData(w, c) \/ ComDisconnect(w, c)
         \/ newClient(w) \/ roomRequest(w) \/ newRoom(w) \/ addClient(w)
    \/ \E a \in Actor :
         clientReady(a) \/ countReady(a) \/ saveData(a) \/ leaveRoom(a)
    \/ \E r \in 1 .. Len(room) :
         WaitEnds(r) \/ GameEnds(r) \/ CloseEnds(r) \/ closeRoom(r)
    \/ \E t \in Timer : disconnectNext(t)

RoomSpec == RoomInit /\ [][RoomNext]_roomVars

-----------------------------------------------------------------------------
(* Properties *)

\* Every variable has its type.
RoomTypeOK ==
    /\ object \in Seq([name : Client, loaded : BOOLEAN])
    /\ mcli \in [Client -> 0 .. Len(object)]
    /\ \A r \in DOMAIN room :
         /\ room[r].state \in {"creating", "running", "closed", "stopped"}
         /\ room[r].client \in Seq(0 .. Len(object))
         /\ room[r].was \in [Client -> {"no", "creating", "running"}]
    /\ creating \in Seq(1 .. Len(room))
    /\ timers \in [Room -> [{"wait", "game", "close"} -> Nat]]
    /\ \A a \in Actor : act[a].r \in 0 .. Len(room)
    /\ crashed \in BOOLEAN

\* A game is not forgotten: a room with enough clients that are ready is no
\* longer waiting for them once all that count them have counted, however the
\* handlers of the clients interleave.
NoLostStart ==
    \A r \in DOMAIN room :
        room[r].state = "creating" /\ numReady(r) >= MinClients
            => \E a \in Actor : act[a].at = "count" /\ act[a].r = r

\* A running game ends: the room that runs has a timer to stop it, also after it
\* was started by several clients at once or started again.
RunningEnds ==
    \A r \in DOMAIN room : room[r].state = "running" => timers[r].game > 0
==============================================================================
