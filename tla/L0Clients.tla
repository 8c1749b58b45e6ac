------------------------------ MODULE L0Clients ------------------------------
(***************************************************************************)
(* The clients of an l0 server (teonet/teonet/l0_client.go, l0_process.go, *)
(* l0_send.go, l0_auth.go): the two tables of clients, by address and by   *)
(* name, and the goroutines that read and change them:                     *)
(*   - a reader per tcp connection, handleConnection;                      *)
(*   - the reader of teonet, "loop", which serves all trudp connections    *)
(*     and gets the answers of the auth service;                           *)
(*   - the processing goroutine, "process", which takes their packets from *)
(*     the unbuffered l0.ch, logs clients in and sends between them;       *)
(*   - the goroutine that waits for the users registrar, "registrar".      *)
(*                                                                         *)
(* The mutex guards single accesses to the tables: each of them, and each  *)
(* access to client.conn, is a step of its own. An address connects once.  *)
(***************************************************************************)
EXTENDS Naturals

CONSTANTS
    Addr,       \* the addresses that connect
    Trudp,      \* those of trudp, the others being tcp
    Name,
    LoginName,  \* the names that clients log in with
    NewName,    \* the names that the registrar and the auth service give
    None,
    MaxPackets  \* bound: the packets of each connection

Tcp == Addr \ Trudp
Actor == Tcp \cup {"process", "loop", "registrar"}
Server(a) == IF a \in Tcp THEN a ELSE "loop"

\* toprocess makes a client for every packet; those that log in stay.
Client == UNION {{a} \X (1 .. MaxPackets[a]) : a \in Addr}

ASSUME L0Assumption ==
    /\ Trudp \subseteq Addr /\ LoginName \cup NewName \subseteq Name
    /\ MaxPackets \in [Addr -> Nat]
    /\ None \notin Name \cup Client
    /\ Addr \cap {"process", "loop", "registrar"} = {}

VARIABLES
    conn,       \* per address: did we close it, has its server seen the end,
                \* and the packets that the server read
    client,     \* client.name, and whether client.conn is not nil
    ma, mn,     \* the tables: the client of an address and of a name
    at,         \* where an actor is
    my,         \* its local variables: the client of the packet (pac), the
                \* client in hand (cli), two names, and whether it is a login
    asked,      \* names that the auth service was asked about
    held,       \* history: the clients that a name has had
    overtaken,  \* history: addresses whose end was seen when process had a login
                \* of theirs in hand
    panicked    \* has the program panicked?

tables == <<client, ma, mn, held>>
vars == <<conn, tables, at, my, asked, overtaken, panicked>>

Conn == [closed : BOOLEAN, over : BOOLEAN, read : Nat]

Local == [pac : Client \cup {None}, cli : Client \cup {None},
          name : Name \cup {None}, newname : Name \cup {None}, login : BOOLEAN]

NoLocals == [pac |-> None, cli |-> None, name |-> None, newname |-> None,
             login |-> FALSE]

Closing == {"close", "closeConn", "clearConn", "delete"}

Place == Closing \cup {"get", "read", "offer", "findAddr", "closeName", "add",
                      "findName", "sendTo", "write", "rename", "renamed",
                      "start", "wait", "idle", "done"}

\* The place where an actor waits for work, or has ended.
Rest(p) == CASE p = "process" -> "get"
             [] p = "registrar" -> "idle"
             [] p = "loop" -> "read"
             [] OTHER -> "done"

\* Actor p goes on to another place with these local variables.
Go(p, from, to, locals) ==
    /\ at[p] = from /\ ~panicked
    /\ at' = [at EXCEPT ![p] = to]
    /\ my' = [my EXCEPT ![p] = IF to = Rest(p) THEN NoLocals ELSE locals]

Panics(p, from) ==
    /\ at[p] = from /\ ~panicked
    /\ panicked' = TRUE

CloseConn(a) == conn' = [conn EXCEPT ![a].closed = TRUE]

-----------------------------------------------------------------------------
(* Connections. *)

\* toprocess: the server of a connection offers a packet to l0.ch: one that came
\* before the end of the connection, though perhaps after a packet for which we
\* closed it. It is a login with a name, or has the name it is sent to.
Offer(a) ==
    /\ conn[a].read < MaxPackets[a] /\ ~conn[a].over
    /\ conn' = [conn EXCEPT ![a].read = @ + 1]
    /\ \E login \in BOOLEAN :
         \E name \in IF login THEN LoginName ELSE Name :
            Go(Server(a), "read", "offer",
               [NoLocals EXCEPT !.pac = <<a, conn[a].read + 1>>,
                                !.name = name, !.login = login])
    /\ UNCHANGED <<tables, asked, overtaken, panicked>>

\* The process has a packet of this address that may still log it in.
LoggingIn(a) ==
    /\ at["process"] \in Closing \cup {"findAddr", "closeName", "add"}
    /\ my["process"].login /\ my["process"].pac[1] = a

\* Fault: the end of a connection does not close its client.
EndQuiet(a) ==
    /\ ~conn[a].over
    /\ Go(Server(a), "read", Rest(Server(a)), NoLocals)
    /\ conn' = [conn EXCEPT ![a].over = TRUE, ![a].closed = TRUE]
    /\ UNCHANGED <<tables, asked, overtaken, panicked>>

\* The server of a connection sees its end, because the other side left it or
\* we closed it (handleConnection after its loop, EvDisconnected in Teonet.read):
\* it closes the client of the address; if there is none, the connection.
End(a) ==
    /\ ~conn[a].over
    /\ Go(Server(a), "read", IF ma[a] = None THEN Rest(Server(a)) ELSE "close",
          [NoLocals EXCEPT !.cli = ma[a]])
    /\ conn' = [conn EXCEPT ![a].over = TRUE,
                            ![a].closed = @ \/ (ma[a] = None /\ a \in Tcp)]
    /\ overtaken' = IF LoggingIn(a) THEN overtaken \cup {a} ELSE overtaken
    /\ UNCHANGED <<tables, asked, panicked>>

-----------------------------------------------------------------------------
(* close *)

\* Where an actor goes on after close.
AfterClose(p) == IF p = "process" THEN "add" ELSE Rest(p)

\* Fault: first the tables, then the connection.
CloseTablesFirst(p) ==
    /\ Go(p, "close",
          IF client[my[p].cli].conn THEN "closeConn" ELSE "delete", my[p])
    /\ ma' = [ma EXCEPT ![my[p].cli[1]] = None]
    /\ mn' = [mn EXCEPT ![client[my[p].cli].name] = None]
    /\ UNCHANGED <<conn, client, held, asked, overtaken, panicked>>

Close(p) ==
    /\ Go(p, "close",
          IF client[my[p].cli].conn THEN "closeConn" ELSE "delete", my[p])
    /\ UNCHANGED <<conn, tables, asked, overtaken, panicked>>

\* client.conn.Close(): nil if another actor has closed it meanwhile.
CloseClientConn(p) ==
    \/ /\ Go(p, "closeConn", "clearConn", my[p])
       /\ client[my[p].cli].conn
       /\ CloseConn(my[p].cli[1])
       /\ UNCHANGED <<tables, asked, overtaken, panicked>>
    \/ /\ Panics(p, "closeConn")
       /\ ~client[my[p].cli].conn
       /\ UNCHANGED <<conn, tables, at, my, asked, overtaken>>

ClearConn(p) ==
    /\ Go(p, "clearConn", "delete", my[p])
    /\ client' = [client EXCEPT ![my[p].cli].conn = FALSE]
    /\ UNCHANGED <<conn, ma, mn, held, asked, overtaken, panicked>>

\* Fault: the client stays in the table of addresses.
DeleteName(p) ==
    /\ Go(p, "delete", AfterClose(p), my[p])
    /\ mn' = [mn EXCEPT ![client[my[p].cli].name] = None]
    /\ UNCHANGED <<conn, client, ma, held, asked, overtaken, panicked>>

\* Delete the address and the name that the client has now.
Delete(p) ==
    /\ Go(p, "delete", AfterClose(p), my[p])
    /\ ma' = [ma EXCEPT ![my[p].cli[1]] = None]
    /\ mn' = [mn EXCEPT ![client[my[p].cli].name] = None]
    /\ UNCHANGED <<conn, client, held, asked, overtaken, panicked>>

-----------------------------------------------------------------------------
(* process *)

\* l0.ch is not buffered: a server goes on when the process takes its packet. The
\* loop has one variable pac, which a registrar that has not started yet shares.
Take(s) ==
    /\ at["process"] = "get" /\ at[s] = "offer" /\ ~panicked
    /\ at' = [at EXCEPT !["process"] = "findAddr", ![s] = "read"]
    /\ my' = [my EXCEPT !["process"] = my[s], ![s] = NoLocals,
                        !["registrar"].pac = IF at["registrar"] = "start"
                                             THEN my[s].pac ELSE @]
    /\ UNCHANGED <<conn, tables, asked, overtaken, panicked>>

Packet == my["process"]

\* A login of a new address sets the name of the packet's client.
Login ==
    /\ Go("process", "findAddr", "closeName", Packet)
    /\ ma[Packet.pac[1]] = None /\ Packet.login
    /\ client' = [client EXCEPT ![Packet.pac].name = Packet.name]
    /\ UNCHANGED <<conn, ma, mn, held, asked, overtaken, panicked>>

\* Fault: return for continue.
IncorrectLoginReturns ==
    /\ Go("process", "findAddr", "done", NoLocals)
    /\ ma[Packet.pac[1]] = None /\ ~Packet.login
    /\ CloseConn(Packet.pac[1])
    /\ UNCHANGED <<tables, asked, overtaken, panicked>>

\* Any other first packet closes the connection.
IncorrectLogin ==
    /\ Go("process", "findAddr", "get", Packet)
    /\ ma[Packet.pac[1]] = None /\ ~Packet.login
    /\ CloseConn(Packet.pac[1])
    /\ UNCHANGED <<tables, asked, overtaken, panicked>>

\* A packet of a client, to another client or else to a peer; a login is sent
\* to the peer with no name.
Command ==
    /\ Go("process", "findAddr", IF Packet.login THEN "get" ELSE "findName",
          Packet)
    /\ ma[Packet.pac[1]] # None
    /\ UNCHANGED <<conn, tables, asked, overtaken, panicked>>

FindName ==
    /\ Go("process", "findName", IF mn[Packet.name] # None THEN "sendTo" ELSE "get",
          Packet)
    /\ UNCHANGED <<conn, tables, asked, overtaken, panicked>>

\* Fault: does not look whether there is one.
CloseNameAlways ==
    /\ Go("process", "closeName", "close",
          [Packet EXCEPT !.cli = mn[Packet.name]])
    /\ UNCHANGED <<conn, tables, asked, overtaken, panicked>>

\* add: first close the client that has the name.
CloseName ==
    /\ Go("process", "closeName", IF mn[Packet.name] # None THEN "close" ELSE "add",
          [Packet EXCEPT !.cli = mn[Packet.name]])
    /\ UNCHANGED <<conn, tables, asked, overtaken, panicked>>

\* A client gets a name in the table.
SetName(c, name) == held' = [held EXCEPT ![name] = @ \cup {c}]

\* add: put the client into both tables; then start the goroutine that asks the
\* registrar, or send the name to the auth service.
Add ==
    LET c == Packet.pac IN
    /\ at["process"] = "add" /\ ~panicked
    /\ ma' = [ma EXCEPT ![c[1]] = c]
    /\ mn' = [mn EXCEPT ![client[c].name] = c]
    /\ SetName(c, client[c].name)
    /\ \/ /\ at["registrar"] = "idle"
          /\ at' = [at EXCEPT !["process"] = "get", !["registrar"] = "start"]
          /\ my' = [my EXCEPT !["process"] = NoLocals, !["registrar"].pac = c]
          /\ UNCHANGED asked
       \/ /\ Go("process", "add", "get", Packet)
          /\ asked' = asked \cup {Packet.name}
    /\ UNCHANGED <<conn, client, overtaken, panicked>>

-----------------------------------------------------------------------------
(* sendTo and rename *)

\* After sendTo the loop renames the client that the auth service answered for.
AfterSendTo(p) == IF p = "loop" THEN "rename" ELSE Rest(p)

SendTo(p) ==
    /\ Go(p, "sendTo", IF mn[my[p].name] # None THEN "write" ELSE AfterSendTo(p),
          [my[p] EXCEPT !.cli = mn[my[p].name]])
    /\ UNCHANGED <<conn, tables, asked, overtaken, panicked>>

\* client.conn.Write: nil if the client was closed meanwhile. What becomes of
\* the data is not modelled.
Write(p) ==
    \/ /\ Go(p, "write", AfterSendTo(p), my[p])
       /\ client[my[p].cli].conn
       /\ UNCHANGED <<conn, tables, asked, overtaken, panicked>>
    \/ /\ Panics(p, "write")
       /\ ~client[my[p].cli].conn
       /\ UNCHANGED <<conn, tables, at, my, asked, overtaken>>

\* After rename the registrar sends the new name to the client.
AfterRename(p) == IF p = "registrar" THEN "sendTo" ELSE Rest(p)

\* What an actor goes on with after rename: the new name.
Renamed(p) == [my[p] EXCEPT !.name = my[p].newname]

FindRename(p) ==
    LET found == my[p].newname # my[p].name /\ mn[my[p].name] # None IN
    /\ Go(p, "rename", IF found THEN "renamed" ELSE AfterRename(p),
          IF found THEN [my[p] EXCEPT !.cli = mn[my[p].name]] ELSE Renamed(p))
    /\ UNCHANGED <<conn, tables, asked, overtaken, panicked>>

\* Fault: deletes the name that rename was called with.
MovedCalled(c, old, new) == [mn EXCEPT ![old] = None, ![new] = c]

\* The table with client c, which was found by the old name, under the new one.
Moved(c, old, new) == [mn EXCEPT ![client[c].name] = None, ![new] = c]

Rename(p) ==
    LET c == my[p].cli IN
    /\ Go(p, "renamed", AfterRename(p), Renamed(p))
    /\ client' = [client EXCEPT ![c].name = my[p].newname]
    /\ mn' = Moved(c, my[p].name, my[p].newname)
    /\ SetName(c, my[p].newname)
    /\ UNCHANGED <<conn, ma, asked, overtaken, panicked>>

\* sendToRegistrar, with the name of pac's client, if that has one by now.
Start ==
    /\ Go("registrar", "start", "wait",
          [NoLocals EXCEPT !.name = client[my["registrar"].pac].name])
    /\ UNCHANGED <<conn, tables, asked, overtaken, panicked>>

\* The registrar answers with a name, or not within 20 seconds. No client has
\* the empty name that rename would look for.
Registered ==
    /\ \E new \in NewName :
         IF my["registrar"].name # None
         THEN Go("registrar", "wait", "rename",
                 [my["registrar"] EXCEPT !.newname = new])
         ELSE Go("registrar", "wait", "sendTo",
                 [my["registrar"] EXCEPT !.name = new])
    /\ UNCHANGED <<conn, tables, asked, overtaken, panicked>>

NotRegistered ==
    /\ Go("registrar", "wait", "idle", NoLocals)
    /\ UNCHANGED <<conn, tables, asked, overtaken, panicked>>

\* cmdL0Auth: the answer of the auth service, at the loop.
cmdL0Auth ==
    /\ \E name \in asked, new \in NewName :
         /\ asked' = asked \ {name}
         /\ Go("loop", "read", "sendTo",
               [NoLocals EXCEPT !.name = name, !.newname = new])
    /\ UNCHANGED <<conn, tables, overtaken, panicked>>

-----------------------------------------------------------------------------
Init ==
    /\ conn = [a \in Addr |-> [closed |-> FALSE, over |-> FALSE, read |-> 0]]
    /\ client = [c \in Client |-> [name |-> None, conn |-> TRUE]]
    /\ ma = [a \in Addr |-> None]
    /\ mn = [n \in Name |-> None]
    /\ at = [p \in Actor |-> IF p \in Tcp THEN "read" ELSE Rest(p)]
    /\ my = [p \in Actor |-> NoLocals]
    /\ asked = {}
    /\ held = [n \in Name |-> {}]
    /\ overtaken = {}
    /\ panicked = FALSE

CloseStep(p) == Close(p) \/ CloseClientConn(p) \/ ClearConn(p) \/ Delete(p)

RenameStep(p) == SendTo(p) \/ Write(p) \/ FindRename(p) \/ Rename(p)

ProcessStep ==
    \/ \E s \in Actor : Take(s)
    \/ Login \/ IncorrectLogin \/ Command \/ FindName \/ CloseName \/ Add

\* What actor p does, when it has something to do.
Step(p) ==
    \/ CloseStep(p) \/ RenameStep(p)
    \/ p = "process" /\ ProcessStep
    \/ p = "registrar" /\ (Start \/ Registered \/ NotRegistered)

Next ==
    \/ \E a \in Addr : Offer(a) \/ End(a)
    \/ \E p \in Actor : Step(p)
    \/ cmdL0Auth

\* Goroutines run on, and the end of a connection that we closed is seen;
\* clients and the auth service may do nothing.
Fairness ==
    /\ \A p \in Actor : WF_vars(Step(p))
    /\ \A a \in Addr : WF_vars(conn[a].closed /\ End(a))

Spec == Init /\ [][Next]_vars
FairSpec == Spec /\ Fairness

-----------------------------------------------------------------------------
(* Properties *)

\* Types; and an actor that closes, renames or writes to a client has one, not
\* nil, and one that logs a client in or looks for a name has that.
TypeOK ==
    /\ conn \in [Addr -> Conn]
    /\ client \in [Client -> [name : Name \cup {None}, conn : BOOLEAN]]
    /\ ma \in [Addr -> Client \cup {None}]
    /\ mn \in [Name -> Client \cup {None}]
    /\ at \in [Actor -> Place]
    /\ my \in [Actor -> Local]
    /\ \A p \in Actor :
         /\ at[p] \in Closing \cup {"write", "renamed"} => my[p].cli # None
         /\ at[p] \in {"offer", "findAddr", "closeName", "add", "start"} =>
               my[p].pac # None
         /\ at[p] \in {"offer", "findAddr", "closeName", "add", "findName",
                      "sendTo", "rename", "renamed"} => my[p].name # None
         /\ at[p] \in {"rename", "renamed"} => my[p].newname # None
    /\ asked \subseteq Name
    /\ held \in [Name -> SUBSET Client]
    /\ overtaken \subseteq Addr
    /\ panicked \in BOOLEAN

\* The clients that a table lists.
Listed(table) == {table[k] : k \in DOMAIN table} \ {None}

\* A client is in the table of names once, under the name it has, however its
\* two renames, its closing and logins with the same name cross (rename and
\* close use the name that the client has when they get the mutex).
NamesMatch == \A n \in Name : mn[n] # None => client[mn[n]].name = n

\* A client in the table of addresses is found by its name, unless another
\* client has had that name: then closing or renaming the other one may have
\* deleted the name (close deletes whatever client is there).
FoundByName ==
    \A c \in Listed(ma) :
        held[client[c].name] = {c} => mn[client[c].name] = c

\* A client found by name is in the table of addresses until its connection is
\* closed: only a closed one can be put back by a rename, or deleted together
\* with another client of its address. So the packets of an open client are not
\* taken for a first login, and the end of its connection closes it.
OpenIsListed ==
    \A c \in Listed(mn) : ~conn[c[1]].closed => ma[c[1]] = c

\* The server of a connection has seen its end and closed its client.
Served(a) ==
    /\ conn[a].over
    /\ ~(at[Server(a)] \in Closing /\ my[Server(a)].cli[1] = a)

\* When a connection has ended its client is not listed, unless the end was seen
\* while process had the login in hand: that client stays listed until another one
\* logs in with its name.
NoGhosts ==
    \A a \in Addr : Served(a) /\ a \notin overtaken => ma[a] = None

\* A connection that we close, because its first packet is no login or another
\* client takes its name, is given up by its server, which then offers nothing
\* from it: nobody waits for a place at l0.ch for ever.
ClosedIsServed ==
    \A a \in Addr : conn[a].closed ~> Served(a) \/ panicked
==============================================================================
