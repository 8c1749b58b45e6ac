-------------------------------- MODULE Teocdb --------------------------------
(***************************************************************************)
(* The key-value service (services/teocdb) with the workers that serve it  *)
(* (services/teoapi) and the client of a node that uses it                 *)
(* (services/teocdbcli). The workers take commands from one channel and    *)
(* serve them side by side, so that the queries of two commands interleave.*)
(* The service keeps three tables in a cql cluster: map (key, data), ids   *)
(* (counters) and queue. One key of each is modelled.                      *)
(*                                                                         *)
(* The cluster is external: a query with consistency ONE may be answered   *)
(* by a replica that has missed any of the later writes; a conditional     *)
(* update (IF ...) is atomic and returns the value the row had; any query  *)
(* may fail before or after it took effect.                                *)
(*                                                                         *)
(* A binary request is answered with its id, and its sender waits for an   *)
(* answer with that id. Text requests come from programs that do not use   *)
(* this client; their ids only tell them apart in the history.             *)
(***************************************************************************)
EXTENDS Integers, Sequences, SequencesExt, FiniteSets

CONSTANTS
    Caller,         \* goroutines of a node that call Send of one client
    Worker,         \* the workers of the service
    MaxRequests     \* bound: requests that are sent

ASSUME TeocdbAssumption == MaxRequests \in Nat

ValueCommand == {"set", "get", "delete"}
ListCommand == {"set", "list", "listbody", "func"}
IdCommand == {"getid", "setid", "deleteid"}
QueueCommand == {"setqueue", "getqueue"}

VARIABLES
    used,       \* the commands this run is about: the tables share nothing
    data,       \* the versions of the key's row that replicas may have
    counter,    \* the number in the row of the counter; 0 is an absent row
    oldNumbers, \* the numbers it had, which replicas may still have
    queue,      \* the rows of the queue: "free", "locked" or "deleted"
    commands,   \* the channel of commands (Workers.commandChan)
    worker,     \* the worker's place, request and local: a number or a row
    nextID,     \* TeocdbCli.nextID
    caller,     \* the caller's place, its request and the answer it took
    answers,    \* the answers on their way to the node
    epoch,      \* history: how often the counter was set or deleted
    given,      \* history: the ids that GetID returned
    taken       \* history: the rows that GetQueue returned

tables == <<data, counter, oldNumbers, queue, epoch, given, taken>>
client == <<nextID, caller>>
vars == <<used, tables, commands, worker, client, answers>>

Command == ValueCommand \cup ListCommand \cup IdCommand \cup QueueCommand
Request == [id : Nat, cmd : Command, binary : BOOLEAN]
NoRequest == [id |-> 0, cmd |-> "get", binary |-> FALSE]
Idle == [at |-> "idle", req |-> NoRequest, n |-> 0]

-----------------------------------------------------------------------------
Init ==
    /\ used \in {ValueCommand, ListCommand, IdCommand, QueueCommand}
    /\ data = {"missing"}
    /\ counter = 0
    /\ oldNumbers = {}
    /\ queue = <<>>
    /\ commands = <<>>
    /\ worker = [w \in Worker |-> Idle]
    /\ nextID = 0
    /\ caller = [c \in Caller |->
                    [at |-> "idle", req |-> NoRequest, got |-> NoRequest]]
    /\ answers = {}
    /\ epoch = 0
    /\ given = {}
    /\ taken = {}

(* The client *)

\* Send numbers the request and sends it. It may be a retry after a timeout.
Send(c) == \E cmd \in used :
    LET r == [id |-> nextID + 1, cmd |-> cmd, binary |-> TRUE] IN
    /\ caller[c].at \in {"idle", "answered", "timeout"}
    /\ nextID < MaxRequests
    /\ nextID' = r.id
    /\ caller' = [caller EXCEPT ![c] = [@ EXCEPT !.at = "sent", !.req = r]]
    /\ commands' = Append(commands, r)
    /\ UNCHANGED <<used, tables, worker, answers>>

\* WaitFrom registers the request, in a goroutine of its own.
Register(c) ==
    /\ caller[c].at = "sent"
    /\ caller' = [caller EXCEPT ![c].at = "waiting"]
    /\ UNCHANGED <<used, tables, commands, worker, nextID, answers>>

\* Fault: any answer of the service is taken for the own one.
acceptsAny(r, a) == TRUE

\* The checkDataFunc of Send.
accepts(r, a) == r.id = a.id

\* An answer arrives: it is offered to every request that waits for the command,
\* and all of them are dropped, those that refuse it without an answer.
Deliver == \E a \in answers :
    /\ answers' = answers \ {a}
    /\ caller' = [c \in Caller |->
         IF caller[c].at # "waiting" THEN caller[c]
         ELSE IF accepts(caller[c].req, a)
         THEN [caller[c] EXCEPT !.at = "answered", !.got = a]
         ELSE [caller[c] EXCEPT !.at = "dropped"]]
    /\ UNCHANGED <<used, tables, commands, worker, nextID>>

Timeout(c) ==
    /\ caller[c].at = "waiting"
    /\ caller' = [caller EXCEPT ![c].at = "timeout"]
    /\ UNCHANGED <<used, tables, commands, worker, nextID, answers>>

\* Another program sends a text request.
SendText == \E cmd \in used :
    /\ nextID < MaxRequests
    /\ nextID' = nextID + 1
    /\ commands' = Append(commands,
                      [id |-> nextID + 1, cmd |-> cmd, binary |-> FALSE])
    /\ UNCHANGED <<used, tables, worker, caller, answers>>

-----------------------------------------------------------------------------
(* Steps of a worker *)

\* A worker takes the next command from the channel.
Take(w) ==
    /\ worker[w].at = "idle"
    /\ commands # <<>>
    /\ worker' = [worker EXCEPT ![w] =
                     [at |-> "begin", req |-> Head(commands), n |-> 0]]
    /\ commands' = Tail(commands)
    /\ UNCHANGED <<used, tables, client, answers>>

Goto(w, at, n) ==
    /\ worker' = [worker EXCEPT ![w].at = at, ![w].n = n]
    /\ UNCHANGED answers

\* The request is served; only the binary ones are answered to this client.
Answer(w) ==
    /\ worker' = [worker EXCEPT ![w] = Idle]
    /\ answers' = IF worker[w].req.binary THEN answers \cup {worker[w].req}
                  ELSE answers

\* The command ends with an error and without an answer.
Quit(w) ==
    /\ worker' = [worker EXCEPT ![w] = Idle]
    /\ UNCHANGED answers

\* A row that is not found is an answer to a binary request only.
NotFound(w) == IF worker[w].req.binary THEN Answer(w) ELSE Quit(w)

\* A query or the parsing of a text request fails and nothing was changed.
Fail(w) ==
    /\ worker[w].at # "idle"
    /\ Quit(w)
    /\ UNCHANGED <<used, tables, commands, client>>

\* The service crashes and is started again: the tables stay.
Crash ==
    /\ worker' = [w \in Worker |-> Idle]
    /\ commands' = <<>>
    /\ UNCHANGED <<used, tables, client, answers>>

-----------------------------------------------------------------------------
(* The operations: the first query of each, and its answer *)

Set(w) ==
    /\ data' = data \cup {"value"}
    /\ Answer(w) \/ Quit(w)
    /\ UNCHANGED <<counter, oldNumbers, queue, epoch, given, taken>>

Delete(w) ==
    /\ data' = data \cup {"missing"}
    /\ Answer(w) \/ Quit(w)
    /\ UNCHANGED <<counter, oldNumbers, queue, epoch, given, taken>>

\* Any version may be the one that the replica has.
Get(w) ==
    /\ \E version \in data :
         IF version = "missing" THEN NotFound(w) ELSE Answer(w)
    /\ UNCHANGED tables

\* The error of a query over several rows is not looked at: it gives a list.
List(w) == Answer(w) /\ UNCHANGED tables
ListBody(w) == Answer(w) /\ UNCHANGED tables

\* A function of a plugin.
PluginFunc(w) == Answer(w) /\ UNCHANGED tables

\* The counter gets another number.
Number(n) ==
    /\ counter' = n
    /\ oldNumbers' = oldNumbers \cup {counter}

\* A write of the counter that asks nothing: from here on it counts anew.
WriteID(n) ==
    /\ Number(n)
    /\ epoch' = epoch + 1
    /\ UNCHANGED <<data, queue, given, taken>>

SetID(w) == WriteID(1) /\ (Answer(w) \/ Quit(w))

DeleteID(w) == WriteID(0) /\ (Answer(w) \/ Quit(w))

\* The current number is read; a replica may have an old one or none.
GetID(w) ==
    /\ \E n \in {counter} \cup oldNumbers :
         IF n = 0 THEN Goto(w, "create", 0) ELSE Goto(w, "swap", n)
    /\ UNCHANGED tables

SetQueue(w) ==
    /\ queue' = Append(queue, "free")
    /\ Answer(w) \/ Quit(w)
    /\ UNCHANGED <<data, counter, oldNumbers, epoch, given, taken>>

\* Fault: rows are counted from 0.
GetQueueFromZero(w) ==
    /\ \/ \E row \in DOMAIN queue : Goto(w, "lock", row - 1)
       \/ NotFound(w)
    /\ UNCHANGED tables

\* A row that looks free is chosen; a replica may have an old state of it, or
\* have none.
GetQueue(w) ==
    /\ \/ \E row \in DOMAIN queue : Goto(w, "lock", row)
       \/ NotFound(w)
    /\ UNCHANGED tables

-----------------------------------------------------------------------------
(* The later queries of GetID and GetQueue *)

\* GetID found no counter and creates it.
Create(w) ==
    /\ worker[w].at = "create"
    /\ WriteID(1)
    /\ Goto(w, "swap", 1) \/ Quit(w)
    /\ UNCHANGED <<used, commands, client>>

\* Fault: the counter is incremented whatever its value is.
SwapAny(w) ==
    /\ worker[w].at = "swap"
    /\ Number(worker[w].n + 1)
    /\ given' = given \cup {[epoch |-> epoch, id |-> worker[w].n,
                             req |-> worker[w].req]}
    /\ Answer(w)
    /\ UNCHANGED <<used, data, queue, epoch, taken, commands, client>>

\* GetID increments the counter if it still is the one it has read, or tries
\* again with what it is now; for a counter that was deleted, for ever.
Swap(w) ==
    /\ worker[w].at = "swap"
    /\ IF worker[w].n = counter /\ counter # 0
       THEN /\ Number(worker[w].n + 1)
            /\ \/ /\ Answer(w)
                  /\ given' = given \cup {[epoch |-> epoch, id |-> worker[w].n,
                                           req |-> worker[w].req]}
               \/ Quit(w) /\ UNCHANGED given
       ELSE /\ Goto(w, "swap", counter)
            /\ UNCHANGED <<counter, oldNumbers, given>>
    /\ UNCHANGED <<used, data, queue, epoch, taken, commands, client>>

\* Fault: the row is locked whatever its state is.
LockAny(w) ==
    /\ worker[w].at = "lock"
    /\ queue' = [queue EXCEPT ![worker[w].n] = "locked"]
    /\ Goto(w, "remove", worker[w].n)
    /\ UNCHANGED <<used, data, counter, oldNumbers, epoch, given, taken,
                   commands, client>>

\* GetQueue locks the row if it is free, or chooses again.
Lock(w) ==
    /\ worker[w].at = "lock"
    /\ IF queue[worker[w].n] = "free"
       THEN /\ queue' = [queue EXCEPT ![worker[w].n] = "locked"]
            /\ Goto(w, "remove", worker[w].n) \/ Quit(w)
       ELSE Goto(w, "begin", 0) /\ UNCHANGED queue
    /\ UNCHANGED <<used, data, counter, oldNumbers, epoch, given, taken,
                   commands, client>>

\* GetQueue deletes the row it has locked and returns it.
RemoveRow(w) ==
    /\ worker[w].at = "remove"
    /\ queue' = [queue EXCEPT ![worker[w].n] = "deleted"]
    /\ \/ /\ Answer(w)
          /\ taken' = taken \cup {[row |-> worker[w].n, req |-> worker[w].req]}
       \/ Quit(w) /\ UNCHANGED taken
    /\ UNCHANGED <<used, data, counter, oldNumbers, epoch, given,
                   commands, client>>

-----------------------------------------------------------------------------
(* The commands. The text ones answer in text or json, which is left out. *)

Begins(w, binary, cmd) ==
    /\ worker[w].at = "begin"
    /\ worker[w].req.binary = binary
    /\ worker[w].req.cmd = cmd

CmdBinary(w) ==
    \/ Begins(w, TRUE, "set") /\ Set(w)
    \/ Begins(w, TRUE, "get") /\ Get(w)
    \/ Begins(w, TRUE, "list") /\ List(w)
    \/ Begins(w, TRUE, "listbody") /\ ListBody(w)
    \/ Begins(w, TRUE, "delete") /\ Delete(w)
    \/ Begins(w, TRUE, "func") /\ PluginFunc(w)
    \/ Begins(w, TRUE, "getid") /\ GetID(w)
    \/ Begins(w, TRUE, "setid") /\ SetID(w)
    \/ Begins(w, TRUE, "deleteid") /\ DeleteID(w)
    \/ Begins(w, TRUE, "getqueue") /\ GetQueue(w)
    \/ Begins(w, TRUE, "setqueue") /\ SetQueue(w)

CmdSet(w) == Begins(w, FALSE, "set") /\ Set(w)
CmdDelete(w) == Begins(w, FALSE, "delete") /\ Delete(w)
CmdGet(w) == Begins(w, FALSE, "get") /\ Get(w)
CmdList(w) == Begins(w, FALSE, "list") /\ List(w)
CmdListBody(w) == Begins(w, FALSE, "listbody") /\ ListBody(w)
CmdFunc(w) == Begins(w, FALSE, "func") /\ PluginFunc(w)
CmdGetID(w) == Begins(w, FALSE, "getid") /\ GetID(w)
CmdSetID(w) == Begins(w, FALSE, "setid") /\ SetID(w)
CmdDeleteID(w) == Begins(w, FALSE, "deleteid") /\ DeleteID(w)
CmdSetQueue(w) == Begins(w, FALSE, "setqueue") /\ SetQueue(w)
CmdGetQueue(w) == Begins(w, FALSE, "getqueue") /\ GetQueue(w)

\* A worker looks its command up in the list of the service and runs it.
Process(w) ==
    /\ \/ CmdBinary(w)
       \/ CmdSet(w) \/ CmdDelete(w) \/ CmdGet(w) \/ CmdList(w) \/ CmdListBody(w)
       \/ CmdFunc(w) \/ CmdGetID(w) \/ CmdSetID(w) \/ CmdDeleteID(w)
       \/ CmdSetQueue(w) \/ CmdGetQueue(w)
    /\ UNCHANGED <<used, commands, client>>

Next ==
    \/ \E c \in Caller : Send(c) \/ Register(c) \/ Timeout(c)
    \/ Deliver
    \/ SendText
    \/ \E w \in Worker : \/ Take(w) \/ Process(w) \/ Fail(w)
                         \/ Create(w) \/ Swap(w) \/ Lock(w) \/ RemoveRow(w)
    \/ Crash

Spec == Init /\ [][Next]_vars

-----------------------------------------------------------------------------
(* Properties *)

Place == {"idle", "begin", "create", "swap", "lock", "remove"}

\* Every variable has its type, and a worker's row is one of the queue.
TypeOK ==
    /\ used \in {ValueCommand, ListCommand, IdCommand, QueueCommand}
    /\ data \subseteq {"missing", "value"}
    /\ counter \in Nat
    /\ oldNumbers \subseteq Nat
    /\ queue \in Seq({"free", "locked", "deleted"})
    /\ commands \in Seq(Request)
    /\ worker \in [Worker -> [at : Place, req : Request, n : Nat]]
    /\ \A w \in Worker :
         worker[w].at \in {"lock", "remove"} => worker[w].n \in DOMAIN queue
    /\ nextID \in Nat
    /\ caller \in [Caller ->
         [at : {"idle", "sent", "waiting", "answered", "timeout", "dropped"},
          req : Request, got : Request]]
    /\ answers \subseteq Request
    /\ epoch \in Nat
    /\ given \subseteq [epoch : Nat, id : Nat, req : Request]
    /\ taken \subseteq [row : Nat, req : Request]

\* A value of the queue is returned to one request only, however many workers
\* take values at once and however old the replicas are that they read.
TakenOnce == \A x, y \in taken : x.row = y.row => x = y

\* GetID returns a number once, as long as the counter is not set, deleted or
\* created anew in between.
IdsUnique ==
    \A x, y \in given : x.epoch = y.epoch /\ x.id = y.id => x = y

\* A caller that is answered has the answer to its own last request, also after
\* timeouts and retries.
OwnAnswer ==
    \A c \in Caller :
        caller[c].at = "answered" => caller[c].got = caller[c].req
==============================================================================
