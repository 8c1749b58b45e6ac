-------------------------------- MODULE Rhost --------------------------------
(***************************************************************************)
(* The connection to the r-host (teonet/teonet/rhost.go) and the end of    *)
(* teonet (Close in teonet.go). The goroutine of rhost.run opens a trudp   *)
(* channel, sends CMD_CONNECT_R, and waits in a wait group until the       *)
(* reader, which gets EvDisconnected of that channel, or Close wakes it;   *)
(* then it connects again or ends.                                         *)
(*                                                                         *)
(* Every access to a field that goroutines share is a step of its own. Of  *)
(* trudp there are the channel objects to one address: the r-host's. The   *)
(* r-host and the network are environment: a packet of the r-host may come *)
(* at any time, and a channel may be lost at any time.                     *)
(***************************************************************************)
EXTENDS Naturals, Sequences

CONSTANTS
    MaxChannel, \* bound: channel objects
    MaxEvents   \* bound: events that wait for the reader

ASSUME RhostAssumption == MaxChannel \in Nat /\ MaxEvents \in Nat

VARIABLES
    running,    \* Teonet.running
    rhost,      \* rhostData: tcd (0 for nil), running, connected, and the
                \* counter of its wait group
    pc,         \* where the runner, the reader and the closer are
    answer,     \* what ConnectChannel returns to the runner
    trudp,      \* its kernel, the open channel (0 for none), the number of
                \* channels so far, those with tcd.connected, and chanEvent
    arp,        \* the entry of the r-host: tcd (0 for none) and mode
    early,      \* history: channels whose EvDisconnected was read while the
                \* runner was on its way from one wait to the next
    panicked    \* has the program panicked?

vars == <<running, rhost, pc, answer, trudp, arp, early, panicked>>

Tcd == 1 .. MaxChannel

Event == [type : {"Data", "Bye", "Disconnected"}, tcd : Tcd]

Open(t) == trudp.chan = t

\* Goroutine p goes on from one place to another.
Go(p, from, to) ==
    /\ pc[p] = from /\ ~panicked
    /\ pc' = [pc EXCEPT ![p] = to]

-----------------------------------------------------------------------------
(* trudp *)

\* newChannelData: the open channel or a new one.
MayOpen == trudp.chan # 0 \/ trudp.created < MaxChannel

newChannelData(s) ==
    IF s.chan # 0 THEN s
    ELSE [s EXCEPT !.chan = s.created + 1, !.created = @ + 1]

\* Fault: no event.
destroyQuiet(s, t) == IF s.chan = t THEN [s EXCEPT !.chan = 0] ELSE s

\* ChannelData.destroy: once, and with an event only if a packet ever came.
destroy(s, t) ==
    IF s.chan # t THEN s
    ELSE [s EXCEPT !.chan = 0,
                   !.events = IF t \in s.heard
                              THEN Append(@, [type |-> "Disconnected", tcd |-> t])
                              ELSE @]

rest == <<running, rhost, answer, arp, early>>

\* A packet of the r-host: an ACK, or DATA, which creates a channel and gives
\* an event; "Bye" is CMD_DISCONNECTED.
Hear ==
    /\ trudp.kernel = "on" /\ ~panicked
    /\ Len(trudp.events) < MaxEvents
    /\ \/ /\ trudp.chan # 0 /\ trudp.chan \notin trudp.heard
          /\ trudp' = [trudp EXCEPT !.heard = @ \cup {trudp.chan}]
       \/ /\ MayOpen
          /\ \E type \in {"Data", "Bye"} :
                LET s == newChannelData(trudp) IN
                trudp' = [s EXCEPT !.heard = @ \cup {s.chan},
                                   !.events = Append(@, [type |-> type,
                                                         tcd |-> s.chan])]
    /\ UNCHANGED <<rest, pc, panicked>>

\* keepAlive or sendQueueResendProcess: the r-host does not answer.
Lose ==
    /\ trudp.kernel = "on" /\ ~panicked
    /\ trudp.chan # 0
    /\ trudp' = destroy(trudp, trudp.chan)
    /\ UNCHANGED <<rest, pc, panicked>>

\* The kernel runs the function of ConnectChannel.
Serve ==
    /\ trudp.kernel = "on" /\ MayOpen
    /\ Go("runner", "asking", "asked")
    /\ trudp' = newChannelData(trudp)
    /\ answer' = trudp'.chan
    /\ UNCHANGED <<running, rhost, arp, early, panicked>>

\* The worker finds the reader of udp closed, closes chanWrite ...
Stopping ==
    /\ trudp.kernel = "closing" /\ ~panicked
    /\ trudp' = [trudp EXCEPT !.kernel = "stopping"]
    /\ UNCHANGED <<rest, pc, panicked>>

\* ... destroys the channels and closes chanKernel. A goroutine that waits to
\* send a function to it panics; one that had not got so far sends nothing.
Stopped ==
    /\ trudp.kernel = "stopping" /\ ~panicked
    /\ trudp' = [destroy(trudp, trudp.chan) EXCEPT !.kernel = "off"]
    /\ panicked' \in {FALSE, pc["runner"] = "asking"}
    /\ UNCHANGED <<rest, pc>>

-----------------------------------------------------------------------------
(* Waking the runner *)

\* rhost.reconnect looks first ...
isrhost(t) == rhost.tcd = t

mayReconnect(t) == isrhost(t) /\ rhost.running /\ rhost.connected

\* ... as rhost.destroy does, then they clear the flag and call wg.Done: who,
\* from where and to where.
Wakes == {<<"reader", "clear", "done", "delete">>,
          <<"closer", "stopClear", "stopDone", "leave">>,
          <<"closer", "destroyClear", "destroyDone", "tdClose">>}

Clear(w) ==
    /\ Go(w[1], w[2], w[3])
    /\ rhost' = [rhost EXCEPT !.connected = FALSE]
    /\ UNCHANGED <<running, answer, trudp, arp, early, panicked>>

\* A counter below zero panics.
Done(w) ==
    /\ Go(w[1], w[3], w[4])
    /\ rhost' = [rhost EXCEPT !.wg = IF @ = 0 THEN 0 ELSE @ - 1]
    /\ panicked' = (rhost.wg = 0)
    /\ UNCHANGED <<running, answer, trudp, arp, early>>

-----------------------------------------------------------------------------
(* The goroutine of rhost.run *)

\* ConnectChannel hands its function to the kernel, if that still runs; Awake is
\* two seconds later, whether teonet still runs is not looked at.
Ask ==
    /\ Go("runner", "connect", "asking") \/ Go("runner", "sleep", "connect")
    /\ UNCHANGED <<rest, trudp, panicked>>

Asked ==
    /\ Go("runner", "asked", "write")
    /\ rhost' = [rhost EXCEPT !.tcd = answer]
    /\ UNCHANGED <<running, answer, trudp, arp, early, panicked>>

\* CMD_CONNECT_R: an error of Write is not looked at.
Write ==
    /\ Go("runner", "write", "written")
    /\ panicked' = (Open(rhost.tcd) /\ trudp.kernel = "stopping")
    /\ UNCHANGED <<rest, trudp>>

Connected ==
    /\ Go("runner", "written", "add")
    /\ rhost' = [rhost EXCEPT !.connected = TRUE]
    /\ UNCHANGED <<running, answer, trudp, arp, early, panicked>>

Add ==
    /\ Go("runner", "add", "wait")
    /\ rhost' = [rhost EXCEPT !.wg = @ + 1]
    /\ UNCHANGED <<running, answer, trudp, arp, early, panicked>>

\* Fault: nobody waits.
WokenAlways ==
    /\ Go("runner", "wait", IF running THEN "sleep" ELSE "end")
    /\ UNCHANGED <<rest, trudp, panicked>>

\* Fault: the goroutine ends whenever it is woken.
WokenOnce ==
    /\ rhost.wg = 0
    /\ Go("runner", "wait", "end")
    /\ UNCHANGED <<rest, trudp, panicked>>

Woken ==
    /\ rhost.wg = 0
    /\ Go("runner", "wait", IF running THEN "sleep" ELSE "end")
    /\ UNCHANGED <<rest, trudp, panicked>>

End ==
    /\ Go("runner", "end", "ended")
    /\ rhost' = [rhost EXCEPT !.running = FALSE]
    /\ UNCHANGED <<running, answer, trudp, arp, early, panicked>>

-----------------------------------------------------------------------------
(* The reader *)

\* The loop of the reader looks at Teonet.running.
Again == IF running THEN "select" ELSE "ended"

\* The ticker, or chanKernel that Close has closed, ends the loop.
ReaderEnd ==
    /\ ~running
    /\ Go("reader", "select", "ended")
    /\ UNCHANGED <<rest, trudp, panicked>>

\* The entry of the r-host after a command on channel t.
peerNew(t) == IF arp.tcd = 0
              THEN [tcd |-> t, mode |-> IF isrhost(t) THEN 1 ELSE 0]
              ELSE arp

\* A command on a second channel closes that; CMD_DISCONNECTED closes the
\* channel in the table, and deletes the entry.
ReadData ==
    /\ Go("reader", "select", Again)
    /\ trudp.events # <<>> /\ trudp.kernel = "on"
    /\ LET e == Head(trudp.events)
           t == peerNew(e.tcd).tcd
           s == [trudp EXCEPT !.events = Tail(@)]
           closed == IF t # e.tcd THEN destroy(s, e.tcd) ELSE s
       IN \/ /\ e.type = "Data"
             /\ arp' = peerNew(e.tcd)
             /\ trudp' = closed
          \/ /\ e.type = "Bye"
             /\ arp' = [tcd |-> 0, mode |-> 0]
             /\ trudp' = destroy(closed, t)
    /\ UNCHANGED <<running, rhost, answer, early, panicked>>

\* EvDisconnected: rhost.reconnect, and then ...
ReadDisconnected ==
    /\ trudp.events # <<>>
    /\ LET e == Head(trudp.events) IN
       /\ e.type = "Disconnected"
       /\ trudp' = [trudp EXCEPT !.events = Tail(@)]
       /\ Go("reader", "select", IF mayReconnect(e.tcd) THEN "clear" ELSE "delete")
       /\ early' = IF pc["runner"] \in {"add", "wait"} THEN early
                   ELSE early \cup {e.tcd}
    /\ UNCHANGED <<running, rhost, answer, arp, panicked>>

\* ... deleteKey: the entry with this address, on whichever channel, is closed.
ReaderDelete ==
    /\ arp.tcd # 0 => trudp.kernel = "on"
    /\ Go("reader", "delete", Again)
    /\ trudp' = IF arp.tcd = 0 THEN trudp ELSE destroy(trudp, arp.tcd)
    /\ arp' = [tcd |-> 0, mode |-> 0]
    /\ UNCHANGED <<running, rhost, answer, early, panicked>>

-----------------------------------------------------------------------------
(* Close, called once by the goroutine of ctrlC *)

CloseBegin ==
    /\ Go("closer", "none", "stop")
    /\ running' = FALSE
    /\ UNCHANGED <<rhost, answer, trudp, arp, early, panicked>>

\* deleteAll: rhost.stop for the entry of the r-host ...
Stop ==
    /\ Go("closer", "stop", IF arp.tcd # 0 /\ arp.mode = 1 /\ mayReconnect(arp.tcd)
                            THEN "stopClear" ELSE "leave")
    /\ UNCHANGED <<rest, trudp, panicked>>

\* ... whose channel is closed then.
Leave ==
    /\ Go("closer", "leave", "destroy")
    /\ trudp' = IF arp.tcd = 0 THEN trudp ELSE destroy(trudp, arp.tcd)
    /\ arp' = [tcd |-> 0, mode |-> 0]
    /\ UNCHANGED <<running, rhost, answer, early, panicked>>

\* Fault: rhost.destroy does nothing; the entry of the arp table will do.
DestroyNothing ==
    /\ Go("closer", "destroy", "tdClose")
    /\ UNCHANGED <<rest, trudp, panicked>>

\* rhost.destroy
Destroy ==
    /\ Go("closer", "destroy",
          IF rhost.connected THEN "destroyClear" ELSE "tdClose")
    /\ UNCHANGED <<rest, trudp, panicked>>

\* td.Close closes the udp socket.
TdClose ==
    /\ Go("closer", "tdClose", "closed")
    /\ trudp' = [trudp EXCEPT !.kernel = "closing"]
    /\ UNCHANGED <<rest, panicked>>

-----------------------------------------------------------------------------

Init ==
    /\ running = TRUE
    /\ rhost = [tcd |-> 0, running |-> TRUE, connected |-> FALSE, wg |-> 0]
    /\ pc = [runner |-> "connect", reader |-> "select", closer |-> "none"]
    /\ answer = 0
    /\ trudp = [kernel |-> "on", chan |-> 0, created |-> 0, heard |-> {},
                events |-> <<>>]
    /\ arp = [tcd |-> 0, mode |-> 0]
    /\ early = {}
    /\ panicked = FALSE

Kernel == Serve \/ Stopping \/ Stopped

run == Ask \/ Asked \/ Write \/ Connected \/ Add \/ Woken \/ End

read == ReadData \/ ReadDisconnected \/ ReaderDelete \/ ReaderEnd

Close == Stop \/ Leave \/ Destroy \/ TdClose

Next == \/ Hear \/ Lose \/ Kernel \/ run \/ read \/ CloseBegin \/ Close
        \/ \E w \in Wakes : Clear(w) \/ Done(w)

Spec == Init /\ [][Next]_vars

\* Goroutines go on when they can; nothing is assumed of the r-host, of the
\* network, or of the user who closes the program.
FairSpec == /\ Spec
            /\ WF_vars(Kernel) /\ WF_vars(run) /\ WF_vars(read) /\ WF_vars(Close)
            /\ \A w \in Wakes : WF_vars(Clear(w)) /\ WF_vars(Done(w))

-----------------------------------------------------------------------------
(* Properties *)

\* Every variable has its type; the counter of the wait group is never more
\* than one.
TypeOK ==
    /\ running \in BOOLEAN
    /\ rhost \in [tcd : Tcd \cup {0}, running : BOOLEAN, connected : BOOLEAN,
                  wg : 0 .. 1]
    /\ pc \in [runner : {"connect", "asking", "asked", "write", "written", "add",
                         "wait", "sleep", "end", "ended"},
               reader : {"select", "clear", "done", "delete", "ended"},
               closer : {"none", "stop", "stopClear", "stopDone", "leave",
                         "destroy", "destroyClear", "destroyDone", "tdClose",
                         "closed"}]
    /\ answer \in Tcd \cup {0}
    /\ trudp \in [kernel : {"on", "closing", "stopping", "off"},
                  chan : Tcd \cup {0}, created : 0 .. MaxChannel,
                  heard : SUBSET Tcd, events : Seq(Event)]
    /\ arp \in [tcd : Tcd \cup {0}, mode : {0, 1}]
    /\ early \subseteq Tcd
    /\ panicked \in BOOLEAN

Waiting == pc["runner"] = "wait" /\ rhost.wg = 1

\* When the runner waits on a channel that has answered and was lost, the event
\* that wakes it is on its way to the reader, or the reader is about to wake it:
\* unless the event was read before the runner waited, the reader never loses
\* the connection to the r-host without noticing.
LossIsNoticed ==
    Waiting /\ running /\ ~panicked /\ ~Open(rhost.tcd)
            /\ rhost.tcd \in trudp.heard \ early =>
        \/ pc["reader"] \in {"clear", "done"}
        \/ \E i \in DOMAIN trudp.events :
              /\ trudp.events[i] = [type |-> "Disconnected", tcd |-> rhost.tcd]
              /\ rhost.connected

\* A waiting runner whose connected flag is cleared is woken by whoever cleared
\* it: nobody else will, reconnect and destroy both look at the flag first.
FlagHasWaker ==
    Waiting /\ ~rhost.connected /\ ~panicked =>
        pc["reader"] = "done" \/ pc["closer"] \in {"stopDone", "destroyDone"}

\* The runner leaves a lost channel that had answered, and connects again, as
\* long as the program is not closed.
Reconnects ==
    \A t \in Tcd :
        (Waiting /\ rhost.tcd = t /\ t \in trudp.heard \ early /\ ~Open(t))
            ~> (pc["runner"] = "asking" \/ ~running \/ panicked)

\* A Close that finds the runner waiting ends it.
CloseEnds ==
    (pc["closer"] = "stop" /\ Waiting) ~> (pc["runner"] = "ended" \/ panicked)
==============================================================================
