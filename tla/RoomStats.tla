------------------------------ MODULE RoomStats ------------------------------
(***************************************************************************)
(* The statistics of game rooms: the room controller reports the states of *)
(* a room and of its clients (services/teoroomcli/stats) and the service   *)
(* writes them to two tables (services/teoroom/stats). Its workers take    *)
(* the reports in order and write them side by side. A row is inserted     *)
(* with all its columns, those that were not reported yet empty, or is     *)
(* updated in two of them. One room and one client are modelled, and the   *)
(* columns with times by whether they are filled.                          *)
(***************************************************************************)
EXTENDS Naturals, Sequences, FiniteSets

CONSTANTS
    StatWorker,     \* the workers of the service
    MaxReports      \* bound: reports that are sent

RoomState == {"creating", "running", "closed", "stopped"}
ClientState == {"added", "loadded", "started", "leave", "disconnected"}

\* The reports, and a request for the rooms that were created in a period.
Report == ({"room"} \X RoomState) \cup ({"client"} \X ClientState)
              \cup {<<"rooms", "by created">>}

VARIABLES
    reports,    \* reports on their way, oldest first
    serving,    \* the report that a worker has taken; <<>> is none
    roomRow,    \* the room's row: its state, and the columns that are filled
    clientRow,  \* the columns of the client's row that are filled
    listed,     \* the answer to a request for rooms: its rows
    reported,   \* history: the last state of the room that was reported
    sent,       \* counts the reports
    overtaken   \* history: was a report written before an earlier one or lost?

statVars == <<reports, serving, roomRow, clientRow, listed, reported, sent, overtaken>>

StatInit ==
    /\ reports = <<>>
    /\ serving = [w \in StatWorker |-> <<>>]
    /\ roomRow = [state |-> "none", filled |-> {}]
    /\ clientRow = {}
    /\ listed = {}
    /\ reported = "none"
    /\ sent = 0
    /\ overtaken = FALSE

-----------------------------------------------------------------------------
(* The room controller and those that look at its statistics *)

sendReport(kind, what) ==
    /\ sent < MaxReports
    /\ sent' = sent + 1
    /\ reports' = Append(reports, <<kind, what>>)
    /\ UNCHANGED <<serving, roomRow, clientRow, listed, overtaken>>

SendRoomCreate ==
    /\ reported = "none"
    /\ sendReport("room", "creating")
    /\ reported' = "creating"

SendRoomState == \E state \in RoomState \ {"creating"} :
    /\ reported # "none"
    /\ sendReport("room", state)
    /\ reported' = state

SendClientState == \E state \in ClientState :
    /\ reported # "none"
    /\ sendReport("client", state)
    /\ UNCHANGED reported

SendRoomByCreated == sendReport("rooms", "by created") /\ UNCHANGED reported

-----------------------------------------------------------------------------
(* The service *)

TakeReport(w) ==
    /\ serving[w] = <<>>
    /\ reports # <<>>
    /\ serving' = [serving EXCEPT ![w] = Head(reports)]
    /\ reports' = Tail(reports)
    /\ overtaken' = (overtaken \/ \E v \in StatWorker : serving[v] # <<>>)
    /\ UNCHANGED <<roomRow, clientRow, listed, reported, sent>>

Serve(w) ==
    /\ serving' = [serving EXCEPT ![w] = <<>>]
    /\ UNCHANGED <<reports, reported, sent, overtaken>>

\* setCreating inserts the row, as it is at the beginning.
ComRoomCreated(w) ==
    /\ serving[w] = <<"room", "creating">>
    /\ roomRow' = [state |-> "creating", filled |-> {"created"}]
    /\ Serve(w) /\ UNCHANGED <<clientRow, listed>>

\* Fault: the time of the state is written and the state is not.
setTimeOnly(state) ==
    roomRow' = [roomRow EXCEPT !.filled = @ \cup {state}]

\* setRunning, setClosed and setStopped update the state and its time.
setRoomState(state) ==
    roomRow' = [state |-> state, filled |-> roomRow.filled \cup {state}]

ComRoomStateChanged(w) == \E state \in RoomState \ {"creating"} :
    /\ serving[w] = <<"room", state>>
    /\ setRoomState(state)
    /\ Serve(w) /\ UNCHANGED <<clientRow, listed>>

\* setAdded inserts the row; it is sent again when a client has loaded in a room
\* that runs, and empties the other columns. The others fill their column.
setClientState(state) ==
    clientRow' = IF state = "added" THEN {"added"} ELSE clientRow \cup {state}

ComClientStatus(w) == \E state \in ClientState :
    /\ serving[w] = <<"client", state>>
    /\ setClientState(state)
    /\ Serve(w) /\ UNCHANGED <<roomRow, listed>>

\* getByCreated finds a room by the time of its creation.
ComGetRoomsByCreated(w) ==
    /\ serving[w] = <<"rooms", "by created">>
    /\ listed' = IF "created" \in roomRow.filled THEN {roomRow} ELSE {}
    /\ Serve(w) /\ UNCHANGED <<roomRow, clientRow>>

\* The query of a report fails: it is lost.
LoseReport(w) ==
    /\ serving[w] # <<>>
    /\ serving' = [serving EXCEPT ![w] = <<>>]
    /\ overtaken' = TRUE
    /\ UNCHANGED <<reports, roomRow, clientRow, listed, reported, sent>>

StatNext ==
    \/ SendRoomCreate \/ SendRoomState \/ SendClientState \/ SendRoomByCreated
    \/ \E w \in StatWorker :
         \/ TakeReport(w) \/ ComRoomCreated(w) \/ ComRoomStateChanged(w)
         \/ ComClientStatus(w) \/ ComGetRoomsByCreated(w) \/ LoseReport(w)

StatSpec == StatInit /\ [][StatNext]_statVars

-----------------------------------------------------------------------------
(* Properties *)

\* Every variable has its type.
StatTypeOK ==
    /\ reports \in Seq(Report)
    /\ serving \in [StatWorker -> Report \cup {<<>>}]
    /\ roomRow \in [state : RoomState \cup {"none"},
                    filled : SUBSET (RoomState \cup {"created"})]
    /\ clientRow \subseteq ClientState
    /\ reported \in RoomState \cup {"none"}
    /\ overtaken \in BOOLEAN

\* The table shows the state that the room has reported last when all reports
\* are written, as long as no worker was faster than another and no query
\* failed.
RowFollowsRoom ==
    ~overtaken /\ reports = <<>> /\ (\A w \in StatWorker : serving[w] = <<>>)
        => roomRow.state = reported
==============================================================================
