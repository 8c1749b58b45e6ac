------------------------------- MODULE Registry -------------------------------
(***************************************************************************)
(* The registry of services (services/teoregistry): an application and the *)
(* descriptions of its commands in two tables of a cql cluster. Set writes *)
(* a row whether it exists or not; an application is read, and removed,    *)
(* with two queries. One application is modelled, and several callers that *)
(* use the package side by side. A query may fail; the one that removes a  *)
(* single command always does (its WHERE clause is not CQL).               *)
(***************************************************************************)
EXTENDS FiniteSets

CONSTANTS
    RegistryCaller,     \* goroutines that use the registry
    AppCommand          \* commands of the application

VARIABLES
    application,    \* is the row of the application there?
    appCommands,    \* its commands that have a row
    call            \* the place of each caller and what it has read

registryVars == <<application, appCommands, call>>

AtRest == [at |-> "idle", commands |-> {}]

RegistryInit ==
    /\ application = FALSE
    /\ appCommands = {}
    /\ call = [c \in RegistryCaller |-> AtRest]

to(c, at, read) == call' = [call EXCEPT ![c] = [at |-> at, commands |-> read]]

AppSet(c) ==
    /\ call[c].at = "idle"
    /\ application' = TRUE
    /\ UNCHANGED <<appCommands, call>>

\* Get reads the application, and then its commands.
AppGet(c) ==
    /\ call[c].at = "idle"
    /\ application
    /\ to(c, "list", {})
    /\ UNCHANGED <<application, appCommands>>

ComList(c) ==
    /\ call[c].at = "list"
    /\ to(c, "idle", appCommands)
    /\ UNCHANGED <<application, appCommands>>

\* Remove deletes the application, and then all its commands.
AppRemove(c) ==
    /\ call[c].at = "idle"
    /\ application' = FALSE
    /\ to(c, "remove all", {})
    /\ UNCHANGED appCommands

ComRemoveAll(c) ==
    /\ call[c].at = "remove all"
    /\ appCommands' = {}
    /\ to(c, "idle", {})
    /\ UNCHANGED application

\* A command is written also for an application that is not there.
ComSet(c) == \E cmd \in AppCommand :
    /\ call[c].at = "idle"
    /\ appCommands' = appCommands \cup {cmd}
    /\ UNCHANGED <<application, call>>

\* A query fails; after the first one the commands of a removed application stay.
QueryFails(c) ==
    /\ call[c].at # "idle"
    /\ to(c, "idle", {})
    /\ UNCHANGED <<application, appCommands>>

RegistryNext ==
    \E c \in RegistryCaller :
        \/ AppSet(c) \/ AppGet(c) \/ AppRemove(c)
        \/ ComSet(c) \/ ComList(c) \/ ComRemoveAll(c) \/ QueryFails(c)

RegistrySpec == RegistryInit /\ [][RegistryNext]_registryVars

\* Every variable has its type.
RegistryTypeOK ==
    /\ application \in BOOLEAN
    /\ appCommands \subseteq AppCommand
    /\ call \in [RegistryCaller -> [at : {"idle", "list", "remove all"},
                                    commands : SUBSET AppCommand]]
==============================================================================
