------------------------------ MODULE MCServices ------------------------------
(***************************************************************************)
(* Instances for TLC of the services: the key value database, the users,   *)
(* the registry, the configuration, the game rooms and the statistics that *)
(* these only report to, and the formats of what is sent. They share no    *)
(* state: a behaviour is about one of them, and the others rest.           *)
(***************************************************************************)
EXTENDS Teocdb, Teoroom, RoomStats, Users, Registry, Conf, Codecs, TLC

CONSTANTS
    c1, c2,     \* callers, users, players and holders of a configuration
    w1, w2      \* workers

VARIABLE part     \* what the behaviour is about

Two == {c1, c2}
Workers == {w1, w2}

\* Two fields of GameParameters, of which an administrator changes one or the other.
Parameters == [f \in ConfField |-> 1]
Changes == {[f \in {"min_clients_to_start"} |-> 2], [f \in {"game_time"} |-> 0]}

MCInit ==
    /\ part \in {"cdb", "users", "registry", "conf", "codecs", "rooms",
                "stats"}
    /\ Init
    /\ part # "cdb" => used = QueueCommand
    /\ UserInit /\ RegistryInit /\ ConfInit
    /\ CodecInit /\ RoomInit /\ StatInit

MCNext ==
    \/ /\ part = "cdb" /\ Next
       /\ UNCHANGED <<userVars, registryVars, confVars, codecVars, roomVars, statVars>>
    \/ /\ part = "users" /\ UserNext
       /\ UNCHANGED <<vars, registryVars, confVars, codecVars, roomVars, statVars>>
    \/ /\ part = "registry" /\ RegistryNext
       /\ UNCHANGED <<vars, userVars, confVars, codecVars, roomVars, statVars>>
    \/ /\ part = "conf" /\ ConfNext
       /\ UNCHANGED <<vars, userVars, registryVars, codecVars, roomVars, statVars>>
    \/ /\ part = "codecs" /\ CodecNext
       /\ UNCHANGED <<vars, userVars, registryVars, confVars, roomVars, statVars>>
    \/ /\ part = "rooms" /\ RoomNext
       /\ UNCHANGED <<vars, userVars, registryVars, confVars, codecVars, statVars>>
    \/ /\ part = "stats" /\ StatNext
       /\ UNCHANGED <<vars, userVars, registryVars, confVars, codecVars, roomVars>>

MCSpec ==
    /\ MCInit
    /\ [][MCNext /\ UNCHANGED part]_<<part, vars, userVars, registryVars, confVars,
                                     codecVars, roomVars, statVars>>

Symmetric == Permutations(Two) \cup Permutations(Workers)

\* Every variable has its type.
AllTypesOK ==
    /\ part = "cdb" => TypeOK
    /\ part = "users" => UserTypeOK
    /\ part = "registry" => RegistryTypeOK
    /\ part = "conf" => ConfTypeOK
    /\ part = "rooms" => RoomTypeOK
    /\ part = "stats" => StatTypeOK
==============================================================================
