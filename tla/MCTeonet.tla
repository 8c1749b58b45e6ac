------------------------------- MODULE MCTeonet -------------------------------
(***************************************************************************)
(* Instances for TLC of how a node runs and stops, and beside it of the    *)
(* ways its data go: large packets in parts, and the stream of an l0       *)
(* client. They share no state: a behaviour is about one of them, and the  *)
(* others rest.                                                            *)
(***************************************************************************)
EXTENDS TeonetRun, Split, Teocli

CONSTANTS
    g1, g2,         \* goroutines that send
    api, conf       \* the loops that subscribe to events

VARIABLE
    part            \* what the behaviour is about

One == {g1}
Two == {g1, g2}
Loops == {api, conf}

MCInit ==
    /\ part \in IF SharedBuffer THEN {"stream"} ELSE {"run", "split", "stream"}
    /\ RunInit /\ SplitInit /\ CliInit
    /\ part # "stream" => ~tcp

MCNext ==
    \/ part = "run" /\ RunNext /\ UNCHANGED <<part, splitVars, cliVars>>
    \/ part = "split" /\ SplitNext /\ UNCHANGED <<part, runVars, cliVars>>
    \/ part = "stream" /\ CliNext /\ UNCHANGED <<part, runVars, splitVars>>

MCSpec == /\ MCInit
          /\ [][MCNext]_<<part, runVars, splitVars, cliVars>>
          /\ RunFairness
==============================================================================
