---------------------------- MODULE ReliableStream ----------------------------
(***************************************************************************)
(* What a trudp channel promises its users, without packets, queues and    *)
(* network: each host writes a stream, its peer is handed the stream in    *)
(* order, and the promise ends when a host is told of a reset or of a      *)
(* disconnect. From then on a host may be handed anything that its peer    *)
(* wrote at some time, in any order and any number of times.               *)
(* The n-th write of a host is the number n.                               *)
(***************************************************************************)
EXTENDS Integers, Sequences

CONSTANT Host, Peer(_)

VARIABLES
    written,    \* number of writes of a host
    delivered,  \* what a host was handed
    broken      \* has a host been told of a reset or a disconnect?

streamVars == <<written, delivered, broken>>

Init ==
    /\ written = [h \in Host |-> 0]
    /\ delivered = [h \in Host |-> <<>>]
    /\ broken = FALSE

Write(h) ==
    /\ written' = [written EXCEPT ![h] = @ + 1]
    /\ UNCHANGED <<delivered, broken>>

\* h is handed the writes that follow the ones it has.
Deliver(h) ==
    /\ ~broken
    /\ \E n \in 0 .. written[Peer(h)] - Len(delivered[h]) :
         delivered' = [delivered EXCEPT ![h] =
                         @ \o [k \in 1 .. n |-> Len(@) + k]]
    /\ UNCHANGED <<written, broken>>

\* The promise ends, or has ended, and h is handed writes of its peer.
Break(h) ==
    /\ broken'
    /\ \A g \in Host \ {h} : delivered'[g] = delivered[g]
    /\ Len(delivered'[h]) >= Len(delivered[h])
    /\ \A k \in DOMAIN delivered'[h] :
         IF k <= Len(delivered[h]) THEN delivered'[h][k] = delivered[h][k]
         ELSE delivered'[h][k] \in 1 .. written[Peer(h)]
    /\ UNCHANGED written

Next == \E h \in Host : Write(h) \/ Deliver(h) \/ Break(h)

Spec == Init /\ [][Next]_streamVars
==============================================================================
