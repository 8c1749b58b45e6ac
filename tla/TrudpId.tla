------------------------------- MODULE TrudpId -------------------------------
(***************************************************************************)
(* Packet ids of a trudp channel: 32 bit counters that start at            *)
(* firstPacketID, skip it when they wrap, and are compared by their signed *)
(* distance modulo packetIDlimit (trudp/trudp/channel.go,                  *)
(* trudp/trudp/packet_process.go).                                         *)
(***************************************************************************)
EXTENDS Integers

CONSTANT packetIDlimit   \* 2^32 in the code

ASSUME IDLimitAssumption ==
    /\ packetIDlimit \in Nat
    /\ packetIDlimit >= 4
    /\ packetIDlimit % 2 = 0

firstPacketID == 0

PacketID == 0 .. packetIDlimit - 1

\* An id that is incremented to firstPacketID is incremented once more.
incID(id) ==
    LET next == (id + 1) % packetIDlimit
    IN  IF next = 0 THEN 1 ELSE next

modSubU(arga, argb, mod) == ((arga % mod) + mod - (argb % mod)) % mod

\* Negative when id is behind expectedID, positive when it is ahead of it.
packetDistance(expectedID, id) ==
    LET diff == modSubU(id, expectedID, packetIDlimit)
    IN  IF diff < packetIDlimit \div 2 THEN diff ELSE diff - packetIDlimit

\* The value an id has after n calls of incID. Ids leave 0 once and then run
\* through 1 .. packetIDlimit - 1 for ever.
IDAfter(id, n) ==
    IF n = 0 THEN id ELSE ((id + n - 1) % (packetIDlimit - 1)) + 1
==============================================================================
