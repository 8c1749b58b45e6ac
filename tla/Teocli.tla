-------------------------------- MODULE Teocli --------------------------------
(***************************************************************************)
(* The stream of packets between an l0 client and its server               *)
(* (teocli/teocli/teonet_l0_client.go): packets are written to a tcp       *)
(* connection, or in parts to a trudp channel, and PacketCheck finds them  *)
(* in what was read. One goroutine reads; another processes the packets.   *)
(*                                                                         *)
(* Data are cells <<packet, position>>; the first Header cells stand for   *)
(* the header with its checksum and the lengths. A checksum is right when  *)
(* all cells are those of one packet. The l0 server reads tcp always into  *)
(* the same buffer b (SharedBuffer), and slices of b see what is written   *)
(* there later; the client takes a new buffer for every read.              *)
(***************************************************************************)
EXTENDS Integers, Sequences, SequencesExt

CONSTANTS
    CliSender,      \* goroutines that send on the connection
    SharedBuffer,   \* the reader has a single buffer
    Header,         \* the length of the header
    BufSize,        \* the length of a read buffer (2048)
    ChunkSize,      \* the largest part written to a trudp channel (512)
    MaxBody,        \* bound: the length of name and data
    MaxSends        \* bound: packets that are sent

VARIABLES
    tcp,        \* the connection is tcp and not trudp
    lengths,    \* history: the lengths of the packets that were sent
    rest,       \* of a goroutine: what it has still to write
    net,        \* what was written and not read: cells, or parts
    closed,     \* the sending side has disconnected
    b,          \* the server's read buffer
    readBuffer, \* the slice with what was read and is no whole packet
    readAt,     \* the place of the reader, and the slice it works on
    hand,       \* the slice with the packet that is processed
    received,   \* history: the packets as they were processed
    spoiled     \* history: a packet was written between two parts of another

cliVars == <<tcp, lengths, rest, net, closed, b, readBuffer, readAt, hand,
             received, spoiled>>

\* A slice of b, or of an array of its own.
Slice(cells) == [shared |-> FALSE, from |-> 0, len |-> Len(cells), cells |-> cells]
OfBuffer(from, len) == [shared |-> TRUE, from |-> from, len |-> len, cells |-> <<>>]
Nil == Slice(<<>>)

Cells(s) == IF s.shared THEN SubSeq(b, s.from + 1, s.from + s.len) ELSE s.cells

\* s[from : to].
Cut(s, from, to) ==
    IF s.shared THEN OfBuffer(s.from + from, to - from)
    ELSE Slice(SubSeq(s.cells, from + 1, to))

WholePacket(n) == [i \in 1 .. lengths[n] |-> <<n, i>>]

CliInit ==
    /\ tcp \in IF SharedBuffer THEN {TRUE} ELSE BOOLEAN
    /\ lengths = <<>>
    /\ rest = [g \in CliSender |-> <<>>]
    /\ net = <<>>
    /\ closed = FALSE
    /\ b = [i \in 1 .. BufSize |-> <<0, 0>>]
    /\ readBuffer = Nil
    /\ readAt = [at |-> "check", data |-> Nil]
    /\ hand = Nil
    /\ received = <<>>
    /\ spoiled = FALSE

-----------------------------------------------------------------------------
(* Sending *)

\* What Write takes first of a packet: all of it, or a part.
First(packet) == IF Len(packet) <= ChunkSize THEN packet
                 ELSE SubSeq(packet, 1, ChunkSize)
Remainder(packet) == IF Len(packet) <= ChunkSize THEN <<>>
                ELSE SubSeq(packet, ChunkSize + 1, Len(packet))

\* A packet is made and given to the tcp connection, which writes it whole, or
\* its first part to the channel. The reader is such a goroutine when it answers
\* an echo.
SendPacket(g) == \E body \in 1 .. MaxBody :
    LET n == Len(lengths) + 1
        packet == [i \in 1 .. Header + body |-> <<n, i>>]
    IN
    /\ ~closed
    /\ rest[g] = <<>>
    /\ n <= MaxSends
    /\ lengths' = Append(lengths, Header + body)
    /\ IF tcp THEN /\ net' = net \o packet
                   /\ UNCHANGED <<rest, spoiled>>
              ELSE /\ net' = Append(net, First(packet))
                   /\ rest' = [rest EXCEPT ![g] = Remainder(packet)]
                   /\ spoiled' = (spoiled \/ \E h \in CliSender : rest[h] # <<>>)
    /\ UNCHANGED <<tcp, closed, b, readBuffer, readAt, hand, received>>

\* The next part is written to the channel.
SendPart(g) ==
    /\ ~closed
    /\ rest[g] # <<>>
    /\ net' = Append(net, First(rest[g]))
    /\ rest' = [rest EXCEPT ![g] = Remainder(@)]
    /\ UNCHANGED <<tcp, lengths, closed, b, readBuffer, readAt, hand, received,
                   spoiled>>

Disconnect ==
    /\ ~closed
    /\ closed' = TRUE
    /\ UNCHANGED <<tcp, lengths, rest, net, b, readBuffer, readAt, hand,
                   received, spoiled>>

-----------------------------------------------------------------------------
(* Reading *)

\* The C function packetCheck.
packetCheck(d) ==
    LET n == d[1][1]
        head == \A i \in 1 .. Header : d[i] = <<n, i>>
    IN IF Len(d) <= Header THEN -2
       ELSE IF ~head THEN -3
       ELSE IF Len(d) < lengths[n] THEN -1
       ELSE IF \A i \in Header + 1 .. lengths[n] : d[i] = <<n, i>> THEN 0 ELSE 1

\* append(readBuffer, data...): in place when the array is long enough. An array
\* of its own is as good as a copy, for nobody writes to its end.
Joined(data) ==
    LET all == Cells(readBuffer) \o Cells(data)
        fits == readBuffer.shared /\ readBuffer.from + Len(all) <= BufSize
    IN IF fits
       THEN [slice |-> OfBuffer(readBuffer.from, Len(all)),
             b |-> [i \in 1 .. BufSize |->
                      IF i - readBuffer.from \in 1 .. Len(all)
                      THEN all[i - readBuffer.from] ELSE b[i]]]
       ELSE [slice |-> Slice(all), b |-> b]

Offers(packet) == readAt' = [at |-> "offer", data |-> packet]
Reads == readAt' = [at |-> "read", data |-> Nil]

\* Fault: what follows the packet is dropped.
CheckWholeOnly(d, data) ==
    /\ Offers(Cut(data, 0, lengths[d[1][1]]))
    /\ readBuffer' = Nil
    /\ UNCHANGED b

\* Nothing is kept: data starts with a packet.
CheckWhole(d, data) ==
    /\ Offers(Cut(data, 0, lengths[d[1][1]]))
    /\ readBuffer' = Cut(data, lengths[d[1][1]], data.len)
    /\ UNCHANGED b

\* Nothing is kept, and data are the first part of a packet.
CheckFirst(data) ==
    /\ readBuffer' = Joined(data).slice
    /\ b' = Joined(data).b
    /\ Reads

\* The next part: what is kept and data may start with a packet, which is copied,
\* or are dropped when that is wrong.
CheckNext(data) ==
    LET new == Joined(data)
        all == Cells(readBuffer) \o Cells(data)
        status == packetCheck(all)
    IN
    /\ b' = new.b
    /\ CASE status = 0 ->
              LET len == lengths[all[1][1]] IN
              /\ Offers(Slice(SubSeq(all, 1, len)))
              /\ readBuffer' = IF new.slice.shared
                               THEN Cut(new.slice, len, new.slice.len)
                               ELSE Slice(SubSeq(all, len + 1, Len(all)))
         [] status \in {1, -3} ->
              /\ readBuffer' = Cut(new.slice, 0, 0)
              /\ Reads
         [] OTHER -> readBuffer' = new.slice /\ Reads

PacketCheck ==
    LET data == readAt.data
        d == Cells(data)
        status == packetCheck(d)
        kept == readBuffer.len > 0
    IN
    /\ readAt.at = "check"
    /\ CASE ~kept /\ d = <<>> -> Reads /\ UNCHANGED <<readBuffer, b>>
         [] ~kept /\ d # <<>> /\ status = 0 -> CheckWhole(d, data)
         [] ~kept /\ d # <<>> /\ status \in {-1, -2} -> CheckFirst(data)
         [] ~kept /\ d # <<>> /\ status \in {1, -3} ->
              Reads /\ UNCHANGED <<readBuffer, b>>
         [] kept -> CheckNext(data)
    /\ UNCHANGED <<tcp, lengths, rest, net, closed, hand, received, spoiled>>

\* A read of the connection returns what fits, from a channel a part.
Read == \E size \in 1 .. Len(net) :
    LET cells == IF tcp THEN SubSeq(net, 1, size) ELSE net[1] IN
    /\ readAt.at = "read"
    /\ IF tcp THEN size <= BufSize ELSE size = 1
    /\ net' = SubSeq(net, size + 1, Len(net))
    /\ b' = IF SharedBuffer
            THEN [i \in 1 .. BufSize |-> IF i <= size THEN cells[i] ELSE b[i]]
            ELSE b
    /\ readAt' = [at |-> "check",
                  data |-> IF SharedBuffer THEN OfBuffer(0, size)
                                           ELSE Slice(cells)]
    /\ UNCHANGED <<tcp, lengths, rest, closed, readBuffer, hand, received, spoiled>>

\* The connection was closed: the reader ends.
ReadEnds ==
    /\ readAt.at = "read"
    /\ closed /\ net = <<>>
    /\ readAt' = [at |-> "ended", data |-> Nil]
    /\ UNCHANGED <<tcp, lengths, rest, net, closed, b, readBuffer, hand, received,
                   spoiled>>

\* The packet goes to the goroutine that processes packets, and the reader checks
\* what it has kept.
ToProcess ==
    /\ readAt.at = "offer"
    /\ hand = Nil
    /\ hand' = readAt.data
    /\ readAt' = [at |-> "check", data |-> Nil]
    /\ UNCHANGED <<tcp, lengths, rest, net, closed, b, readBuffer, received, spoiled>>

\* The packet is processed; what its bytes are now is what counts.
Processed ==
    /\ hand # Nil
    /\ received' = Append(received, Cells(hand))
    /\ hand' = Nil
    /\ UNCHANGED <<tcp, lengths, rest, net, closed, b, readBuffer, readAt, spoiled>>

CliNext ==
    \/ \E g \in CliSender : SendPacket(g) \/ SendPart(g)
    \/ Disconnect
    \/ PacketCheck \/ Read \/ ReadEnds \/ ToProcess \/ Processed

CliSpec == CliInit /\ [][CliNext]_cliVars

-----------------------------------------------------------------------------
(* Properties *)

\* The packets that are processed are whole ones, those that were sent, in their
\* order and without a gap, whatever a read returns: PacketCheck combines parts
\* and returns valid packets. Not so when a goroutine writes between the parts of
\* another one's packet.
StreamInOrder ==
    ~spoiled => \A i \in DOMAIN received :
        i \in DOMAIN lengths /\ received[i] = WholePacket(i)
==============================================================================
