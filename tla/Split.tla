--------------------------------- MODULE Split ---------------------------------
(***************************************************************************)
(* The splitting of large packets (teonet/teonet/split.go). A command with *)
(* less than maxDataLen of data is sent as it is; a larger one goes in     *)
(* parts with the number of the packet and of the part, and the receiver   *)
(* puts the parts together when the last one has come. trudp delivers what *)
(* one peer writes in order. All goroutines of a node that send share the  *)
(* number of packets, without a lock, and read it again for every part.    *)
(*                                                                         *)
(* Data are cells <<packet, position>>; position 0 is the command.         *)
(***************************************************************************)
EXTENDS Naturals, Sequences, SequencesExt

CONSTANTS
    SplitSender,    \* goroutines that call SendTo
    maxDataLen,     \* the largest part
    MaxLength,      \* bound: length of data
    MaxSplit,       \* bound: commands that are sent
    PacketNums      \* packet numbers are kept modulo this (65536)

VARIABLES
    packetNum,  \* the number of the last packet that was split
    sender,     \* of a goroutine: its place, packet, part and what it has read
    parts,      \* what is on its way
    m,          \* the parts the receiver keeps, by their numbers
    posted,     \* history: who sent how much
    handled,    \* history: the commands that the receiver has processed
    mixed       \* history: large ones were sent at once, or one of maxDataLen

splitVars == <<packetNum, sender, parts, m, posted, handled, mixed>>

Resting == [at |-> "idle", n |-> 0, part |-> 0, num |-> 0]

SplitInit ==
    /\ packetNum = 0
    /\ sender = [g \in SplitSender |-> Resting]
    /\ parts = <<>>
    /\ m = {}
    /\ posted = <<>>
    /\ handled = <<>>
    /\ mixed = FALSE

Data(n, from, to) == [i \in 1 .. to - from + 1 |-> <<n, from + i - 1>>]

Command(n) == [cmd |-> <<n, 0>>, data |-> Data(n, 1, posted[n].length)]

-----------------------------------------------------------------------------
(* The sender *)

\* A command with short data is sent; for others the number is read. One of
\* exactly maxDataLen has a single part that is the first and the last, which is
\* numbered as the last and goes without its command.
SendTo(g) == \E length \in 0 .. MaxLength :
    LET n == Len(posted) + 1 IN
    /\ sender[g] = Resting
    /\ n <= MaxSplit
    /\ posted' = Append(posted, [by |-> g, length |-> length])
    /\ IF length < maxDataLen
       THEN /\ parts' = Append(parts, [split |-> FALSE, cmd |-> <<n, 0>>,
                                       data |-> Data(n, 1, length)])
            /\ UNCHANGED <<sender, mixed>>
       ELSE /\ sender' = [sender EXCEPT ![g] = [at |-> "number", n |-> n,
                                                part |-> 0, num |-> packetNum]]
            /\ mixed' = (mixed \/ length = maxDataLen
                            \/ \E h \in SplitSender \ {g} : sender[h] # Resting)
            /\ UNCHANGED parts
    /\ UNCHANGED <<packetNum, m, handled>>

\* The number is incremented.
NextNumber(g) ==
    /\ sender[g].at = "number"
    /\ packetNum' = (sender[g].num + 1) % PacketNums
    /\ sender' = [sender EXCEPT ![g].at = "parts"]
    /\ UNCHANGED <<parts, m, posted, handled, mixed>>

\* The next part is written, the first one with the command at its end.
SplitPart(g) ==
    LET n == sender[g].n
        i == sender[g].part
        last == (i + 1) * maxDataLen >= posted[n].length
        data == Data(n, i * maxDataLen + 1,
                     IF last THEN posted[n].length ELSE (i + 1) * maxDataLen)
    IN
    /\ sender[g].at = "parts"
    /\ parts' = Append(parts,
         [split |-> TRUE, num |-> packetNum, part |-> i, last |-> last,
          data |-> IF i = 0 /\ ~last THEN Append(data, <<n, 0>>) ELSE data])
    /\ sender' = [sender EXCEPT ![g] =
                     IF last THEN Resting ELSE [sender[g] EXCEPT !.part = i + 1]]
    /\ UNCHANGED <<packetNum, m, posted, handled, mixed>>

\* The sending host is started again: what is on its way is lost.
SplitRestart ==
    /\ packetNum' = 0
    /\ sender' = [g \in SplitSender |-> Resting]
    /\ parts' = <<>>
    /\ UNCHANGED <<m, posted, handled, mixed>>

-----------------------------------------------------------------------------
(* The receiver *)

\* The map with the part p.
addToMap(p) ==
    {q \in m : <<q.num, q.part>> # <<p.num, p.part>>} \cup {p}

\* The data of a packet without the command at the end of its first part.
Combined(all, num, last) ==
    LET PartData(i) == LET q == CHOOSE q \in all : q.num = num /\ q.part = i
                       IN IF i = 0 THEN Front(q.data) ELSE q.data
        upTo[i \in 0 .. last + 1] ==
            IF i = 0 THEN <<>> ELSE upTo[i - 1] \o PartData(i - 1)
    IN upTo[last + 1]

FirstPart(all, num) == CHOOSE q \in all : q.num = num /\ q.part = 0

\* Fault: the last part is left out.
combineShort(p) ==
    /\ handled' = Append(handled,
         [cmd |-> Last(FirstPart(addToMap(p), p.num).data),
          data |-> Combined(addToMap(p), p.num, p.part - 1)])
    /\ m' = {q \in addToMap(p) : q.num # p.num \/ q.part > p.part}

\* The last part has come: the command is put together and processed. If a part
\* is missing it is an error, and those before that one are forgotten.
combine(p) ==
    LET all == addToMap(p)
        Has(i) == \E q \in all : q.num = p.num /\ q.part = i
    IN IF \A i \in 0 .. p.part : Has(i)
       THEN /\ handled' = Append(handled,
                 [cmd |-> Last(FirstPart(all, p.num).data),
                  data |-> Combined(all, p.num, p.part)])
            /\ m' = {q \in all : q.num # p.num \/ q.part > p.part}
       ELSE /\ m' = {q \in all :
                       q.num = p.num => \E i \in 0 .. q.part : ~Has(i)}
            /\ UNCHANGED handled

\* cmdSplit, or a command that was not split.
Receive ==
    LET p == Head(parts) IN
    /\ parts # <<>>
    /\ parts' = Tail(parts)
    /\ CASE ~p.split -> /\ handled' = Append(handled, [cmd |-> p.cmd, data |-> p.data])
                        /\ UNCHANGED m
         [] p.split /\ ~p.last -> m' = addToMap(p) /\ UNCHANGED handled
         [] p.split /\ p.last -> combine(p)
    /\ UNCHANGED <<packetNum, sender, posted, mixed>>

SplitNext ==
    \/ \E g \in SplitSender : SendTo(g) \/ NextNumber(g) \/ SplitPart(g)
    \/ SplitRestart
    \/ Receive

SplitSpec == SplitInit /\ [][SplitNext]_splitVars

-----------------------------------------------------------------------------
(* Properties *)

\* The receiver processes whole commands only, as they were sent, and those of a
\* goroutine in their order, also when short ones of others come between the
\* parts and when the sender was restarted between two of them. Not so when two
\* goroutines send large ones at once (the parts get the number of the other
\* one), and not for data of exactly maxDataLen.
CommandsWhole ==
    ~mixed => \A i \in DOMAIN handled :
        LET n == handled[i].cmd[1] IN
        /\ handled[i] = Command(n)
        /\ \A j \in 1 .. i - 1 : LET before == handled[j].cmd[1] IN
              posted[before].by = posted[n].by => before < n
==============================================================================
