------------------------------ MODULE NodeProofs ------------------------------
(***************************************************************************)
(* Theorems about TeonetRun, for any number of goroutines that send and of *)
(* loops that subscribe, and every value of the bounds.                    *)
(***************************************************************************)
EXTENDS TeonetRun, TLAPS

-----------------------------------------------------------------------------
(* Events reach every loop in order *)

Slot == {<<>>} \cup {<<<<a, n>>>> : a \in Actor, n \in Nat}

\* What EventsInOrder is about has its type.
EventTypeOK ==
    /\ reader \in {"start", "read", "select", "stop", "close", "ended"}
    /\ sending \in [Actor -> [at : {"no", "main", "lock", "subs"},
                              left : SUBSET Subscriber]]
    /\ sent \in [Actor -> Nat]
    /\ chan \in [Queue -> Slot]
    /\ ended \in [Queue -> BOOLEAN]
    /\ loop \in [Queue -> {"start", "read", "command", "ended"}]
    /\ got \in [Queue -> [Actor -> Nat]]

\* The number of the last event of a that has come to q, read or not.
Reached(q, a) ==
    IF chan[q] # <<>> /\ chan[q][1][1] = a THEN chan[q][1][2] ELSE got[q][a]

\* a is sending an event that q has still to get.
Owes(a, q) ==
    IF q = "main" THEN sending[a].at = "main"
    ELSE sending[a].at \in {"main", "lock"} \/ q \in sending[a].left

\* All but the event that is being sent have come to q.
UpToDate(q, a) == sent[a] = Reached(q, a) + (IF Owes(a, q) THEN 1 ELSE 0)

\* A goroutine that is not at the subscribers has none of them left; while one is,
\* the reader does not close, and those it has left have subscribed.
SendingOK ==
    \A a \in Actor :
        /\ sending[a].at # "subs" => sending[a].left = {}
        /\ sending[a].at = "subs" => reader # "ended"
        /\ \A q \in sending[a].left : loop[q] # "start"

\* The reader goes on to the next event when it has sent the last one.
ReaderFree == reader \in {"start", "select"} => sending["reader"] = Free

\* A channel is closed, and its loop ends, after the reader has closed them; a
\* loop that has not subscribed has got nothing.
LoopsOK ==
    \A q \in Queue :
        /\ ended[q] \/ loop[q] = "ended" => reader = "ended"
        /\ loop[q] = "start" =>
              /\ q # "main"
              /\ chan[q] = <<>>
              /\ \A a \in Actor : got[q][a] = 0

\* The event in a channel is the next one, or the first that the loop gets.
InChannel ==
    \A q \in Queue, a \in Actor, n \in Nat :
        chan[q] = <<<<a, n>>>> =>
            \/ n = got[q][a] + 1
            \/ q # "main" /\ got[q][a] = 0

\* The user's loop misses no event at all; a subscriber none after its first one,
\* until the reader has closed the channels.
NoneMissed ==
    /\ \A a \in Actor : UpToDate("main", a)
    /\ reader # "ended" => \A q \in Subscriber, a \in Actor :
                              Reached(q, a) = 0 \/ UpToDate(q, a)

EventInv == /\ EventTypeOK /\ SendingOK /\ ReaderFree /\ LoopsOK
            /\ InChannel /\ NoneMissed

-----------------------------------------------------------------------------
(* What the actions change *)

\* The variables that EventInv is about, but for the place of the reader.
eventVars == <<sending, sent, chan, ended, loop, got>>

LEMMA QueueFacts ==
    /\ "main" \in Queue /\ "reader" \in Actor /\ ApiLoop \in Queue
    /\ ApiLoop # "main"
    /\ \A q \in Subscriber : q \in Queue /\ q # "main"
    /\ \A q \in Queue : q = "main" \/ q \in Subscriber
    /\ \A a \in SelfSender : a \in Actor /\ a # "reader"
  BY RunAssumption DEF Queue, Actor

\* A channel holds nothing, or one event.
LEMMA SlotFacts ==
    ASSUME EventTypeOK, NEW q \in Queue
    PROVE  \/ chan[q] = <<>>
           \/ \E a \in Actor, n \in Nat :
                 /\ chan[q] = <<<<a, n>>>> /\ chan[q] # <<>>
                 /\ chan[q][1][1] = a /\ chan[q][1][2] = n
  <1>1. chan[q] \in Slot
    BY DEF EventTypeOK
  <1>2. CASE chan[q] # <<>>
    <2>3. chan[q] \in {<<<<a, n>>>> : a \in Actor, n \in Nat}
      BY <1>1, <1>2 DEF Slot
    <2>1. PICK a \in Actor, n \in Nat : chan[q] = <<<<a, n>>>>
      BY <2>3
    <2>2. chan[q][1][1] = a /\ chan[q][1][2] = n
      BY <2>1
    <2> QED
      BY <1>2, <2>1, <2>2, Zenon
  <1> QED
    BY <1>2, Zenon

\* Only the reader moves, and it neither starts nor ends nor waits for events.
LEMMA ReaderMoves ==
    ASSUME EventInv, UNCHANGED eventVars,
           reader' \in {"read", "select", "stop", "close"},
           reader # "ended",
           reader' = "select" => sending["reader"] = Free
    PROVE  EventInv'
  <1> USE DEF eventVars
  <1>1. EventTypeOK' BY DEF EventInv, EventTypeOK
  <1>2. SendingOK' BY DEF EventInv, SendingOK
  <1>3. ReaderFree' BY DEF EventInv, ReaderFree
  <1>4. LoopsOK' BY DEF EventInv, LoopsOK
  <1>5. InChannel' BY DEF EventInv, InChannel
  <1>6. NoneMissed' BY DEF EventInv, NoneMissed, UpToDate, Reached, Owes
  <1> QED BY <1>1, <1>2, <1>3, <1>4, <1>5, <1>6 DEF EventInv

\* Nothing of it moves.
LEMMA Stutters ==
    ASSUME EventInv, UNCHANGED eventVars, UNCHANGED reader
    PROVE  EventInv'
  BY DEF eventVars, EventInv, EventTypeOK, SendingOK, ReaderFree, LoopsOK, InChannel,
         NoneMissed, UpToDate, Reached, Owes

\* A goroutine that has sent everything sends its next event, if the node runs. The
\* reader goes on to read.
LEMMA SendKeeps ==
    ASSUME EventInv, NEW a \in Actor, sending[a] = Free, send(a),
           reader' = reader \/ (reader # "ended" /\ reader' = "read"),
           a = "reader" => reader' = "read",
           UNCHANGED <<chan, ended, loop, got>>
    PROVE  EventInv'
  <1>1. CASE ~running
    <2>1. UNCHANGED eventVars
      BY <1>1 DEF send, atSending, eventVars
    <2> QED
      BY <2>1, ReaderMoves, Stutters
  <1>2. CASE running
    <2>1. /\ sending' = [sending EXCEPT ![a].at = "main"]
          /\ sent' = [sent EXCEPT ![a] = @ + 1]
      BY <1>2 DEF send
    <2>2. EventTypeOK
      BY DEF EventInv
    <2>3. /\ sending[a].at = "no" /\ sending[a].left = {}
          /\ sending'[a].at = "main" /\ sending'[a].left = {}
          /\ sent'[a] = sent[a] + 1 /\ sent[a] \in Nat
      BY <2>1, <2>2 DEF EventTypeOK, Free
    <2>4. \A c \in Actor : c # a => sending'[c] = sending[c] /\ sent'[c] = sent[c]
      BY <2>1, <2>2 DEF EventTypeOK
    <2>5. EventTypeOK'
      <3>1. sending' \in [Actor -> [at : {"no", "main", "lock", "subs"},
                                    left : SUBSET Subscriber]]
        BY <2>1, <2>2 DEF EventTypeOK
      <3>2. sent' \in [Actor -> Nat]
        BY <2>1, <2>2 DEF EventTypeOK
      <3> QED
        BY <2>2, <3>1, <3>2 DEF EventTypeOK
    <2>6. SendingOK'
      BY <2>3, <2>4 DEF EventInv, SendingOK
    <2>7. ReaderFree'
      BY <2>4, QueueFacts DEF EventInv, ReaderFree
    <2>8. LoopsOK'
      BY DEF EventInv, LoopsOK
    <2>9. InChannel'
      BY DEF EventInv, InChannel
    <2>10. \A q \in Queue, c \in Actor : Reached(q, c)' = Reached(q, c)
      BY DEF Reached
    <2>11. \A q \in Queue : ~Owes(a, q) /\ Owes(a, q)'
      BY <2>3 DEF Owes
    <2>12. \A q \in Queue, c \in Actor : c # a => (Owes(c, q)' <=> Owes(c, q))
      BY <2>4 DEF Owes
    <2>13. \A q \in Queue, c \in Actor : Reached(q, c) \in Nat
      BY <2>2, SlotFacts DEF EventTypeOK, Reached
    <2>14. \A q \in Queue, c \in Actor : UpToDate(q, c) => UpToDate(q, c)'
      BY <2>3, <2>4, <2>10, <2>11, <2>12, <2>13 DEF UpToDate
    <2>15. NoneMissed'
      BY <2>10, <2>14, QueueFacts DEF EventInv, NoneMissed
    <2> QED
      BY <2>5, <2>6, <2>7, <2>8, <2>9, <2>15 DEF EventInv
  <1> QED
    BY <1>1, <1>2

-----------------------------------------------------------------------------
(* Sending *)

\* The event of a is put into the channel of q, which it owed it.
LEMMA PutKeeps ==
    ASSUME EventInv, NEW a \in Actor, NEW q \in Queue,
           chan[q] = <<>>, Owes(a, q),
           chan' = [chan EXCEPT ![q] = <<<<a, sent[a]>>>>],
           q # "main" => reader # "ended",
           UNCHANGED <<sent, got>>
    PROVE  /\ chan' \in [Queue -> Slot]
           /\ InChannel'
           /\ Reached(q, a)' = sent[a]
           /\ \A p \in Queue, c \in Actor :
                 p # q \/ c # a => Reached(p, c)' = Reached(p, c)
  <1>1. EventTypeOK
    BY DEF EventInv
  <1>2. sent[a] \in Nat /\ got[q][a] \in Nat /\ sent[a] + 1 # sent[a]
    BY <1>1 DEF EventTypeOK
  <1>3. <<<<a, sent[a]>>>> \in Slot
    BY <1>2 DEF Slot
  <1>4. chan'[q] = <<<<a, sent[a]>>>> /\ \A p \in Queue : p # q => chan'[p] = chan[p]
    BY <1>1 DEF EventTypeOK
  <1>5. chan' \in [Queue -> Slot]
    BY <1>1, <1>3 DEF EventTypeOK
  <1>6. Reached(q, a) = got[q][a]
    BY DEF Reached
  <1>7. UpToDate(q, a) \/ (q # "main" /\ Reached(q, a) = 0)
    BY QueueFacts DEF EventInv, NoneMissed
  <1>8. sent[a] = got[q][a] + 1 \/ (q # "main" /\ got[q][a] = 0)
    BY <1>2, <1>6, <1>7 DEF UpToDate
  <1>9. \A c, n : <<<<c, n>>>> = <<<<a, sent[a]>>>> => c = a /\ n = sent[a]
    OBVIOUS
  <1>10. ASSUME NEW p \in Queue, NEW c \in Actor, NEW n \in Nat,
                chan'[p] = <<<<c, n>>>>
         PROVE  n = got[p][c] + 1 \/ (p # "main" /\ got[p][c] = 0)
    <2>1. CASE p = q
      BY <1>4, <1>8, <1>9, <1>10, <2>1
    <2>2. CASE p # q
      BY <1>4, <1>10, <2>2 DEF EventInv, InChannel
    <2> QED
      BY <2>1, <2>2
  <1>11. InChannel'
    BY <1>10 DEF InChannel
  <1>12. chan'[q] # <<>> /\ chan'[q][1][1] = a /\ chan'[q][1][2] = sent[a]
    BY <1>4
  <1>13. \A p \in Queue, c \in Actor :
            p # q \/ c # a => Reached(p, c)' = Reached(p, c)
    BY <1>4, <1>12 DEF Reached
  <1>14. Reached(q, a)' = sent[a]
    BY <1>12 DEF Reached
  <1> QED
    BY <1>5, <1>11, <1>13, <1>14

LEMMA SendMainKeeps ==
    ASSUME EventInv, NEW a \in Actor, SendMain(a)
    PROVE  EventInv'
  <1>1. CASE ended["main"]
    <2>1. UNCHANGED eventVars /\ UNCHANGED reader
      BY <1>1 DEF SendMain, atClose, eventVars
    <2> QED
      BY <2>1, Stutters
  <1>2. CASE ~ended["main"]
    <2>1. /\ sending[a].at = "main" /\ chan["main"] = <<>>
          /\ chan' = [chan EXCEPT !["main"] = <<<<a, sent[a]>>>>]
          /\ sending' = [sending EXCEPT ![a].at = "lock"]
          /\ UNCHANGED <<reader, sent, ended, loop, got>>
      BY <1>2 DEF SendMain
    <2>2. EventTypeOK
      BY DEF EventInv
    <2>3. /\ sending'[a].at = "lock" /\ sending'[a].left = sending[a].left
          /\ \A c \in Actor : c # a => sending'[c] = sending[c]
      BY <2>1, <2>2 DEF EventTypeOK
    <2>4. Owes(a, "main") /\ ~Owes(a, "main")'
      BY <2>1, <2>3 DEF Owes
    <2>5. \A q \in Queue, c \in Actor :
             q # "main" \/ c # a => (Owes(c, q)' <=> Owes(c, q))
      BY <2>1, <2>3 DEF Owes
    <2>6. /\ chan' \in [Queue -> Slot]
          /\ InChannel'
          /\ Reached("main", a)' = sent[a]
          /\ \A p \in Queue, c \in Actor :
                p # "main" \/ c # a => Reached(p, c)' = Reached(p, c)
      BY <2>1, <2>4, PutKeeps, QueueFacts
    <2>7. EventTypeOK'
      BY <2>1, <2>2, <2>6 DEF EventTypeOK
    <2>8. SendingOK'
      BY <2>1, <2>3 DEF EventInv, SendingOK
    <2>9. ReaderFree'
      BY <2>1, <2>3, QueueFacts DEF EventInv, ReaderFree, Free
    <2>10. LoopsOK'
      <3>1. \A p \in Queue : p # "main" => chan'[p] = chan[p]
        BY <2>1, <2>2 DEF EventTypeOK
      <3> QED
        BY <2>1, <3>1 DEF EventInv, LoopsOK
    <2>11. UpToDate("main", a)'
      BY <2>1, <2>2, <2>4, <2>6 DEF EventTypeOK, UpToDate
    <2>12. \A q \in Queue, c \in Actor :
              (q # "main" \/ c # a) /\ UpToDate(q, c) => UpToDate(q, c)'
      BY <2>1, <2>5, <2>6 DEF UpToDate
    <2>13. NoneMissed'
      BY <2>1, <2>6, <2>11, <2>12, QueueFacts DEF EventInv, NoneMissed
    <2> QED
      BY <2>6, <2>7, <2>8, <2>9, <2>10, <2>13 DEF EventInv
  <1> QED
    BY <1>1, <1>2

\* Whoever has subscribed when the lock is taken is left to be sent to; whoever
\* comes later has got nothing.
LEMMA RLockKeeps ==
    ASSUME EventInv, NEW a \in Actor, RLock(a)
    PROVE  EventInv'
  <1>1. /\ sending[a].at = "lock"
        /\ UNCHANGED <<reader, sent, chan, ended, loop, got>>
    BY DEF RLock, atQueues
  <1>2. EventTypeOK
    BY DEF EventInv
  <1> DEFINE new == IF reader = "ended" \/ Subscribed = {} THEN Free
                    ELSE [at |-> "subs", left |-> Subscribed]
  <1>3. sending' = [sending EXCEPT ![a] = new]
    BY DEF RLock
  <1>4. /\ new \in [at : {"no", "main", "lock", "subs"}, left : SUBSET Subscriber]
        /\ new.at \in {"no", "subs"}
        /\ new.at = "subs" => reader # "ended"
        /\ new.at # "subs" => new.left = {}
        /\ new.left \subseteq Subscribed
        /\ reader # "ended" => new.left = Subscribed
    BY DEF Subscribed, Free
  <1> HIDE DEF new
  <1>5. /\ sending'[a] = new
        /\ \A c \in Actor : c # a => sending'[c] = sending[c]
    BY <1>2, <1>3 DEF EventTypeOK
  <1>6. EventTypeOK'
    BY <1>1, <1>2, <1>3, <1>4 DEF EventTypeOK
  <1>7. SendingOK'
    BY <1>1, <1>4, <1>5 DEF EventInv, SendingOK, Subscribed
  <1>8. ReaderFree'
    BY <1>1, <1>5, QueueFacts DEF EventInv, ReaderFree, Free
  <1>9. LoopsOK' /\ InChannel'
    BY <1>1 DEF EventInv, LoopsOK, InChannel
  <1>10. \A q \in Queue, c \in Actor : Reached(q, c)' = Reached(q, c)
    BY <1>1 DEF Reached
  <1>11. \A q \in Queue, c \in Actor : c # a => (Owes(c, q)' <=> Owes(c, q))
    BY <1>5 DEF Owes
  <1>12. ~Owes(a, "main") /\ ~Owes(a, "main")'
    BY <1>1, <1>4, <1>5 DEF Owes
  <1>13. \A q \in Subscriber : reader # "ended" => Owes(a, q)
    BY <1>1, QueueFacts DEF Owes
  <1>14. ASSUME NEW q \in Subscriber, reader # "ended"
         PROVE  Owes(a, q)' \/ Reached(q, a) = 0
    <2>1. CASE q \in Subscribed
      BY <1>4, <1>5, <1>14, <2>1, QueueFacts DEF Owes
    <2>2. CASE q \notin Subscribed
      <3>1. loop[q] # "ended"
        BY <1>14, QueueFacts DEF EventInv, LoopsOK
      <3>2. loop[q] = "start"
        BY <1>2, <2>2, <3>1, QueueFacts DEF EventTypeOK, Subscribed
      <3> QED
        BY <3>2, QueueFacts DEF EventInv, LoopsOK, Reached
    <2> QED
      BY <2>1, <2>2
  <1>15. NoneMissed'
    BY <1>1, <1>10, <1>11, <1>12, <1>13, <1>14, QueueFacts
       DEF EventInv, NoneMissed, UpToDate
  <1> QED
    BY <1>6, <1>7, <1>8, <1>9, <1>15 DEF EventInv

LEMMA SendSubKeeps ==
    ASSUME EventInv, NEW a \in Actor, SendSub(a)
    PROVE  EventInv'
  <1>1. PICK q \in sending[a].left :
          /\ chan[q] = <<>>
          /\ chan' = [chan EXCEPT ![q] = <<<<a, sent[a]>>>>]
          /\ sending' = [sending EXCEPT ![a] =
                            IF sending[a].left = {q} THEN Free
                            ELSE [at |-> "subs", left |-> sending[a].left \ {q}]]
          /\ UNCHANGED <<reader, sent, ended, loop, got>>
    BY DEF SendSub
  <1>2. EventTypeOK
    BY DEF EventInv
  <1>3. q \in Subscriber /\ q \in Queue /\ q # "main"
    BY <1>1, <1>2, QueueFacts DEF EventTypeOK
  <1>4. sending[a].at = "subs" /\ reader # "ended" /\ loop[q] # "start"
    BY <1>1, <1>3 DEF EventInv, SendingOK
  <1> DEFINE new == IF sending[a].left = {q} THEN Free
                    ELSE [at |-> "subs", left |-> sending[a].left \ {q}]
  <1>5. /\ new \in [at : {"no", "main", "lock", "subs"}, left : SUBSET Subscriber]
        /\ new.at \in {"no", "subs"}
        /\ new.at = "no" => new.left = {}
        /\ new.left = sending[a].left \ {q}
    <2>1. sending[a].left \subseteq Subscriber
      BY <1>2 DEF EventTypeOK
    <2>2. CASE sending[a].left = {q}
      BY <2>2 DEF Free
    <2>3. CASE sending[a].left # {q}
      BY <2>1, <2>3
    <2> QED
      BY <2>2, <2>3
  <1>6. sending' = [sending EXCEPT ![a] = new]
    BY <1>1
  <1> HIDE DEF new
  <1>7. /\ sending'[a].left = sending[a].left \ {q}
        /\ sending'[a].at \in {"no", "subs"}
        /\ sending'[a].at = "no" => sending'[a].left = {}
        /\ \A c \in Actor : c # a => sending'[c] = sending[c]
    BY <1>2, <1>5, <1>6 DEF EventTypeOK
  <1>8. Owes(a, q) /\ ~Owes(a, q)'
    BY <1>1, <1>3, <1>7 DEF Owes
  <1>9. \A p \in Queue, c \in Actor :
           p # q \/ c # a => (Owes(c, p)' <=> Owes(c, p))
    BY <1>4, <1>7 DEF Owes
  <1>10. /\ chan' \in [Queue -> Slot]
        /\ InChannel'
        /\ Reached(q, a)' = sent[a]
        /\ \A p \in Queue, c \in Actor :
              p # q \/ c # a => Reached(p, c)' = Reached(p, c)
    BY <1>1, <1>3, <1>4, <1>8, PutKeeps
  <1>11. sending' \in [Actor -> [at : {"no", "main", "lock", "subs"},
                                left : SUBSET Subscriber]]
    BY <1>2, <1>5, <1>6 DEF EventTypeOK
  <1>12. EventTypeOK'
    BY <1>1, <1>2, <1>10, <1>11 DEF EventTypeOK
  <1>13. SendingOK'
    BY <1>1, <1>4, <1>7 DEF EventInv, SendingOK
  <1>14. ReaderFree'
    BY <1>1, <1>4, <1>7, QueueFacts DEF EventInv, ReaderFree, Free
  <1>15. LoopsOK'
    <2>1. \A p \in Queue : p # q => chan'[p] = chan[p]
      BY <1>1, <1>2 DEF EventTypeOK
    <2> QED
      BY <1>1, <1>4, <2>1 DEF EventInv, LoopsOK
  <1>16. UpToDate(q, a)'
    BY <1>1, <1>2, <1>8, <1>10 DEF EventTypeOK, UpToDate
  <1>17. \A p \in Queue, c \in Actor :
            (p # q \/ c # a) /\ UpToDate(p, c) => UpToDate(p, c)'
    BY <1>1, <1>9, <1>10 DEF UpToDate
  <1>18. NoneMissed'
    BY <1>1, <1>3, <1>10, <1>16, <1>17, QueueFacts DEF EventInv, NoneMissed
  <1> QED
    BY <1>10, <1>12, <1>13, <1>14, <1>15, <1>18 DEF EventInv

-----------------------------------------------------------------------------
(* The reader and the loops *)

LEMMA ReaderKeeps ==
    ASSUME EventInv, Reader
    PROVE  EventInv'
  <1> USE DEF atQueues, atSending, eventVars
  <1>1. EventTypeOK
    BY DEF EventInv
  <1>2. CASE ReaderStarts
    BY <1>2, SendKeeps, QueueFacts DEF ReaderStarts, EventInv, ReaderFree
  <1>3. CASE ReaderReads
    BY <1>3, ReaderMoves DEF ReaderReads
  <1>4. CASE ReaderTakes
    <2>1. CASE send("reader")
      BY <1>4, <2>1, SendKeeps, QueueFacts DEF ReaderTakes, EventInv, ReaderFree
    <2>2. CASE UNCHANGED <<sending, sent>>
      BY <1>4, <2>2, ReaderMoves DEF ReaderTakes
    <2> QED
      BY <1>4, <2>1, <2>2 DEF ReaderTakes
  <1>5. CASE ReaderWakes
    BY <1>5, ReaderMoves DEF ReaderWakes
  <1>6. CASE ReaderStops
    BY <1>6, ReaderMoves DEF ReaderStops
  <1>7. CASE ReaderCloses
    <2>1. /\ reader' = "ended" /\ ~ReadLocked
          /\ ended' = [q \in Queue |-> q \in Subscribed \cup {"main"}]
          /\ UNCHANGED <<sending, sent, chan, loop, got>>
      BY <1>7 DEF ReaderCloses
    <2>2. EventTypeOK'
      BY <1>1, <2>1 DEF EventTypeOK
    <2>3. SendingOK'
      BY <2>1 DEF EventInv, SendingOK, ReadLocked
    <2>4. ReaderFree' /\ InChannel'
      BY <2>1 DEF ReaderFree, EventInv, InChannel
    <2>5. LoopsOK'
      BY <2>1 DEF EventInv, LoopsOK
    <2>6. NoneMissed'
      BY <2>1, QueueFacts DEF EventInv, NoneMissed, UpToDate, Reached, Owes
    <2> QED
      BY <2>2, <2>3, <2>4, <2>5, <2>6 DEF EventInv
  <1> QED
    BY <1>2, <1>3, <1>4, <1>5, <1>6, <1>7 DEF Reader

\* A loop goes on, to another place than before it subscribed.
LEMMA LoopMoves ==
    ASSUME EventInv, NEW q \in Queue, NEW at \in {"read", "command", "ended"},
           loop' = [loop EXCEPT ![q] = at],
           at = "ended" => reader = "ended",
           UNCHANGED <<reader, sending, sent, chan, ended, got>>
    PROVE  EventInv'
  <1>1. EventTypeOK
    BY DEF EventInv
  <1>2. loop'[q] = at /\ \A p \in Queue : p # q => loop'[p] = loop[p]
    BY <1>1 DEF EventTypeOK
  <1>3. EventTypeOK'
    BY <1>1 DEF EventTypeOK
  <1>4. SendingOK'
    BY <1>1, <1>2, QueueFacts DEF EventInv, EventTypeOK, SendingOK
  <1>5. ReaderFree' /\ InChannel'
    BY DEF EventInv, ReaderFree, InChannel
  <1>6. LoopsOK'
    BY <1>2 DEF EventInv, LoopsOK
  <1>7. NoneMissed'
    BY DEF EventInv, NoneMissed, UpToDate, Reached, Owes
  <1> QED
    BY <1>3, <1>4, <1>5, <1>6, <1>7 DEF EventInv

\* The event that a loop takes is the next one for it, or its first one.
LEMMA LoopTakesNext ==
    ASSUME EventInv, NEW q \in Queue, LoopTakes(q)
    PROVE  \E a \in Actor, n \in Nat :
              /\ chan[q] = <<<<a, n>>>>
              /\ chan' = [chan EXCEPT ![q] = <<>>]
              /\ got' = [got EXCEPT ![q][a] = n]
              /\ n = got[q][a] + 1 \/ (q # "main" /\ got[q][a] = 0)
  <1>1. PICK a \in Actor, n \in Nat :
          /\ chan[q] = <<<<a, n>>>> /\ chan[q] # <<>>
          /\ chan[q][1][1] = a /\ chan[q][1][2] = n
    BY SlotFacts DEF LoopTakes, EventInv
  <1>2. /\ chan' = [chan EXCEPT ![q] = <<>>]
        /\ got' = [got EXCEPT ![q][a] = n]
    BY <1>1 DEF LoopTakes
  <1>3. n = got[q][a] + 1 \/ (q # "main" /\ got[q][a] = 0)
    BY <1>1 DEF EventInv, InChannel
  <1> QED
    BY <1>1, <1>2, <1>3

LEMMA LoopTakesKeeps ==
    ASSUME EventInv, NEW q \in Queue, LoopTakes(q)
    PROVE  EventInv'
  <1>1. PICK a \in Actor, n \in Nat :
          /\ chan[q] = <<<<a, n>>>>
          /\ chan' = [chan EXCEPT ![q] = <<>>]
          /\ got' = [got EXCEPT ![q][a] = n]
    BY LoopTakesNext
  <1>2. /\ loop[q] = "read"
        /\ loop' = [loop EXCEPT ![q] = IF q = ApiLoop THEN "command" ELSE "read"]
        /\ UNCHANGED <<reader, sending, sent, ended>>
    BY DEF LoopTakes, atSending
  <1>3. EventTypeOK
    BY DEF EventInv
  <1>4. /\ chan'[q] = <<>> /\ \A p \in Queue : p # q => chan'[p] = chan[p]
        /\ got'[q][a] = n
        /\ \A p \in Queue, c \in Actor : p # q \/ c # a => got'[p][c] = got[p][c]
        /\ \A p \in Queue : p # q => got'[p] = got[p] /\ loop'[p] = loop[p]
        /\ loop'[q] \in {"read", "command"}
    BY <1>1, <1>2, <1>3 DEF EventTypeOK
  <1>5. EventTypeOK'
    <2>1. <<>> \in Slot
      BY DEF Slot
    <2>2. chan' \in [Queue -> Slot]
      BY <1>1, <1>3, <2>1 DEF EventTypeOK
    <2>3. got' \in [Queue -> [Actor -> Nat]]
      BY <1>1, <1>3 DEF EventTypeOK
    <2>4. loop' \in [Queue -> {"start", "read", "command", "ended"}]
      BY <1>2, <1>3 DEF EventTypeOK
    <2> QED
      BY <1>2, <1>3, <2>2, <2>3, <2>4 DEF EventTypeOK
  <1>6. SendingOK'
    BY <1>2, <1>3, <1>4, QueueFacts DEF EventInv, EventTypeOK, SendingOK
  <1>7. ReaderFree'
    BY <1>2 DEF EventInv, ReaderFree
  <1>8. LoopsOK'
    BY <1>2, <1>4 DEF EventInv, LoopsOK
  <1>9. InChannel'
    BY <1>4 DEF EventInv, InChannel
  <1>10. chan[q] # <<>> /\ chan[q][1][1] = a /\ chan[q][1][2] = n
    BY <1>1
  <1>11. \A p \in Queue, c \in Actor : Reached(p, c)' = Reached(p, c)
    BY <1>4, <1>10 DEF Reached
  <1>12. NoneMissed'
    BY <1>2, <1>11, QueueFacts DEF EventInv, NoneMissed, UpToDate, Owes
  <1> QED
    BY <1>5, <1>6, <1>7, <1>8, <1>9, <1>12 DEF EventInv

-----------------------------------------------------------------------------
(* The theorem *)

LEMMA EventInit ==
    RunInit => EventInv
  <1> SUFFICES ASSUME RunInit PROVE EventInv
    OBVIOUS
  <1> USE DEF RunInit
  <1>1. EventTypeOK
    BY DEF EventTypeOK, Free, Slot
  <1>2. SendingOK /\ ReaderFree
    BY QueueFacts DEF SendingOK, ReaderFree, Free
  <1>3. LoopsOK
    BY QueueFacts DEF LoopsOK
  <1>4. InChannel
    BY DEF InChannel
  <1>5. \A q \in Queue, a \in Actor : Reached(q, a) = 0 /\ ~Owes(a, q)
    BY DEF Reached, Owes, Free
  <1>6. NoneMissed
    BY <1>5, QueueFacts DEF NoneMissed, UpToDate
  <1> QED
    BY <1>1, <1>2, <1>3, <1>4, <1>6 DEF EventInv

LEMMA EventNext ==
    EventInv /\ [RunNext]_runVars => EventInv'
  <1> SUFFICES ASSUME EventInv, [RunNext]_runVars PROVE EventInv'
    OBVIOUS
  <1> USE DEF atTrudp, atQueues, atSending, atClose, eventVars
  <1>1. CASE Reader
    BY <1>1, ReaderKeeps
  <1>2. ASSUME NEW a \in Actor, Sending(a) PROVE EventInv'
    BY <1>2, SendMainKeeps, RLockKeeps, SendSubKeeps DEF Sending
  <1>3. ASSUME NEW a \in SelfSender, SelfSend(a) PROVE EventInv'
    BY <1>3, SendKeeps, QueueFacts DEF SelfSend
  <1>4. CASE Packet
    BY <1>4, Stutters DEF Packet
  <1>5. CASE Worker
    BY <1>5, Stutters DEF Worker, sendEvent, WorkerStops, WorkerEnds
  <1>6. CASE Subscribe
    BY <1>6, LoopMoves, QueueFacts DEF Subscribe
  <1>7. ASSUME NEW q \in Queue, Loop(q) PROVE EventInv'
    <2>1. CASE LoopTakes(q)
      BY <2>1, LoopTakesKeeps
    <2>2. CASE LoopCommands(q)
      BY <2>2, LoopMoves DEF LoopCommands
    <2>3. CASE LoopEnds(q)
      BY <2>3, LoopMoves DEF LoopEnds, EventInv, LoopsOK
    <2> QED
      BY <1>7, <2>1, <2>2, <2>3 DEF Loop
  <1>8. CASE ApiWorker
    BY <1>8, Stutters DEF ApiWorker
  <1>9. CASE Close \/ Closing \/ Running
    BY <1>9, Stutters DEF Close, Closing, ClosePeer, CloseUdp, CloseKernel, Running,
       TrudpEnds, RunEnds
  <1>10. CASE UNCHANGED runVars
    BY <1>10, Stutters DEF runVars
  <1> QED
    BY <1>1, <1>2, <1>3, <1>4, <1>5, <1>6, <1>7, <1>8, <1>9, <1>10 DEF RunNext

\* A loop gets an event in one way only, from its channel.
LEMMA GotNext ==
    EventInv /\ [RunNext]_runVars =>
        [\A q \in Queue, a \in Actor :
            got'[q][a] # got[q][a] =>
               \/ got'[q][a] = got[q][a] + 1
               \/ q # "main" /\ got[q][a] = 0]_got
  <1> SUFFICES ASSUME EventInv, [RunNext]_runVars, got' # got
               PROVE  \A q \in Queue, a \in Actor :
                         got'[q][a] # got[q][a] =>
                            \/ got'[q][a] = got[q][a] + 1
                            \/ q # "main" /\ got[q][a] = 0
    OBVIOUS
  <1>1. PICK p \in Queue : LoopTakes(p)
    <2> USE DEF atQueues
    <2>1. ~Reader
      BY DEF Reader, ReaderStarts, ReaderReads, ReaderTakes, ReaderWakes, ReaderStops,
             ReaderCloses
    <2>2. \A a \in Actor : ~Sending(a)
      BY DEF Sending, SendMain, RLock, SendSub
    <2>3. \A a \in SelfSender : ~SelfSend(a)
      BY DEF SelfSend
    <2>4. ~(Packet \/ Worker \/ ApiWorker \/ Subscribe)
      BY DEF Packet, Worker, sendEvent, WorkerStops, WorkerEnds, ApiWorker, Subscribe
    <2>5. ~(Close \/ Closing \/ Running)
      BY DEF Close, Closing, ClosePeer, CloseUdp, CloseKernel, Running, TrudpEnds,
             RunEnds
    <2>6. \A q \in Queue : ~LoopCommands(q) /\ ~LoopEnds(q)
      BY DEF LoopCommands, LoopEnds
    <2> QED
      BY <2>1, <2>2, <2>3, <2>4, <2>5, <2>6 DEF RunNext, runVars, Loop
  <1>2. PICK a \in Actor, n \in Nat :
          /\ got' = [got EXCEPT ![p][a] = n]
          /\ n = got[p][a] + 1 \/ (p # "main" /\ got[p][a] = 0)
    BY <1>1, LoopTakesNext
  <1>3. got \in [Queue -> [Actor -> Nat]]
    BY DEF EventInv, EventTypeOK
  <1>4. ASSUME NEW q \in Queue, NEW c \in Actor, got'[q][c] # got[q][c]
        PROVE  q = p /\ c = a /\ got'[q][c] = n
    BY <1>2, <1>3, <1>4
  <1> QED
    BY <1>2, <1>4

\* The user's loop gets every event of a goroutine, and a subscriber every event from
\* its first one on, in the order in which it was sent (event.send and the loops that
\* read its channels): for any number of senders and subscribers.
THEOREM EventsInOrderHolds == RunSpec => EventsInOrder
  <1>1. RunInit => EventInv
    BY EventInit
  <1>2. EventInv /\ [RunNext]_runVars => EventInv'
    BY EventNext
  <1>3. EventInv /\ [RunNext]_runVars =>
          [\A q \in Queue, a \in Actor :
              got'[q][a] # got[q][a] =>
                 \/ got'[q][a] = got[q][a] + 1
                 \/ q # "main" /\ got[q][a] = 0]_got
    BY GotNext
  <1> QED
    BY <1>1, <1>2, <1>3, PTL DEF RunSpec, EventsInOrder
==============================================================================
