----------------------------- MODULE RhostProofs -----------------------------
(***************************************************************************)
(* The reader never loses the connection to the r-host without noticing    *)
(* it, if the r-host has ever answered and the runner was waiting; and a   *)
(* cleared flag always has somebody who wakes the runner. For every number *)
(* of channels and events.                                                 *)
(***************************************************************************)
EXTENDS Rhost, TLAPS

\* EvDisconnected of channel t is among the events of s.
Noted(s, t) ==
    \E i \in DOMAIN s.events :
        s.events[i] = [type |-> "Disconnected", tcd |-> t]

\* Channel t of s has answered and was lost.
Gone(s, t) == t \in s.heard /\ s.chan # t

TrudpType == [kernel : {"on", "closing", "stopping", "off"},
              chan : Tcd \cup {0}, created : 0 .. MaxChannel,
              heard : SUBSET Tcd, events : Seq(Event)]

TrudpOK(s) == s \in TrudpType /\ s.chan <= s.created

\* From state s of trudp to state u no channel is lost without an event, and
\* no event is taken.
Keeps(s, u) ==
    /\ TrudpOK(u)
    /\ s.created <= u.created
    /\ \A t \in Tcd : Noted(s, t) => Noted(u, t)
    /\ \A t \in Tcd : t <= s.created /\ Gone(u, t) => Gone(s, t) \/ Noted(u, t)

LEMMA AppendNotes ==
    ASSUME NEW q \in Seq(Event), NEW e \in Event
    PROVE  /\ Append(q, e) \in Seq(Event)
           /\ \A d \in Event : (\E i \in DOMAIN q : q[i] = d)
                  => \E i \in DOMAIN Append(q, e) : Append(q, e)[i] = d
           /\ \E i \in DOMAIN Append(q, e) : Append(q, e)[i] = e
  <1>1. /\ Append(q, e) \in Seq(Event)
        /\ Len(Append(q, e)) = Len(q) + 1
        /\ Len(q) \in Nat
        /\ \A i \in 1 .. Len(q) : Append(q, e)[i] = q[i]
        /\ Append(q, e)[Len(q) + 1] = e
        /\ DOMAIN q = 1 .. Len(q)
        /\ DOMAIN Append(q, e) = 1 .. Len(q) + 1
    <2> HIDE DEF Event
    <2> QED  OBVIOUS
  <1>2. Len(q) + 1 \in 1 .. Len(q) + 1
    BY <1>1
  <1>3. 1 .. Len(q) \subseteq 1 .. Len(q) + 1
    BY <1>1
  <1> QED  BY <1>1, <1>2, <1>3, Zenon

LEMMA AppendKeeps ==
    ASSUME NEW q \in Seq(Event), NEW e \in Event, NEW d \in Event,
           \E i \in DOMAIN q : q[i] = d
    PROVE  \E i \in DOMAIN Append(q, e) : Append(q, e)[i] = d
  <1>1. \A x \in Event : (\E i \in DOMAIN q : q[i] = x)
                => \E i \in DOMAIN Append(q, e) : Append(q, e)[i] = x
    BY AppendNotes
  <1> QED  BY <1>1, Zenon

\* Taking the first event takes no other one.
LEMMA TailNotes ==
    ASSUME NEW q \in Seq(Event), q # <<>>, NEW d,
           \E i \in DOMAIN q : q[i] = d, d # Head(q)
    PROVE  \E i \in DOMAIN Tail(q) : Tail(q)[i] = d
  <1>1. PICK i \in DOMAIN q : q[i] = d
    OBVIOUS
  <1>2. /\ Len(q) \in Nat /\ i \in 1 .. Len(q)
        /\ Head(q) = q[1]
        /\ Tail(q) \in Seq(Event) /\ Len(Tail(q)) = Len(q) - 1
        /\ DOMAIN Tail(q) = 1 .. Len(q) - 1
        /\ \A j \in 1 .. Len(q) - 1 : Tail(q)[j] = q[j + 1]
    <2> HIDE DEF Event
    <2> QED  BY <1>1
  <1>3. i # 1
    BY <1>1, <1>2
  <1>4. i - 1 \in 1 .. Len(q) - 1 /\ (i - 1) + 1 = i
    BY <1>2, <1>3
  <1>5. Tail(q)[i - 1] = d
    BY <1>1, <1>2, <1>4
  <1> QED  BY <1>2, <1>4, <1>5, Zenon

LEMMA DestroyKeeps ==
    ASSUME NEW s, TrudpOK(s), NEW t \in Tcd \cup {0}
    PROVE  Keeps(s, destroy(s, t))
  <1>1. CASE s.chan # t
    <2>1. destroy(s, t) = s /\ s.created \in Nat
      BY <1>1 DEF destroy, TrudpOK, TrudpType
    <2> QED  BY <2>1 DEF Keeps
  <1>2. CASE s.chan = t
    <2> DEFINE e == [type |-> "Disconnected", tcd |-> t]
               u == destroy(s, t)
    <2>1. /\ s.events \in Seq(Event) /\ s.heard \subseteq Tcd
          /\ s.created \in 0 .. MaxChannel
      BY DEF TrudpOK, TrudpType
    <2>2. CASE t \in s.heard
      <3>1. u = [s EXCEPT !.chan = 0, !.events = Append(s.events, e)]
        BY <1>2, <2>2 DEF destroy
      <3>2. /\ u.events = Append(s.events, e) /\ u.heard = s.heard
            /\ u.created = s.created /\ u.chan = 0
        BY <3>1 DEF TrudpOK, TrudpType
      <3>3. e \in Event
        BY <2>1, <2>2 DEF Event
      <3>4. TrudpOK(u)
        <4>1. Append(s.events, e) \in Seq(Event)
          BY <2>1, <3>3, AppendNotes
        <4>2. u \in TrudpType
          BY <3>1, <4>1 DEF TrudpOK, TrudpType
        <4> QED  BY <2>1, <3>2, <4>2 DEF TrudpOK
      <3>5. \A r \in Tcd : Noted(s, r) => Noted(u, r)
        <4> SUFFICES ASSUME NEW r \in Tcd, Noted(s, r)
                     PROVE  Noted(u, r)
          OBVIOUS
        <4>1. [type |-> "Disconnected", tcd |-> r] \in Event
          BY DEF Event
        <4> DEFINE d == [type |-> "Disconnected", tcd |-> r]
        <4>2. \E i \in DOMAIN s.events : s.events[i] = d
          BY DEF Noted
        <4> HIDE DEF d, e
        <4>3. d \in Event /\ s.events \in Seq(Event)
          BY <2>1, <4>1 DEF d
        <4>4. \E i \in DOMAIN Append(s.events, e) : Append(s.events, e)[i] = d
          BY <3>3, <4>2, <4>3, AppendKeeps, Zenon
        <4> QED  BY <3>2, <4>4 DEF Noted, d, e
      <3>6. Noted(u, t)
        BY <2>1, <3>2, <3>3, AppendNotes DEF Noted
      <3>7. \A r \in Tcd : Gone(u, r) => Gone(s, r) \/ Noted(u, r)
        BY <1>2, <3>2, <3>6 DEF Gone
      <3> QED  BY <2>1, <3>2, <3>4, <3>5, <3>7 DEF Keeps
    <2>3. CASE t \notin s.heard
      <3>1. u = [s EXCEPT !.chan = 0]
        BY <1>2, <2>3 DEF destroy, TrudpOK, TrudpType
      <3>2. /\ u.events = s.events /\ u.heard = s.heard
            /\ u.created = s.created /\ u.chan = 0
        BY <3>1 DEF TrudpOK, TrudpType
      <3>3. TrudpOK(u)
        BY <2>1, <3>1, <3>2 DEF TrudpOK, TrudpType
      <3> QED  BY <1>2, <2>1, <2>3, <3>2, <3>3 DEF Keeps, Gone, Noted
    <2> QED  BY <2>2, <2>3
  <1> QED  BY <1>1, <1>2

\* A channel is opened, or a packet comes on an open one, with an event or not.
LEMMA NewKeeps ==
    ASSUME NEW s, TrudpOK(s), s.chan # 0 \/ s.created < MaxChannel
    PROVE  /\ Keeps(s, newChannelData(s))
           /\ newChannelData(s).chan \in Tcd
           /\ newChannelData(s).heard = s.heard
  <1>1. CASE s.chan # 0
    BY <1>1 DEF newChannelData, Keeps, TrudpOK, TrudpType
  <1>2. CASE s.chan = 0
    <2> DEFINE u == newChannelData(s)
    <2>1. u = [s EXCEPT !.chan = s.created + 1, !.created = s.created + 1]
      BY <1>2 DEF newChannelData, TrudpOK, TrudpType
    <2>2. /\ u.events = s.events /\ u.heard = s.heard
          /\ u.created = s.created + 1 /\ u.chan = s.created + 1
      BY <2>1 DEF TrudpOK, TrudpType
    <2>3. s.created + 1 \in Tcd /\ s.created \in Nat
      BY <1>2, RhostAssumption DEF TrudpOK, TrudpType, Tcd
    <2>4. TrudpOK(u)
      <3>1. s.created + 1 \in 0 .. MaxChannel
        BY <2>3, RhostAssumption DEF Tcd
      <3>2. u \in TrudpType
        BY <2>1, <2>3, <3>1 DEF TrudpOK, TrudpType
      <3> QED  BY <2>2, <3>1, <3>2 DEF TrudpOK
    <2>5. s.chan \notin Tcd
      BY <1>2 DEF Tcd
    <2> QED  BY <2>2, <2>3, <2>4, <2>5 DEF Keeps, Gone, Noted
  <1> QED  BY <1>1, <1>2

LEMMA KeepsTransitive ==
    ASSUME NEW s, NEW u, NEW w, TrudpOK(s), Keeps(s, u), Keeps(u, w)
    PROVE  Keeps(s, w)
  <1>1. s.created \in Nat /\ u.created \in Nat /\ w.created \in Nat
    BY DEF Keeps, TrudpOK, TrudpType
  <1>2. \A t \in Tcd : t \in Nat
    BY DEF Tcd
  <1> QED  BY <1>1, <1>2 DEF Keeps

\* The reader takes an event that is not EvDisconnected.
LEMMA TailKeeps ==
    ASSUME NEW s, TrudpOK(s), s.events # <<>>,
           Head(s.events).type # "Disconnected"
    PROVE  Keeps(s, [s EXCEPT !.events = Tail(s.events)])
  <1> DEFINE u == [s EXCEPT !.events = Tail(s.events)]
  <1>1. s.events \in Seq(Event) /\ Tail(s.events) \in Seq(Event)
    BY DEF TrudpOK, TrudpType
  <1>2. /\ u.events = Tail(s.events) /\ u.heard = s.heard
        /\ u.created = s.created /\ u.chan = s.chan
    BY DEF TrudpOK, TrudpType
  <1>3. TrudpOK(u) /\ s.created \in Nat
    BY <1>1, <1>2 DEF TrudpOK, TrudpType
  <1>4. ASSUME NEW t \in Tcd, Noted(s, t)
        PROVE  Noted(u, t)
    <2> DEFINE d == [type |-> "Disconnected", tcd |-> t]
    <2>1. \E i \in DOMAIN s.events : s.events[i] = d
      BY <1>4 DEF Noted
    <2>2. d # Head(s.events)
      OBVIOUS
    <2> HIDE DEF d
    <2>3. \E i \in DOMAIN Tail(s.events) : Tail(s.events)[i] = d
      BY <1>1, <2>1, <2>2, TailNotes
    <2> QED  BY <1>2, <2>3 DEF Noted, d
  <1>5. \A t \in Tcd : Noted(s, t) => Noted(u, t)
    BY <1>4
  <1>6. s.created <= u.created
    BY <1>2, <1>3
  <1>7. \A t \in Tcd : Gone(u, t) => Gone(s, t)
    BY <1>2 DEF Gone
  <1> HIDE DEF u
  <1>8. Keeps(s, u)
    BY <1>3, <1>5, <1>6, <1>7 DEF Keeps
  <1> QED  BY <1>8 DEF u

-----------------------------------------------------------------------------
(* The inductive invariant *)

\* Channel objects are numbered in the order in which they are made, so that a
\* lost one never comes back.
Numbered ==
    /\ trudp.chan <= trudp.created
    /\ rhost.tcd <= trudp.created
    /\ answer <= trudp.created

\* The counter of the wait group is only up while the runner waits.
Counter == pc["runner"] # "wait" => rhost.wg = 0

Closing == pc["closer"] # "none" => ~running

RunnerRuns == pc["runner"] # "ended" => rhost.running

\* The runner is about to wait or waits.
Armed == pc["runner"] = "add" \/ Waiting

Waker == pc["reader"] = "done" \/ pc["closer"] \in {"stopDone", "destroyDone"}

FlagArmed == Armed /\ ~rhost.connected /\ ~panicked => Waker

\* Until the runner waits, the loss of its channel is among the events or was
\* read too early.
Unread(t) == Gone(trudp, t) => Noted(trudp, t) \/ t \in early

Before ==
    /\ pc["runner"] = "asked" => Unread(answer)
    /\ pc["runner"] \in {"write", "written"} => Unread(rhost.tcd)

LossArmed ==
    Armed /\ running /\ ~panicked /\ Gone(trudp, rhost.tcd)
          /\ rhost.tcd \notin early =>
        \/ pc["reader"] \in {"clear", "done"}
        \/ Noted(trudp, rhost.tcd) /\ rhost.connected

Inv ==
    /\ TypeOK /\ Numbered /\ Counter /\ Closing /\ RunnerRuns
    /\ FlagArmed /\ Before /\ LossArmed

LEMMA InvInit == Init => Inv
  <1> SUFFICES ASSUME Init
               PROVE  Inv
    OBVIOUS
  <1>1. TypeOK
    <2>1. <<>> \in Seq(Event) /\ 0 \in 0 .. MaxChannel
      BY RhostAssumption
    <2>2. trudp \in TrudpType
      BY <2>1 DEF Init, TrudpType
    <2>3. rhost \in [tcd : Tcd \cup {0}, running : BOOLEAN,
                    connected : BOOLEAN, wg : 0 .. 1]
      BY DEF Init
    <2> QED  BY <2>2, <2>3 DEF Init, TypeOK, TrudpType
  <1> QED  BY <1>1 DEF Init, Inv, Numbered, Counter, Closing, RunnerRuns, Armed,
                       Waiting, FlagArmed, Before, LossArmed

\* What the types say of the parts the invariant compares.
LEMMA Types ==
    ASSUME TypeOK
    PROVE  /\ trudp.created \in Nat /\ rhost.tcd \in Tcd \cup {0}
           /\ answer \in Tcd \cup {0} /\ arp.tcd \in Tcd \cup {0}
           /\ trudp.heard \subseteq Tcd /\ trudp.events \in Seq(Event)
           /\ trudp.chan \in Tcd \cup {0} /\ Tcd \subseteq Nat
  BY DEF TypeOK, Tcd

\* A step that lets the runner be, keeps the channels' events, and takes away
\* nobody who is about to wake the runner.
LEMMA QuietStep ==
    ASSUME Inv, TypeOK', ~panicked, Keeps(trudp, trudp'),
           UNCHANGED <<rhost, answer, early>>,
           running' => running,
           pc'["runner"] = pc["runner"],
           pc["reader"] \in {"clear", "done"} => pc'["reader"] = pc["reader"],
           pc["closer"] \in {"stopDone", "destroyDone"}
               => pc'["closer"] = pc["closer"],
           pc'["closer"] # "none" => ~running'
    PROVE  Inv'
  <1> USE DEF Inv
  <1>1. Numbered'
    BY Types DEF Keeps, TrudpOK, TrudpType, Numbered
  <1>2. Counter' /\ Closing' /\ RunnerRuns'
    BY DEF Counter, Closing, RunnerRuns
  <1>3. Waker => Waker'
    BY DEF Waker
  <1>4. FlagArmed'
    BY <1>3 DEF FlagArmed, Armed, Waiting
  <1>5. ASSUME NEW t, t \in Tcd \cup {0}, t <= trudp.created
        PROVE  Gone(trudp', t) => (Gone(trudp, t) \/ Noted(trudp', t))
    <2>1. trudp'.heard \subseteq Tcd
      BY DEF Keeps, TrudpOK, TrudpType
    <2> QED  BY <1>5, <2>1 DEF Keeps, Gone
  <1>6. \A t \in Tcd : Noted(trudp, t) => Noted(trudp', t)
    BY DEF Keeps
  <1>7. \A t : Gone(trudp, t) => t \in Tcd
    BY Types DEF Gone
  <1>8. ASSUME NEW t, t \in Tcd \cup {0}, t <= trudp.created, Unread(t)
        PROVE  Unread(t)'
    BY <1>5, <1>6, <1>7, <1>8 DEF Unread
  <1>9. Before'
    BY <1>8, Types DEF Before, Numbered
  <1>10. LossArmed'
    <2> SUFFICES ASSUME Armed, running, Gone(trudp', rhost.tcd),
                        rhost.tcd \notin early,
                        pc'["reader"] \notin {"clear", "done"}
                 PROVE  Noted(trudp', rhost.tcd) /\ rhost.connected
      BY DEF LossArmed, Armed, Waiting
    <2>1. pc["reader"] \notin {"clear", "done"}
      OBVIOUS
    <2>2. rhost.connected
      BY <2>1 DEF FlagArmed, Waker, Closing
    <2>3. Gone(trudp, rhost.tcd) \/ Noted(trudp', rhost.tcd)
      BY <1>5, Types DEF Numbered
    <2>4. Gone(trudp, rhost.tcd) => Noted(trudp, rhost.tcd)
      BY <2>1 DEF LossArmed
    <2> QED  BY <1>6, <1>7, <2>2, <2>3, <2>4
  <1> QED  BY <1>1, <1>2, <1>4, <1>9, <1>10

-----------------------------------------------------------------------------
(* Type correctness of the steps *)

Pc == [runner : {"connect", "asking", "asked", "write", "written", "add",
                 "wait", "sleep", "end", "ended"},
       reader : {"select", "clear", "done", "delete", "ended"},
       closer : {"none", "stop", "stopClear", "stopDone", "leave",
                 "destroy", "destroyClear", "destroyDone", "tdClose",
                 "closed"}]

\* What a goroutine's step does to pc.
LEMMA GoRunner ==
    ASSUME pc \in Pc, NEW from, NEW to, Go("runner", from, to),
           to \in {"connect", "asking", "asked", "write", "written", "add",
                   "wait", "sleep", "end", "ended"}
    PROVE  /\ pc' \in Pc /\ pc["runner"] = from /\ pc'["runner"] = to
           /\ pc'["reader"] = pc["reader"] /\ pc'["closer"] = pc["closer"]
           /\ ~panicked
  BY DEF Go, Pc

LEMMA GoReader ==
    ASSUME pc \in Pc, NEW from, NEW to, Go("reader", from, to),
           to \in {"select", "clear", "done", "delete", "ended"}
    PROVE  /\ pc' \in Pc /\ pc["reader"] = from /\ pc'["reader"] = to
           /\ pc'["runner"] = pc["runner"] /\ pc'["closer"] = pc["closer"]
           /\ ~panicked
  BY DEF Go, Pc

LEMMA GoCloser ==
    ASSUME pc \in Pc, NEW from, NEW to, Go("closer", from, to),
           to \in {"none", "stop", "stopClear", "stopDone", "leave", "destroy",
                   "destroyClear", "destroyDone", "tdClose", "closed"}
    PROVE  /\ pc' \in Pc /\ pc["closer"] = from /\ pc'["closer"] = to
           /\ pc'["runner"] = pc["runner"] /\ pc'["reader"] = pc["reader"]
           /\ ~panicked
  BY DEF Go, Pc

\* TypeOK in the parts that have a name here.
LEMMA TypeParts ==
    TypeOK <=> /\ running \in BOOLEAN
               /\ rhost \in [tcd : Tcd \cup {0}, running : BOOLEAN,
                             connected : BOOLEAN, wg : 0 .. 1]
               /\ pc \in Pc
               /\ answer \in Tcd \cup {0}
               /\ trudp \in TrudpType
               /\ arp \in [tcd : Tcd \cup {0}, mode : {0, 1}]
               /\ early \subseteq Tcd
               /\ panicked \in BOOLEAN
  BY DEF TypeOK, Pc, TrudpType

-----------------------------------------------------------------------------
(* The steps of trudp *)

LEMMA TrudpIsOK == Inv => TrudpOK(trudp) /\ Keeps(trudp, trudp)
  <1> SUFFICES ASSUME Inv
               PROVE  TrudpOK(trudp) /\ Keeps(trudp, trudp)
    OBVIOUS
  <1>1. TrudpOK(trudp)
    BY TypeParts DEF Inv, Numbered, TrudpOK
  <1>2. trudp.created \in Nat
    BY Types DEF Inv
  <1> QED  BY <1>1, <1>2 DEF Keeps

\* Only trudp changes.
LEMMA TrudpStep ==
    ASSUME Inv, Keeps(trudp, trudp'), UNCHANGED <<rest, pc>>, ~panicked,
           panicked' \in BOOLEAN
    PROVE  Inv'
  <1>1. TypeOK'
    <2>1. trudp' \in TrudpType
      BY DEF Keeps, TrudpOK
    <2> QED  BY <2>1, TypeParts DEF Inv, TypeOK, TrudpType, rest
  <1>2. pc'["closer"] # "none" => ~running'
    BY DEF Inv, Closing, rest
  <1> QED  BY <1>1, <1>2, QuietStep DEF rest

\* An event of an open channel.
LEMMA EventKeeps ==
    ASSUME NEW s, TrudpOK(s), s.chan \in Tcd, NEW type \in {"Data", "Bye"}
    PROVE  Keeps(s, [s EXCEPT !.heard = @ \cup {s.chan},
                              !.events = Append(@, [type |-> type,
                                                    tcd |-> s.chan])])
  <1> DEFINE e == [type |-> type, tcd |-> s.chan]
             u == [s EXCEPT !.heard = s.heard \cup {s.chan},
                            !.events = Append(s.events, e)]
  <1>1. s.events \in Seq(Event) /\ e \in Event /\ s.heard \subseteq Tcd
    BY DEF TrudpOK, TrudpType, Event
  <1>2. Append(s.events, e) \in Seq(Event)
    BY <1>1, AppendNotes
  <1>3. /\ u.events = Append(s.events, e) /\ u.heard = s.heard \cup {s.chan}
        /\ u.created = s.created /\ u.chan = s.chan
    BY DEF TrudpOK, TrudpType
  <1>4. TrudpOK(u) /\ s.created \in Nat
    <2>1. ASSUME NEW h \in SUBSET Tcd, NEW q \in Seq(Event)
          PROVE  [s EXCEPT !.heard = h, !.events = q] \in TrudpType
      BY DEF TrudpOK, TrudpType
    <2>2. s.heard \cup {s.chan} \in SUBSET Tcd
      BY <1>1
    <2>3. u \in TrudpType
      BY <1>2, <2>1, <2>2
    <2> QED  BY <1>3, <2>3 DEF TrudpOK, TrudpType
  <1>5. ASSUME NEW t \in Tcd, Noted(s, t)
        PROVE  Noted(u, t)
    <2> DEFINE d == [type |-> "Disconnected", tcd |-> t]
    <2>1. \E i \in DOMAIN s.events : s.events[i] = d
      BY <1>5 DEF Noted
    <2>2. d \in Event
      BY DEF Event
    <2> HIDE DEF d, e
    <2>3. \E i \in DOMAIN Append(s.events, e) : Append(s.events, e)[i] = d
      BY <1>1, <2>1, <2>2, AppendKeeps, Zenon
    <2> QED  BY <1>3, <2>3 DEF Noted, d
  <1>6. \A t \in Tcd : Noted(s, t) => Noted(u, t)
    BY <1>5
  <1>7. \A t \in Tcd : Gone(u, t) => Gone(s, t)
    BY <1>3 DEF Gone
  <1>8. s.created <= u.created
    BY <1>3, <1>4
  <1> HIDE DEF u
  <1>9. Keeps(s, u)
    BY <1>4, <1>6, <1>7, <1>8 DEF Keeps
  <1> QED  BY <1>9 DEF u, e

LEMMA InvHear == Inv /\ Hear => Inv'
  <1> SUFFICES ASSUME Inv, Hear
               PROVE  Inv'
    OBVIOUS
  <1>1. TrudpOK(trudp)
    BY TrudpIsOK
  <1>2. Keeps(trudp, trudp')
    <2>1. CASE /\ trudp.chan # 0
               /\ trudp' = [trudp EXCEPT !.heard = @ \cup {trudp.chan}]
      <3>1. /\ trudp'.heard = trudp.heard \cup {trudp.chan}
            /\ trudp'.events = trudp.events /\ trudp'.created = trudp.created
            /\ trudp'.chan = trudp.chan /\ trudp.chan \in Tcd
        BY <1>1, <2>1 DEF TrudpOK, TrudpType
      <3>2. TrudpOK(trudp') /\ trudp.created \in Nat
        BY <1>1, <2>1, <3>1 DEF TrudpOK, TrudpType
      <3> QED  BY <3>1, <3>2 DEF Keeps, Gone, Noted
    <2>2. CASE /\ MayOpen
               /\ \E type \in {"Data", "Bye"} :
                     LET s == newChannelData(trudp) IN
                     trudp' = [s EXCEPT !.heard = @ \cup {s.chan},
                                        !.events = Append(@, [type |-> type,
                                                              tcd |-> s.chan])]
      <3> DEFINE s == newChannelData(trudp)
      <3>1. Keeps(trudp, s) /\ s.chan \in Tcd
        BY <1>1, <2>2, NewKeeps DEF MayOpen
      <3>2. TrudpOK(s)
        BY <3>1 DEF Keeps
      <3>3. PICK type \in {"Data", "Bye"} :
              trudp' = [s EXCEPT !.heard = @ \cup {s.chan},
                                 !.events = Append(@, [type |-> type,
                                                       tcd |-> s.chan])]
        BY <2>2
      <3> HIDE DEF s
      <3>4. Keeps(s, trudp')
        BY <3>1, <3>2, <3>3, EventKeeps
      <3> QED  BY <1>1, <3>1, <3>4, KeepsTransitive
    <2> QED  BY <2>1, <2>2 DEF Hear
  <1> QED  BY <1>2, TrudpStep, TypeParts DEF Hear, Inv

\* destroy and a change of the kernel's state.
LEMMA KernelKeeps ==
    ASSUME NEW s, TrudpOK(s), NEW k \in {"on", "closing", "stopping", "off"}
    PROVE  Keeps(s, [s EXCEPT !.kernel = k])
  <1> DEFINE u == [s EXCEPT !.kernel = k]
  <1>1. /\ u.events = s.events /\ u.heard = s.heard /\ u.created = s.created
        /\ u.chan = s.chan /\ s.created \in Nat
    BY DEF TrudpOK, TrudpType
  <1>2. TrudpOK(u)
    BY <1>1 DEF TrudpOK, TrudpType
  <1> QED  BY <1>1, <1>2 DEF Keeps, Gone, Noted

LEMMA InvLose == Inv /\ (Lose \/ Stopping \/ Stopped) => Inv'
  <1> SUFFICES ASSUME Inv, Lose \/ Stopping \/ Stopped
               PROVE  Inv'
    OBVIOUS
  <1>1. TrudpOK(trudp) /\ trudp.chan \in Tcd \cup {0}
    BY TrudpIsOK, Types DEF Inv
  <1>2. CASE Lose
    BY <1>1, <1>2, DestroyKeeps, TrudpStep, TypeParts DEF Lose, Inv
  <1>3. CASE Stopping
    BY <1>1, <1>3, KernelKeeps, TrudpStep, TypeParts DEF Stopping, Inv
  <1>4. CASE Stopped
    <2> DEFINE s == destroy(trudp, trudp.chan)
    <2>1. Keeps(trudp, s)
      BY <1>1, DestroyKeeps
    <2>2. TrudpOK(s)
      BY <2>1 DEF Keeps
    <2>3. trudp' = [s EXCEPT !.kernel = "off"]
      BY <1>4 DEF Stopped
    <2> HIDE DEF s
    <2>4. Keeps(trudp, trudp')
      BY <1>1, <2>1, <2>2, <2>3, KernelKeeps, KeepsTransitive
    <2> QED  BY <1>4, <2>4, TrudpStep DEF Stopped
  <1> QED  BY <1>2, <1>3, <1>4

LEMMA InvServe == Inv /\ Serve => Inv'
  <1> SUFFICES ASSUME Inv, Serve
               PROVE  Inv'
    OBVIOUS
  <1> USE DEF Inv
  <1>1. TypeOK /\ TrudpOK(trudp)
    BY TrudpIsOK
  <1>2. /\ Keeps(trudp, trudp') /\ trudp'.chan \in Tcd
        /\ answer' = trudp'.chan /\ TrudpOK(trudp')
    BY <1>1, NewKeeps DEF Serve, MayOpen, Keeps
  <1>3. /\ pc' \in Pc /\ pc["runner"] = "asking" /\ pc'["runner"] = "asked"
        /\ pc'["reader"] = pc["reader"] /\ pc'["closer"] = pc["closer"]
        /\ ~panicked
    BY <1>1, TypeParts, GoRunner DEF Serve
  <1>4. TypeOK'
    <2>1. trudp' \in TrudpType
      BY <1>2 DEF TrudpOK
    <2> QED  BY <1>1, <1>2, <1>3, <2>1, TypeParts DEF Serve, TypeOK, Pc, TrudpType
  <1>5. Numbered'
    BY <1>1, <1>2, Types DEF Numbered, Serve, Keeps, TrudpOK, TrudpType
  <1>6. Counter' /\ Closing' /\ RunnerRuns'
    BY <1>3 DEF Serve, Counter, Closing, RunnerRuns
  <1>7. FlagArmed' /\ LossArmed'
    BY <1>3 DEF FlagArmed, LossArmed, Armed, Waiting
  <1>8. Before'
    BY <1>2, <1>3 DEF Before, Unread, Gone
  <1> QED  BY <1>4, <1>5, <1>6, <1>7, <1>8

-----------------------------------------------------------------------------
(* The steps of the runner *)

LEMMA InvRunner == Inv /\ run => Inv'
  <1> SUFFICES ASSUME Inv, run
               PROVE  Inv'
    OBVIOUS
  <1> USE DEF Inv
  <1>1. TypeOK /\ pc \in Pc
    BY TypeParts
  <1>2. CASE Ask
    <2>1. /\ pc' \in Pc /\ pc["runner"] \in {"connect", "sleep"}
          /\ pc'["runner"] \in {"connect", "asking"}
          /\ pc'["reader"] = pc["reader"] /\ pc'["closer"] = pc["closer"]
      BY <1>1, <1>2, GoRunner DEF Ask
    <2>2. TypeOK'
      BY <1>2, <2>1, TypeParts DEF Ask, rest, TypeOK, Pc
    <2> QED  BY <1>2, <2>1, <2>2 DEF Ask, rest, Numbered, Counter, Closing,
              RunnerRuns, FlagArmed, LossArmed, Armed, Waiting, Before
  <1>3. CASE Asked
    <2>1. /\ pc' \in Pc /\ pc["runner"] = "asked" /\ pc'["runner"] = "write"
          /\ pc'["reader"] = pc["reader"] /\ pc'["closer"] = pc["closer"]
      BY <1>1, <1>3, GoRunner DEF Asked
    <2>2. /\ rhost'.tcd = answer /\ rhost'.wg = rhost.wg
          /\ rhost'.running = rhost.running
      BY <1>1, <1>3, TypeParts DEF Asked
    <2>3. TypeOK'
      BY <1>1, <1>3, <2>1, TypeParts DEF Asked, TypeOK, Pc
    <2>4. Unread(answer) => Unread(rhost.tcd)'
      BY <1>3, <2>2 DEF Asked, Unread, Gone, Noted
    <2> QED  BY <1>3, <2>1, <2>2, <2>3, <2>4 DEF Asked, Numbered, Counter,
              Closing, RunnerRuns, FlagArmed, LossArmed, Armed, Waiting, Before
  <1>4. CASE Write
    <2>1. /\ pc' \in Pc /\ pc["runner"] = "write" /\ pc'["runner"] = "written"
          /\ pc'["reader"] = pc["reader"] /\ pc'["closer"] = pc["closer"]
      BY <1>1, <1>4, GoRunner DEF Write
    <2>2. TypeOK'
      BY <1>4, <2>1, TypeParts DEF Write, rest, TypeOK, Pc
    <2> QED  BY <1>4, <2>1, <2>2 DEF Write, rest, Numbered, Counter, Closing,
              RunnerRuns, FlagArmed, LossArmed, Armed, Waiting, Before, Unread,
              Gone, Noted
  <1>5. CASE Connected
    <2>1. /\ pc' \in Pc /\ pc["runner"] = "written" /\ pc'["runner"] = "add"
          /\ pc'["reader"] = pc["reader"] /\ pc'["closer"] = pc["closer"]
      BY <1>1, <1>5, GoRunner DEF Connected
    <2>2. /\ rhost'.tcd = rhost.tcd /\ rhost'.wg = rhost.wg
          /\ rhost'.running = rhost.running /\ rhost'.connected
      BY <1>1, <1>5, TypeParts DEF Connected
    <2>3. TypeOK'
      BY <1>1, <1>5, <2>1, TypeParts DEF Connected, TypeOK, Pc
    <2>4. LossArmed'
      BY <1>5, <2>1, <2>2 DEF Connected, LossArmed, Before, Unread, Gone, Noted
    <2> QED  BY <1>5, <2>1, <2>2, <2>3, <2>4 DEF Connected, Numbered, Counter,
              Closing, RunnerRuns, FlagArmed, Armed, Waiting, Before
  <1>6. CASE Add
    <2>1. /\ pc' \in Pc /\ pc["runner"] = "add" /\ pc'["runner"] = "wait"
          /\ pc'["reader"] = pc["reader"] /\ pc'["closer"] = pc["closer"]
      BY <1>1, <1>6, GoRunner DEF Add
    <2>2. /\ rhost'.tcd = rhost.tcd /\ rhost.wg = 0 /\ rhost'.wg = 1
          /\ rhost'.running = rhost.running
          /\ rhost'.connected = rhost.connected
      BY <1>1, <1>6, <2>1, TypeParts DEF Add, Counter
    <2>3. rhost' \in [tcd : Tcd \cup {0}, running : BOOLEAN,
                     connected : BOOLEAN, wg : 0 .. 1]
      BY <1>1, <1>6, <2>2, TypeParts DEF Add
    <2>4. TypeOK'
      BY <1>1, <1>6, <2>1, <2>3, TypeParts DEF Add, TypeOK, Pc
    <2>5. LossArmed' /\ FlagArmed'
      BY <1>6, <2>1, <2>2 DEF Add, LossArmed, FlagArmed, Armed, Waker, Gone, Noted
    <2> QED  BY <1>6, <2>1, <2>2, <2>4, <2>5 DEF Add, Numbered, Counter,
              Closing, RunnerRuns, Before
  <1>7. CASE Woken
    <2>1. /\ pc' \in Pc /\ pc["runner"] = "wait"
          /\ pc'["runner"] \in {"sleep", "end"}
          /\ pc'["reader"] = pc["reader"] /\ pc'["closer"] = pc["closer"]
      BY <1>1, <1>7, GoRunner DEF Woken
    <2>2. TypeOK'
      BY <1>7, <2>1, TypeParts DEF Woken, rest, TypeOK, Pc
    <2> QED  BY <1>7, <2>1, <2>2 DEF Woken, rest, Numbered, Counter, Closing,
              RunnerRuns, FlagArmed, LossArmed, Armed, Waiting, Before
  <1>8. CASE End
    <2>1. /\ pc' \in Pc /\ pc["runner"] = "end" /\ pc'["runner"] = "ended"
          /\ pc'["reader"] = pc["reader"] /\ pc'["closer"] = pc["closer"]
      BY <1>1, <1>8, GoRunner DEF End
    <2>2. /\ rhost'.tcd = rhost.tcd /\ rhost'.wg = rhost.wg
      BY <1>1, <1>8, TypeParts DEF End
    <2>3. TypeOK'
      BY <1>1, <1>8, <2>1, TypeParts DEF End, TypeOK, Pc
    <2> QED  BY <1>8, <2>1, <2>2, <2>3 DEF End, Numbered, Counter,
              Closing, RunnerRuns, FlagArmed, LossArmed, Armed, Waiting, Before
  <1> QED  BY <1>2, <1>3, <1>4, <1>5, <1>6, <1>7, <1>8 DEF run

-----------------------------------------------------------------------------
(* Waking the runner *)

\* Where the steps that wake the runner lead.
LEMMA GoWake ==
    ASSUME pc \in Pc, NEW w \in Wakes, NEW from, NEW to, Go(w[1], from, to),
           <<from, to>> \in {<<w[2], w[3]>>, <<w[3], w[4]>>}
    PROVE  /\ pc' \in Pc /\ pc'["runner"] = pc["runner"] /\ ~panicked
           /\ pc["closer"] = "none" => pc'["closer"] = "none"
           /\ \/ w[1] = "reader" /\ pc["reader"] = from /\ pc'["reader"] = to
                 /\ pc'["closer"] = pc["closer"]
              \/ w[1] = "closer" /\ pc["closer"] = from /\ pc'["closer"] = to
                 /\ pc["closer"] # "none" /\ pc'["reader"] = pc["reader"]
  BY DEF Go, Pc, Wakes

LEMMA InvClear == ASSUME Inv, NEW w \in Wakes, Clear(w) PROVE Inv'
  <1> USE DEF Inv
  <1>1. TypeOK /\ pc \in Pc
    BY TypeParts
  <1>2. /\ pc' \in Pc /\ pc'["runner"] = pc["runner"]
        /\ pc["closer"] = "none" => pc'["closer"] = "none"
        /\ \/ w[1] = "reader" /\ pc["reader"] = w[2] /\ pc'["reader"] = w[3]
              /\ pc'["closer"] = pc["closer"]
           \/ w[1] = "closer" /\ pc["closer"] = w[2] /\ pc'["closer"] = w[3]
              /\ pc["closer"] # "none" /\ pc'["reader"] = pc["reader"]
    BY <1>1, GoWake DEF Clear
  <1>3. /\ rhost'.tcd = rhost.tcd /\ rhost'.wg = rhost.wg
        /\ rhost'.running = rhost.running
    BY <1>1, TypeParts DEF Clear
  <1>4. TypeOK'
    BY <1>1, <1>2, TypeParts DEF Clear, TypeOK, Pc
  <1>5. Waker'
    BY <1>2 DEF Waker, Wakes
  <1>6. running => pc'["reader"] = "done"
    BY <1>2 DEF Closing, Wakes
  <1> QED  BY <1>2, <1>3, <1>4, <1>5, <1>6 DEF Clear, Numbered, Counter, Closing,
            RunnerRuns, FlagArmed, LossArmed, Armed, Waiting, Before, Unread,
            Gone, Noted

LEMMA InvDone == ASSUME Inv, NEW w \in Wakes, Done(w) PROVE Inv'
  <1> USE DEF Inv
  <1>1. TypeOK /\ pc \in Pc
    BY TypeParts
  <1>2. /\ pc' \in Pc /\ pc'["runner"] = pc["runner"]
        /\ pc["closer"] = "none" => pc'["closer"] = "none"
    BY <1>1, GoWake DEF Done
  <1>3. /\ rhost'.tcd = rhost.tcd /\ rhost'.wg = 0
        /\ rhost'.running = rhost.running
        /\ panicked' = (rhost.wg = 0)
    BY <1>1, TypeParts DEF Done
  <1>4. rhost' \in [tcd : Tcd \cup {0}, running : BOOLEAN,
                   connected : BOOLEAN, wg : 0 .. 1]
    BY <1>1, TypeParts DEF Done
  <1>5. TypeOK'
    BY <1>1, <1>2, <1>3, <1>4, TypeParts DEF Done, TypeOK, Pc
  <1>6. ~panicked' => ~Armed'
    <2>1. ~panicked' => rhost.wg # 0
      BY <1>3, Zenon
    <2>2. ~panicked' => pc["runner"] = "wait"
      BY <2>1 DEF Counter
    <2> QED  BY <1>2, <1>3, <2>2 DEF Armed, Waiting
  <1> QED  BY <1>2, <1>3, <1>5, <1>6 DEF Done, Numbered, Counter, Closing,
            RunnerRuns, FlagArmed, LossArmed, Before, Unread, Gone, Noted

-----------------------------------------------------------------------------
(* The steps of the reader *)

LEMMA InvReadData == Inv /\ ReadData => Inv'
  <1> SUFFICES ASSUME Inv, ReadData
               PROVE  Inv'
    OBVIOUS
  <1>1. TypeOK /\ pc \in Pc /\ TrudpOK(trudp) /\ Closing
    BY TypeParts, TrudpIsOK DEF Inv
  <1> DEFINE e == Head(trudp.events)
             t == peerNew(e.tcd).tcd
             s == [trudp EXCEPT !.events = Tail(@)]
             closed == IF t # e.tcd THEN destroy(s, e.tcd) ELSE s
  <1>2. e \in Event /\ e.tcd \in Tcd /\ trudp.events # <<>>
    <2>1. trudp.events \in Seq(Event) /\ trudp.events # <<>>
      BY <1>1, Types DEF ReadData
    <2>2. e \in Event
      <3> HIDE DEF Event
      <3> QED  BY <2>1
    <2> HIDE DEF e
    <2> QED  BY <2>1, <2>2 DEF Event
  <1>3. arp \in [tcd : Tcd \cup {0}, mode : {0, 1}]
    BY <1>1, TypeParts
  <1>4. peerNew(e.tcd) \in [tcd : Tcd \cup {0}, mode : {0, 1}]
    BY <1>2, <1>3 DEF peerNew
  <1>5. t \in Tcd \cup {0}
    BY <1>4
  <1>6. e.type # "Disconnected"
    BY DEF ReadData
  <1>7. Keeps(trudp, s) /\ TrudpOK(s)
    BY <1>1, <1>2, <1>6, TailKeeps DEF Keeps
  <1> HIDE DEF s
  <1>8. Keeps(trudp, closed) /\ TrudpOK(closed)
    <2>1. Keeps(trudp, destroy(s, e.tcd))
      <3>1. Keeps(s, destroy(s, e.tcd))
        BY <1>2, <1>7, DestroyKeeps
      <3> QED  BY <1>1, <1>7, <3>1, KeepsTransitive
    <2>2. Keeps(trudp, closed)
      BY <1>7, <2>1
    <2> QED  BY <2>2 DEF Keeps
  <1>9. trudp' \in {closed, destroy(closed, t)}
    BY DEF ReadData, s
  <1> HIDE DEF closed, t, e
  <1>10. Keeps(trudp, trudp')
    BY <1>1, <1>5, <1>8, <1>9, DestroyKeeps, KeepsTransitive
  <1>11. arp' \in [tcd : Tcd \cup {0}, mode : {0, 1}]
    <2>1. arp' \in {peerNew(e.tcd), [tcd |-> 0, mode |-> 0]}
      BY DEF ReadData, e
    <2> QED  BY <1>4, <2>1
  <1>12. /\ pc' \in Pc /\ pc["reader"] = "select"
         /\ pc'["runner"] = pc["runner"] /\ pc'["closer"] = pc["closer"]
         /\ ~panicked
    BY <1>1, GoReader DEF ReadData, Again
  <1>13. TypeOK'
    <2>1. trudp' \in TrudpType
      BY <1>10 DEF Keeps, TrudpOK
    <2> QED  BY <1>1, <1>11, <1>12, <2>1, TypeParts
              DEF ReadData, TypeOK, Pc, TrudpType
  <1> QED  BY <1>1, <1>10, <1>12, <1>13, QuietStep DEF ReadData, Closing

LEMMA InvReaderDelete == Inv /\ (ReaderDelete \/ ReaderEnd) => Inv'
  <1> SUFFICES ASSUME Inv, ReaderDelete \/ ReaderEnd
               PROVE  Inv'
    OBVIOUS
  <1>1. TypeOK /\ pc \in Pc /\ TrudpOK(trudp) /\ Closing
    BY TypeParts, TrudpIsOK DEF Inv
  <1>2. /\ pc' \in Pc /\ pc["reader"] \in {"select", "delete"}
        /\ pc'["runner"] = pc["runner"] /\ pc'["closer"] = pc["closer"]
        /\ ~panicked
    BY <1>1, GoReader DEF ReaderDelete, ReaderEnd, Again
  <1>3. Keeps(trudp, trudp')
    BY <1>1, TrudpIsOK, DestroyKeeps, Types DEF ReaderDelete, ReaderEnd, rest
  <1>4. arp' \in [tcd : Tcd \cup {0}, mode : {0, 1}]
    BY <1>1, TypeParts DEF ReaderDelete, ReaderEnd, rest
  <1>5. TypeOK'
    <2>1. trudp' \in TrudpType
      BY <1>3 DEF Keeps, TrudpOK
    <2> QED  BY <1>1, <1>2, <1>4, <2>1, TypeParts
              DEF ReaderDelete, ReaderEnd, rest, TypeOK, Pc, TrudpType
  <1> QED  BY <1>1, <1>2, <1>3, <1>5, QuietStep
            DEF ReaderDelete, ReaderEnd, rest, Closing

\* EvDisconnected: read too early, or the runner is armed and the reader goes on
\* to wake it.
LEMMA InvReadDisconnected == Inv /\ ReadDisconnected => Inv'
  <1> SUFFICES ASSUME Inv, ReadDisconnected
               PROVE  Inv'
    OBVIOUS
  <1> DEFINE e == Head(trudp.events)
  <1>1. TypeOK /\ pc \in Pc /\ trudp \in TrudpType
    BY TypeParts DEF Inv
  <1>2. /\ e \in Event /\ trudp.events \in Seq(Event) /\ trudp.events # <<>>
        /\ Tail(trudp.events) \in Seq(Event)
    <2>1. trudp.events \in Seq(Event) /\ trudp.events # <<>>
      BY <1>1, Types DEF ReadDisconnected
    <2> HIDE DEF Event
    <2> QED  BY <2>1
  <1>3. /\ e.type = "Disconnected" /\ trudp' = [trudp EXCEPT !.events = Tail(@)]
        /\ Go("reader", "select",
              IF mayReconnect(e.tcd) THEN "clear" ELSE "delete")
        /\ early' = IF pc["runner"] \in {"add", "wait"} THEN early
                    ELSE early \cup {e.tcd}
        /\ UNCHANGED <<running, rhost, answer, arp, panicked>>
    BY DEF ReadDisconnected
  <1> HIDE DEF e
  <1>4. e.tcd \in Tcd /\ e = [type |-> "Disconnected", tcd |-> e.tcd]
    BY <1>2, <1>3 DEF Event
  <1>5. /\ pc' \in Pc /\ pc["reader"] = "select"
        /\ pc'["reader"] = (IF mayReconnect(e.tcd) THEN "clear" ELSE "delete")
        /\ pc'["runner"] = pc["runner"] /\ pc'["closer"] = pc["closer"]
        /\ ~panicked
    BY <1>1, <1>3, GoReader
  <1>6. /\ trudp'.events = Tail(trudp.events) /\ trudp'.heard = trudp.heard
        /\ trudp'.chan = trudp.chan /\ trudp'.created = trudp.created
        /\ trudp' \in TrudpType
    BY <1>1, <1>2, <1>3 DEF TrudpType
  <1>7. TypeOK'
    BY <1>1, <1>3, <1>4, <1>5, <1>6, TypeParts DEF TypeOK, Pc, TrudpType
  <1>8. ASSUME NEW t \in Tcd, Noted(trudp, t), t # e.tcd
        PROVE  Noted(trudp', t)
    <2> DEFINE d == [type |-> "Disconnected", tcd |-> t]
    <2>1. \E i \in DOMAIN trudp.events : trudp.events[i] = d
      BY <1>8 DEF Noted
    <2>2. d # Head(trudp.events)
      BY <1>4, <1>8 DEF e
    <2> HIDE DEF d
    <2>3. \E i \in DOMAIN Tail(trudp.events) : Tail(trudp.events)[i] = d
      BY <1>2, <2>1, <2>2, TailNotes
    <2> QED  BY <1>6, <2>3 DEF Noted, d
  <1>9. \A t : Gone(trudp', t) => Gone(trudp, t) /\ t \in Tcd
    BY <1>1, <1>6 DEF Gone, TrudpType
  <1>10. Before'
    <2> SUFFICES ASSUME pc["runner"] \in {"asked", "write", "written"}
                 PROVE  Before'
      BY <1>5 DEF Before
    <2>1. early' = early \cup {e.tcd}
      BY <1>3
    <2>2. \A t : Unread(t) => Unread(t)'
      BY <1>8, <1>9, <2>1 DEF Unread
    <2> QED  BY <1>3, <1>5, <2>2 DEF Inv, Before
  <1>11. FlagArmed'
    BY <1>3, <1>5 DEF Inv, FlagArmed, Armed, Waiting, Waker
  <1>12. LossArmed'
    <2> SUFFICES ASSUME Armed, running, Gone(trudp', rhost.tcd),
                        rhost.tcd \notin early, pc'["reader"] # "clear"
                 PROVE  Noted(trudp', rhost.tcd) /\ rhost.connected
      BY <1>3, <1>5 DEF LossArmed, Armed, Waiting
    <2>1. Noted(trudp, rhost.tcd) /\ rhost.connected
      BY <1>5, <1>9 DEF Inv, LossArmed
    <2>2. rhost.running
      BY DEF Inv, RunnerRuns, Armed, Waiting
    <2>3. rhost.tcd # e.tcd
      BY <1>5, <2>1, <2>2 DEF mayReconnect, isrhost
    <2> QED  BY <1>8, <1>9, <2>1, <2>3
  <1>13. Numbered' /\ Counter' /\ Closing' /\ RunnerRuns'
    BY <1>3, <1>5, <1>6 DEF Inv, Numbered, Counter, Closing, RunnerRuns
  <1> QED  BY <1>7, <1>10, <1>11, <1>12, <1>13 DEF Inv

-----------------------------------------------------------------------------
(* The steps of Close *)

LEMMA InvClose == Inv /\ (CloseBegin \/ Close) => Inv'
  <1> SUFFICES ASSUME Inv, CloseBegin \/ Close
               PROVE  Inv'
    OBVIOUS
  <1> USE DEF Close
  <1>1. TypeOK /\ pc \in Pc /\ TrudpOK(trudp) /\ Closing
    BY TypeParts, TrudpIsOK DEF Inv
  <1>2. /\ pc' \in Pc
        /\ pc["closer"] \in {"none", "stop", "leave", "destroy", "tdClose"}
        /\ pc'["runner"] = pc["runner"] /\ pc'["reader"] = pc["reader"]
        /\ ~panicked /\ ~running' /\ running' \in BOOLEAN
    <2>1. CASE CloseBegin
      BY <1>1, <2>1, GoCloser DEF CloseBegin
    <2>2. CASE Stop
      <3>1. /\ pc' \in Pc /\ pc["closer"] \in {"stop", "leave", "destroy", "tdClose"}
            /\ pc'["runner"] = pc["runner"] /\ pc'["reader"] = pc["reader"]
            /\ ~panicked /\ running' = running
        BY <1>1, <2>2, GoCloser DEF Stop, rest
      <3> QED  BY <1>1, <3>1, TypeParts DEF Closing
    <2>3. CASE Destroy
      <3>1. /\ pc' \in Pc /\ pc["closer"] \in {"stop", "leave", "destroy", "tdClose"}
            /\ pc'["runner"] = pc["runner"] /\ pc'["reader"] = pc["reader"]
            /\ ~panicked /\ running' = running
        BY <1>1, <2>3, GoCloser DEF Destroy, rest
      <3> QED  BY <1>1, <3>1, TypeParts DEF Closing
    <2>4. CASE Leave
      <3>1. /\ pc' \in Pc /\ pc["closer"] \in {"stop", "leave", "destroy", "tdClose"}
            /\ pc'["runner"] = pc["runner"] /\ pc'["reader"] = pc["reader"]
            /\ ~panicked /\ running' = running
        BY <1>1, <2>4, GoCloser DEF Leave
      <3> QED  BY <1>1, <3>1, TypeParts DEF Closing
    <2>5. CASE TdClose
      <3>1. /\ pc' \in Pc /\ pc["closer"] \in {"stop", "leave", "destroy", "tdClose"}
            /\ pc'["runner"] = pc["runner"] /\ pc'["reader"] = pc["reader"]
            /\ ~panicked /\ running' = running
        BY <1>1, <2>5, GoCloser DEF TdClose, rest
      <3> QED  BY <1>1, <3>1, TypeParts DEF Closing
    <2> QED  BY <2>1, <2>2, <2>3, <2>4, <2>5
  <1>3. Keeps(trudp, trudp')
    <2>1. CASE Leave
      BY <1>1, <2>1, TrudpIsOK, DestroyKeeps, Types DEF Leave
    <2>2. CASE TdClose
      BY <1>1, <2>2, KernelKeeps DEF TdClose
    <2>3. CASE CloseBegin \/ Stop \/ Destroy
      BY <2>3, TrudpIsOK DEF CloseBegin, Stop, Destroy
    <2> QED  BY <2>1, <2>2, <2>3
  <1>4. /\ UNCHANGED <<rhost, answer, early, panicked>>
        /\ arp' \in [tcd : Tcd \cup {0}, mode : {0, 1}]
    BY <1>1, TypeParts DEF CloseBegin, Stop, Leave, Destroy, TdClose, rest
  <1>5. TypeOK'
    <2>1. trudp' \in TrudpType
      BY <1>3 DEF Keeps, TrudpOK
    <2> QED  BY <1>1, <1>2, <1>4, <2>1, TypeParts DEF TypeOK, Pc, TrudpType
  <1> QED  BY <1>2, <1>3, <1>4, <1>5, QuietStep

-----------------------------------------------------------------------------
(* The theorems *)

LEMMA InvNext == Inv /\ [Next]_vars => Inv'
  <1> SUFFICES ASSUME Inv, [Next]_vars
               PROVE  Inv'
    OBVIOUS
  <1>1. CASE UNCHANGED vars
    BY <1>1 DEF vars, Inv, TypeOK, Numbered, Counter, Closing, RunnerRuns,
                FlagArmed, Waker, Armed, Waiting, Before, LossArmed, Unread,
                Gone, Noted
  <1>2. CASE Next
    BY <1>2, InvHear, InvLose, InvServe, InvRunner, InvClear, InvDone,
       InvReadData, InvReadDisconnected, InvReaderDelete, InvClose
       DEF Next, Kernel, read
  <1> QED  BY <1>1, <1>2

LEMMA InvHolds == Spec => []Inv
  <1> QED  BY InvInit, InvNext, PTL DEF Spec

\* A lost connection to an r-host that had answered is always noticed: whatever
\* the reader, the runner and Close do, the event that wakes the runner is still
\* to come (reconnect in rhost.go).
THEOREM LossIsNoticedHolds == Spec => []LossIsNoticed
  <1>1. Inv => LossIsNoticed
    BY DEF Inv, LossArmed, LossIsNoticed, Armed, Gone, Noted, Open
  <1> QED  BY <1>1, InvHolds, PTL

\* Whoever clears the connected flag of a waiting runner wakes it.
THEOREM FlagHasWakerHolds == Spec => []FlagHasWaker
  <1>1. Inv => FlagHasWaker
    BY DEF Inv, FlagArmed, FlagHasWaker, Armed, Waker
  <1> QED  BY <1>1, InvHolds, PTL

\* Type correctness; with it, that the counter of the wait group stays below two.
THEOREM RhostTypeCorrect == Spec => []TypeOK
  <1>1. Inv => TypeOK
    BY DEF Inv
  <1> QED  BY <1>1, InvHolds, PTL
==============================================================================
