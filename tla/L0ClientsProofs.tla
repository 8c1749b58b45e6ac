--------------------------- MODULE L0ClientsProofs ---------------------------
(***************************************************************************)
(* The tables of an l0 server agree for every number of connections, names *)
(* and packets, whatever close, rename and login do to each other.         *)
(* And the packets a client finds in its stream are those that were sent,  *)
(* however they were cut into parts and reads.                             *)
(***************************************************************************)
EXTENDS L0Clients, Teocli, SequenceTheorems, FiniteSetTheorems,
        WellFoundedInduction, TLAPS

\* What the places of an actor need of its local variables.
NeedsCli(p) == at[p] \in Closing \cup {"write", "renamed"}
NeedsPac(p) == \/ at[p] \in {"offer", "findAddr", "closeName", "add", "start"}
               \/ p = "process" /\ at[p] \in Closing
NeedsName(p) == \/ at[p] \in {"offer", "findAddr", "closeName", "add", "findName",
                              "sendTo", "rename", "renamed"}
                \/ p = "process" /\ at[p] \in Closing
                \/ p = "loop" /\ at[p] = "write"
NeedsNew(p) == \/ at[p] \in {"rename", "renamed"}
               \/ p = "loop" /\ at[p] \in {"sendTo", "write"}

LocalsOK ==
    \A p \in Actor :
        /\ NeedsCli(p) => my[p].cli # None
        /\ NeedsPac(p) => my[p].pac # None
        /\ NeedsName(p) => my[p].name # None
        /\ NeedsNew(p) => my[p].newname # None

\* Client c has been logged in: a table has it, or an actor got it from one.
Known(c) ==
    \/ \E a \in Addr : ma[a] = c
    \/ \E n \in Name : mn[n] = c
    \/ \E p \in Actor : my[p].cli = c

KnownOK ==
    \A c \in Client : Known(c) =>
        /\ c[2] <= conn[c[1]].read
        /\ client[c].name \in Name /\ c \in held[client[c].name]

\* The process has a packet in hand whose client is not logged in, as far as
\* it knows, or knows for sure.
InHand == at["process"] \in Closing \cup {"findAddr", "closeName", "add"}
LogsIn == at["process"] \in Closing \cup {"closeName", "add"}

PacketOK ==
    /\ InHand => /\ ~Known(Packet.pac)
                 /\ Packet.pac[2] <= conn[Packet.pac[1]].read
    /\ LogsIn => /\ ma[Packet.pac[1]] = None /\ Packet.login
                 /\ client[Packet.pac].name = Packet.name

\* The client of a packet that is offered is new.
OfferOK ==
    \A s \in Actor : at[s] = "offer" =>
        /\ Server(my[s].pac[1]) = s
        /\ ~conn[my[s].pac[1]].over
        /\ my[s].pac[2] = conn[my[s].pac[1]].read
        /\ ~Known(my[s].pac)
        /\ InHand => my[s].pac # Packet.pac

AddrMatch == \A a \in Addr : ma[a] # None => ma[a][1] = a

\* Connections are closed before their clients leave the tables.
ClosedOK ==
    /\ \A c \in Client : ~client[c].conn => conn[c[1]].closed
    /\ \A p \in Actor :
         /\ at[p] \in {"clearConn", "delete"} => conn[my[p].cli[1]].closed
         /\ at[p] = "renamed" =>
               conn[my[p].cli[1]].closed \/ ma[my[p].cli[1]] = my[p].cli

\* After the end of a connection its server closes what there is, and nothing
\* comes after.
OverOK ==
    \A a \in Addr : conn[a].over /\ a \notin overtaken =>
        /\ ~LoggingIn(a)
        /\ \/ ma[a] = None
           \/ at[Server(a)] \in Closing /\ my[Server(a)].cli[1] = a

IInv ==
    /\ TypeOK /\ LocalsOK
    /\ KnownOK /\ PacketOK /\ OfferOK /\ AddrMatch
    /\ NamesMatch /\ FoundByName
    /\ ClosedOK /\ OpenIsListed
    /\ OverOK

-----------------------------------------------------------------------------
(* Clients, actors and their steps *)

LEMMA ClientFacts ==
    /\ \A c \in Client : c[1] \in Addr /\ c[2] \in Nat
    /\ \A a \in Addr : \A k \in 1 .. MaxPackets[a] : <<a, k>> \in Client
    /\ None \notin Client /\ None \notin Name
  BY L0Assumption DEF Client, L0Assumption

LEMMA ActorFacts ==
    /\ "process" \in Actor /\ "loop" \in Actor /\ "registrar" \in Actor
    /\ \A a \in Addr : /\ Server(a) \in Actor
                       /\ Server(a) # "process" /\ Server(a) # "registrar"
    /\ Rest("process") = "get" /\ Rest("loop") = "read"
    /\ Rest("registrar") = "idle"
    /\ \A p \in Actor : Rest(p) \in {"get", "read", "idle", "done"}
  BY L0Assumption DEF L0Assumption, Actor, Tcp, Server, Rest

\* Where an actor goes on after close, sendTo and rename.
LEMMA AfterFacts ==
    ASSUME NEW p \in Actor
    PROVE  /\ AfterClose(p) = IF p = "process" THEN "add" ELSE Rest(p)
           /\ AfterSendTo(p) = IF p = "loop" THEN "rename" ELSE Rest(p)
           /\ AfterRename(p) = IF p = "registrar" THEN "sendTo" ELSE Rest(p)
  BY DEF AfterClose, AfterSendTo, AfterRename

LEMMA GoFacts ==
    ASSUME TypeOK, NEW p \in Actor, NEW from, NEW to \in Place, NEW l \in Local,
           Go(p, from, to, l)
    PROVE  /\ at[p] = from
           /\ at' \in [Actor -> Place] /\ my' \in [Actor -> Local]
           /\ at'[p] = to
           /\ my'[p] = IF to = Rest(p) THEN NoLocals ELSE l
           /\ \A q \in Actor : q # p => at'[q] = at[q] /\ my'[q] = my[q]
  <1>1. NoLocals \in Local
    BY DEF NoLocals, Local
  <1> QED  BY <1>1 DEF Go, TypeOK

\* A step that leaves the tables alone, and gets no client from elsewhere,
\* leaves alone what is known of them.
Quiet ==
    /\ UNCHANGED tables
    /\ \A a \in Addr : /\ conn[a].closed => conn'[a].closed
                       /\ conn[a].read <= conn'[a].read
    /\ \A p \in Actor : my'[p].cli = None \/ Known(my'[p].cli)

TablesOK ==
    /\ KnownOK /\ AddrMatch /\ NamesMatch /\ FoundByName /\ OpenIsListed
    /\ \A c \in Client : ~client[c].conn => conn[c[1]].closed

LEMMA QuietStep ==
    ASSUME IInv, Quiet, TypeOK'
    PROVE  /\ TablesOK'
           /\ \A c \in Client : Known(c)' => Known(c)
  <1>1. \A c \in Client : Known(c)' => Known(c)
    BY ClientFacts DEF Known, Quiet, tables
  <1>2. ma' = ma /\ mn' = mn /\ client' = client /\ held' = held
    BY DEF Quiet, tables
  <1>3. KnownOK'
    <2> SUFFICES ASSUME NEW c \in Client, Known(c)'
                 PROVE  /\ c[2] <= conn'[c[1]].read
                        /\ client'[c].name \in Name
                        /\ c \in held'[client'[c].name]
      BY DEF KnownOK
    <2>1. /\ c[2] <= conn[c[1]].read /\ client[c].name \in Name
          /\ c \in held[client[c].name]
      BY <1>1 DEF IInv, KnownOK
    <2>2. /\ conn[c[1]].read <= conn'[c[1]].read
          /\ c[2] \in Nat /\ conn[c[1]].read \in Nat /\ conn'[c[1]].read \in Nat
      BY ClientFacts DEF Quiet, IInv, TypeOK, Conn
    <2> QED  BY <1>2, <2>1, <2>2
  <1>4. AddrMatch' /\ NamesMatch' /\ FoundByName'
    BY <1>2 DEF IInv, AddrMatch, NamesMatch, FoundByName, Listed
  <1>5. OpenIsListed'
    <2> SUFFICES ASSUME NEW n \in Name, mn[n] # None, ~conn'[mn[n][1]].closed
                 PROVE  ma[mn[n][1]] = mn[n]
      BY <1>2 DEF OpenIsListed, Listed, IInv, TypeOK
    <2>1. mn[n] \in Client /\ mn[n] \in Listed(mn)
      BY DEF IInv, TypeOK, Listed
    <2> QED  BY <2>1, ClientFacts DEF IInv, OpenIsListed, Quiet
  <1>6. \A c \in Client : ~client'[c].conn => conn'[c[1]].closed
    BY <1>2, ClientFacts DEF IInv, ClosedOK, Quiet
  <1> QED  BY <1>1, <1>3, <1>4, <1>5, <1>6 DEF TablesOK

-----------------------------------------------------------------------------
(* Steps that leave the tables alone *)

\* What an actor has in hand, as far as the invariant speaks of it.
LocalOK(p) ==
    /\ NeedsCli(p) => my[p].cli # None
    /\ NeedsPac(p) => my[p].pac # None
    /\ NeedsName(p) => my[p].name # None
    /\ NeedsNew(p) => my[p].newname # None

HoldsOK(p) ==
    /\ at[p] \in {"clearConn", "delete"} => conn[my[p].cli[1]].closed
    /\ at[p] = "renamed" =>
          conn[my[p].cli[1]].closed \/ ma[my[p].cli[1]] = my[p].cli

Others(p) == \A q \in Actor : q # p => at'[q] = at[q] /\ my'[q] = my[q]

\* A step of actor p that neither offers nor takes a packet, nor ends a
\* connection or a closing.
Plain(p) ==
    /\ Others(p)
    /\ at'[p] # "offer"
    /\ InHand' => /\ InHand /\ Packet'.pac = Packet.pac
                  /\ Packet'.login = Packet.login
    /\ LogsIn' => LogsIn /\ Packet'.name = Packet.name
    /\ \A a \in Addr : /\ conn'[a].over = conn[a].over
                       /\ conn'[a].read = conn[a].read
    /\ overtaken' = overtaken
    /\ at[p] \in Closing => at'[p] \in Closing /\ my'[p].cli = my[p].cli

\* The others' part of the invariant, when connections only get closed and the
\* tables stay.
LEMMA OthersHold ==
    ASSUME IInv, NEW p \in Actor, Quiet, Others(p), NEW q \in Actor, q # p
    PROVE  LocalOK(q)' /\ HoldsOK(q)'
  <1>1. LocalOK(q)
    BY DEF IInv, LocalsOK, LocalOK
  <1>2. LocalOK(q)'
    BY <1>1 DEF Others, LocalOK, NeedsCli, NeedsPac, NeedsName, NeedsNew
  <1>3. CASE at[q] \in {"clearConn", "delete", "renamed"}
    <2>1. my[q].cli \in Client
      BY <1>1, <1>3 DEF LocalOK, NeedsCli, Closing, IInv, TypeOK, Local
    <2>2. HoldsOK(q)
      BY DEF IInv, ClosedOK, HoldsOK
    <2> QED  BY <1>2, <2>1, <2>2, ClientFacts DEF Others, HoldsOK, Quiet, tables
  <1>4. CASE at[q] \notin {"clearConn", "delete", "renamed"}
    BY <1>2, <1>4 DEF Others, HoldsOK
  <1> QED  BY <1>3, <1>4

LEMMA PlainStep ==
    ASSUME IInv, NEW p \in Actor, Plain(p), Quiet, TypeOK',
           LocalOK(p)', HoldsOK(p)'
    PROVE  IInv'
  <1>1. TablesOK' /\ \A c \in Client : Known(c)' => Known(c)
    BY QuietStep
  <1>2. \A q \in Actor : LocalOK(q)' /\ HoldsOK(q)'
    BY OthersHold DEF Plain
  <1>3. LocalsOK'
    BY <1>2 DEF LocalsOK, LocalOK
  <1>4. ClosedOK'
    BY <1>1, <1>2 DEF TablesOK, ClosedOK, HoldsOK
  <1>5. InHand => /\ Packet.pac \in Client /\ Packet.pac[1] \in Addr
    BY ActorFacts, ClientFacts
       DEF InHand, IInv, LocalsOK, NeedsPac, Packet, TypeOK, Local
  <1>6. PacketOK'
    <2>1. InHand' => /\ ~Known(Packet.pac)'
                     /\ Packet'.pac[2] <= conn'[Packet'.pac[1]].read
      BY <1>1, <1>5 DEF IInv, PacketOK, Plain
    <2>2. LogsIn' => /\ ma'[Packet'.pac[1]] = None /\ Packet'.login
                     /\ client'[Packet'.pac].name = Packet'.name
      <3>1. LogsIn' => InHand'
        BY DEF LogsIn, InHand
      <3> QED  BY <3>1 DEF IInv, PacketOK, Plain, Quiet, tables
    <2> QED  BY <2>1, <2>2 DEF PacketOK, Plain
  <1>7. OfferOK'
    <2> SUFFICES ASSUME NEW s \in Actor, at'[s] = "offer"
                 PROVE  /\ Server(my'[s].pac[1]) = s
                        /\ ~conn'[my'[s].pac[1]].over
                        /\ my'[s].pac[2] = conn'[my'[s].pac[1]].read
                        /\ ~Known(my[s].pac)'
                        /\ InHand' => my'[s].pac # Packet'.pac
      BY DEF OfferOK
    <2>1. at[s] = "offer" /\ my'[s] = my[s]
      BY DEF Plain, Others
    <2>2. my[s].pac \in Client /\ my[s].pac[1] \in Addr
      BY <2>1, ClientFacts DEF IInv, LocalsOK, NeedsPac, TypeOK, Local
    <2>3. ~Known(my[s].pac)
      BY <2>1 DEF IInv, OfferOK
    <2>4. ~Known(my[s].pac)'
      BY <1>1, <2>1, <2>2, <2>3
    <2> QED  BY <2>1, <2>2, <2>4 DEF IInv, OfferOK, Plain
  <1>8. OverOK'
    <2> SUFFICES ASSUME NEW a \in Addr, conn'[a].over, a \notin overtaken'
                 PROVE  /\ ~LoggingIn(a)'
                        /\ \/ ma'[a] = None
                           \/ at'[Server(a)] \in Closing /\ my'[Server(a)].cli[1] = a
      BY DEF OverOK
    <2>1. /\ ~LoggingIn(a)
          /\ \/ ma[a] = None
             \/ at[Server(a)] \in Closing /\ my[Server(a)].cli[1] = a
      BY DEF IInv, OverOK, Plain
    <2>2. ~LoggingIn(a)'
      BY <2>1 DEF LoggingIn, Plain, InHand, Packet
    <2>3. Server(a) \in Actor
      BY ActorFacts
    <2> QED  BY <2>1, <2>2, <2>3 DEF Plain, Others, Quiet, tables
  <1> QED  BY <1>1, <1>3, <1>4, <1>6, <1>7, <1>8 DEF IInv, TablesOK

\* A panic ends the program where it is.
LEMMA PanicStep ==
    ASSUME IInv, UNCHANGED <<conn, tables, at, my, asked, overtaken>>,
           panicked' \in BOOLEAN
    PROVE  IInv'
  BY DEF IInv, tables, TypeOK, LocalsOK, NeedsCli, NeedsPac, NeedsName, NeedsNew,
         KnownOK, Known, PacketOK, InHand, LogsIn, Packet, OfferOK, AddrMatch,
         NamesMatch, FoundByName, Listed, ClosedOK, OpenIsListed, OverOK, LoggingIn

\* The same for a step to a place with these local variables.
LEMMA GoStep ==
    ASSUME IInv, NEW p \in Actor, NEW from, NEW to \in Place, NEW l \in Local,
           Go(p, from, to, l), to # "offer",
           UNCHANGED <<tables, overtaken, panicked>>, asked' \subseteq Name,
           conn' = conn \/ \E a \in Addr : CloseConn(a),
           l.cli = None \/ Known(l.cli),
           from \in Closing => to \in Closing /\ l.cli = my[p].cli,
           p = "process" /\ to \in Closing \cup {"findAddr", "closeName", "add"} =>
               /\ l.pac = my[p].pac /\ l.name = my[p].name /\ l.login = my[p].login
               /\ from \in Closing \cup {"closeName", "add"},
           to \in Closing \cup {"write", "renamed"} => l.cli # None,
           ( \/ to \in {"findAddr", "closeName", "add", "start"}
             \/ p = "process" /\ to \in Closing ) => l.pac # None,
           ( \/ to \in {"findAddr", "closeName", "add", "findName", "sendTo",
                         "rename", "renamed"}
             \/ p = "process" /\ to \in Closing
             \/ p = "loop" /\ to = "write" ) => l.name # None,
           ( \/ to \in {"rename", "renamed"}
             \/ p = "loop" /\ to \in {"sendTo", "write"} ) => l.newname # None,
           to \in {"clearConn", "delete"} => conn'[l.cli[1]].closed,
           to = "renamed" => conn[l.cli[1]].closed \/ ma[l.cli[1]] = l.cli
    PROVE  IInv'
  <1>1. /\ at[p] = from
        /\ at' \in [Actor -> Place] /\ my' \in [Actor -> Local]
        /\ at'[p] = to
        /\ my'[p] = IF to = Rest(p) THEN NoLocals ELSE l
        /\ \A q \in Actor : q # p => at'[q] = at[q] /\ my'[q] = my[q]
    BY GoFacts DEF IInv
  <1>2. Rest(p) \in {"get", "read", "idle", "done"}
    BY ActorFacts
  <1>3. /\ conn' \in [Addr -> Conn]
        /\ \A a \in Addr : /\ conn[a].closed => conn'[a].closed
                           /\ conn'[a].over = conn[a].over
                           /\ conn'[a].read = conn[a].read
                           /\ conn[a].read \in Nat
    <2>1. conn \in [Addr -> Conn]
      BY DEF IInv, TypeOK
    <2>2. CASE conn' = conn
      BY <2>1, <2>2 DEF Conn
    <2>3. CASE \E a \in Addr : CloseConn(a)
      <3>1. PICK a \in Addr : conn' = [conn EXCEPT ![a].closed = TRUE]
        BY <2>3 DEF CloseConn
      <3>2. conn[a] \in Conn /\ [conn[a] EXCEPT !.closed = TRUE] \in Conn
        <4>1. ASSUME NEW r \in Conn
              PROVE  [r EXCEPT !.closed = TRUE] \in Conn
          BY DEF Conn
        <4>2. conn[a] \in Conn
          BY <2>1
        <4> QED  BY <4>1, <4>2
      <3>3. conn' = [conn EXCEPT ![a] = [conn[a] EXCEPT !.closed = TRUE]]
        BY <2>1, <3>1
      <3>4. \A o \in Addr : conn'[o] =
               IF o = a THEN [conn[a] EXCEPT !.closed = TRUE] ELSE conn[o]
        BY <2>1, <3>3
      <3>5. \A o \in Addr : conn[o] \in Conn /\ conn'[o] \in Conn
        BY <2>1, <3>2, <3>4
      <3>6. conn' \in [Addr -> Conn]
        BY <2>1, <3>2, <3>3
      <3> QED  BY <3>4, <3>5, <3>6 DEF Conn
    <2> QED  BY <2>2, <2>3
  <1>4. LocalOK(p)'
    <2>1. CASE to = Rest(p)
      BY <1>1, <1>2, <2>1, ActorFacts
         DEF LocalOK, NeedsCli, NeedsPac, NeedsName, NeedsNew, Closing
    <2>2. CASE to # Rest(p)
      <3>1. at'[p] = to /\ my'[p] = l
        BY <1>1, <2>2
      <3>2. NeedsCli(p)' => l.cli # None
        BY <3>1 DEF NeedsCli
      <3>3. NeedsPac(p)' => l.pac # None
        BY <3>1 DEF NeedsPac
      <3>4. NeedsName(p)' => l.name # None
        BY <3>1 DEF NeedsName
      <3>5. NeedsNew(p)' => l.newname # None
        BY <3>1 DEF NeedsNew
      <3> QED  BY <3>1, <3>2, <3>3, <3>4, <3>5 DEF LocalOK
    <2> QED  BY <2>1, <2>2
  <1>5. HoldsOK(p)'
    <2>1. CASE to \notin {"clearConn", "delete", "renamed"}
      BY <1>1, <2>1 DEF HoldsOK
    <2>2. CASE to \in {"clearConn", "delete", "renamed"}
      <3>1. my'[p] = l /\ l.cli # None
        BY <1>1, <1>2, <2>2 DEF Closing
      <3>2. l.cli[1] \in Addr
        BY <3>1, ClientFacts DEF Local
      <3> QED  BY <1>1, <1>3, <2>2, <3>1, <3>2 DEF HoldsOK, tables
    <2> QED  BY <2>1, <2>2
  <1>6. Quiet
    <2> SUFFICES ASSUME NEW q \in Actor
                 PROVE  my'[q].cli = None \/ Known(my'[q].cli)
      BY <1>3 DEF Quiet, Conn
    <2>1. CASE q = p
      BY <1>1, <2>1 DEF NoLocals
    <2>2. CASE q # p
      BY <1>1, <2>2 DEF Known
    <2> QED  BY <2>1, <2>2
  <1>7. TypeOK'
    <2>1. \A q \in Actor : LocalOK(q)'
      <3> SUFFICES ASSUME NEW q \in Actor, q # p
                   PROVE  LocalOK(q)'
        BY <1>4
      <3>1. LocalOK(q)
        BY DEF IInv, LocalsOK, LocalOK
      <3> QED  BY <1>1, <3>1
                  DEF LocalOK, NeedsCli, NeedsPac, NeedsName, NeedsNew
    <2>2. \A q \in Actor :
            /\ at'[q] \in Closing \cup {"write", "renamed"} => my'[q].cli # None
            /\ at'[q] \in {"offer", "findAddr", "closeName", "add", "start"} =>
               my'[q].pac # None
            /\ at'[q] \in {"offer", "findAddr", "closeName", "add", "findName",
                           "sendTo", "rename", "renamed"} => my'[q].name # None
            /\ at'[q] \in {"rename", "renamed"} => my'[q].newname # None
      BY <2>1 DEF LocalOK, NeedsCli, NeedsPac, NeedsName, NeedsNew
    <2> QED  BY <1>1, <1>3, <2>2 DEF IInv, TypeOK, tables
  <1>8. Plain(p)
    <2>1. /\ InHand' => /\ InHand /\ Packet'.pac = Packet.pac
                        /\ Packet'.login = Packet.login
          /\ LogsIn' => LogsIn /\ Packet'.name = Packet.name
      <3>1. CASE p = "process"
        <4>1. CASE to \in Closing \cup {"findAddr", "closeName", "add"}
          <5>1. my'[p] = l
            BY <1>1, <1>2, <4>1 DEF Closing
          <5> QED  BY <1>1, <3>1, <4>1, <5>1 DEF InHand, LogsIn, Packet
        <4>2. CASE to \notin Closing \cup {"findAddr", "closeName", "add"}
          BY <1>1, <3>1, <4>2 DEF InHand, LogsIn
        <4> QED  BY <4>1, <4>2
      <3>2. CASE p # "process"
        BY <1>1, <3>2, ActorFacts DEF InHand, LogsIn, Packet
      <3> QED  BY <3>1, <3>2
    <2>2. at[p] \in Closing => at'[p] \in Closing /\ my'[p].cli = my[p].cli
      BY <1>1, <1>2 DEF Closing
    <2> QED  BY <1>1, <1>3, <2>1, <2>2 DEF Plain, Others
  <1> QED  BY <1>4, <1>5, <1>6, <1>7, <1>8, PlainStep

\* What an actor has in hand, by the invariant.
LEMMA HandFacts ==
    ASSUME IInv, NEW p \in Actor
    PROVE  /\ my[p] \in Local
           /\ my[p].cli \in Client \cup {None} /\ my[p].pac \in Client \cup {None}
           /\ my[p].name \in Name \cup {None} /\ my[p].newname \in Name \cup {None}
           /\ my[p].cli = None \/ Known(my[p].cli)
           /\ LocalOK(p) /\ HoldsOK(p)
  BY DEF IInv, TypeOK, Local, Known, LocalsOK, LocalOK, ClosedOK, HoldsOK, Place, Closing

LEMMA NamedFacts ==
    ASSUME IInv, NEW n \in Name
    PROVE  /\ mn[n] \in Client \cup {None}
           /\ mn[n] # None => Known(mn[n])
           /\ mn[n] # None => conn[mn[n][1]].closed \/ ma[mn[n][1]] = mn[n]
  <1>1. mn \in [Name -> Client \cup {None}]
    BY DEF IInv, TypeOK
  <1>2. mn[n] # None => mn[n] \in Listed(mn)
    BY <1>1 DEF Listed
  <1> QED  BY <1>1, <1>2 DEF IInv, OpenIsListed, Known

LEMMA CloseOK ==
    ASSUME IInv, NEW p \in Actor, Close(p)
    PROVE  IInv'
  <1>1. /\ at[p] = "close"
        /\ UNCHANGED <<conn, tables, asked, overtaken, panicked>>
    BY DEF Close, Go
  <1>2. LocalOK(p) /\ my[p] \in Local /\ my[p].cli \in Client \cup {None}
        /\ (my[p].cli = None \/ Known(my[p].cli))
    BY HandFacts
  <1>3. /\ my[p].cli # None
        /\ p = "process" => my[p].pac # None /\ my[p].name # None
    BY <1>1, <1>2 DEF LocalOK, NeedsCli, NeedsPac, NeedsName, Closing
  <1>4. asked \subseteq Name
    BY DEF IInv, TypeOK
  <1>5. CASE client[my[p].cli].conn
    <2>1. Go(p, "close", "closeConn", my[p])
      BY <1>5 DEF Close
    <2> QED  BY <1>1, <1>2, <1>3, <1>4, <2>1, GoStep DEF Place, Closing
  <1>6. CASE ~client[my[p].cli].conn
    <2>1. Go(p, "close", "delete", my[p])
      BY <1>6 DEF Close
    <2>2. conn[my[p].cli[1]].closed
      BY <1>2, <1>3, <1>6 DEF IInv, ClosedOK
    <2> QED  BY <1>1, <1>2, <1>3, <1>4, <2>1, <2>2, GoStep DEF Place, Closing
  <1> QED  BY <1>5, <1>6

LEMMA CloseClientConnOK ==
    ASSUME IInv, NEW p \in Actor, CloseClientConn(p)
    PROVE  IInv'
  <1>1. CASE Go(p, "closeConn", "clearConn", my[p]) /\ CloseConn(my[p].cli[1])
             /\ UNCHANGED <<tables, asked, overtaken, panicked>>
    <2>1. at[p] = "closeConn"
      BY <1>1 DEF Go
    <2>2. LocalOK(p) /\ my[p] \in Local /\ my[p].cli \in Client \cup {None}
          /\ (my[p].cli = None \/ Known(my[p].cli))
      BY HandFacts
    <2>3. /\ my[p].cli # None
          /\ p = "process" => my[p].pac # None /\ my[p].name # None
      BY <2>1, <2>2 DEF LocalOK, NeedsCli, NeedsPac, NeedsName, Closing
    <2>4. my[p].cli[1] \in Addr
      BY <2>2, <2>3, ClientFacts
    <2>5. asked \subseteq Name /\ conn'[my[p].cli[1]].closed
      BY <1>1, <2>4 DEF IInv, TypeOK, CloseConn, Conn
    <2> QED  BY <1>1, <2>2, <2>3, <2>4, <2>5, GoStep DEF Place, Closing
  <1>2. CASE Panics(p, "closeConn")
             /\ UNCHANGED <<conn, tables, at, my, asked, overtaken>>
    BY <1>2, PanicStep DEF Panics
  <1> QED  BY <1>1, <1>2 DEF CloseClientConn

LEMMA SendToOK ==
    ASSUME IInv, NEW p \in Actor, SendTo(p)
    PROVE  IInv'
  <1> DEFINE n == my[p].name
             l == [my[p] EXCEPT !.cli = mn[n]]
             to == IF mn[n] # None THEN "write" ELSE AfterSendTo(p)
  <1>1. /\ Go(p, "sendTo", to, l) /\ at[p] = "sendTo"
        /\ UNCHANGED <<conn, tables, asked, overtaken, panicked>>
    BY DEF SendTo, Go
  <1>2. LocalOK(p) /\ my[p] \in Local
    BY HandFacts
  <1>3. n \in Name /\ (p = "loop" => my[p].newname # None)
    BY <1>1, <1>2 DEF LocalOK, NeedsName, NeedsNew, Local
  <1>4. /\ mn[n] \in Client \cup {None}
        /\ mn[n] = None \/ Known(mn[n])
    BY <1>3, NamedFacts
  <1>5. /\ l \in Local /\ l.cli = mn[n] /\ l.name = n /\ l.newname = my[p].newname
    BY <1>2, <1>4 DEF Local
  <1>6. asked \subseteq Name
    BY DEF IInv, TypeOK
  <1>7. /\ \/ to = "write"
           \/ p = "loop" /\ to = "rename"
           \/ to \in {"get", "read", "idle", "done"}
        /\ to = "write" => mn[n] # None
    BY AfterFacts, ActorFacts
  <1>8. n # None
    BY <1>3, ClientFacts
  <1> HIDE DEF l, to, n
  <1> QED  BY <1>1, <1>3, <1>4, <1>5, <1>6, <1>7, <1>8, GoStep DEF Place, Closing

LEMMA WriteOK ==
    ASSUME IInv, NEW p \in Actor, Write(p)
    PROVE  IInv'
  <1> DEFINE to == AfterSendTo(p)
  <1>1. CASE Go(p, "write", to, my[p])
             /\ UNCHANGED <<conn, tables, asked, overtaken, panicked>>
    <2>1. at[p] = "write"
      BY <1>1 DEF Go
    <2>2. LocalOK(p) /\ my[p] \in Local /\ (my[p].cli = None \/ Known(my[p].cli))
      BY HandFacts
    <2>3. p = "loop" => my[p].name # None /\ my[p].newname # None
      BY <2>1, <2>2 DEF LocalOK, NeedsName, NeedsNew
    <2>4. asked \subseteq Name
      BY DEF IInv, TypeOK
    <2>5. \/ p = "loop" /\ to = "rename"
          \/ to \in {"get", "read", "idle", "done"}
      BY AfterFacts, ActorFacts
    <2> HIDE DEF to
    <2> QED  BY <1>1, <2>2, <2>3, <2>4, <2>5, GoStep DEF Place, Closing
  <1>2. CASE Panics(p, "write")
             /\ UNCHANGED <<conn, tables, at, my, asked, overtaken>>
    BY <1>2, PanicStep DEF Panics
  <1> QED  BY <1>1, <1>2 DEF Write

LEMMA FindRenameOK ==
    ASSUME IInv, NEW p \in Actor, FindRename(p)
    PROVE  IInv'
  <1> DEFINE n == my[p].name
             found == my[p].newname # n /\ mn[n] # None
             to == IF found THEN "renamed" ELSE AfterRename(p)
             l == IF found THEN [my[p] EXCEPT !.cli = mn[n]] ELSE Renamed(p)
  <1>1. /\ Go(p, "rename", to, l) /\ at[p] = "rename"
        /\ UNCHANGED <<conn, tables, asked, overtaken, panicked>>
    BY DEF FindRename, Go
  <1>2. LocalOK(p) /\ my[p] \in Local /\ (my[p].cli = None \/ Known(my[p].cli))
    BY HandFacts
  <1>3. n \in Name /\ my[p].newname \in Name
    BY <1>1, <1>2 DEF LocalOK, NeedsName, NeedsNew, Local
  <1>4. /\ mn[n] \in Client \cup {None}
        /\ mn[n] # None => Known(mn[n])
        /\ mn[n] # None => conn[mn[n][1]].closed \/ ma[mn[n][1]] = mn[n]
    BY <1>3, NamedFacts
  <1>5. /\ l \in Local
        /\ found => l.cli = mn[n] /\ l.name = n /\ l.newname = my[p].newname
        /\ ~found => l.cli = my[p].cli /\ l.name = my[p].newname
    BY <1>2, <1>3, <1>4 DEF Local, Renamed
  <1>6. asked \subseteq Name
    BY DEF IInv, TypeOK
  <1>7. /\ found => to = "renamed" /\ mn[n] # None
        /\ ~found => \/ p = "registrar" /\ to = "sendTo"
                     \/ to \in {"get", "read", "idle", "done"}
    BY AfterFacts, ActorFacts
  <1>8. n # None /\ my[p].newname # None
    BY <1>3, ClientFacts
  <1> HIDE DEF l, to, n, found
  <1>9. CASE found
    BY <1>1, <1>4, <1>5, <1>6, <1>7, <1>8, <1>9, GoStep DEF Place, Closing
  <1>10. CASE ~found
    BY <1>1, <1>2, <1>5, <1>6, <1>7, <1>8, <1>10, GoStep DEF Place, Closing
  <1> QED  BY <1>9, <1>10

\* What the process has in hand.
LEMMA PacketFacts ==
    ASSUME IInv
    PROVE  /\ Packet \in Local
           /\ Packet.cli = None \/ Known(Packet.cli)
           /\ at["process"] \in Closing \cup {"findAddr", "closeName", "add"} =>
                 /\ Packet.pac \in Client /\ Packet.name \in Name
                 /\ Packet.pac[1] \in Addr
           /\ at["process"] = "findName" => Packet.name \in Name
           /\ asked \subseteq Name
  <1>1. LocalOK("process") /\ Packet \in Local
        /\ (Packet.cli = None \/ Known(Packet.cli))
    BY HandFacts, ActorFacts DEF Packet
  <1>2. at["process"] \in Closing \cup {"findAddr", "closeName", "add", "findName"} =>
            Packet.name \in Name
    BY <1>1 DEF LocalOK, NeedsName, Local, Packet
  <1>3. at["process"] \in Closing \cup {"findAddr", "closeName", "add"} =>
            Packet.pac \in Client
    BY <1>1 DEF LocalOK, NeedsPac, Local, Packet
  <1> QED  BY <1>1, <1>2, <1>3, ClientFacts DEF IInv, TypeOK

LEMMA IncorrectLoginOK ==
    ASSUME IInv, IncorrectLogin
    PROVE  IInv'
  <1>1. /\ Go("process", "findAddr", "get", Packet) /\ at["process"] = "findAddr"
        /\ CloseConn(Packet.pac[1])
        /\ UNCHANGED <<tables, asked, overtaken, panicked>>
    BY DEF IncorrectLogin, Go
  <1>2. Packet.pac[1] \in Addr
    BY <1>1, PacketFacts
  <1> QED  BY <1>1, <1>2, PacketFacts, ActorFacts, GoStep DEF Place, Closing

LEMMA CommandOK ==
    ASSUME IInv, Command
    PROVE  IInv'
  <1> DEFINE to == IF Packet.login THEN "get" ELSE "findName"
  <1>1. /\ Go("process", "findAddr", to, Packet) /\ at["process"] = "findAddr"
        /\ UNCHANGED <<conn, tables, asked, overtaken, panicked>>
    BY DEF Command, Go
  <1>2. Packet.name # None /\ to \in {"get", "findName"}
    BY <1>1, PacketFacts, ClientFacts
  <1> HIDE DEF to
  <1> QED  BY <1>1, <1>2, PacketFacts, ActorFacts, GoStep DEF Place, Closing

LEMMA FindNameOK ==
    ASSUME IInv, FindName
    PROVE  IInv'
  <1> DEFINE to == IF mn[Packet.name] # None THEN "sendTo" ELSE "get"
  <1>1. /\ Go("process", "findName", to, Packet) /\ at["process"] = "findName"
        /\ UNCHANGED <<conn, tables, asked, overtaken, panicked>>
    BY DEF FindName, Go
  <1>2. Packet.name # None /\ to \in {"get", "sendTo"}
    BY <1>1, PacketFacts, ClientFacts
  <1> HIDE DEF to
  <1> QED  BY <1>1, <1>2, PacketFacts, ActorFacts, GoStep DEF Place, Closing

LEMMA CloseNameOK ==
    ASSUME IInv, CloseName
    PROVE  IInv'
  <1> DEFINE n == Packet.name
             to == IF mn[n] # None THEN "close" ELSE "add"
             l == [Packet EXCEPT !.cli = mn[n]]
  <1>1. /\ Go("process", "closeName", to, l) /\ at["process"] = "closeName"
        /\ UNCHANGED <<conn, tables, asked, overtaken, panicked>>
    BY DEF CloseName, Go
  <1>2. /\ n \in Name /\ n # None /\ Packet.pac # None
    BY <1>1, PacketFacts, ClientFacts
  <1>3. /\ mn[n] \in Client \cup {None}
        /\ mn[n] # None => Known(mn[n])
    BY <1>2, NamedFacts
  <1>4. /\ l \in Local /\ l.cli = mn[n] /\ l.name = n
        /\ l.pac = Packet.pac /\ l.login = Packet.login
    BY <1>3, PacketFacts DEF Local
  <1>5. to \in {"close", "add"} /\ (to = "close" => mn[n] # None)
    OBVIOUS
  <1>6. n = my["process"].name /\ Packet = my["process"]
    BY DEF Packet
  <1> HIDE DEF to, l, n
  <1> QED  BY <1>1, <1>2, <1>3, <1>4, <1>5, <1>6, PacketFacts, ActorFacts, GoStep
              DEF Place, Closing

LEMMA StartOK ==
    ASSUME IInv, Start
    PROVE  IInv'
  <1> DEFINE n == client[my["registrar"].pac].name
             l == [NoLocals EXCEPT !.name = n]
  <1>1. /\ Go("registrar", "start", "wait", l) /\ at["registrar"] = "start"
        /\ UNCHANGED <<conn, tables, asked, overtaken, panicked>>
    BY DEF Start, Go
  <1>2. my["registrar"].pac \in Client
    BY <1>1, HandFacts, ActorFacts DEF LocalOK, NeedsPac
  <1>3. n \in Name \cup {None} /\ asked \subseteq Name
    BY <1>2 DEF IInv, TypeOK
  <1>4. l \in Local /\ l.cli = None
    BY <1>3 DEF NoLocals, Local
  <1> HIDE DEF l
  <1> QED  BY <1>1, <1>3, <1>4, ActorFacts, GoStep DEF Place, Closing

LEMMA RegisteredOK ==
    ASSUME IInv, Registered
    PROVE  IInv'
  <1> DEFINE r == my["registrar"]
  <1>1. PICK new \in NewName :
            IF r.name # None
            THEN Go("registrar", "wait", "rename", [r EXCEPT !.newname = new])
            ELSE Go("registrar", "wait", "sendTo", [r EXCEPT !.name = new])
    BY DEF Registered
  <1>2. at["registrar"] = "wait" /\ UNCHANGED <<conn, tables, asked, overtaken, panicked>>
    BY <1>1 DEF Registered, Go
  <1>3. r \in Local /\ (r.cli = None \/ Known(r.cli)) /\ asked \subseteq Name
    BY HandFacts, ActorFacts DEF IInv, TypeOK
  <1>4. new \in Name /\ new # None
    BY L0Assumption, ClientFacts DEF L0Assumption
  <1>5. CASE r.name # None
    <2> DEFINE l == [r EXCEPT !.newname = new]
    <2>1. /\ l \in Local /\ l.cli = r.cli /\ l.newname = new /\ l.name = r.name
          /\ Go("registrar", "wait", "rename", l)
      BY <1>1, <1>3, <1>4, <1>5 DEF Local
    <2> HIDE DEF l, r
    <2> QED  BY <1>2, <1>3, <1>4, <1>5, <2>1, ActorFacts, GoStep DEF Place, Closing
  <1>6. CASE r.name = None
    <2> DEFINE l == [r EXCEPT !.name = new]
    <2>1. /\ l \in Local /\ l.cli = r.cli /\ l.name = new
          /\ Go("registrar", "wait", "sendTo", l)
      BY <1>1, <1>3, <1>4, <1>6 DEF Local
    <2> HIDE DEF l, r
    <2> QED  BY <1>2, <1>3, <1>4, <2>1, ActorFacts, GoStep DEF Place, Closing
  <1> QED  BY <1>5, <1>6

LEMMA NotRegisteredOK ==
    ASSUME IInv, NotRegistered
    PROVE  IInv'
  <1>1. /\ Go("registrar", "wait", "idle", NoLocals)
        /\ UNCHANGED <<conn, tables, asked, overtaken, panicked>>
    BY DEF NotRegistered
  <1>2. NoLocals \in Local /\ NoLocals.cli = None
    BY DEF NoLocals, Local
  <1>3. asked \subseteq Name
    BY DEF IInv, TypeOK
  <1> QED  BY <1>1, <1>2, <1>3, ActorFacts, GoStep DEF Place, Closing

LEMMA cmdL0AuthOK ==
    ASSUME IInv, cmdL0Auth
    PROVE  IInv'
  <1>1. PICK name \in asked, new \in NewName :
            /\ asked' = asked \ {name}
            /\ Go("loop", "read", "sendTo",
                  [NoLocals EXCEPT !.name = name, !.newname = new])
    BY DEF cmdL0Auth
  <1> DEFINE l == [NoLocals EXCEPT !.name = name, !.newname = new]
  <1>2. UNCHANGED <<conn, tables, overtaken, panicked>>
    BY DEF cmdL0Auth
  <1>3. asked \subseteq Name
    BY DEF IInv, TypeOK
  <1>4. name \in Name /\ new \in Name /\ name # None /\ new # None
    BY <1>3, L0Assumption, ClientFacts DEF L0Assumption
  <1>5. l \in Local /\ l.cli = None /\ l.name = name /\ l.newname = new
    BY <1>4 DEF NoLocals, Local
  <1>6. Go("loop", "read", "sendTo", l)
    BY <1>1
  <1> HIDE DEF l
  <1> QED  BY <1>1, <1>2, <1>3, <1>4, <1>5, <1>6, ActorFacts, GoStep
              DEF Place, Closing

-----------------------------------------------------------------------------
(* Packets and the ends of connections *)

\* Type correctness from the types of what a step changes.
LEMMA Typed ==
    ASSUME IInv, \A p \in Actor : LocalOK(p)',
           at' \in [Actor -> Place], my' \in [Actor -> Local],
           conn' \in [Addr -> Conn], UNCHANGED <<tables, asked, panicked>>,
           overtaken' \subseteq Addr
    PROVE  TypeOK' /\ LocalsOK'
  <1>1. LocalsOK'
    BY DEF LocalsOK, LocalOK
  <1>2. \A q \in Actor :
          /\ at'[q] \in Closing \cup {"write", "renamed"} => my'[q].cli # None
          /\ at'[q] \in {"offer", "findAddr", "closeName", "add", "start"} =>
               my'[q].pac # None
          /\ at'[q] \in {"offer", "findAddr", "closeName", "add", "findName",
                         "sendTo", "rename", "renamed"} => my'[q].name # None
          /\ at'[q] \in {"rename", "renamed"} => my'[q].newname # None
    BY DEF LocalOK, NeedsCli, NeedsPac, NeedsName, NeedsNew
  <1> QED  BY <1>1, <1>2 DEF IInv, TypeOK, tables

LEMMA TakeOK ==
    ASSUME IInv, NEW s \in Actor, Take(s)
    PROVE  IInv'
  <1> DEFINE r == "registrar"
             pac == IF at[r] = "start" THEN my[s].pac ELSE my[r].pac
  <1>1. /\ at["process"] = "get" /\ at[s] = "offer" /\ s # "process"
        /\ at' = [at EXCEPT !["process"] = "findAddr", ![s] = "read"]
        /\ my' = [my EXCEPT !["process"] = my[s], ![s] = NoLocals,
                            ![r].pac = IF at[r] = "start" THEN my[s].pac ELSE @]
        /\ UNCHANGED <<conn, tables, asked, overtaken, panicked>>
    BY DEF Take
  <1>3. /\ LocalOK(s) /\ my[s].pac \in Client /\ my[s].pac[1] \in Addr
        /\ my[s].name # None
        /\ Server(my[s].pac[1]) = s /\ s # r
    BY <1>1, HandFacts, ClientFacts, ActorFacts
       DEF LocalOK, NeedsPac, NeedsName, IInv, OfferOK
  <1>2. /\ at'["process"] = "findAddr" /\ at'[s] = "read"
        /\ my'["process"] = my[s] /\ my'[s] = NoLocals
        /\ at'[r] = at[r] /\ my'[r] = [my[r] EXCEPT !.pac = pac] /\ my[r] \in Local
        /\ pac \in Client \cup {None} /\ (at[r] = "start" => pac \in Client)
        /\ \A q \in Actor : q # "process" /\ q # s /\ q # r => my'[q] = my[q]
        /\ \A q \in Actor : q # "process" /\ q # s => at'[q] = at[q]
        /\ at' \in [Actor -> Place] /\ my' \in [Actor -> Local]
    <2>1. at \in [Actor -> Place] /\ my \in [Actor -> Local]
      BY DEF IInv, TypeOK
    <2>2. NoLocals \in Local /\ "read" \in Place /\ "findAddr" \in Place
      BY DEF NoLocals, Local, Place
    <2>3. my[r] \in Local /\ pac \in Client \cup {None}
          /\ (at[r] = "start" => pac \in Client)
      BY <1>3, <2>1, ActorFacts DEF Local
    <2> DEFINE x == [my[r] EXCEPT !.pac = pac]
    <2>4. x \in Local
      BY <2>3 DEF Local
    <2>5. my' = [my EXCEPT !["process"] = my[s], ![s] = NoLocals, ![r] = x]
      BY <1>1, <1>3, <2>1, ActorFacts
    <2> HIDE DEF x
    <2>6. /\ my'["process"] = my[s] /\ my'[s] = NoLocals /\ my'[r] = x
          /\ \A q \in Actor : q # "process" /\ q # s /\ q # r => my'[q] = my[q]
          /\ my' \in [Actor -> Local]
      BY <1>1, <1>3, <2>1, <2>2, <2>4, <2>5, ActorFacts
    <2> QED  BY <1>1, <1>3, <2>1, <2>2, <2>3, <2>6, ActorFacts DEF x
  <1> HIDE DEF pac
  <1>4. \A q \in Actor : LocalOK(q)' /\ HoldsOK(q)'
    <2> SUFFICES ASSUME NEW q \in Actor
                 PROVE  LocalOK(q)' /\ HoldsOK(q)'
      OBVIOUS
    <2>1. CASE q # "process" /\ q # s
      <3>1. /\ at'[q] = at[q] /\ my'[q].cli = my[q].cli /\ my'[q].name = my[q].name
            /\ my'[q].newname = my[q].newname
            /\ my'[q].pac = my[q].pac \/ (q = r /\ my'[q].pac = pac)
        <4>1. CASE q = r
          BY <1>2, <4>1 DEF Local
        <4>2. CASE q # r
          BY <1>2, <2>1, <4>2
        <4> QED  BY <4>1, <4>2
      <3>2. at[r] = "start" => pac # None
        BY <1>2, ClientFacts
      <3>3. LocalOK(q) /\ HoldsOK(q)
        BY HandFacts
      <3>4. NeedsPac(r) => at[r] = "start" \/ my'[r].pac = my[r].pac
        BY <1>2 DEF pac, Local
      <3> QED  BY <1>1, <2>1, <3>1, <3>2, <3>3, <3>4
                  DEF LocalOK, HoldsOK, NeedsCli, NeedsPac, NeedsName, NeedsNew, tables
    <2>2. CASE q = "process" \/ q = s
      <3>1. at'[q] \in {"findAddr", "read"} /\ (at'[q] = "findAddr" => q = "process")
        BY <1>1, <1>2, <2>2
      <3>2. at'[q] = "findAddr" => my'[q].pac # None /\ my'[q].name # None
        BY <1>2, <1>3, <3>1, ClientFacts
      <3> QED  BY <3>1, <3>2
                  DEF LocalOK, HoldsOK, NeedsCli, NeedsPac, NeedsName, NeedsNew, Closing
    <2> QED  BY <2>1, <2>2
  <1>5. TypeOK' /\ LocalsOK'
    BY <1>1, <1>2, <1>4, Typed DEF IInv, TypeOK
  <1>6. Quiet
    <2> SUFFICES ASSUME NEW q \in Actor
                 PROVE  my'[q].cli = None \/ Known(my'[q].cli)
      BY <1>1 DEF Quiet, IInv, TypeOK, Conn
    <2> QED  BY <1>1, <1>2, HandFacts DEF NoLocals, Local
  <1>7. TablesOK' /\ \A c \in Client : Known(c)' => Known(c)
    BY <1>5, <1>6, QuietStep
  <1>8. Packet' = my[s] /\ InHand' /\ ~LogsIn'
    BY <1>2 DEF Packet, InHand, LogsIn, Closing
  <1>9. /\ ~conn[my[s].pac[1]].over
        /\ my[s].pac[2] = conn[my[s].pac[1]].read
        /\ ~Known(my[s].pac) /\ Server(my[s].pac[1]) = s
    BY <1>1 DEF IInv, OfferOK
  <1>10. PacketOK'
    <2>1. ~Known(Packet.pac)'
      BY <1>3, <1>7, <1>8, <1>9
    <2>2. Packet'.pac[2] <= conn'[Packet'.pac[1]].read
      BY <1>1, <1>3, <1>8, <1>9 DEF IInv, TypeOK, Conn
    <2> QED  BY <1>8, <2>1, <2>2 DEF PacketOK
  <1>11. OfferOK'
    <2> SUFFICES ASSUME NEW q \in Actor, at'[q] = "offer"
                 PROVE  /\ Server(my'[q].pac[1]) = q
                        /\ ~conn'[my'[q].pac[1]].over
                        /\ my'[q].pac[2] = conn'[my'[q].pac[1]].read
                        /\ ~Known(my[q].pac)'
                        /\ InHand' => my'[q].pac # Packet'.pac
      BY DEF OfferOK
    <2>1. q # s /\ q # "process" /\ at[q] = "offer" /\ my'[q] = my[q]
      <3>1. q # s /\ q # "process" /\ at[q] = "offer"
        BY <1>2
      <3>2. Server(my[q].pac[1]) = q /\ my[q].pac[1] \in Addr
        BY <3>1, HandFacts, ClientFacts DEF IInv, OfferOK, LocalOK, NeedsPac
      <3> QED  BY <1>2, <3>1, <3>2, ActorFacts
    <2>2. my[q].pac \in Client
      BY <2>1, HandFacts DEF LocalOK, NeedsPac
    <2>3. /\ Server(my[q].pac[1]) = q /\ ~conn[my[q].pac[1]].over
          /\ my[q].pac[2] = conn[my[q].pac[1]].read /\ ~Known(my[q].pac)
      BY <2>1 DEF IInv, OfferOK
    <2>4. ~Known(my[q].pac)'
      BY <1>7, <2>1, <2>2, <2>3
    <2> QED  BY <1>1, <1>8, <1>9, <2>1, <2>3, <2>4
  <1>12. ClosedOK'
    BY <1>4, <1>7 DEF TablesOK, ClosedOK, HoldsOK
  <1>13. OverOK'
    <2> SUFFICES ASSUME NEW a \in Addr, conn[a].over, a \notin overtaken
                 PROVE  /\ ~LoggingIn(a)'
                        /\ \/ ma'[a] = None
                           \/ at'[Server(a)] \in Closing /\ my'[Server(a)].cli[1] = a
      BY <1>1 DEF OverOK
    <2>1. ~LoggingIn(a)'
      BY <1>2, <1>9 DEF LoggingIn
    <2>2. \/ ma[a] = None
          \/ at[Server(a)] \in Closing /\ my[Server(a)].cli[1] = a
      BY DEF IInv, OverOK
    <2>3. Server(a) \in Actor /\ Server(a) # "process"
      BY ActorFacts
    <2>4. at[Server(a)] \in Closing => Server(a) # s
      BY <1>1 DEF Closing
    <2>5. my'[Server(a)].cli = my[Server(a)].cli \/ Server(a) = s
      BY <1>2, <2>3 DEF Local
    <2> QED  BY <1>1, <1>2, <2>1, <2>2, <2>3, <2>4, <2>5 DEF tables
  <1> QED  BY <1>5, <1>7, <1>10, <1>11, <1>12, <1>13 DEF IInv, TablesOK

LEMMA OfferStepOK ==
    ASSUME IInv, NEW a \in Addr, Offer(a)
    PROVE  IInv'
  <1> DEFINE s == Server(a)
             c == <<a, conn[a].read + 1>>
  <1>1. PICK login \in BOOLEAN, name \in Name :
            Go(s, "read", "offer",
               [NoLocals EXCEPT !.pac = c, !.name = name, !.login = login])
    BY L0Assumption DEF Offer, L0Assumption
  <1> DEFINE l == [NoLocals EXCEPT !.pac = c, !.name = name, !.login = login]
  <1>2. /\ conn[a].read < MaxPackets[a] /\ ~conn[a].over
        /\ conn' = [conn EXCEPT ![a].read = @ + 1]
        /\ UNCHANGED <<tables, asked, overtaken, panicked>>
    BY DEF Offer
  <1>3. conn \in [Addr -> Conn] /\ conn[a].read \in Nat /\ MaxPackets[a] \in Nat
    BY L0Assumption DEF IInv, TypeOK, Conn, L0Assumption
  <1>4. /\ conn' \in [Addr -> Conn] /\ conn'[a].read = conn[a].read + 1
        /\ \A o \in Addr : /\ conn'[o].closed = conn[o].closed
                           /\ conn'[o].over = conn[o].over
                           /\ o # a => conn'[o].read = conn[o].read
                           /\ conn[o].read <= conn'[o].read
    <2>1. conn' = [conn EXCEPT ![a] = [conn[a] EXCEPT !.read = conn[a].read + 1]]
      BY <1>2
    <2>2. conn[a] \in Conn
      BY <1>3
    <2>3. [conn[a] EXCEPT !.read = conn[a].read + 1] \in Conn
      BY <1>3, <2>2 DEF Conn
    <2>4. \A o \in Addr : conn'[o] =
             IF o = a THEN [conn[a] EXCEPT !.read = conn[a].read + 1] ELSE conn[o]
      BY <1>3, <2>1
    <2>5. conn' \in [Addr -> Conn]
      BY <1>3, <2>1, <2>3
    <2>6. \A o \in Addr : conn[o] \in Conn
      BY <1>3
    <2> QED  BY <1>3, <2>2, <2>4, <2>5, <2>6 DEF Conn
  <1>5. c \in Client /\ c # None /\ c[1] = a /\ c[2] = conn[a].read + 1
    BY <1>2, <1>3, ClientFacts
  <1>6. l \in Local /\ l.cli = None /\ l.pac = c /\ l.name = name
    BY <1>5 DEF NoLocals, Local
  <1>7. s \in Actor /\ s # "process" /\ Rest(s) # "offer" /\ name # None
    BY ActorFacts, ClientFacts
  <1>8. Go(s, "read", "offer", l)
    BY <1>1
  <1> HIDE DEF l, c, s
  <1>9. /\ at[s] = "read" /\ at' \in [Actor -> Place] /\ my' \in [Actor -> Local]
        /\ at'[s] = "offer" /\ my'[s] = l
        /\ \A q \in Actor : q # s => at'[q] = at[q] /\ my'[q] = my[q]
    <2> DEFINE to == "offer"
    <2>1. TypeOK /\ to \in Place /\ Go(s, "read", to, l)
      BY <1>8 DEF IInv, Place
    <2>2. to = "offer" /\ to # Rest(s)
      BY <1>7
    <2> HIDE DEF to
    <2>3. /\ at[s] = "read" /\ at' \in [Actor -> Place] /\ my' \in [Actor -> Local]
          /\ at'[s] = to
          /\ my'[s] = IF to = Rest(s) THEN NoLocals ELSE l
          /\ \A q \in Actor : q # s => at'[q] = at[q] /\ my'[q] = my[q]
      BY <1>6, <1>7, <2>1, GoFacts
    <2> QED  BY <2>2, <2>3
  <1>10. Quiet
    <2> SUFFICES ASSUME NEW q \in Actor
                 PROVE  my'[q].cli = None \/ Known(my'[q].cli)
      BY <1>2, <1>4 DEF Quiet
    <2> QED  BY <1>6, <1>9, HandFacts
  <1>11. \A q \in Actor : LocalOK(q)' /\ HoldsOK(q)'
    <2> SUFFICES ASSUME NEW q \in Actor
                 PROVE  LocalOK(q)' /\ HoldsOK(q)'
      OBVIOUS
    <2>1. CASE q # s
      BY <1>7, <1>9, <1>10, <2>1, OthersHold DEF Others
    <2>2. CASE q = s
      BY <1>5, <1>6, <1>7, <1>9, <2>2
         DEF LocalOK, HoldsOK, NeedsCli, NeedsPac, NeedsName, NeedsNew, Closing
    <2> QED  BY <2>1, <2>2
  <1>12. TypeOK' /\ LocalsOK'
    BY <1>2, <1>4, <1>9, <1>11, Typed DEF IInv, TypeOK
  <1>13. TablesOK' /\ \A d \in Client : Known(d)' => Known(d)
    BY <1>10, <1>12, QuietStep
  <1>14. ~Known(c)
    BY <1>3, <1>5 DEF IInv, KnownOK
  <1>15. InHand => Packet.pac[2] <= conn[Packet.pac[1]].read /\ ~Known(Packet.pac)
    BY DEF IInv, PacketOK
  <1>16. /\ Packet' = Packet /\ (InHand' <=> InHand) /\ (LogsIn' <=> LogsIn)
         /\ InHand => Packet.pac \in Client /\ Packet.pac[1] \in Addr
    BY <1>7, <1>9, ActorFacts, PacketFacts DEF Packet, InHand, LogsIn
  <1>17. PacketOK'
    <2>1. InHand' => ~Known(Packet.pac)'
      BY <1>13, <1>15, <1>16
    <2>2. InHand' => Packet'.pac[2] <= conn'[Packet'.pac[1]].read
      <3> SUFFICES ASSUME InHand
                   PROVE  Packet.pac[2] <= conn'[Packet.pac[1]].read
        BY <1>16
      <3> DEFINE o == Packet.pac[1]
      <3>1. /\ o \in Addr /\ Packet.pac[2] \in Nat
            /\ Packet.pac[2] <= conn[o].read /\ conn[o].read <= conn'[o].read
        BY <1>4, <1>15, <1>16, ClientFacts
      <3>2. conn[o].read \in Nat /\ conn'[o].read \in Nat
        BY <1>3, <1>4, <3>1 DEF Conn
      <3> QED  BY <3>1, <3>2
    <2>3. LogsIn' => /\ ma'[Packet'.pac[1]] = None /\ Packet'.login
                     /\ client'[Packet'.pac].name = Packet'.name
      BY <1>2, <1>16 DEF IInv, PacketOK, tables
    <2> QED  BY <2>1, <2>2, <2>3 DEF PacketOK
  <1>18. OfferOK'
    <2> SUFFICES ASSUME NEW r \in Actor, at'[r] = "offer"
                 PROVE  /\ Server(my'[r].pac[1]) = r
                        /\ ~conn'[my'[r].pac[1]].over
                        /\ my'[r].pac[2] = conn'[my'[r].pac[1]].read
                        /\ ~Known(my[r].pac)'
                        /\ InHand' => my'[r].pac # Packet'.pac
      BY DEF OfferOK
    <2>1. CASE r = s
      <3>1. my'[r].pac = c
        BY <1>6, <1>9, <2>1
      <3>2. ~Known(my[r].pac)'
        BY <1>5, <1>13, <1>14, <3>1
      <3>3. InHand => c # Packet.pac
        BY <1>3, <1>5, <1>15
      <3> QED  BY <1>2, <1>4, <1>5, <1>16, <2>1, <3>1, <3>2, <3>3 DEF s
    <2>2. CASE r # s
      <3>1. at[r] = "offer" /\ my'[r] = my[r]
        BY <1>9, <2>2
      <3>2. /\ Server(my[r].pac[1]) = r /\ ~conn[my[r].pac[1]].over
            /\ my[r].pac[2] = conn[my[r].pac[1]].read /\ ~Known(my[r].pac)
            /\ InHand => my[r].pac # Packet.pac
        BY <3>1 DEF IInv, OfferOK
      <3>3. my[r].pac \in Client /\ my[r].pac[1] \in Addr /\ my[r].pac[1] # a
        BY <2>2, <3>1, <3>2, HandFacts, ClientFacts DEF LocalOK, NeedsPac, s
      <3>4. ~Known(my[r].pac)'
        BY <1>13, <3>1, <3>2, <3>3
      <3> QED  BY <1>4, <1>16, <3>1, <3>2, <3>3, <3>4
    <2> QED  BY <2>1, <2>2
  <1>19. ClosedOK'
    BY <1>11, <1>13 DEF TablesOK, ClosedOK, HoldsOK
  <1>20. OverOK'
    <2> SUFFICES ASSUME NEW o \in Addr, conn[o].over, o \notin overtaken
                 PROVE  /\ ~LoggingIn(o)'
                        /\ \/ ma'[o] = None
                           \/ at'[Server(o)] \in Closing /\ my'[Server(o)].cli[1] = o
      BY <1>2, <1>4 DEF OverOK
    <2>1. /\ ~LoggingIn(o)
          /\ \/ ma[o] = None
             \/ at[Server(o)] \in Closing /\ my[Server(o)].cli[1] = o
      BY DEF IInv, OverOK
    <2>2. ~LoggingIn(o)'
      BY <1>16, <2>1 DEF LoggingIn, Packet, InHand
    <2>3. Server(o) \in Actor /\ (at[Server(o)] \in Closing => Server(o) # s)
      BY <1>9, ActorFacts DEF Closing
    <2> QED  BY <1>2, <1>9, <2>1, <2>2, <2>3 DEF tables
  <1> QED  BY <1>12, <1>13, <1>17, <1>18, <1>19, <1>20 DEF IInv, TablesOK

LEMMA EndOK ==
    ASSUME IInv, NEW a \in Addr, End(a)
    PROVE  IInv'
  <1> DEFINE s == Server(a)
             to == IF ma[a] = None THEN Rest(s) ELSE "close"
             l == [NoLocals EXCEPT !.cli = ma[a]]
  <1>1. /\ Go(s, "read", to, l) /\ ~conn[a].over
        /\ conn' = [conn EXCEPT ![a].over = TRUE,
                                ![a].closed = @ \/ (ma[a] = None /\ a \in Tcp)]
        /\ overtaken' = IF LoggingIn(a) THEN overtaken \cup {a} ELSE overtaken
        /\ UNCHANGED <<tables, asked, panicked>>
    BY DEF End
  <1>2. conn \in [Addr -> Conn] /\ ma[a] \in Client \cup {None}
    BY DEF IInv, TypeOK
  <1>3. /\ conn' \in [Addr -> Conn] /\ conn'[a].over
        /\ \A o \in Addr : /\ conn[o].closed => conn'[o].closed
                           /\ o # a => conn'[o].over = conn[o].over
                           /\ conn'[o].read = conn[o].read
                           /\ conn[o].read <= conn'[o].read
    <2> DEFINE closes == conn[a].closed \/ (ma[a] = None /\ a \in Tcp)
               over == [conn[a] EXCEPT !.over = TRUE]
               x == [over EXCEPT !.closed = closes]
    <2>1. \A o \in Addr : conn[o] \in Conn
      BY <1>2
    <2>2. conn' = [conn EXCEPT ![a] = x]
      BY <1>1, <1>2
    <2>3. /\ over \in Conn /\ over.over /\ over.read = conn[a].read
      BY <2>1 DEF Conn
    <2>4. x \in Conn /\ x.over /\ x.read = conn[a].read /\ (conn[a].closed => x.closed)
      <3>1. closes \in BOOLEAN
        BY <2>1 DEF Conn
      <3> HIDE DEF over
      <3> QED  BY <2>3, <3>1 DEF Conn
    <2>5. conn' \in [Addr -> Conn]
      BY <1>2, <2>2, <2>4
    <2>6. \A o \in Addr : conn'[o] = IF o = a THEN x ELSE conn[o]
      BY <1>2, <2>2
    <2> HIDE DEF x
    <2> QED  BY <2>1, <2>4, <2>5, <2>6 DEF Conn
  <1>4. l \in Local /\ l.cli = ma[a]
    BY <1>2 DEF NoLocals, Local
  <1>5. /\ s \in Actor /\ s # "process" /\ Rest(s) \in {"get", "read", "idle", "done"}
        /\ to \in Place /\ (ma[a] = None => to = Rest(s)) /\ (ma[a] # None => to = "close")
    BY ActorFacts DEF Place, Closing
  <1> HIDE DEF l, s, to
  <1>6. /\ at[s] = "read" /\ at' \in [Actor -> Place] /\ my' \in [Actor -> Local]
        /\ at'[s] = to
        /\ my'[s] = IF to = Rest(s) THEN NoLocals ELSE l
        /\ \A q \in Actor : q # s => at'[q] = at[q] /\ my'[q] = my[q]
    <2>1. TypeOK /\ Go(s, "read", to, l)
      BY <1>1 DEF IInv
    <2>2. s \in Actor /\ to \in Place /\ l \in Local
      BY <1>4, <1>5
    <2> QED  BY <2>1, <2>2, GoFacts
  <1>7. /\ at'[s] \in {"get", "read", "idle", "done", "close"}
        /\ at'[s] = "close" => my'[s].cli = ma[a] /\ ma[a] # None
        /\ ma[a] # None => at'[s] = "close"
        /\ at'[s] # "close" => my'[s].cli = None
    BY <1>4, <1>5, <1>6 DEF NoLocals
  <1>8. Quiet
    <2>1. ma[a] = None \/ Known(ma[a])
      BY DEF Known
    <2> SUFFICES ASSUME NEW q \in Actor
                 PROVE  my'[q].cli = None \/ Known(my'[q].cli)
      BY <1>1, <1>3 DEF Quiet
    <2> QED  BY <1>6, <1>7, <2>1, HandFacts
  <1>9. \A q \in Actor : LocalOK(q)' /\ HoldsOK(q)'
    <2> SUFFICES ASSUME NEW q \in Actor
                 PROVE  LocalOK(q)' /\ HoldsOK(q)'
      OBVIOUS
    <2>1. CASE q # s
      BY <1>5, <1>6, <1>8, <2>1, OthersHold DEF Others
    <2>2. CASE q = s
      BY <1>5, <1>7, <2>2
         DEF LocalOK, HoldsOK, NeedsCli, NeedsPac, NeedsName, NeedsNew, Closing
    <2> QED  BY <2>1, <2>2
  <1>10. overtaken \subseteq overtaken' /\ overtaken' \subseteq Addr
    BY <1>1 DEF IInv, TypeOK
  <1>11. TypeOK' /\ LocalsOK'
    BY <1>1, <1>3, <1>6, <1>9, <1>10, Typed
  <1>12. TablesOK' /\ \A d \in Client : Known(d)' => Known(d)
    BY <1>8, <1>11, QuietStep
  <1>13. /\ Packet' = Packet /\ (InHand' <=> InHand) /\ (LogsIn' <=> LogsIn)
         /\ InHand => Packet.pac \in Client /\ Packet.pac[1] \in Addr
    BY <1>5, <1>6, ActorFacts, PacketFacts DEF Packet, InHand, LogsIn
  <1>14. PacketOK'
    <2>1. InHand => ~Known(Packet.pac) /\ Packet.pac[2] <= conn[Packet.pac[1]].read
      BY DEF IInv, PacketOK
    <2>2. InHand' => ~Known(Packet.pac)'
      BY <1>12, <1>13, <2>1
    <2>3. InHand' => Packet'.pac[2] <= conn'[Packet'.pac[1]].read
      BY <1>3, <1>13, <2>1
    <2>4. LogsIn' => /\ ma'[Packet'.pac[1]] = None /\ Packet'.login
                     /\ client'[Packet'.pac].name = Packet'.name
      BY <1>1, <1>13 DEF IInv, PacketOK, tables
    <2> QED  BY <2>2, <2>3, <2>4 DEF PacketOK
  <1>15. OfferOK'
    <2> SUFFICES ASSUME NEW r \in Actor, at'[r] = "offer"
                 PROVE  /\ Server(my'[r].pac[1]) = r
                        /\ ~conn'[my'[r].pac[1]].over
                        /\ my'[r].pac[2] = conn'[my'[r].pac[1]].read
                        /\ ~Known(my[r].pac)'
                        /\ InHand' => my'[r].pac # Packet'.pac
      BY DEF OfferOK
    <2>1. r # s /\ at[r] = "offer" /\ my'[r] = my[r]
      BY <1>6, <1>7
    <2>2. /\ Server(my[r].pac[1]) = r /\ ~conn[my[r].pac[1]].over
          /\ my[r].pac[2] = conn[my[r].pac[1]].read /\ ~Known(my[r].pac)
          /\ InHand => my[r].pac # Packet.pac
      BY <2>1 DEF IInv, OfferOK
    <2>3. my[r].pac \in Client /\ my[r].pac[1] \in Addr /\ my[r].pac[1] # a
      BY <2>1, <2>2, HandFacts, ClientFacts DEF LocalOK, NeedsPac, s
    <2>4. ~Known(my[r].pac)'
      BY <1>12, <2>1, <2>2, <2>3
    <2> QED  BY <1>3, <1>13, <2>1, <2>2, <2>3, <2>4
  <1>16. ClosedOK'
    BY <1>9, <1>12 DEF TablesOK, ClosedOK, HoldsOK
  <1>17. OverOK'
    <2> SUFFICES ASSUME NEW o \in Addr, conn'[o].over, o \notin overtaken'
                 PROVE  /\ ~LoggingIn(o)'
                        /\ \/ ma'[o] = None
                           \/ at'[Server(o)] \in Closing /\ my'[Server(o)].cli[1] = o
      BY DEF OverOK
    <2>1. LoggingIn(o)' <=> LoggingIn(o)
      BY <1>5, <1>6, ActorFacts DEF LoggingIn
    <2>2. CASE o = a
      <3>1. ~LoggingIn(a)
        BY <1>1, <2>2
      <3>2. ma[a] # None => ma[a][1] = a
        BY DEF IInv, AddrMatch
      <3> QED  BY <1>1, <1>7, <2>1, <2>2, <3>1, <3>2 DEF tables, s, Closing
    <2>3. CASE o # a
      <3>1. conn[o].over /\ o \notin overtaken
        BY <1>3, <1>10, <2>3
      <3>2. /\ ~LoggingIn(o)
            /\ \/ ma[o] = None
               \/ at[Server(o)] \in Closing /\ my[Server(o)].cli[1] = o
        BY <3>1 DEF IInv, OverOK
      <3>3. Server(o) \in Actor /\ (at[Server(o)] \in Closing => Server(o) # s)
        BY <1>6, ActorFacts DEF Closing
      <3> QED  BY <1>1, <1>6, <2>1, <3>2, <3>3 DEF tables
    <2> QED  BY <2>2, <2>3
  <1> QED  BY <1>11, <1>12, <1>14, <1>15, <1>16, <1>17 DEF IInv, TablesOK

-----------------------------------------------------------------------------
(* Steps that change the tables *)

TablesTyped ==
    /\ client \in [Client -> [name : Name \cup {None}, conn : BOOLEAN]]
    /\ ma \in [Addr -> Client \cup {None}]
    /\ mn \in [Name -> Client \cup {None}]
    /\ held \in [Name -> SUBSET Client]

\* A step of actor p by which no client gets known and no connection changes.
LEMMA TableStep ==
    ASSUME IInv, NEW p \in Actor, Others(p), at'[p] # "offer",
           at' \in [Actor -> Place], my' \in [Actor -> Local], TablesTyped',
           UNCHANGED <<conn, asked, overtaken, panicked>>,
           \A c \in Client : Known(c)' => Known(c),
           InHand' => /\ InHand /\ Packet'.pac = Packet.pac
                      /\ Packet'.login = Packet.login,
           LogsIn' => /\ ma'[Packet'.pac[1]] = None /\ Packet'.login
                      /\ client'[Packet'.pac].name = Packet'.name,
           LocalOK(p)',
           \A a \in Addr : ma[a] = None => ma'[a] = None,
           at[p] \in Closing =>
               \/ ma'[my[p].cli[1]] = None
               \/ at'[p] \in Closing /\ my'[p].cli = my[p].cli
    PROVE  TypeOK' /\ LocalsOK' /\ PacketOK' /\ OfferOK' /\ OverOK'
  <1>1. \A q \in Actor : LocalOK(q)'
    <2> SUFFICES ASSUME NEW q \in Actor, q # p
                 PROVE  LocalOK(q)'
      OBVIOUS
    <2>1. LocalOK(q)
      BY HandFacts
    <2> QED  BY <2>1 DEF Others, LocalOK, NeedsCli, NeedsPac, NeedsName, NeedsNew
  <1>2. LocalsOK'
    BY <1>1 DEF LocalsOK, LocalOK
  <1>3. TypeOK'
    <2>1. \A q \in Actor :
            /\ at'[q] \in Closing \cup {"write", "renamed"} => my'[q].cli # None
            /\ at'[q] \in {"offer", "findAddr", "closeName", "add", "start"} =>
               my'[q].pac # None
            /\ at'[q] \in {"offer", "findAddr", "closeName", "add", "findName",
                           "sendTo", "rename", "renamed"} => my'[q].name # None
            /\ at'[q] \in {"rename", "renamed"} => my'[q].newname # None
      BY <1>1 DEF LocalOK, NeedsCli, NeedsPac, NeedsName, NeedsNew
    <2> QED  BY <2>1 DEF IInv, TypeOK, TablesTyped
  <1>4. PacketOK'
    <2>1. InHand => /\ Packet.pac \in Client /\ ~Known(Packet.pac)
                    /\ Packet.pac[2] <= conn[Packet.pac[1]].read
      BY PacketFacts DEF IInv, PacketOK, InHand
    <2>2. InHand' => ~Known(Packet.pac)'
      BY <2>1
    <2> QED  BY <2>1, <2>2 DEF PacketOK
  <1>5. OfferOK'
    <2> SUFFICES ASSUME NEW r \in Actor, at'[r] = "offer"
                 PROVE  /\ Server(my'[r].pac[1]) = r
                        /\ ~conn'[my'[r].pac[1]].over
                        /\ my'[r].pac[2] = conn'[my'[r].pac[1]].read
                        /\ ~Known(my[r].pac)'
                        /\ InHand' => my'[r].pac # Packet'.pac
      BY DEF OfferOK
    <2>1. at[r] = "offer" /\ my'[r] = my[r]
      BY DEF Others
    <2>2. /\ Server(my[r].pac[1]) = r /\ ~conn[my[r].pac[1]].over
          /\ my[r].pac[2] = conn[my[r].pac[1]].read /\ ~Known(my[r].pac)
          /\ InHand => my[r].pac # Packet.pac
      BY <2>1 DEF IInv, OfferOK
    <2>3. my[r].pac \in Client
      BY <2>1, HandFacts DEF LocalOK, NeedsPac
    <2>4. ~Known(my[r].pac)'
      BY <2>1, <2>2, <2>3
    <2> QED  BY <2>1, <2>2, <2>4
  <1>6. OverOK'
    <2> SUFFICES ASSUME NEW a \in Addr, conn[a].over, a \notin overtaken
                 PROVE  /\ ~LoggingIn(a)'
                        /\ \/ ma'[a] = None
                           \/ at'[Server(a)] \in Closing /\ my'[Server(a)].cli[1] = a
      BY DEF OverOK
    <2>1. /\ ~LoggingIn(a)
          /\ \/ ma[a] = None
             \/ at[Server(a)] \in Closing /\ my[Server(a)].cli[1] = a
      BY DEF IInv, OverOK
    <2>2. ~LoggingIn(a)'
      BY <2>1 DEF LoggingIn, Packet, InHand
    <2>3. Server(a) \in Actor
      BY ActorFacts
    <2> QED  BY <2>1, <2>2, <2>3 DEF Others
  <1> QED  BY <1>2, <1>3, <1>4, <1>5, <1>6

LEMMA ClearConnOK ==
    ASSUME IInv, NEW p \in Actor, ClearConn(p)
    PROVE  IInv'
  <1> DEFINE c == my[p].cli
  <1>1. /\ Go(p, "clearConn", "delete", my[p])
        /\ client' = [client EXCEPT ![c].conn = FALSE]
        /\ UNCHANGED <<conn, ma, mn, held, asked, overtaken, panicked>>
    BY DEF ClearConn
  <1>2. at[p] = "clearConn" /\ my[p] \in Local /\ TypeOK
    BY <1>1, HandFacts DEF Go, IInv
  <1>3. /\ at' \in [Actor -> Place] /\ my' \in [Actor -> Local]
        /\ at'[p] = "delete" /\ my'[p] = my[p]
        /\ \A q \in Actor : q # p => at'[q] = at[q] /\ my'[q] = my[q]
    <2> DEFINE to == "delete"
    <2>1. to \in Place /\ to # Rest(p)
      BY ActorFacts DEF Place, Closing
    <2>2. Go(p, "clearConn", to, my[p]) /\ to = "delete"
      BY <1>1
    <2> HIDE DEF to
    <2> QED  BY <1>2, <2>1, <2>2, GoFacts
  <1>4. /\ LocalOK(p) /\ c \in Client /\ conn[c[1]].closed
    BY <1>2, HandFacts DEF LocalOK, HoldsOK, NeedsCli, Closing
  <1>5. /\ TablesTyped'
        /\ \A d \in Client : /\ client'[d].name = client[d].name
                             /\ client'[d].conn = IF d = c THEN FALSE ELSE client[d].conn
    <2>1. /\ client \in [Client -> [name : Name \cup {None}, conn : BOOLEAN]]
          /\ ma \in [Addr -> Client \cup {None}] /\ mn \in [Name -> Client \cup {None}]
          /\ held \in [Name -> SUBSET Client]
      BY <1>2 DEF TypeOK
    <2> HIDE DEF c
    <2> QED  BY <1>1, <1>4, <2>1 DEF TablesTyped
  <1>6. \A d \in Client : Known(d)' <=> Known(d)
    <2>1. \A q \in Actor : my'[q] = my[q]
      BY <1>3
    <2> QED  BY <1>1, <2>1 DEF Known
  <1>7. LocalOK(p)'
    BY <1>2, <1>3, <1>4, ClientFacts
       DEF LocalOK, NeedsCli, NeedsPac, NeedsName, NeedsNew, Closing
  <1>8. Packet' = Packet /\ (InHand' <=> InHand) /\ (LogsIn' <=> LogsIn)
        /\ (InHand => Packet.pac \in Client)
    <2>1. CASE p = "process"
      BY <1>2, <1>3, <2>1, PacketFacts DEF Packet, InHand, LogsIn, Closing
    <2>2. CASE p # "process"
      BY <1>3, <2>2, ActorFacts, PacketFacts DEF Packet, InHand, LogsIn
    <2> QED  BY <2>1, <2>2
  <1>9. LogsIn' => /\ ma'[Packet'.pac[1]] = None /\ Packet'.login
                   /\ client'[Packet'.pac].name = Packet'.name
    BY <1>1, <1>5, <1>8 DEF IInv, PacketOK, LogsIn, InHand
  <1>10. TypeOK' /\ LocalsOK' /\ PacketOK' /\ OfferOK' /\ OverOK'
    <2>1. at'[p] # "offer" /\ Others(p) /\ (at[p] \in Closing => at'[p] \in Closing /\ my'[p].cli = my[p].cli)
      BY <1>3 DEF Others, Closing
    <2> QED  BY <1>1, <1>3, <1>5, <1>6, <1>7, <1>8, <1>9, <2>1, TableStep
  <1>11. KnownOK' /\ AddrMatch' /\ NamesMatch' /\ FoundByName' /\ OpenIsListed'
    <2>1. ma \in [Addr -> Client \cup {None}] /\ mn \in [Name -> Client \cup {None}]
      BY <1>2 DEF TypeOK
    <2>2. KnownOK'
      BY <1>1, <1>5, <1>6 DEF IInv, KnownOK
    <2>3. AddrMatch' /\ OpenIsListed'
      BY <1>1 DEF IInv, AddrMatch, OpenIsListed, Listed
    <2>4. NamesMatch' /\ FoundByName'
      BY <1>1, <1>5, <2>1 DEF IInv, NamesMatch, FoundByName, Listed
    <2> QED  BY <2>2, <2>3, <2>4
  <1>12. ClosedOK'
    BY <1>1, <1>2, <1>3, <1>4, <1>5 DEF IInv, ClosedOK
  <1> QED  BY <1>10, <1>11, <1>12 DEF IInv

LEMMA DeleteOK ==
    ASSUME IInv, NEW p \in Actor, Delete(p)
    PROVE  IInv'
  <1> DEFINE c == my[p].cli
             a == c[1]
             n == client[c].name
             to == AfterClose(p)
  <1>1. /\ Go(p, "delete", to, my[p])
        /\ ma' = [ma EXCEPT ![a] = None] /\ mn' = [mn EXCEPT ![n] = None]
        /\ UNCHANGED <<conn, client, held, asked, overtaken, panicked>>
    BY DEF Delete
  <1>2. at[p] = "delete" /\ my[p] \in Local /\ TypeOK
    BY <1>1, HandFacts DEF Go, IInv
  <1>3. /\ LocalOK(p) /\ c \in Client /\ conn[a].closed /\ Known(c) /\ a \in Addr
        /\ p = "process" => my[p].pac # None /\ my[p].name # None
    BY <1>2, HandFacts, ClientFacts
       DEF LocalOK, HoldsOK, NeedsCli, NeedsPac, NeedsName, Closing
  <1>4. n \in Name /\ c \in held[n]
    BY <1>3 DEF IInv, KnownOK
  <1>5. /\ p = "process" => to = "add"
        /\ p # "process" => to = Rest(p)
        /\ Rest(p) \in {"get", "read", "idle", "done"}
        /\ to \in {"add", "get", "read", "idle", "done"}
        /\ Rest("process") = "get"
    BY AfterFacts, ActorFacts
  <1> HIDE DEF to, c, n, a
  <1>6. /\ at' \in [Actor -> Place] /\ my' \in [Actor -> Local] /\ at'[p] = to
        /\ my'[p] = IF to = Rest(p) THEN NoLocals ELSE my[p]
        /\ Others(p)
    <2>1. to \in Place
      BY <1>5 DEF Place
    <2> QED  BY <1>1, <1>2, <2>1, GoFacts DEF Others
  <1>7. /\ ma \in [Addr -> Client \cup {None}] /\ mn \in [Name -> Client \cup {None}]
        /\ TablesTyped'
        /\ \A o \in Addr : ma'[o] = IF o = a THEN None ELSE ma[o]
        /\ \A m \in Name : mn'[m] = IF m = n THEN None ELSE mn[m]
    BY <1>1, <1>2 DEF TypeOK, TablesTyped
  <1>8. \A d \in Client : Known(d)' => Known(d)
    <2>1. \A q \in Actor : my'[q].cli = my[q].cli \/ my'[q].cli = None
      BY <1>6 DEF Others, NoLocals
    <2> QED  BY <1>7, <2>1, ClientFacts DEF Known
  <1>9. LocalOK(p)'
    <2>1. CASE p = "process"
      <3>1. at'[p] = "add" /\ my'[p] = my[p]
        BY <1>5, <1>6, <2>1
      <3> QED  BY <1>3, <2>1, <3>1
                  DEF LocalOK, NeedsCli, NeedsPac, NeedsName, NeedsNew, Closing
    <2>2. CASE p # "process"
      <3>1. at'[p] \in {"get", "read", "idle", "done"}
        BY <1>5, <1>6, <2>2
      <3> QED  BY <2>2, <3>1
                  DEF LocalOK, NeedsCli, NeedsPac, NeedsName, NeedsNew, Closing
    <2> QED  BY <2>1, <2>2
  <1>10. /\ InHand' => InHand /\ Packet' = Packet
         /\ LogsIn' => LogsIn
    <2>1. CASE p = "process"
      BY <1>2, <1>5, <1>6, <2>1 DEF Packet, InHand, LogsIn, Closing
    <2>2. CASE p # "process"
      BY <1>6, <2>2, ActorFacts DEF Packet, InHand, LogsIn, Others
    <2> QED  BY <2>1, <2>2
  <1>11. LogsIn' => /\ ma'[Packet'.pac[1]] = None /\ Packet'.login
                    /\ client'[Packet'.pac].name = Packet'.name
    <2> SUFFICES ASSUME LogsIn'
                 PROVE  /\ ma'[Packet'.pac[1]] = None /\ Packet'.login
                        /\ client'[Packet'.pac].name = Packet'.name
      OBVIOUS
    <2>1. InHand' /\ LogsIn
      BY <1>10 DEF InHand, LogsIn
    <2>2. Packet' = Packet /\ Packet.pac[1] \in Addr
      BY <1>10, <2>1, PacketFacts DEF InHand
    <2> QED  BY <1>1, <1>7, <2>1, <2>2 DEF IInv, PacketOK
  <1>12. TypeOK' /\ LocalsOK' /\ PacketOK' /\ OfferOK' /\ OverOK'
    <2>1. /\ at'[p] # "offer"
          /\ ma'[my[p].cli[1]] = None
          /\ \A o \in Addr : ma[o] = None => ma'[o] = None
      BY <1>3, <1>5, <1>6, <1>7 DEF a, c
    <2> QED  BY <1>1, <1>6, <1>7, <1>8, <1>9, <1>10, <1>11, <2>1, TableStep
  <1>13. KnownOK' /\ AddrMatch' /\ NamesMatch'
    <2>1. KnownOK'
      BY <1>1, <1>8 DEF IInv, KnownOK
    <2> QED  BY <1>1, <1>7, <2>1 DEF IInv, AddrMatch, NamesMatch
  <1>14. FoundByName'
    <2> SUFFICES ASSUME NEW o \in Addr, ma'[o] # None,
                        held[client[ma'[o]].name] = {ma'[o]}
                 PROVE  mn'[client[ma'[o]].name] = ma'[o]
      BY <1>1, <1>7 DEF FoundByName, Listed
    <2> DEFINE d == ma[o]
    <2>1. o # a /\ ma'[o] = d /\ d \in Client /\ d[1] = o
      BY <1>7 DEF IInv, AddrMatch
    <2>2. d # c /\ Known(d) /\ d \in Listed(ma)
      BY <1>7, <2>1 DEF a, Known, Listed
    <2>3. held[client[d].name] = {d} /\ client[d].name \in Name
      BY <2>1, <2>2 DEF IInv, KnownOK
    <2>4. client[d].name # n
      BY <1>4, <2>2, <2>3
    <2>5. mn[client[d].name] = d
      BY <2>2, <2>3 DEF IInv, FoundByName
    <2> QED  BY <1>7, <2>1, <2>3, <2>4, <2>5
  <1>15. OpenIsListed'
    <2> SUFFICES ASSUME NEW m \in Name, mn'[m] # None, ~conn[mn'[m][1]].closed
                 PROVE  ma'[mn'[m][1]] = mn'[m]
      BY <1>1, <1>7 DEF OpenIsListed, Listed
    <2>1. mn'[m] = mn[m] /\ mn[m] \in Client /\ mn[m] \in Listed(mn)
      BY <1>7 DEF Listed
    <2>2. ma[mn[m][1]] = mn[m] /\ mn[m][1] \in Addr
      BY <2>1, ClientFacts DEF IInv, OpenIsListed
    <2> QED  BY <1>3, <1>7, <2>1, <2>2
  <1>16. ClosedOK'
    <2> SUFFICES ASSUME NEW q \in Actor
                 PROVE  HoldsOK(q)'
      BY <1>1 DEF IInv, ClosedOK, HoldsOK
    <2>1. CASE q = p
      BY <1>5, <1>6, <2>1 DEF HoldsOK
    <2>2. CASE q # p
      <3>1. at'[q] = at[q] /\ my'[q] = my[q] /\ HoldsOK(q) /\ LocalOK(q)
        BY <1>6, <2>2, HandFacts DEF Others
      <3>2. at[q] = "renamed" => my[q].cli \in Client /\ my[q].cli[1] \in Addr
        BY <3>1, HandFacts, ClientFacts DEF LocalOK, NeedsCli
      <3> QED  BY <1>1, <1>3, <1>7, <3>1, <3>2 DEF HoldsOK
    <2> QED  BY <2>1, <2>2
  <1> QED  BY <1>12, <1>13, <1>14, <1>15, <1>16 DEF IInv

LEMMA LoginOK ==
    ASSUME IInv, Login
    PROVE  IInv'
  <1> DEFINE c == Packet.pac
             p == "process"
             to == "closeName"
  <1>1. /\ Go(p, "findAddr", to, Packet) /\ ma[c[1]] = None /\ Packet.login
        /\ client' = [client EXCEPT ![c].name = Packet.name]
        /\ UNCHANGED <<conn, ma, mn, held, asked, overtaken, panicked>>
    BY DEF Login
  <1>2. /\ at[p] = "findAddr" /\ Packet \in Local /\ TypeOK /\ Packet = my[p]
        /\ p \in Actor /\ Rest(p) = "get"
    BY <1>1, PacketFacts, ActorFacts DEF Go, IInv, Packet
  <1>3. c \in Client /\ Packet.name \in Name /\ ~Known(c)
    BY <1>2, PacketFacts DEF IInv, PacketOK, InHand
  <1>4. /\ at' \in [Actor -> Place] /\ my' \in [Actor -> Local] /\ at'[p] = "closeName"
        /\ my'[p] = my[p] /\ Others(p)
    <2>1. to \in Place /\ to # Rest(p) /\ to = "closeName"
      BY <1>2 DEF Place
    <2> HIDE DEF to, p
    <2> QED  BY <1>1, <1>2, <2>1, GoFacts DEF Others
  <1>5. /\ TablesTyped'
        /\ \A d \in Client : /\ client'[d].name = IF d = c THEN Packet.name
                                                 ELSE client[d].name
                             /\ client'[d].conn = client[d].conn
    <2>1. /\ client \in [Client -> [name : Name \cup {None}, conn : BOOLEAN]]
          /\ ma \in [Addr -> Client \cup {None}] /\ mn \in [Name -> Client \cup {None}]
          /\ held \in [Name -> SUBSET Client]
      BY <1>2 DEF TypeOK
    <2> DEFINE x == Packet.name
    <2>2. client' = [client EXCEPT ![c].name = x] /\ x \in Name
      BY <1>1, <1>3
    <2> HIDE DEF c, x
    <2> QED  BY <1>1, <1>3, <2>1, <2>2 DEF TablesTyped, x
  <1>6. \A d \in Client : Known(d)' <=> Known(d)
    <2>1. \A q \in Actor : my'[q] = my[q]
      BY <1>4 DEF Others
    <2> QED  BY <1>1, <2>1 DEF Known
  <1>7. LocalOK(p)'
    BY <1>3, <1>4, ClientFacts
       DEF LocalOK, NeedsCli, NeedsPac, NeedsName, NeedsNew, Packet, Closing
  <1>8. Packet' = Packet /\ InHand
    BY <1>2, <1>4 DEF Packet, InHand
  <1>9. TypeOK' /\ LocalsOK' /\ PacketOK' /\ OfferOK' /\ OverOK'
    <2>1. at'[p] # "offer" /\ at[p] \notin Closing
      BY <1>2, <1>4 DEF Closing
    <2>2. /\ ma'[Packet'.pac[1]] = None /\ Packet'.login
          /\ client'[Packet'.pac].name = Packet'.name
      BY <1>1, <1>3, <1>5, <1>8
    <2> HIDE DEF p
    <2> QED  BY <1>1, <1>2, <1>4, <1>5, <1>6, <1>7, <1>8, <2>1, <2>2, TableStep
  <1>10. /\ ma \in [Addr -> Client \cup {None}] /\ mn \in [Name -> Client \cup {None}]
         /\ \A o \in Addr : ma[o] # c
         /\ \A n \in Name : mn[n] # c
    BY <1>2, <1>3 DEF TypeOK, Known
  <1>11. KnownOK'
    <2> SUFFICES ASSUME NEW d \in Client, Known(d)'
                 PROVE  /\ d[2] <= conn'[d[1]].read
                        /\ client'[d].name \in Name /\ d \in held'[client'[d].name]
      BY DEF KnownOK
    <2>1. Known(d) /\ d # c
      BY <1>3, <1>6
    <2> QED  BY <1>1, <1>5, <2>1 DEF IInv, KnownOK
  <1>12. AddrMatch' /\ NamesMatch' /\ FoundByName' /\ OpenIsListed'
    <2>1. AddrMatch' /\ OpenIsListed'
      BY <1>1 DEF IInv, AddrMatch, OpenIsListed, Listed
    <2>2. NamesMatch' /\ FoundByName'
      BY <1>1, <1>5, <1>10 DEF IInv, NamesMatch, FoundByName, Listed
    <2> QED  BY <2>1, <2>2
  <1>13. ClosedOK'
    <2>1. \A d \in Client : ~client'[d].conn => conn'[d[1]].closed
      BY <1>1, <1>5 DEF IInv, ClosedOK
    <2>2. \A q \in Actor : HoldsOK(q)'
      BY <1>1, <1>4, HandFacts DEF HoldsOK, Others
    <2> QED  BY <2>1, <2>2 DEF ClosedOK, HoldsOK
  <1> QED  BY <1>9, <1>11, <1>12, <1>13 DEF IInv

LEMMA RenameOK ==
    ASSUME IInv, NEW p \in Actor, Rename(p)
    PROVE  IInv'
  <1> DEFINE c == my[p].cli
             old == client[c].name
             new == my[p].newname
             to == AfterRename(p)
             l == Renamed(p)
  <1>1. /\ Go(p, "renamed", to, l)
        /\ client' = [client EXCEPT ![c].name = new]
        /\ mn' = [mn EXCEPT ![old] = None, ![new] = c]
        /\ held' = [held EXCEPT ![new] = @ \cup {c}]
        /\ UNCHANGED <<conn, ma, asked, overtaken, panicked>>
    BY DEF Rename, Moved, SetName
  <1>2. at[p] = "renamed" /\ my[p] \in Local /\ TypeOK
    BY <1>1, HandFacts DEF Go, IInv
  <1>3. /\ LocalOK(p) /\ c \in Client /\ c[1] \in Addr /\ Known(c) /\ new \in Name
        /\ conn[c[1]].closed \/ ma[c[1]] = c
    BY <1>2, HandFacts, ClientFacts DEF LocalOK, HoldsOK, NeedsCli, NeedsNew
  <1>4. /\ old \in Name /\ c \in held[old] /\ c[2] <= conn[c[1]].read
    BY <1>3 DEF IInv, KnownOK
  <1>5. l \in Local /\ l.cli = c /\ l.name = new
    BY <1>2, <1>3 DEF Renamed, Local
  <1>6. /\ p = "registrar" => to = "sendTo"
        /\ p # "registrar" => to = Rest(p)
        /\ Rest(p) \in {"get", "read", "idle", "done"}
        /\ to \in {"sendTo", "get", "read", "idle", "done"}
        /\ p = "process" => to = "get"
        /\ "registrar" # "process" /\ "registrar" # "loop"
    BY AfterFacts, ActorFacts
  <1> HIDE DEF to, l
  <1>7. /\ at' \in [Actor -> Place] /\ my' \in [Actor -> Local] /\ at'[p] = to
        /\ my'[p] = IF to = Rest(p) THEN NoLocals ELSE l
        /\ Others(p)
    <2>1. to \in Place
      BY <1>6 DEF Place
    <2>2. TypeOK /\ Go(p, "renamed", to, l) /\ l \in Local
      BY <1>1, <1>2, <1>5
    <2> QED  BY <2>1, <2>2, GoFacts DEF Others
  <1>8. /\ client \in [Client -> [name : Name \cup {None}, conn : BOOLEAN]]
        /\ ma \in [Addr -> Client \cup {None}] /\ mn \in [Name -> Client \cup {None}]
        /\ held \in [Name -> SUBSET Client]
    BY <1>2 DEF TypeOK
  <1>9. /\ TablesTyped'
        /\ \A d \in Client : /\ client'[d].name = IF d = c THEN new ELSE client[d].name
                             /\ client'[d].conn = client[d].conn
        /\ \A m \in Name : mn'[m] = IF m = new THEN c
                                    ELSE IF m = old THEN None ELSE mn[m]
        /\ \A m \in Name : held'[m] = IF m = new THEN held[m] \cup {c} ELSE held[m]
    <2> HIDE DEF c, old, new
    <2>1. client' \in [Client -> [name : Name \cup {None}, conn : BOOLEAN]]
          /\ \A d \in Client : /\ client'[d].name = IF d = c THEN new ELSE client[d].name
                               /\ client'[d].conn = client[d].conn
      BY <1>1, <1>3, <1>8
    <2>2. /\ mn' \in [Name -> Client \cup {None}]
          /\ \A m \in Name : mn'[m] = IF m = new THEN c
                                      ELSE IF m = old THEN None ELSE mn[m]
      BY <1>1, <1>3, <1>4, <1>8
    <2>3. /\ held' \in [Name -> SUBSET Client]
          /\ \A m \in Name : held'[m] = IF m = new THEN held[m] \cup {c} ELSE held[m]
      BY <1>1, <1>3, <1>8
    <2> QED  BY <1>1, <1>8, <2>1, <2>2, <2>3 DEF TablesTyped
  <1>10. \A d \in Client : Known(d)' => Known(d)
    <2>1. \A q \in Actor : my'[q].cli = my[q].cli \/ my'[q].cli = None
      BY <1>5, <1>7 DEF Others, NoLocals
    <2>2. \A m \in Name : mn'[m] = c \/ mn'[m] = None \/ mn'[m] = mn[m]
      BY <1>9
    <2> QED  BY <1>1, <1>3, <2>1, <2>2, ClientFacts DEF Known
  <1>11. LocalOK(p)'
    <2>1. CASE p = "registrar"
      <3>1. at'[p] = "sendTo" /\ my'[p] = l /\ p # "process" /\ p # "loop"
        BY <1>6, <1>7, <2>1
      <3> QED  BY <1>3, <1>5, <3>1, ClientFacts
                  DEF LocalOK, NeedsCli, NeedsPac, NeedsName, NeedsNew, Closing
    <2>2. CASE p # "registrar"
      <3>1. at'[p] \in {"get", "read", "idle", "done"}
        BY <1>6, <1>7, <2>2
      <3> QED  BY <2>2, <3>1
                  DEF LocalOK, NeedsCli, NeedsPac, NeedsName, NeedsNew, Closing
    <2> QED  BY <2>1, <2>2
  <1>12. /\ InHand' => InHand /\ Packet' = Packet
         /\ LogsIn' => LogsIn
    <2>1. CASE p = "process"
      BY <1>6, <1>7, <2>1 DEF Packet, InHand, LogsIn, Closing
    <2>2. CASE p # "process"
      BY <1>7, <2>2, ActorFacts DEF Packet, InHand, LogsIn, Others
    <2> QED  BY <2>1, <2>2
  <1>13. LogsIn' => /\ ma'[Packet'.pac[1]] = None /\ Packet'.login
                    /\ client'[Packet'.pac].name = Packet'.name
    <2> SUFFICES ASSUME LogsIn'
                 PROVE  /\ ma'[Packet'.pac[1]] = None /\ Packet'.login
                        /\ client'[Packet'.pac].name = Packet'.name
      OBVIOUS
    <2>1. InHand' /\ LogsIn
      BY <1>12 DEF InHand, LogsIn
    <2>2. Packet' = Packet /\ Packet.pac \in Client /\ ~Known(Packet.pac)
      BY <1>12, <2>1, PacketFacts DEF InHand, IInv, PacketOK
    <2>3. Packet.pac # c
      BY <1>3, <2>2
    <2> QED  BY <1>1, <1>9, <2>1, <2>2, <2>3 DEF IInv, PacketOK
  <1>14. TypeOK' /\ LocalsOK' /\ PacketOK' /\ OfferOK' /\ OverOK'
    <2>1. at'[p] # "offer" /\ at[p] \notin Closing
      BY <1>2, <1>6, <1>7 DEF Closing
    <2> QED  BY <1>1, <1>7, <1>9, <1>10, <1>11, <1>12, <1>13, <2>1, TableStep
  <1>15. KnownOK'
    <2> SUFFICES ASSUME NEW d \in Client, Known(d)'
                 PROVE  /\ d[2] <= conn[d[1]].read
                        /\ client'[d].name \in Name /\ d \in held'[client'[d].name]
      BY <1>1 DEF KnownOK
    <2>1. /\ d[2] <= conn[d[1]].read
          /\ client[d].name \in Name /\ d \in held[client[d].name]
      BY <1>10 DEF IInv, KnownOK
    <2> QED  BY <1>3, <1>9, <2>1
  <1>16. AddrMatch' /\ NamesMatch'
    <2>1. NamesMatch'
      <3> SUFFICES ASSUME NEW m \in Name, mn'[m] # None
                   PROVE  client'[mn'[m]].name = m
        BY DEF NamesMatch
      <3>1. CASE m = new
        BY <1>3, <1>9, <3>1
      <3>2. CASE m # new
        <4>1. mn'[m] = mn[m] /\ m # old /\ mn[m] \in Client /\ client[mn[m]].name = m
          BY <1>8, <1>9, <3>2 DEF IInv, NamesMatch
        <4> QED  BY <1>9, <4>1
      <3> QED  BY <3>1, <3>2
    <2> QED  BY <1>1, <2>1 DEF IInv, AddrMatch
  <1>17. FoundByName'
    <2> SUFFICES ASSUME NEW d \in Listed(ma), held'[client'[d].name] = {d}
                 PROVE  mn'[client'[d].name] = d
      BY <1>1 DEF FoundByName, Listed
    <2>1. d \in Client /\ Known(d)
      BY <1>8 DEF Known, Listed
    <2>2. CASE d = c
      BY <1>3, <1>9, <2>1, <2>2
    <2>3. CASE d # c
      <3>1. client'[d].name = client[d].name /\ client[d].name \in Name
        BY <1>9, <2>1, <2>3 DEF IInv, KnownOK
      <3>2. client[d].name # new
        <4>1. c \in held'[new]
          BY <1>3, <1>9
        <4> QED  BY <2>3, <3>1, <4>1
      <3>3. held[client[d].name] = {d}
        BY <1>9, <3>1, <3>2
      <3>4. client[d].name # old
        BY <1>4, <2>3, <3>3
      <3>5. mn[client[d].name] = d
        BY <3>3 DEF IInv, FoundByName
      <3> QED  BY <1>9, <3>1, <3>2, <3>4, <3>5
    <2> QED  BY <2>2, <2>3
  <1>18. OpenIsListed'
    <2> SUFFICES ASSUME NEW m \in Name, mn'[m] # None, ~conn[mn'[m][1]].closed
                 PROVE  ma[mn'[m][1]] = mn'[m]
      <3>1. mn' \in [Name -> Client \cup {None}] /\ ma' = ma /\ conn' = conn
        BY <1>1, <1>9 DEF TablesTyped
      <3> QED  BY <3>1 DEF OpenIsListed, Listed
    <2>1. CASE mn'[m] = c
      BY <1>3, <2>1
    <2>2. CASE mn'[m] # c
      <3>1. mn'[m] = mn[m] /\ mn[m] \in Listed(mn)
        BY <1>8, <1>9, <2>2 DEF Listed
      <3> QED  BY <3>1 DEF IInv, OpenIsListed
    <2> QED  BY <2>1, <2>2
  <1>19. ClosedOK'
    <2>1. \A d \in Client : ~client'[d].conn => conn'[d[1]].closed
      BY <1>1, <1>9 DEF IInv, ClosedOK
    <2>2. \A q \in Actor : HoldsOK(q)'
      <3> SUFFICES ASSUME NEW q \in Actor
                   PROVE  HoldsOK(q)'
        OBVIOUS
      <3>1. CASE q = p
        BY <1>6, <1>7, <3>1 DEF HoldsOK
      <3>2. CASE q # p
        BY <1>1, <1>7, <3>2, HandFacts DEF HoldsOK, Others
      <3> QED  BY <3>1, <3>2
    <2> QED  BY <2>1, <2>2 DEF ClosedOK, HoldsOK
  <1> QED  BY <1>14, <1>15, <1>16, <1>17, <1>18, <1>19 DEF IInv

LEMMA AddOK ==
    ASSUME IInv, Add
    PROVE  IInv'
  <1> DEFINE c == Packet.pac
             a == c[1]
             n == client[c].name
  <1>1. /\ at["process"] = "add"
        /\ ma' = [ma EXCEPT ![a] = c] /\ mn' = [mn EXCEPT ![n] = c]
        /\ held' = [held EXCEPT ![n] = @ \cup {c}]
        /\ UNCHANGED <<conn, client, overtaken, panicked>>
    BY DEF Add, SetName
  <1>2. TypeOK /\ LogsIn /\ InHand
    BY <1>1 DEF IInv, LogsIn, InHand
  <1>3. /\ c \in Client /\ a \in Addr /\ Packet.name \in Name /\ ~Known(c)
        /\ ma[a] = None /\ Packet.login /\ n = Packet.name
        /\ c[2] <= conn[a].read /\ n # None /\ c # None
    BY <1>1, <1>2, PacketFacts, ClientFacts DEF IInv, PacketOK
  <1>4. /\ at' \in [Actor -> Place] /\ my' \in [Actor -> Local] /\ asked' \subseteq Name
        /\ at'["process"] = "get" /\ my'["process"] = NoLocals
        /\ \A q \in Actor : q # "process" =>
              \/ at'[q] = at[q] /\ my'[q] = my[q]
              \/ at'[q] = "start" /\ q = "registrar" /\ my'[q].cli = my[q].cli
                 /\ my'[q].pac = c /\ at[q] = "idle"
    <2>1. at \in [Actor -> Place] /\ my \in [Actor -> Local] /\ asked \subseteq Name
      BY <1>2 DEF TypeOK
    <2>2. NoLocals \in Local /\ "get" \in Place /\ "start" \in Place
      BY DEF NoLocals, Local, Place
    <2>3. CASE /\ at["registrar"] = "idle"
               /\ at' = [at EXCEPT !["process"] = "get", !["registrar"] = "start"]
               /\ my' = [my EXCEPT !["process"] = NoLocals,
                                   !["registrar"].pac = c]
               /\ UNCHANGED asked
      <3> DEFINE x == [my["registrar"] EXCEPT !.pac = c]
      <3>1. my["registrar"] \in Local
        BY <2>1, ActorFacts
      <3>2. x \in Local /\ x.cli = my["registrar"].cli /\ x.pac = c
        BY <1>3, <3>1 DEF Local
      <3>3. my' = [my EXCEPT !["process"] = NoLocals, !["registrar"] = x]
        BY <2>1, <2>3, ActorFacts
      <3> HIDE DEF x, c, n
      <3>4. my' \in [Actor -> Local] /\ my'["process"] = NoLocals /\ my'["registrar"] = x
            /\ \A q \in Actor : q # "process" /\ q # "registrar" => my'[q] = my[q]
        BY <2>1, <2>2, <3>2, <3>3, ActorFacts
      <3>5. /\ at' \in [Actor -> Place] /\ at'["process"] = "get"
            /\ at'["registrar"] = "start"
            /\ \A q \in Actor : q # "process" /\ q # "registrar" => at'[q] = at[q]
        BY <2>1, <2>2, <2>3, ActorFacts
      <3> QED  BY <1>3, <2>1, <2>3, <3>2, <3>4, <3>5
    <2>4. CASE Go("process", "add", "get", Packet) /\ asked' = asked \cup {Packet.name}
      <3>1. /\ at' = [at EXCEPT !["process"] = "get"]
            /\ my' = [my EXCEPT !["process"] = NoLocals]
        BY <2>4, ActorFacts DEF Go
      <3> QED  BY <1>3, <2>1, <2>2, <2>4, <3>1, ActorFacts
    <2> QED  BY <2>3, <2>4 DEF Add
  <1>5. /\ client \in [Client -> [name : Name \cup {None}, conn : BOOLEAN]]
        /\ ma \in [Addr -> Client \cup {None}] /\ mn \in [Name -> Client \cup {None}]
        /\ held \in [Name -> SUBSET Client]
    BY <1>2 DEF TypeOK
  <1> HIDE DEF c, a, n
  <1>6. /\ TablesTyped'
        /\ \A o \in Addr : ma'[o] = IF o = a THEN c ELSE ma[o]
        /\ \A m \in Name : mn'[m] = IF m = n THEN c ELSE mn[m]
        /\ \A m \in Name : held'[m] = IF m = n THEN held[m] \cup {c} ELSE held[m]
    BY <1>1, <1>3, <1>5 DEF TablesTyped
  <1>7. \A d \in Client : Known(d)' => Known(d) \/ d = c
    <2>1. \A q \in Actor : my'[q].cli = my[q].cli \/ my'[q].cli = None
      BY <1>4 DEF NoLocals
    <2> QED  BY <1>6, <2>1, ClientFacts DEF Known
  <1>8. \A q \in Actor : LocalOK(q)' /\ HoldsOK(q)'
    <2> SUFFICES ASSUME NEW q \in Actor
                 PROVE  LocalOK(q)' /\ HoldsOK(q)'
      OBVIOUS
    <2>1. CASE q = "process"
      BY <1>4, <2>1
         DEF LocalOK, HoldsOK, NeedsCli, NeedsPac, NeedsName, NeedsNew, Closing
    <2>2. CASE at'[q] = at[q] /\ my'[q] = my[q]
      <3>1. LocalOK(q) /\ HoldsOK(q) /\ my[q].cli \in Client \cup {None}
        BY HandFacts
      <3>2. LocalOK(q)'
        BY <2>2, <3>1 DEF LocalOK, NeedsCli, NeedsPac, NeedsName, NeedsNew
      <3>3. at[q] = "renamed" => my[q].cli \in Client /\ my[q].cli[1] \in Addr
        BY <3>1, ClientFacts DEF LocalOK, NeedsCli
      <3>4. HoldsOK(q)'
        BY <1>1, <1>3, <1>6, <2>2, <3>1, <3>3, ClientFacts DEF HoldsOK
      <3> QED  BY <3>2, <3>4
    <2>3. CASE at'[q] = "start" /\ q = "registrar" /\ my'[q].pac = c
      BY <1>3, <2>3
         DEF LocalOK, HoldsOK, NeedsCli, NeedsPac, NeedsName, NeedsNew, Closing
    <2> QED  BY <1>4, <2>1, <2>2, <2>3
  <1>9. LocalsOK' /\ TypeOK'
    <2>1. \A q \in Actor :
            /\ at'[q] \in Closing \cup {"write", "renamed"} => my'[q].cli # None
            /\ at'[q] \in {"offer", "findAddr", "closeName", "add", "start"} =>
               my'[q].pac # None
            /\ at'[q] \in {"offer", "findAddr", "closeName", "add", "findName",
                           "sendTo", "rename", "renamed"} => my'[q].name # None
            /\ at'[q] \in {"rename", "renamed"} => my'[q].newname # None
      BY <1>8 DEF LocalOK, NeedsCli, NeedsPac, NeedsName, NeedsNew
    <2>2. LocalsOK'
      BY <1>8 DEF LocalsOK, LocalOK
    <2> QED  BY <1>1, <1>4, <1>6, <2>1, <2>2 DEF IInv, TypeOK, TablesTyped
  <1>10. PacketOK' /\ ~InHand'
    BY <1>4 DEF PacketOK, InHand, LogsIn, Closing
  <1>11. OfferOK'
    <2> SUFFICES ASSUME NEW r \in Actor, at'[r] = "offer"
                 PROVE  /\ Server(my'[r].pac[1]) = r
                        /\ ~conn'[my'[r].pac[1]].over
                        /\ my'[r].pac[2] = conn'[my'[r].pac[1]].read
                        /\ ~Known(my[r].pac)'
      BY <1>10 DEF OfferOK
    <2>1. at[r] = "offer" /\ my'[r] = my[r]
      BY <1>4
    <2>2. /\ Server(my[r].pac[1]) = r /\ ~conn[my[r].pac[1]].over
          /\ my[r].pac[2] = conn[my[r].pac[1]].read /\ ~Known(my[r].pac)
          /\ my[r].pac # c
      BY <1>2, <2>1 DEF IInv, OfferOK, c
    <2>3. my[r].pac \in Client
      BY <2>1, HandFacts DEF LocalOK, NeedsPac
    <2>4. ~Known(my[r].pac)'
      BY <1>7, <2>1, <2>2, <2>3
    <2> QED  BY <1>1, <2>1, <2>2, <2>4
  <1>12. OverOK'
    <2> SUFFICES ASSUME NEW o \in Addr, conn[o].over, o \notin overtaken
                 PROVE  /\ ~LoggingIn(o)'
                        /\ \/ ma'[o] = None
                           \/ at'[Server(o)] \in Closing /\ my'[Server(o)].cli[1] = o
      BY <1>1 DEF OverOK
    <2>1. /\ ~LoggingIn(o)
          /\ \/ ma[o] = None
             \/ at[Server(o)] \in Closing /\ my[Server(o)].cli[1] = o
      BY DEF IInv, OverOK
    <2>2. o # a
      BY <1>1, <1>3, <2>1 DEF LoggingIn, Packet, a, c
    <2>3. ~LoggingIn(o)'
      BY <1>4 DEF LoggingIn, Closing
    <2>4. /\ Server(o) \in Actor /\ Server(o) # "process" /\ Server(o) # "registrar"
      BY ActorFacts
    <2> QED  BY <1>4, <1>6, <2>1, <2>2, <2>3, <2>4
  <1>13. KnownOK'
    <2> SUFFICES ASSUME NEW d \in Client, Known(d)'
                 PROVE  /\ d[2] <= conn[d[1]].read
                        /\ client[d].name \in Name /\ d \in held'[client[d].name]
      BY <1>1 DEF KnownOK
    <2>1. CASE d = c
      BY <1>3, <1>6, <2>1 DEF n, a
    <2>2. CASE d # c
      BY <1>6, <1>7, <2>2 DEF IInv, KnownOK
    <2> QED  BY <2>1, <2>2
  <1>14. AddrMatch' /\ NamesMatch'
    <2>1. client' = client /\ client[c].name = n /\ c[1] = a
      BY <1>1 DEF n, a
    <2> QED  BY <1>6, <2>1 DEF IInv, AddrMatch, NamesMatch
  <1>15. FoundByName'
    <2> SUFFICES ASSUME NEW o \in Addr, ma'[o] # None,
                        held'[client[ma'[o]].name] = {ma'[o]}
                 PROVE  mn'[client[ma'[o]].name] = ma'[o]
      BY <1>1, <1>6 DEF FoundByName, Listed, TablesTyped
    <2>1. CASE o = a
      BY <1>3, <1>6, <2>1 DEF n
    <2>2. CASE o # a
      <3> DEFINE d == ma[o]
      <3>1. ma'[o] = d /\ d \in Client /\ Known(d) /\ d \in Listed(ma) /\ d # c
        BY <1>3, <1>5, <1>6, <2>2 DEF Known, Listed
      <3>2. client[d].name \in Name
        BY <3>1 DEF IInv, KnownOK
      <3>3. client[d].name # n
        BY <1>6, <3>1, <3>2
      <3>4. held[client[d].name] = {d}
        BY <1>6, <3>1, <3>2, <3>3
      <3>5. mn[client[d].name] = d
        BY <3>1, <3>4 DEF IInv, FoundByName
      <3> QED  BY <1>6, <3>1, <3>2, <3>3, <3>5
    <2> QED  BY <2>1, <2>2
  <1>16. OpenIsListed'
    <2> SUFFICES ASSUME NEW m \in Name, mn'[m] # None, ~conn[mn'[m][1]].closed
                 PROVE  ma'[mn'[m][1]] = mn'[m]
      BY <1>1, <1>6 DEF OpenIsListed, Listed, TablesTyped
    <2>1. CASE m = n
      BY <1>3, <1>6, <2>1 DEF a
    <2>2. CASE m # n
      <3>1. mn'[m] = mn[m] /\ mn[m] \in Client /\ mn[m] \in Listed(mn)
        BY <1>5, <1>6, <2>2 DEF Listed
      <3>2. ma[mn[m][1]] = mn[m] /\ mn[m][1] \in Addr /\ mn[m] # None
        BY <3>1, ClientFacts DEF IInv, OpenIsListed
      <3> QED  BY <1>3, <1>6, <3>1, <3>2
    <2> QED  BY <2>1, <2>2
  <1>17. ClosedOK'
    BY <1>1, <1>8 DEF IInv, ClosedOK, HoldsOK
  <1> QED  BY <1>9, <1>10, <1>11, <1>12, <1>13, <1>14, <1>15, <1>16, <1>17 DEF IInv

-----------------------------------------------------------------------------
(* The invariant *)

LEMMA InitOK == Init => IInv
  <1> SUFFICES ASSUME Init
               PROVE  IInv
    OBVIOUS
  <1>1. /\ \A a \in Addr : ma[a] = None /\ ~conn[a].over /\ conn[a].read = 0
        /\ \A n \in Name : mn[n] = None
        /\ \A c \in Client : client[c].conn
        /\ \A p \in Actor : my[p] = NoLocals
        /\ \A p \in Actor : at[p] \in {"get", "read", "idle", "done"}
        /\ at["process"] = "get" /\ at["registrar"] = "idle"
    <2>1. "process" \notin Tcp /\ "registrar" \notin Tcp
      BY L0Assumption DEF L0Assumption, Tcp
    <2>2. at = [p \in Actor |-> IF p \in Tcp THEN "read" ELSE Rest(p)]
      BY DEF Init
    <2>3. \A p \in Actor : at[p] \in {"get", "read", "idle", "done"}
      BY <2>2, ActorFacts
    <2>4. at["process"] = "get" /\ at["registrar"] = "idle"
      BY <2>1, <2>2, ActorFacts
    <2> QED  BY <2>3, <2>4 DEF Init
  <1>2. /\ conn \in [Addr -> Conn]
        /\ client \in [Client -> [name : Name \cup {None}, conn : BOOLEAN]]
        /\ ma \in [Addr -> Client \cup {None}] /\ mn \in [Name -> Client \cup {None}]
        /\ asked = {} /\ held \in [Name -> SUBSET Client] /\ overtaken = {}
        /\ panicked = FALSE
    BY DEF Init, Conn
  <1>3. at \in [Actor -> Place] /\ my \in [Actor -> Local]
    <2>1. NoLocals \in Local /\ {"get", "read", "idle", "done"} \subseteq Place
      BY DEF NoLocals, Local, Place
    <2>2. at = [p \in Actor |-> at[p]]
      BY DEF Init
    <2> QED  BY <1>1, <2>1, <2>2 DEF Init
  <1>4. \A p \in Actor : /\ ~NeedsCli(p) /\ ~NeedsPac(p) /\ ~NeedsName(p) /\ ~NeedsNew(p)
                         /\ at[p] # "offer"
    BY <1>1 DEF NeedsCli, NeedsPac, NeedsName, NeedsNew, Closing
  <1>5. TypeOK /\ LocalsOK
    <2>1. LocalsOK
      BY <1>4 DEF LocalsOK
    <2> QED  BY <1>2, <1>3, <1>4, <2>1
             DEF TypeOK, NeedsCli, NeedsPac, NeedsName, NeedsNew
  <1>6. ~InHand /\ ~LogsIn
    BY <1>1 DEF InHand, LogsIn, Closing
  <1>7. \A c \in Client : ~Known(c)
    BY <1>1, ClientFacts DEF Known, NoLocals
  <1>8. Listed(ma) = {} /\ Listed(mn) = {}
    BY <1>1, <1>2 DEF Listed
  <1>9. ClosedOK
    BY <1>1 DEF ClosedOK
  <1> QED  BY <1>1, <1>4, <1>5, <1>6, <1>7, <1>8, <1>9
           DEF IInv, KnownOK, PacketOK, OfferOK, AddrMatch, NamesMatch,
               FoundByName, OpenIsListed, OverOK

LEMMA NextOK == IInv /\ [Next]_vars => IInv'
  <1> SUFFICES ASSUME IInv, [Next]_vars
               PROVE  IInv'
    OBVIOUS
  <1>1. CASE UNCHANGED vars
    <2>1. UNCHANGED <<conn, tables, at, my, asked, overtaken>> /\ panicked' \in BOOLEAN
      BY <1>1 DEF vars, IInv, TypeOK
    <2> QED  BY <2>1, PanicStep
  <1>2. CASE \E a \in Addr : Offer(a) \/ End(a)
    BY <1>2, OfferStepOK, EndOK
  <1>3. CASE \E p \in Actor : Step(p)
    <2> SUFFICES ASSUME NEW p \in Actor, Step(p)
                 PROVE  IInv'
      BY <1>3
    <2>1. CASE CloseStep(p)
      BY <2>1, CloseOK, CloseClientConnOK, ClearConnOK, DeleteOK DEF CloseStep
    <2>2. CASE RenameStep(p)
      BY <2>2, SendToOK, WriteOK, FindRenameOK, RenameOK DEF RenameStep
    <2>3. CASE ProcessStep
      BY <2>3, TakeOK, LoginOK, IncorrectLoginOK, CommandOK, FindNameOK,
         CloseNameOK, AddOK DEF ProcessStep
    <2>4. CASE Start \/ Registered \/ NotRegistered
      BY <2>4, StartOK, RegisteredOK, NotRegisteredOK
    <2> QED  BY <2>1, <2>2, <2>3, <2>4 DEF Step
  <1>4. CASE cmdL0Auth
    BY <1>4, cmdL0AuthOK
  <1> QED  BY <1>1, <1>2, <1>3, <1>4 DEF Next

LEMMA Invariance == Spec => []IInv
  BY InitOK, NextOK, PTL DEF Spec

\* Nobody closes, renames, or logs in a client that is nil: what the mutex
\* does not protect still has its client and its names in hand (l0_client.go,
\* l0_process.go).
THEOREM L0TypeCorrect == Spec => []TypeOK
  <1>1. IInv => TypeOK
    BY DEF IInv
  <1> QED  BY <1>1, Invariance, PTL

\* The table of names has a client once, under its own name, because rename and
\* close use the name that the client has when they hold the mutex
\* (l0_client.go).
THEOREM NamesMatchHolds == Spec => []NamesMatch
  <1>1. IInv => NamesMatch
    BY DEF IInv
  <1> QED  BY <1>1, Invariance, PTL

\* A client that is listed by address is found by its name, unless the name was
\* another client's too (rename, close and add of l0_client.go).
THEOREM FoundByNameHolds == Spec => []FoundByName
  <1>1. IInv => FoundByName
    BY DEF IInv
  <1> QED  BY <1>1, Invariance, PTL

\* What is found by name is listed by address until its connection is closed:
\* close closes the connection before it deletes from the tables, and rename
\* puts back only clients that were deleted (l0_client.go).
THEOREM OpenIsListedHolds == Spec => []OpenIsListed
  <1>1. IInv => OpenIsListed
    BY DEF IInv
  <1> QED  BY <1>1, Invariance, PTL

\* No client outlives its connection, unless the process had its login in hand
\* when the end of the connection was seen (handleConnection of l0.go, read of
\* teonet.go).
THEOREM NoGhostsHold == Spec => []NoGhosts
  <1>1. IInv => NoGhosts
    BY DEF IInv, OverOK, NoGhosts, Served
  <1> QED  BY <1>1, Invariance, PTL

-----------------------------------------------------------------------------
(* The stream of an l0 client *)

Cell == Nat \X Nat

\* The cell after c in the stream of packets of these lengths.
NextCell(lens, c) == IF c[2] < lens[c[1]] THEN <<c[1], c[2] + 1>> ELSE <<c[1] + 1, 1>>

\* The cells are some of the packets that were sent, each followed by the next one of
\* the stream.
Chained(lens, s) ==
    /\ s \in Seq(Cell)
    /\ \A i \in DOMAIN s : s[i][1] \in DOMAIN lens /\ s[i][2] \in 1 .. lens[s[i][1]]
    /\ \A i \in DOMAIN s : i + 1 \in DOMAIN s => s[i + 1] = NextCell(lens, s[i])

\* s goes on with the stream at the cell c, ...
Piece(lens, s, c) == Chained(lens, s) /\ (s # <<>> => s[1] = c)

\* ... and what follows it at this one.
After(lens, s, c) == IF s = <<>> THEN c ELSE NextCell(lens, s[Len(s)])

\* The same of parts, as they are written to a channel.
PartsFrom(lens, parts, c) ==
    /\ parts \in Seq(Seq(Cell))
    /\ \A i \in DOMAIN parts :
          /\ parts[i] # <<>>
          /\ Piece(lens, parts[i], IF i = 1 THEN c ELSE After(lens, parts[i - 1], c))

AfterParts(lens, parts, c) ==
    IF parts = <<>> THEN c ELSE After(lens, parts[Len(parts)], c)

\* What was written and not read goes on with the stream at c, ...
NetOK(t, lens, n, c) == IF t THEN Piece(lens, n, c) ELSE PartsFrom(lens, n, c)
AfterNet(t, lens, n, c) == IF t THEN After(lens, n, c) ELSE AfterParts(lens, n, c)

\* ... and after it one goroutine at most has still to write, up to the end of the last
\* packet.
WritesEnd(t, lens, r, g, c) ==
    /\ ~t
    /\ After(lens, r[g], c) = <<Len(lens) + 1, 1>>
    /\ \A h \in CliSender \ {g} : r[h] = <<>>

SendersOK(t, lens, r, c) ==
    /\ \A g \in CliSender : /\ Piece(lens, r[g], c)
                            /\ r[g] # <<>> => WritesEnd(t, lens, r, g, c)
    /\ (\A g \in CliSender : r[g] = <<>>) => c = <<Len(lens) + 1, 1>>

Written(t, lens, n, r, c) ==
    NetOK(t, lens, n, c) /\ SendersOK(t, lens, r, AfterNet(t, lens, n, c))

\* What is kept, and what was read and is not checked, go on with it before.
Kept(lens, k, f, due) ==
    Piece(lens, k, <<due, 1>>) /\ Piece(lens, f, After(lens, k, <<due, 1>>))
AfterRead(lens, k, f, due) == After(lens, f, After(lens, k, <<due, 1>>))

\* The packet that the reader looks for.
Due == Len(received) + (IF hand # Nil THEN 1 ELSE 0)
                     + (IF readAt.at = "offer" THEN 1 ELSE 0) + 1

\* What was read and is not checked.
Fresh == IF readAt.at = "check" THEN readAt.data.cells ELSE <<>>

\* Nothing is a slice of the shared buffer.
Owned ==
    /\ readAt = [at |-> readAt.at, data |-> readAt.data]
    /\ readBuffer = Slice(readBuffer.cells)
    /\ readAt.data = Slice(readAt.data.cells)
    /\ hand = Slice(hand.cells)

LengthsOK(lens) == lens \in Seq(Nat) /\ \A n \in DOMAIN lens : lens[n] > Header

CellsOf(lens, n) == [i \in 1 .. lens[n] |-> <<n, i>>]

\* What was processed, the packet that is, and the next one are those that were sent.
ProcessedOK ==
    /\ received \in Seq(Seq(Cell))
    /\ \A i \in DOMAIN received :
          i \in DOMAIN lengths /\ received[i] = CellsOf(lengths, i)
    /\ hand # Nil => /\ Len(received) + 1 \in DOMAIN lengths
                     /\ hand.cells = CellsOf(lengths, Len(received) + 1)
    /\ readAt.at = "offer" => /\ Due - 1 \in DOMAIN lengths
                              /\ readAt.data.cells = CellsOf(lengths, Due - 1)

StreamOK ==
    /\ Owned /\ ProcessedOK
    /\ Kept(lengths, readBuffer.cells, Fresh, Due)
    /\ Written(tcp, lengths, net, rest, AfterRead(lengths, readBuffer.cells, Fresh, Due))

StreamTypes == /\ tcp \in BOOLEAN /\ spoiled \in BOOLEAN
               /\ LengthsOK(lengths)
               /\ rest = [g \in CliSender |-> rest[g]]

StreamInv == StreamTypes /\ (~spoiled => StreamOK)

-----------------------------------------------------------------------------
(* Pieces of the stream *)

\* The least element of a set of natural numbers, by the order of the intervals up to
\* its members.
LEMMA LeastNatural ==
    ASSUME NEW T, T \subseteq Nat, T # {}
    PROVE  \E x \in T : \A y \in T : x <= y
  <1>1. PICK n \in T : TRUE
    OBVIOUS
  <1> DEFINE I == 1 .. n
             U == {1 .. x : x \in {y \in T : y <= n}}
  <1>2. IsFiniteSet(I)
    BY FS_Interval
  <1>3. IsWellFoundedOn(StrictSubsetOrdering(I), FiniteSubsetsOf(I))
    BY <1>2, FS_StrictSubsetOrderingWellFounded, FS_FiniteSubsetsOfFinite
  <1>4. U \subseteq FiniteSubsetsOf(I)
    <2>1. U \subseteq SUBSET I
      OBVIOUS
    <2> QED
      BY <1>2, <2>1, FS_FiniteSubsetsOfFinite
  <1>5. U # {}
    BY <1>1
  <1>6. PICK u \in U : \A v \in U : <<v, u>> \notin StrictSubsetOrdering(I)
    <2> HIDE DEF U, I
    <2> QED
      BY <1>3, <1>4, <1>5, WFMin
  <1>7. PICK x \in T : u = 1 .. x /\ x <= n
    OBVIOUS
  <1>8. ASSUME NEW y \in T, y < x PROVE FALSE
    <2>1. 1 .. y \in U
      BY <1>1, <1>7, <1>8
    <2>2. 1 .. y \subseteq 1 .. x
      BY <1>7, <1>8
    <2>3. x \in 1 .. x /\ x \notin 1 .. y
      BY <1>7, <1>8
    <2>4. 1 .. y # 1 .. x
      BY <2>3
    <2>5. 1 .. y \in SUBSET I /\ 1 .. x \in SUBSET I
      BY <1>1, <1>7, <1>8
    <2>6. <<1 .. y, 1 .. x>> \in StrictSubsetOrdering(I)
      BY <2>2, <2>4, <2>5 DEF StrictSubsetOrdering
    <2> QED
      BY <1>6, <1>7, <2>1, <2>6
  <1> QED
    BY <1>7, <1>8

LEMMA CellFacts ==
    ASSUME NEW lens, NEW s, Chained(lens, s)
    PROVE  /\ s \in Seq(Cell) /\ Len(s) \in Nat /\ DOMAIN s = 1 .. Len(s)
           /\ s # <<>> => Len(s) # 0
           /\ \A i \in DOMAIN s : /\ s[i] \in Cell
                                  /\ s[i][1] \in DOMAIN lens
                                  /\ s[i][2] \in 1 .. lens[s[i][1]]
           /\ \A i \in DOMAIN s : i + 1 \in DOMAIN s => s[i + 1] = NextCell(lens, s[i])
  <1>1. s \in Seq(Cell)
    BY DEF Chained
  <1>2. Len(s) \in Nat /\ DOMAIN s = 1 .. Len(s) /\ (s # <<>> => Len(s) # 0)
    BY <1>1, LenProperties, EmptySeq
  <1>3. \A i \in DOMAIN s : s[i] \in Cell
    BY <1>1, <1>2, ElementOfSeq
  <1> QED
    BY <1>1, <1>2, <1>3 DEF Chained

LEMMA EmptyPiece ==
    ASSUME NEW lens, NEW c
    PROVE  Piece(lens, <<>>, c) /\ After(lens, <<>>, c) = c
  BY EmptySeq DEF Piece, Chained, After

\* Two pieces one after the other.
LEMMA PieceJoin ==
    ASSUME NEW lens, NEW s, NEW t, NEW c,
           Piece(lens, s, c), Piece(lens, t, After(lens, s, c))
    PROVE  /\ Piece(lens, s \o t, c)
           /\ After(lens, s \o t, c) = After(lens, t, After(lens, s, c))
  <1>1. s \in Seq(Cell) /\ t \in Seq(Cell) /\ Chained(lens, s) /\ Chained(lens, t)
    BY DEF Piece, Chained
  <1>2. CASE s = <<>>
    <2>1. s \o t = t
      BY <1>1, <1>2, ConcatEmptySeq
    <2> QED
      BY <1>2, <2>1 DEF After
  <1>3. CASE t = <<>>
    <2>1. s \o t = s
      BY <1>1, <1>3, ConcatEmptySeq
    <2> QED
      BY <1>3, <2>1 DEF After
  <1>4. CASE s # <<>> /\ t # <<>>
    <2> DEFINE q == s \o t
               k == Len(s)
    <2>1. /\ q \in Seq(Cell) /\ Len(q) = k + Len(t)
          /\ \A i \in 1 .. k + Len(t) : q[i] = IF i <= k THEN s[i] ELSE t[i - k]
      BY <1>1, ConcatProperties
    <2>2. /\ k \in Nat /\ k # 0 /\ Len(t) \in Nat /\ Len(t) # 0
          /\ DOMAIN s = 1 .. k /\ DOMAIN t = 1 .. Len(t)
      BY <1>1, <1>4, CellFacts
    <2>3. DOMAIN q = 1 .. k + Len(t)
      BY <2>1, LenProperties
    <2>4. t[1] = NextCell(lens, s[k])
      BY <1>4 DEF Piece, After
    <2>5. \A i \in DOMAIN s : s[i][1] \in DOMAIN lens /\ s[i][2] \in 1 .. lens[s[i][1]]
      BY <1>1, CellFacts
    <2>6. \A i \in DOMAIN t : t[i][1] \in DOMAIN lens /\ t[i][2] \in 1 .. lens[t[i][1]]
      BY <1>1, CellFacts
    <2>7. \A i \in DOMAIN s : i + 1 \in DOMAIN s => s[i + 1] = NextCell(lens, s[i])
      BY <1>1, CellFacts
    <2>8. \A i \in DOMAIN t : i + 1 \in DOMAIN t => t[i + 1] = NextCell(lens, t[i])
      BY <1>1, CellFacts
    <2> HIDE DEF q, k
    <2>9. \A i \in DOMAIN q : q[i][1] \in DOMAIN lens /\ q[i][2] \in 1 .. lens[q[i][1]]
      <3> SUFFICES ASSUME NEW i \in DOMAIN q
                   PROVE  q[i][1] \in DOMAIN lens /\ q[i][2] \in 1 .. lens[q[i][1]]
        OBVIOUS
      <3>1. CASE i <= k
        BY <2>1, <2>2, <2>3, <2>5, <3>1
      <3>2. CASE ~(i <= k)
        <4>1. i - k \in DOMAIN t /\ q[i] = t[i - k]
          BY <2>1, <2>2, <2>3, <3>2
        <4> QED
          BY <2>6, <4>1
      <3> QED
        BY <3>1, <3>2
    <2>10. ASSUME NEW i \in DOMAIN q, i + 1 \in DOMAIN q
           PROVE  q[i + 1] = NextCell(lens, q[i])
      <3>1. CASE i < k
        <4>1. i \in DOMAIN s /\ i + 1 \in DOMAIN s /\ q[i] = s[i] /\ q[i + 1] = s[i + 1]
          BY <2>1, <2>2, <2>3, <2>10, <3>1
        <4> QED
          BY <2>7, <4>1
      <3>2. CASE i = k
        <4>1. q[i] = s[k] /\ q[i + 1] = t[1]
          BY <2>1, <2>2, <2>3, <2>10, <3>2
        <4> QED
          BY <2>4, <4>1
      <3>3. CASE i > k
        <4>1. /\ i - k \in DOMAIN t /\ (i - k) + 1 \in DOMAIN t
              /\ q[i] = t[i - k] /\ q[i + 1] = t[(i - k) + 1]
          BY <2>1, <2>2, <2>3, <2>10, <3>3
        <4> QED
          BY <2>8, <4>1
      <3> QED
        BY <2>2, <2>3, <3>1, <3>2, <3>3
    <2>11. Chained(lens, q)
      BY <2>1, <2>9, <2>10 DEF Chained
    <2>12. q # <<>> /\ q[1] = c
      <3>1. s[1] = c
        BY <1>4 DEF Piece
      <3>2. q[1] = s[1] /\ Len(q) # 0
        BY <2>1, <2>2
      <3> QED
        BY <3>1, <3>2, EmptySeq
    <2>13. After(lens, q, c) = NextCell(lens, t[Len(t)])
      BY <2>1, <2>2, <2>12 DEF After
    <2>14. After(lens, t, After(lens, s, c)) = NextCell(lens, t[Len(t)])
      BY <1>4 DEF After
    <2> QED
      BY <2>11, <2>12, <2>13, <2>14 DEF Piece, q
  <1> QED
    BY <1>2, <1>3, <1>4

\* A piece is cut in two.
LEMMA PieceCut ==
    ASSUME NEW lens, NEW s, NEW c, NEW k \in 0 .. Len(s), Piece(lens, s, c)
    PROVE  LET p == SubSeq(s, 1, k)
               q == SubSeq(s, k + 1, Len(s))
           IN  /\ Piece(lens, p, c)
               /\ Piece(lens, q, After(lens, p, c))
               /\ After(lens, q, After(lens, p, c)) = After(lens, s, c)
  <1> DEFINE p == SubSeq(s, 1, k)
             q == SubSeq(s, k + 1, Len(s))
  <1>1. /\ s \in Seq(Cell) /\ Len(s) \in Nat /\ DOMAIN s = 1 .. Len(s)
        /\ \A i \in DOMAIN s : s[i] \in Cell
        /\ \A i \in DOMAIN s : s[i][1] \in DOMAIN lens /\ s[i][2] \in 1 .. lens[s[i][1]]
        /\ \A i \in DOMAIN s : i + 1 \in DOMAIN s => s[i + 1] = NextCell(lens, s[i])
    BY CellFacts DEF Piece
  <1>2. s # <<>> => s[1] = c
    BY DEF Piece
  <1>3. k \in Nat /\ Len(s) \in Nat /\ k <= Len(s)
    BY <1>1
  <1>4. /\ p \in Seq(Cell) /\ Len(p) = k
        /\ \A i \in 1 .. k : p[i] = s[i]
    <2>1. \A i \in 1 .. k : s[i] \in Cell
      BY <1>1, <1>3
    <2>2. /\ p \in Seq(Cell)
          /\ Len(p) = IF 1 <= k THEN k - 1 + 1 ELSE 0
          /\ \A i \in 1 .. k - 1 + 1 : p[i] = s[1 + i - 1]
      BY <1>3, <2>1, SubSeqProperties
    <2> QED
      BY <1>3, <2>2
  <1>5. /\ q \in Seq(Cell) /\ Len(q) = Len(s) - k
        /\ \A i \in 1 .. Len(s) - k : q[i] = s[k + i]
    <2>1. \A i \in k + 1 .. Len(s) : s[i] \in Cell
      BY <1>1, <1>3
    <2>2. /\ q \in Seq(Cell)
          /\ Len(q) = IF k + 1 <= Len(s) THEN Len(s) - (k + 1) + 1 ELSE 0
          /\ \A i \in 1 .. Len(s) - (k + 1) + 1 : q[i] = s[(k + 1) + i - 1]
      BY <1>1, <1>3, <2>1, SubSeqProperties
    <2>3. Len(q) = Len(s) - k
      <3> HIDE DEF q
      <3> QED
        BY <1>3, <2>2
    <2>4. \A i \in 1 .. Len(s) - k : i \in 1 .. Len(s) - (k + 1) + 1 /\ (k + 1) + i - 1 = k + i
      BY <1>1, <1>3
    <2> QED
      BY <2>2, <2>3, <2>4
  <1>6. DOMAIN p = 1 .. k /\ DOMAIN q = 1 .. Len(s) - k
    BY <1>4, <1>5, LenProperties
  <1>7. (p = <<>> <=> k = 0) /\ (q = <<>> <=> k = Len(s)) /\ (s = <<>> <=> Len(s) = 0)
    <2> HIDE DEF p, q
    <2>1. \A v \in Seq(Cell) : v = <<>> <=> Len(v) = 0
      BY EmptySeq
    <2>2. p = <<>> <=> Len(p) = 0
      BY <1>4, <2>1
    <2>3. q = <<>> <=> Len(q) = 0
      BY <1>5, <2>1
    <2>4. s = <<>> <=> Len(s) = 0
      BY <1>1, <2>1
    <2>5. Len(s) - k = 0 <=> k = Len(s)
      BY <1>1, <1>3
    <2> QED
      BY <1>4, <1>5, <2>2, <2>3, <2>4, <2>5
  <1> HIDE DEF p, q
  <1>8. Piece(lens, p, c)
    <2>1. \A i \in DOMAIN p : p[i][1] \in DOMAIN lens /\ p[i][2] \in 1 .. lens[p[i][1]]
      BY <1>1, <1>3, <1>4, <1>6
    <2>2. \A i \in DOMAIN p : i + 1 \in DOMAIN p => p[i + 1] = NextCell(lens, p[i])
      BY <1>1, <1>3, <1>4, <1>6
    <2>3. p # <<>> => p[1] = c
      <3> SUFFICES ASSUME p # <<>> PROVE p[1] = c
        OBVIOUS
      <3>1. k # 0 /\ 1 \in 1 .. k /\ Len(s) # 0
        BY <1>3, <1>7
      <3>2. p[1] = s[1] /\ s # <<>>
        BY <1>4, <1>7, <3>1
      <3> QED
        BY <1>2, <3>2
    <2> QED
      BY <1>4, <2>1, <2>2, <2>3 DEF Piece, Chained
  <1>9. q # <<>> => q[1] = After(lens, p, c)
    <2>1. ASSUME k = 0, q # <<>> PROVE q[1] = After(lens, p, c)
      <3>1. q[1] = s[1] /\ s # <<>> /\ p = <<>>
        BY <1>1, <1>3, <1>5, <1>7, <2>1
      <3> QED
        BY <1>2, <3>1 DEF After
    <2>2. ASSUME k # 0, q # <<>> PROVE q[1] = After(lens, p, c)
      <3>1. p # <<>> /\ k # Len(s)
        BY <1>7, <2>2
      <3>2. k \in 1 .. k /\ 1 \in 1 .. Len(s) - k
        BY <1>3, <2>2, <3>1
      <3>3. p[Len(p)] = s[k] /\ q[1] = s[k + 1]
        BY <1>4, <1>5, <3>2
      <3>4. k \in DOMAIN s /\ k + 1 \in DOMAIN s
        <4>1. k \in 1 .. Len(s) /\ k + 1 \in 1 .. Len(s)
          BY <1>3, <2>2, <3>1
        <4> QED
          BY <1>1, <4>1
      <3> QED
        BY <1>1, <3>1, <3>3, <3>4 DEF After
    <2> QED
      BY <2>1, <2>2
  <1>10. Piece(lens, q, After(lens, p, c))
    <2>1. \A i \in DOMAIN q : q[i][1] \in DOMAIN lens /\ q[i][2] \in 1 .. lens[q[i][1]]
      <3> SUFFICES ASSUME NEW i \in DOMAIN q
                   PROVE  q[i][1] \in DOMAIN lens /\ q[i][2] \in 1 .. lens[q[i][1]]
        OBVIOUS
      <3>1. k + i \in DOMAIN s /\ q[i] = s[k + i]
        BY <1>1, <1>3, <1>5, <1>6
      <3> QED
        BY <1>1, <3>1
    <2>2. ASSUME NEW i \in DOMAIN q, i + 1 \in DOMAIN q
          PROVE  q[i + 1] = NextCell(lens, q[i])
      <3>1. /\ k + i \in DOMAIN s /\ (k + i) + 1 \in DOMAIN s
            /\ q[i] = s[k + i] /\ q[i + 1] = s[(k + i) + 1]
        BY <1>1, <1>3, <1>5, <1>6, <2>2
      <3> QED
        BY <1>1, <3>1
    <2> QED
      BY <1>5, <1>9, <2>1, <2>2 DEF Piece, Chained
  <1>11. After(lens, q, After(lens, p, c)) = After(lens, s, c)
    <2>1. CASE k = Len(s)
      <3>1. q = <<>>
        BY <1>7, <2>1
      <3>2. CASE k = 0
        BY <1>7, <2>1, <3>1, <3>2 DEF After
      <3>3. CASE k # 0
        <4>1. p # <<>> /\ s # <<>> /\ p[Len(p)] = s[Len(s)]
          BY <1>3, <1>4, <1>7, <2>1, <3>3
        <4> QED
          BY <3>1, <4>1 DEF After
      <3> QED
        BY <3>2, <3>3
    <2>2. CASE k # Len(s)
      <3>1. q # <<>> /\ s # <<>>
        BY <1>3, <1>7, <2>2
      <3>2. Len(s) - k \in 1 .. Len(s) - k /\ k + (Len(s) - k) = Len(s)
        BY <1>3, <2>2
      <3>3. q[Len(q)] = s[Len(s)]
        BY <1>5, <3>2
      <3> QED
        BY <3>1, <3>3 DEF After
    <2> QED
      BY <2>1, <2>2
  <1> QED
    BY <1>8, <1>10, <1>11 DEF p, q

\* A stream that goes on is still one.
LEMMA PieceGrows ==
    ASSUME NEW lens \in Seq(Nat), NEW l \in Nat, NEW s, NEW c, Piece(lens, s, c)
    PROVE  /\ Piece(Append(lens, l), s, c)
           /\ After(Append(lens, l), s, c) = After(lens, s, c)
  <1> DEFINE lens2 == Append(lens, l)
  <1>1. \A n \in DOMAIN lens : n \in DOMAIN lens2 /\ lens2[n] = lens[n]
    BY AppendProperties, LenProperties
  <1>2. /\ s \in Seq(Cell) /\ Len(s) \in Nat /\ DOMAIN s = 1 .. Len(s)
        /\ s # <<>> => Len(s) # 0
        /\ \A i \in DOMAIN s : s[i][1] \in DOMAIN lens /\ s[i][2] \in 1 .. lens[s[i][1]]
        /\ \A i \in DOMAIN s : i + 1 \in DOMAIN s => s[i + 1] = NextCell(lens, s[i])
    BY CellFacts DEF Piece
  <1> HIDE DEF lens2
  <1>3. \A i \in DOMAIN s : NextCell(lens2, s[i]) = NextCell(lens, s[i])
    BY <1>1, <1>2 DEF NextCell
  <1>4. Chained(lens2, s)
    BY <1>1, <1>2, <1>3 DEF Chained
  <1>5. After(lens2, s, c) = After(lens, s, c)
    <2>1. s # <<>> => Len(s) \in DOMAIN s
      BY <1>2
    <2> QED
      BY <1>3, <2>1 DEF After
  <1> QED
    BY <1>4, <1>5 DEF Piece, lens2

\* A packet is the piece from its first cell to that of the next one.
LEMMA PacketPiece ==
    ASSUME NEW lens \in Seq(Nat), NEW n \in DOMAIN lens, lens[n] > 0
    PROVE  /\ Piece(lens, CellsOf(lens, n), <<n, 1>>)
           /\ \A c : After(lens, CellsOf(lens, n), c) = <<n + 1, 1>>
           /\ Len(CellsOf(lens, n)) = lens[n] /\ CellsOf(lens, n) # <<>>
  <1> DEFINE s == CellsOf(lens, n)
  <1>1. n \in Nat /\ lens[n] \in Nat
    BY LenProperties
  <1>2. s \in [1 .. lens[n] -> Cell]
    BY <1>1 DEF Cell, CellsOf
  <1>3. s \in Seq(Cell) /\ Len(s) = lens[n] /\ DOMAIN s = 1 .. lens[n]
    BY <1>1, <1>2
  <1>4. \A i \in DOMAIN s : s[i] = <<n, i>>
    BY <1>3 DEF CellsOf
  <1>5. s # <<>>
    BY <1>1, <1>3, EmptySeq
  <1> HIDE DEF s
  <1>6. \A i \in DOMAIN s : s[i][1] = n /\ s[i][2] = i
    BY <1>4
  <1>7. \A i \in DOMAIN s : s[i][1] \in DOMAIN lens /\ s[i][2] \in 1 .. lens[s[i][1]]
    BY <1>3, <1>6
  <1>8. \A i \in DOMAIN s : i + 1 \in DOMAIN s => s[i + 1] = NextCell(lens, s[i])
    <2> SUFFICES ASSUME NEW i \in DOMAIN s, i + 1 \in DOMAIN s
                 PROVE  s[i + 1] = NextCell(lens, s[i])
      OBVIOUS
    <2>1. i < lens[n] /\ s[i + 1] = <<n, i + 1>>
      BY <1>1, <1>3, <1>4
    <2> QED
      BY <1>6, <2>1 DEF NextCell
  <1>9. s[1] = <<n, 1>> /\ s[Len(s)][1] = n /\ s[Len(s)][2] = lens[n]
    BY <1>1, <1>3, <1>4, <1>6
  <1>10. NextCell(lens, s[Len(s)]) = <<n + 1, 1>>
    BY <1>1, <1>9 DEF NextCell
  <1>11. \A c : After(lens, s, c) = <<n + 1, 1>>
    BY <1>5, <1>10 DEF After
  <1>12. Piece(lens, s, <<n, 1>>)
    BY <1>3, <1>7, <1>8, <1>9 DEF Piece, Chained
  <1> QED
    BY <1>3, <1>5, <1>11, <1>12 DEF s

\* A piece that starts with a packet has its cells first.
LEMMA CellAt ==
    ASSUME NEW lens \in Seq(Nat), NEW n \in Nat, NEW s, s # <<>>,
           Piece(lens, s, <<n, 1>>)
    PROVE  /\ n \in DOMAIN lens
           /\ \A i \in DOMAIN s : i <= lens[n] => s[i] = <<n, i>>
  <1>1. /\ s \in Seq(Cell) /\ Len(s) \in Nat /\ DOMAIN s = 1 .. Len(s)
        /\ Len(s) # 0
        /\ \A i \in DOMAIN s : s[i][1] \in DOMAIN lens /\ s[i][2] \in 1 .. lens[s[i][1]]
        /\ \A i \in DOMAIN s : i + 1 \in DOMAIN s => s[i + 1] = NextCell(lens, s[i])
    BY CellFacts DEF Piece
  <1>2. s[1] = <<n, 1>>
    BY DEF Piece
  <1>3. n \in DOMAIN lens /\ lens[n] \in Nat
    <2>1. 1 \in DOMAIN s
      BY <1>1
    <2>2. n \in DOMAIN lens
      BY <1>1, <1>2, <2>1
    <2> QED
      BY <2>2, LenProperties, ElementOfSeq
  <1> DEFINE T == {i \in DOMAIN s : i <= lens[n] /\ s[i] # <<n, i>>}
  <1>4. ASSUME T # {} PROVE FALSE
    <2>1. T \subseteq Nat
      BY <1>1
    <2>2. PICK x \in T : \A y \in T : x <= y
      BY <1>4, <2>1, LeastNatural
    <2>3. x # 1 /\ x \in DOMAIN s /\ x <= lens[n] /\ s[x] # <<n, x>>
      BY <1>2
    <2>4. x - 1 \in DOMAIN s /\ (x - 1) + 1 = x /\ x - 1 < lens[n]
      BY <1>1, <1>3, <2>3
    <2>5. x - 1 \notin T
      BY <1>1, <2>2, <2>3
    <2>6. s[x - 1] = <<n, x - 1>>
      BY <1>1, <1>3, <2>4, <2>5
    <2>7. s[x] = NextCell(lens, s[x - 1])
      BY <1>1, <2>3, <2>4
    <2>8. s[x - 1][1] = n /\ s[x - 1][2] = x - 1
      BY <2>6
    <2>9. s[x] = <<n, (x - 1) + 1>>
      BY <2>4, <2>7, <2>8 DEF NextCell
    <2> QED
      BY <2>3, <2>4, <2>9
  <1> QED
    BY <1>3, <1>4

\* What Write takes of a packet, and what it leaves.
LEMMA FirstFacts ==
    ASSUME ChunkSize \in Nat \ {0}, NEW lens, NEW s, NEW c, s # <<>>, Piece(lens, s, c)
    PROVE  /\ First(s) \in Seq(Cell) /\ First(s) # <<>> /\ Remainder(s) \in Seq(Cell)
           /\ Piece(lens, First(s), c)
           /\ Piece(lens, Remainder(s), After(lens, First(s), c))
           /\ After(lens, Remainder(s), After(lens, First(s), c)) = After(lens, s, c)
  <1>1. s \in Seq(Cell) /\ Len(s) \in Nat /\ Len(s) # 0
    BY CellFacts DEF Piece
  <1>2. CASE Len(s) <= ChunkSize
    <2>1. First(s) = s /\ Remainder(s) = <<>>
      BY <1>2 DEF First, Remainder
    <2> QED
      BY <1>1, <2>1, EmptyPiece, EmptySeq
  <1>3. CASE ~(Len(s) <= ChunkSize)
    <2>1. First(s) = SubSeq(s, 1, ChunkSize) /\ Remainder(s) = SubSeq(s, ChunkSize + 1, Len(s))
      BY <1>3 DEF First, Remainder
    <2>2. ChunkSize \in 0 .. Len(s)
      BY <1>1, <1>3
    <2>3. /\ Piece(lens, First(s), c)
          /\ Piece(lens, Remainder(s), After(lens, First(s), c))
          /\ After(lens, Remainder(s), After(lens, First(s), c)) = After(lens, s, c)
      BY <2>1, <2>2, PieceCut
    <2>4. First(s) \in Seq(Cell) /\ Remainder(s) \in Seq(Cell)
      BY <2>3 DEF Piece, Chained
    <2>5. First(s)[1] = s[1] /\ Len(First(s)) = ChunkSize
      <3>1. \A i \in 1 .. ChunkSize : s[i] \in Cell
        BY <1>1, <2>2
      <3> QED
        BY <2>1, <3>1, SubSeqProperties
    <2>6. First(s) # <<>>
      BY <2>5
    <2> QED
      BY <2>3, <2>4, <2>6
  <1> QED
    BY <1>2, <1>3

\* A part is written after others.
LEMMA PartAppended ==
    ASSUME NEW lens, NEW n, NEW s, NEW c, s # <<>>, PartsFrom(lens, n, c),
           Piece(lens, s, AfterParts(lens, n, c))
    PROVE  /\ PartsFrom(lens, Append(n, s), c)
           /\ AfterParts(lens, Append(n, s), c) = After(lens, s, AfterParts(lens, n, c))
  <1> DEFINE q == Append(n, s)
             m == Len(n)
  <1>1. n \in Seq(Seq(Cell)) /\ s \in Seq(Cell) /\ m \in Nat /\ DOMAIN n = 1 .. m
    BY LenProperties DEF PartsFrom, Piece, Chained
  <1>2. /\ q \in Seq(Seq(Cell)) /\ q # <<>> /\ Len(q) = m + 1
        /\ \A i \in 1 .. m : q[i] = n[i]
        /\ q[m + 1] = s
    BY <1>1, AppendProperties
  <1>3. DOMAIN q = 1 .. m + 1
    BY <1>2, LenProperties
  <1>4. n = <<>> <=> m = 0
    BY <1>1, EmptySeq
  <1>5. \A i \in 1 .. m : /\ n[i] # <<>>
                          /\ Piece(lens, n[i], IF i = 1 THEN c ELSE After(lens, n[i - 1], c))
    BY <1>1 DEF PartsFrom
  <1>6. AfterParts(lens, n, c) = IF m = 0 THEN c ELSE After(lens, n[m], c)
    BY <1>4 DEF AfterParts
  <1> HIDE DEF q, m
  <1>7. ASSUME NEW i \in DOMAIN q
        PROVE  /\ q[i] # <<>>
               /\ Piece(lens, q[i], IF i = 1 THEN c ELSE After(lens, q[i - 1], c))
    <2>1. CASE i \in 1 .. m
      <3>1. q[i] = n[i]
        BY <1>2, <2>1
      <3>2. i # 1 => q[i - 1] = n[i - 1]
        <4>1. i # 1 => i - 1 \in 1 .. m
          BY <1>1, <2>1
        <4> QED
          BY <1>2, <4>1
      <3> QED
        BY <1>5, <2>1, <3>1, <3>2
    <2>2. CASE i = m + 1
      <3>1. q[i] = s
        BY <1>2, <2>2
      <3>2. i = 1 <=> m = 0
        BY <1>1, <2>2
      <3>3. m # 0 => q[i - 1] = n[m]
        <4>1. m # 0 => m \in 1 .. m
          BY <1>1
        <4>2. i - 1 = m
          BY <1>1, <2>2
        <4> QED
          BY <1>2, <4>1, <4>2
      <3> QED
        BY <1>6, <3>1, <3>2, <3>3
    <2> QED
      BY <1>1, <1>3, <2>1, <2>2
  <1>8. PartsFrom(lens, q, c)
    BY <1>2, <1>7 DEF PartsFrom
  <1>9. AfterParts(lens, q, c) = After(lens, s, c)
    BY <1>2 DEF AfterParts
  <1>10. After(lens, s, c) = After(lens, s, AfterParts(lens, n, c))
    BY DEF After
  <1> QED
    BY <1>8, <1>9, <1>10 DEF q

\* The first of the parts is read.
LEMMA PartTaken ==
    ASSUME NEW lens, NEW n, NEW c, n # <<>>, PartsFrom(lens, n, c)
    PROVE  LET q == SubSeq(n, 2, Len(n)) IN
           /\ Piece(lens, n[1], c)
           /\ PartsFrom(lens, q, After(lens, n[1], c))
           /\ AfterParts(lens, q, After(lens, n[1], c)) = AfterParts(lens, n, c)
  <1> DEFINE q == SubSeq(n, 2, Len(n))
             m == Len(n)
             d == After(lens, n[1], c)
  <1>1. n \in Seq(Seq(Cell)) /\ m \in Nat /\ DOMAIN n = 1 .. m /\ m # 0
    BY LenProperties, EmptySeq DEF PartsFrom
  <1>2. \A i \in 1 .. m : /\ n[i] # <<>>
                          /\ Piece(lens, n[i], IF i = 1 THEN c ELSE After(lens, n[i - 1], c))
    BY <1>1 DEF PartsFrom
  <1>3. /\ q \in Seq(Seq(Cell)) /\ Len(q) = m - 1
        /\ \A i \in 1 .. m - 1 : q[i] = n[i + 1]
    BY <1>1, TailIsSubSeq, HeadTailProperties
  <1>4. DOMAIN q = 1 .. m - 1
    BY <1>3, LenProperties
  <1>5. q = <<>> <=> m = 1
    <2> HIDE DEF q, m
    <2>1. q = <<>> <=> Len(q) = 0
      BY <1>3, EmptySeq
    <2> QED
      BY <1>1, <1>3, <2>1
  <1>6. n[1] # <<>> /\ Piece(lens, n[1], c) /\ 1 \in 1 .. m
    <2>1. 1 \in 1 .. m
      BY <1>1
    <2> QED
      BY <1>2, <2>1
  <1> HIDE DEF q, m
  <1>7. ASSUME NEW i \in DOMAIN q
        PROVE  /\ q[i] # <<>>
               /\ Piece(lens, q[i], IF i = 1 THEN d ELSE After(lens, q[i - 1], d))
    <2>1. i \in 1 .. m - 1 /\ i + 1 \in 1 .. m /\ i + 1 # 1 /\ (i + 1) - 1 = i
      BY <1>1, <1>4
    <2>2. q[i] = n[i + 1]
      BY <1>3, <2>1
    <2>3. n[i + 1] # <<>> /\ Piece(lens, n[i + 1], After(lens, n[i], c))
      BY <1>2, <2>1
    <2>4. CASE i = 1
      BY <2>2, <2>3, <2>4
    <2>5. CASE i # 1
      <3>1. i - 1 \in 1 .. m - 1 /\ i \in 1 .. m /\ (i - 1) + 1 = i
        BY <1>1, <2>1, <2>5
      <3>2. q[i - 1] = n[i] /\ n[i] # <<>>
        BY <1>2, <1>3, <3>1
      <3>3. After(lens, n[i], c) = After(lens, n[i], d)
        BY <3>2 DEF After
      <3> QED
        BY <2>2, <2>3, <2>5, <3>2, <3>3
    <2> QED
      BY <2>4, <2>5
  <1>8. PartsFrom(lens, q, d)
    <2> HIDE DEF d
    <2> QED
      BY <1>3, <1>7 DEF PartsFrom
  <1>9. AfterParts(lens, q, d) = AfterParts(lens, n, c)
    <2>1. AfterParts(lens, n, c) = After(lens, n[m], c)
      BY DEF AfterParts, m
    <2>2. CASE m = 1
      BY <1>5, <2>1, <2>2 DEF AfterParts
    <2>3. CASE m # 1
      <3>1. m - 1 \in 1 .. m - 1 /\ (m - 1) + 1 = m /\ m \in 1 .. m
        BY <1>1, <2>3
      <3>2. q[Len(q)] = n[m] /\ n[m] # <<>> /\ q # <<>>
        BY <1>2, <1>3, <1>5, <2>3, <3>1
      <3>3. AfterParts(lens, q, d) = After(lens, n[m], d)
        BY <3>2 DEF AfterParts
      <3> QED
        BY <2>1, <3>2, <3>3 DEF After
    <2> QED
      BY <2>2, <2>3
  <1> QED
    BY <1>6, <1>8, <1>9 DEF q, m

\* What was written stays what it is when there is a packet more.
LEMMA NetGrows ==
    ASSUME NEW lens \in Seq(Nat), NEW l \in Nat, NEW t, NEW n, NEW c, NetOK(t, lens, n, c)
    PROVE  /\ NetOK(t, Append(lens, l), n, c)
           /\ AfterNet(t, Append(lens, l), n, c) = AfterNet(t, lens, n, c)
  <1> DEFINE lens2 == Append(lens, l)
  <1>1. \A s, e : Piece(lens, s, e) => /\ Piece(lens2, s, e)
                                       /\ After(lens2, s, e) = After(lens, s, e)
    BY PieceGrows
  <1> HIDE DEF lens2
  <1>2. CASE t
    BY <1>1, <1>2 DEF NetOK, AfterNet, lens2
  <1>3. CASE ~t
    <2>1. PartsFrom(lens, n, c)
      BY <1>3 DEF NetOK
    <2>2. n \in Seq(Seq(Cell)) /\ Len(n) \in Nat /\ DOMAIN n = 1 .. Len(n)
      BY <2>1, LenProperties DEF PartsFrom
    <2>3. \A i \in DOMAIN n :
            /\ n[i] # <<>>
            /\ Piece(lens, n[i], IF i = 1 THEN c ELSE After(lens, n[i - 1], c))
      BY <2>1 DEF PartsFrom
    <2>4. \A i \in DOMAIN n : After(lens2, n[i], c) = After(lens, n[i], c)
      <3> SUFFICES ASSUME NEW i \in DOMAIN n
                   PROVE  After(lens2, n[i], c) = After(lens, n[i], c)
        OBVIOUS
      <3> DEFINE e == IF i = 1 THEN c ELSE After(lens, n[i - 1], c)
      <3>1. n[i] # <<>> /\ Piece(lens, n[i], e)
        BY <2>3
      <3> HIDE DEF e
      <3>2. After(lens2, n[i], e) = After(lens, n[i], e)
        BY <1>1, <3>1
      <3> QED
        BY <3>1, <3>2 DEF After
    <2>5. PartsFrom(lens2, n, c)
      <3>1. ASSUME NEW i \in DOMAIN n
            PROVE  /\ n[i] # <<>>
                   /\ Piece(lens2, n[i], IF i = 1 THEN c ELSE After(lens2, n[i - 1], c))
        <4>1. CASE i = 1
          BY <1>1, <2>3, <4>1
        <4>2. CASE i # 1
          <5>1. i - 1 \in DOMAIN n
            BY <2>2, <4>2
          <5>2. After(lens2, n[i - 1], c) = After(lens, n[i - 1], c)
            BY <2>4, <5>1
          <5> QED
            BY <1>1, <2>3, <4>2, <5>2
        <4> QED
          BY <4>1, <4>2
      <3> QED
        BY <2>2, <3>1 DEF PartsFrom
    <2>6. AfterParts(lens2, n, c) = AfterParts(lens, n, c)
      <3>1. CASE n = <<>>
        BY <3>1 DEF AfterParts
      <3>2. CASE n # <<>>
        <4>1. Len(n) \in DOMAIN n
          BY <2>2, <3>2, EmptySeq
        <4> QED
          BY <2>4, <3>2, <4>1 DEF AfterParts
      <3> QED
        BY <3>1, <3>2
    <2> QED
      BY <1>3, <2>5, <2>6 DEF NetOK, AfterNet, lens2
  <1> QED
    BY <1>2, <1>3

\* What packetCheck says of a stream that starts with a packet.
LEMMA CheckFacts ==
    ASSUME Header \in Nat, LengthsOK(lengths), NEW n \in Nat, NEW d, d # <<>>,
           Piece(lengths, d, <<n, 1>>)
    PROVE  /\ d[1][1] = n /\ n \in DOMAIN lengths /\ Len(d) \in Nat
           /\ packetCheck(d) \in {0, -1, -2}
           /\ packetCheck(d) = 0 =>
                /\ lengths[n] \in 0 .. Len(d)
                /\ SubSeq(d, 1, lengths[n]) = CellsOf(lengths, n)
  <1>1. lengths \in Seq(Nat)
    BY DEF LengthsOK
  <1>2. n \in DOMAIN lengths /\ \A i \in DOMAIN d : i <= lengths[n] => d[i] = <<n, i>>
    BY <1>1, CellAt
  <1>3. lengths[n] \in Nat /\ lengths[n] > Header
    BY <1>1, <1>2, LenProperties DEF LengthsOK
  <1>4. d \in Seq(Cell) /\ Len(d) \in Nat /\ Len(d) # 0 /\ DOMAIN d = 1 .. Len(d)
    BY CellFacts DEF Piece
  <1>5. d[1][1] = n
    BY DEF Piece
  <1>6. ASSUME ~(Len(d) <= Header) PROVE \A i \in 1 .. Header : d[i] = <<n, i>>
    <2> SUFFICES ASSUME NEW i \in 1 .. Header PROVE d[i] = <<n, i>>
      OBVIOUS
    <2>1. i \in 1 .. Len(d) /\ i <= lengths[n]
      BY <1>3, <1>4, <1>6
    <2> QED
      BY <1>2, <1>4, <2>1
  <1>7. ASSUME ~(Len(d) < lengths[n])
        PROVE  \A i \in Header + 1 .. lengths[n] : d[i] = <<n, i>>
    <2> SUFFICES ASSUME NEW i \in Header + 1 .. lengths[n] PROVE d[i] = <<n, i>>
      OBVIOUS
    <2>1. i \in 1 .. Len(d) /\ i <= lengths[n]
      BY <1>3, <1>4, <1>7
    <2> QED
      BY <1>2, <1>4, <2>1
  <1>8. packetCheck(d) = IF Len(d) <= Header THEN -2
                         ELSE IF Len(d) < lengths[n] THEN -1 ELSE 0
    BY <1>5, <1>6, <1>7 DEF packetCheck
  <1>9. ASSUME packetCheck(d) = 0
        PROVE  /\ lengths[n] \in 0 .. Len(d)
               /\ SubSeq(d, 1, lengths[n]) = CellsOf(lengths, n)
    <2>1. lengths[n] \in 0 .. Len(d)
      BY <1>3, <1>4, <1>8, <1>9
    <2> DEFINE p == SubSeq(d, 1, lengths[n])
               w == CellsOf(lengths, n)
    <2>2. /\ p \in Seq(Cell) /\ Len(p) = lengths[n]
          /\ \A i \in 1 .. lengths[n] : p[i] = d[i]
      <3>1. \A i \in 1 .. lengths[n] : d[i] \in Cell
        BY <1>3, <1>4, <2>1
      <3>2. /\ p \in Seq(Cell)
            /\ Len(p) = IF 1 <= lengths[n] THEN lengths[n] - 1 + 1 ELSE 0
            /\ \A i \in 1 .. lengths[n] - 1 + 1 : p[i] = d[1 + i - 1]
        BY <1>3, <3>1, SubSeqProperties
      <3> HIDE DEF p
      <3> QED
        BY <1>3, <3>2
    <2>3. w \in Seq(Cell) /\ Len(w) = lengths[n] /\ \A i \in 1 .. lengths[n] : w[i] = <<n, i>>
      <3>1. w \in [1 .. lengths[n] -> Cell]
        BY <1>3 DEF CellsOf, Cell
      <3>2. w \in Seq(Cell) /\ Len(w) = lengths[n]
        BY <1>3, <3>1
      <3> QED
        BY <3>2 DEF CellsOf
    <2>4. \A i \in 1 .. lengths[n] : d[i] = <<n, i>>
      <3> SUFFICES ASSUME NEW i \in 1 .. lengths[n] PROVE d[i] = <<n, i>>
        OBVIOUS
      <3>1. i \in 1 .. Len(d) /\ i <= lengths[n]
        BY <1>3, <1>4, <2>1
      <3> QED
        BY <1>2, <1>4, <3>1
    <2> HIDE DEF p, w
    <2>5. p = w
      BY <2>2, <2>3, <2>4, SeqEqual
    <2> QED
      BY <2>1, <2>5 DEF p, w
  <1> QED
    BY <1>2, <1>4, <1>5, <1>8, <1>9

-----------------------------------------------------------------------------
(* The steps of the connection *)

LEMMA StreamInit ==
    ASSUME CliInit, SharedBuffer = FALSE
    PROVE  StreamInv
  <1>1. /\ tcp \in BOOLEAN /\ lengths = <<>> /\ net = <<>> /\ received = <<>>
        /\ spoiled = FALSE /\ hand = Nil /\ readBuffer = Nil
        /\ readAt = [at |-> "check", data |-> Nil]
        /\ rest = [g \in CliSender |-> <<>>]
    BY DEF CliInit
  <1>2. /\ Nil.cells = <<>> /\ Nil = Slice(Nil.cells)
        /\ readAt.at = "check" /\ readAt.data = Nil /\ Len(<<>>) = 0
    BY <1>1 DEF Nil, Slice
  <1>3. Due = 1 /\ Fresh = <<>>
    BY <1>1, <1>2 DEF Due, Fresh
  <1>4. StreamTypes
    <2>1. lengths \in Seq(Nat) /\ DOMAIN lengths = {}
      BY <1>1, EmptySeq
    <2>2. rest = [g \in CliSender |-> rest[g]]
      BY <1>1
    <2> QED
      BY <1>1, <2>1, <2>2 DEF StreamTypes, LengthsOK
  <1>5. Owned
    BY <1>1, <1>2 DEF Owned
  <1>6. ProcessedOK
    BY <1>1, <1>2, EmptySeq DEF ProcessedOK
  <1>7. /\ Kept(lengths, <<>>, <<>>, 1)
        /\ AfterRead(lengths, <<>>, <<>>, 1) = <<1, 1>>
    BY EmptyPiece DEF Kept, AfterRead
  <1>8. NetOK(tcp, lengths, <<>>, <<1, 1>>) /\ AfterNet(tcp, lengths, <<>>, <<1, 1>>) = <<1, 1>>
    BY EmptyPiece, EmptySeq DEF NetOK, AfterNet, PartsFrom, AfterParts
  <1>9. SendersOK(tcp, lengths, rest, <<1, 1>>)
    BY <1>1, <1>2, EmptyPiece DEF SendersOK
  <1> QED
    BY <1>1, <1>2, <1>3, <1>4, <1>5, <1>6, <1>7, <1>8, <1>9 DEF StreamInv, StreamOK, Written

\* What is kept and read stays what it is when there is a packet more.
LEMMA KeptGrows ==
    ASSUME NEW lens \in Seq(Nat), NEW l \in Nat, NEW k, NEW f, NEW due,
           Kept(lens, k, f, due)
    PROVE  /\ Kept(Append(lens, l), k, f, due)
           /\ AfterRead(Append(lens, l), k, f, due) = AfterRead(lens, k, f, due)
  BY PieceGrows DEF Kept, AfterRead

\* What was processed too.
LEMMA ProcessedGrows ==
    ASSUME ProcessedOK, lengths \in Seq(Nat), NEW l \in Nat,
           lengths' = Append(lengths, l), UNCHANGED <<received, hand, readAt>>
    PROVE  ProcessedOK'
  <1>1. \A i \in DOMAIN lengths : i \in DOMAIN lengths' /\ lengths'[i] = lengths[i]
    BY AppendProperties, LenProperties
  <1>2. \A i \in DOMAIN lengths : CellsOf(lengths', i) = CellsOf(lengths, i)
    BY <1>1 DEF CellsOf
  <1>3. Due' = Due
    BY DEF Due, Nil, Slice
  <1> QED
    BY <1>1, <1>2, <1>3 DEF ProcessedOK, Nil, Slice

\* A packet is written, or its first part.
LEMMA SendPacketKeeps ==
    ASSUME Header \in Nat, ChunkSize \in Nat \ {0}, StreamInv, NEW g \in CliSender,
           SendPacket(g)
    PROVE  StreamInv'
  <1>1. PICK body \in 1 .. MaxBody :
          LET n == Len(lengths) + 1
              packet == [i \in 1 .. Header + body |-> <<n, i>>]
          IN  /\ rest[g] = <<>>
              /\ lengths' = Append(lengths, Header + body)
              /\ IF tcp THEN /\ net' = net \o packet
                             /\ UNCHANGED <<rest, spoiled>>
                        ELSE /\ net' = Append(net, First(packet))
                             /\ rest' = [rest EXCEPT ![g] = Remainder(packet)]
                             /\ spoiled' = (spoiled \/ \E h \in CliSender : rest[h] # <<>>)
              /\ UNCHANGED <<tcp, closed, b, readBuffer, readAt, hand, received>>
    BY DEF SendPacket
  <1> DEFINE n == Len(lengths) + 1
             l == Header + body
             packet == [i \in 1 .. l |-> <<n, i>>]
             lens2 == Append(lengths, l)
             k == readBuffer.cells
             c == AfterRead(lengths, k, Fresh, Due)
             p == AfterNet(tcp, lengths, net, c)
  <1>2. /\ lengths \in Seq(Nat) /\ tcp \in BOOLEAN /\ spoiled \in BOOLEAN
        /\ rest = [h \in CliSender |-> rest[h]]
        /\ \A i \in DOMAIN lengths : lengths[i] > Header
    BY DEF StreamInv, StreamTypes, LengthsOK
  <1>3. l \in Nat /\ l > Header /\ l > 0
    OBVIOUS
  <1>4. Len(lengths) \in Nat /\ DOMAIN lengths = 1 .. Len(lengths)
    BY <1>2, LenProperties
  <1>5. /\ lens2 \in Seq(Nat) /\ Len(lens2) = n /\ lens2[n] = l
        /\ \A i \in 1 .. Len(lengths) : lens2[i] = lengths[i]
    BY <1>2, <1>3, AppendProperties
  <1>6. n \in Nat /\ DOMAIN lens2 = 1 .. n /\ n \in DOMAIN lens2
    BY <1>4, <1>5, LenProperties
  <1>7. packet = CellsOf(lens2, n)
    BY <1>5 DEF CellsOf
  <1>8. LengthsOK(lens2)
    BY <1>2, <1>3, <1>4, <1>5, <1>6 DEF LengthsOK
  <1>9. lengths' = lens2
    BY <1>1
  <1>10. /\ tcp' = tcp /\ readBuffer' = readBuffer /\ readAt' = readAt /\ hand' = hand
         /\ received' = received
    BY <1>1
  <1>11. /\ tcp => net' = net \o packet /\ rest' = rest /\ spoiled' = spoiled
         /\ ~tcp => /\ net' = Append(net, First(packet))
                    /\ rest' = [rest EXCEPT ![g] = Remainder(packet)]
                    /\ spoiled' = (spoiled \/ \E h \in CliSender : rest[h] # <<>>)
    BY <1>1
  <1> HIDE DEF n, l, packet, lens2
  <1>12. Piece(lens2, packet, <<n, 1>>) /\ packet # <<>>
         /\ \A e : After(lens2, packet, e) = <<n + 1, 1>>
    BY <1>3, <1>5, <1>6, <1>7, PacketPiece
  <1>13. StreamTypes'
    <2>1. rest' = [h \in CliSender |-> rest'[h]]
      BY <1>2, <1>11
    <2>2. spoiled' \in BOOLEAN
      BY <1>2, <1>11
    <2> QED
      BY <1>2, <1>8, <1>9, <1>10, <2>1, <2>2 DEF StreamTypes
  <1>14. ASSUME ~spoiled' PROVE StreamOK'
    <2>1. ~spoiled /\ (~tcp => \A h \in CliSender : rest[h] = <<>>)
      <3>1. CASE tcp
        BY <1>11, <1>14, <3>1
      <3>2. CASE ~tcp
        <4>1. spoiled' = (spoiled \/ \E h \in CliSender : rest[h] # <<>>)
          BY <1>11, <3>2
        <4> QED
          BY <1>14, <3>2, <4>1, Zenon
      <3> QED
        BY <3>1, <3>2
    <2>2. /\ Owned /\ ProcessedOK /\ Kept(lengths, k, Fresh, Due)
          /\ NetOK(tcp, lengths, net, c) /\ SendersOK(tcp, lengths, rest, p)
      BY <2>1 DEF StreamInv, StreamOK, Written
    <2>3. \A h \in CliSender : rest[h] = <<>>
      BY <2>1, <2>2 DEF SendersOK, WritesEnd
    <2>4. p = <<n, 1>>
      BY <2>2, <2>3 DEF SendersOK, n
    <2>5. Due' = Due /\ Fresh' = Fresh
      BY <1>10 DEF Due, Fresh, Nil, Slice
    <2>6. Owned'
      BY <1>10, <2>2 DEF Owned, Slice
    <2>7. ProcessedOK'
      BY <1>2, <1>3, <1>9, <1>10, <2>2, ProcessedGrows DEF lens2
    <2>8. Kept(lens2, k, Fresh, Due) /\ AfterRead(lens2, k, Fresh, Due) = c
      BY <1>2, <1>3, <2>2, KeptGrows DEF lens2
    <2>9. NetOK(tcp, lens2, net, c) /\ AfterNet(tcp, lens2, net, c) = p
      BY <1>2, <1>3, <2>2, NetGrows DEF lens2
    <2> HIDE DEF c, p, k
    <2>10. NetOK(tcp, lens2, net', c) /\ SendersOK(tcp, lens2, rest', AfterNet(tcp, lens2, net', c))
      <3>1. CASE tcp
        <4>1. Piece(lens2, net, c) /\ After(lens2, net, c) = p
          BY <2>9, <3>1 DEF NetOK, AfterNet
        <4>2. Piece(lens2, net', c) /\ After(lens2, net', c) = <<n + 1, 1>>
          <5>1. Piece(lens2, packet, After(lens2, net, c))
            BY <1>12, <2>4, <4>1
          <5>2. /\ Piece(lens2, net \o packet, c)
                /\ After(lens2, net \o packet, c) = After(lens2, packet, p)
            BY <4>1, <5>1, PieceJoin
          <5>3. net' = net \o packet
            BY <1>11, <3>1
          <5> QED
            BY <1>12, <5>2, <5>3
        <4>3. SendersOK(tcp, lens2, rest', <<n + 1, 1>>)
          BY <1>5, <1>11, <2>3, <3>1, EmptyPiece DEF SendersOK
        <4> QED
          BY <3>1, <4>2, <4>3 DEF NetOK, AfterNet
      <3>2. CASE ~tcp
        <4> DEFINE p2 == After(lens2, First(packet), p)
        <4>1. PartsFrom(lens2, net, c) /\ AfterParts(lens2, net, c) = p
          BY <2>9, <3>2 DEF NetOK, AfterNet
        <4>2. /\ First(packet) # <<>> /\ Piece(lens2, First(packet), p)
              /\ Piece(lens2, Remainder(packet), p2)
              /\ After(lens2, Remainder(packet), p2) = <<n + 1, 1>>
          BY <1>12, <2>4, FirstFacts
        <4>3. PartsFrom(lens2, net', c) /\ AfterParts(lens2, net', c) = p2
          <5> DEFINE q == First(packet)
          <5>1. q # <<>> /\ Piece(lens2, q, AfterParts(lens2, net, c))
            BY <4>1, <4>2
          <5> HIDE DEF q
          <5>2. /\ PartsFrom(lens2, Append(net, q), c)
                /\ AfterParts(lens2, Append(net, q), c) = After(lens2, q, p)
            BY <4>1, <5>1, PartAppended
          <5>3. net' = Append(net, q)
            BY <1>11, <3>2 DEF q
          <5> QED
            BY <5>2, <5>3 DEF q
        <4>4. /\ rest'[g] = Remainder(packet)
              /\ \A h \in CliSender \ {g} : rest'[h] = <<>>
          BY <1>2, <1>11, <2>3, <3>2
        <4> HIDE DEF p2
        <4>5. SendersOK(tcp, lens2, rest', p2)
          <5>1. ASSUME NEW h \in CliSender
                PROVE  /\ Piece(lens2, rest'[h], p2)
                       /\ rest'[h] # <<>> => WritesEnd(tcp, lens2, rest', h, p2)
            <6>1. CASE h = g
              BY <1>5, <3>2, <4>2, <4>4, <6>1 DEF WritesEnd
            <6>2. CASE h # g
              BY <4>4, <6>2, EmptyPiece
            <6> QED
              BY <6>1, <6>2
          <5>2. (\A h \in CliSender : rest'[h] = <<>>) => p2 = <<Len(lens2) + 1, 1>>
            BY <1>5, <4>2, <4>4, EmptyPiece
          <5> QED
            BY <5>1, <5>2 DEF SendersOK
        <4> QED
          BY <3>2, <4>3, <4>5 DEF NetOK, AfterNet
      <3> QED
        BY <3>1, <3>2
    <2> QED
      BY <1>9, <1>10, <2>5, <2>6, <2>7, <2>8, <2>10 DEF StreamOK, Written, k
  <1> QED
    BY <1>13, <1>14 DEF StreamInv

\* The next part of a packet is written.
LEMMA SendPartKeeps ==
    ASSUME ChunkSize \in Nat \ {0}, StreamInv, NEW g \in CliSender, SendPart(g)
    PROVE  StreamInv'
  <1> DEFINE k == readBuffer.cells
             c == AfterRead(lengths, k, Fresh, Due)
             p == AfterNet(tcp, lengths, net, c)
             s == rest[g]
             p2 == After(lengths, First(s), p)
  <1>1. /\ s # <<>>
        /\ net' = Append(net, First(s))
        /\ rest' = [rest EXCEPT ![g] = Remainder(s)]
        /\ tcp' = tcp /\ lengths' = lengths /\ spoiled' = spoiled
        /\ readBuffer' = readBuffer /\ readAt' = readAt /\ hand' = hand
        /\ received' = received
    BY DEF SendPart
  <1>2. StreamTypes /\ rest = [h \in CliSender |-> rest[h]]
    BY DEF StreamInv, StreamTypes
  <1>3. StreamTypes'
    <2>1. rest' = [h \in CliSender |-> rest'[h]]
      BY <1>1, <1>2
    <2> QED
      BY <1>1, <1>2, <2>1 DEF StreamTypes
  <1>4. ASSUME ~spoiled' PROVE StreamOK'
    <2>1. /\ Owned /\ ProcessedOK /\ Kept(lengths, k, Fresh, Due)
          /\ NetOK(tcp, lengths, net, c) /\ SendersOK(tcp, lengths, rest, p)
      BY <1>1, <1>4 DEF StreamInv, StreamOK, Written
    <2>2. Due' = Due /\ Fresh' = Fresh
      BY <1>1 DEF Due, Fresh, Nil, Slice
    <2>3. Owned' /\ ProcessedOK'
      <3>1. Owned'
        BY <1>1, <2>1 DEF Owned, Slice
      <3>2. ProcessedOK'
        BY <1>1, <2>1, <2>2 DEF ProcessedOK, Nil, Slice
      <3> QED
        BY <3>1, <3>2
    <2> HIDE DEF c, p, k
    <2>4. Piece(lengths, s, p) /\ WritesEnd(tcp, lengths, rest, g, p)
      BY <1>1, <2>1 DEF SendersOK
    <2>5. /\ ~tcp /\ After(lengths, s, p) = <<Len(lengths) + 1, 1>>
          /\ \A h \in CliSender \ {g} : rest[h] = <<>>
      BY <2>4 DEF WritesEnd
    <2>6. PartsFrom(lengths, net, c) /\ AfterParts(lengths, net, c) = p
      BY <2>1, <2>5 DEF NetOK, AfterNet, p
    <2> HIDE DEF s
    <2>7. /\ First(s) # <<>> /\ Piece(lengths, First(s), p)
          /\ Piece(lengths, Remainder(s), p2)
          /\ After(lengths, Remainder(s), p2) = <<Len(lengths) + 1, 1>>
      BY <1>1, <2>4, <2>5, FirstFacts
    <2>8. PartsFrom(lengths, net', c) /\ AfterParts(lengths, net', c) = p2
      BY <1>1, <2>6, <2>7, PartAppended
    <2>9. /\ rest'[g] = Remainder(s)
          /\ \A h \in CliSender \ {g} : rest'[h] = <<>>
      BY <1>1, <1>2, <2>5
    <2> HIDE DEF p2
    <2>10. SendersOK(tcp, lengths, rest', p2)
      <3>1. ASSUME NEW h \in CliSender
            PROVE  /\ Piece(lengths, rest'[h], p2)
                   /\ rest'[h] # <<>> => WritesEnd(tcp, lengths, rest', h, p2)
        <4>1. CASE h = g
          BY <2>5, <2>7, <2>9, <4>1 DEF WritesEnd
        <4>2. CASE h # g
          BY <2>9, <4>2, EmptyPiece
        <4> QED
          BY <4>1, <4>2
      <3>2. (\A h \in CliSender : rest'[h] = <<>>) => p2 = <<Len(lengths) + 1, 1>>
        BY <2>7, <2>9, EmptyPiece
      <3> QED
        BY <3>1, <3>2 DEF SendersOK
    <2>11. Written(tcp, lengths, net', rest', c)
      BY <2>5, <2>8, <2>10 DEF Written, NetOK, AfterNet
    <2> QED
      BY <1>1, <2>1, <2>2, <2>3, <2>11 DEF StreamOK, c, k
  <1> QED
    BY <1>3, <1>4 DEF StreamInv

\* The reader and the processing of packets leave what was written alone.
LEMMA ReaderKeeps ==
    ASSUME StreamInv, UNCHANGED <<tcp, lengths, rest, net, spoiled>>,
           ~spoiled => /\ Owned' /\ ProcessedOK'
                       /\ Kept(lengths, readBuffer'.cells, Fresh', Due'),
           NEW c, ~spoiled => NetOK(tcp, lengths, net, c) /\ SendersOK(tcp, lengths, rest, AfterNet(tcp, lengths, net, c)),
           ~spoiled => AfterRead(lengths, readBuffer'.cells, Fresh', Due') = c
    PROVE  StreamInv'
  BY DEF StreamInv, StreamTypes, StreamOK, Written

LEMMA OwnedFacts ==
    ASSUME Owned
    PROVE  /\ readBuffer.shared = FALSE /\ readAt.data.shared = FALSE
           /\ hand.shared = FALSE
           /\ readBuffer.len = Len(readBuffer.cells)
           /\ readAt.data.len = Len(readAt.data.cells)
           /\ Cells(readBuffer) = readBuffer.cells
           /\ Cells(readAt.data) = readAt.data.cells
           /\ Cells(hand) = hand.cells
           /\ \A from, to : Cut(readAt.data, from, to)
                              = Slice(SubSeq(readAt.data.cells, from + 1, to))
  <1>1. readBuffer.shared = FALSE /\ readBuffer.len = Len(readBuffer.cells)
    BY DEF Owned, Slice
  <1>2. readAt.data.shared = FALSE /\ readAt.data.len = Len(readAt.data.cells)
    BY DEF Owned, Slice
  <1>3. hand.shared = FALSE
    BY DEF Owned, Slice
  <1> QED
    BY <1>1, <1>2, <1>3 DEF Cells, Cut

\* PacketCheck keeps all that was read, or takes the first packet of it.
LEMMA CheckOutcome ==
    ASSUME Header \in Nat, LengthsOK(lengths), Owned, PacketCheck, NEW n \in Nat,
           readBuffer.cells \in Seq(Cell), readAt.data.cells \in Seq(Cell),
           NEW all, all = readBuffer.cells \o readAt.data.cells,
           Piece(lengths, all, <<n, 1>>)
    PROVE  \/ /\ readAt' = [at |-> "read", data |-> Nil]
              /\ readBuffer' = Slice(all)
           \/ /\ all # <<>> /\ packetCheck(all) = 0
              /\ readAt' = [at |-> "offer", data |-> Slice(SubSeq(all, 1, lengths[n]))]
              /\ readBuffer' = Slice(SubSeq(all, lengths[n] + 1, Len(all)))
  <1> DEFINE data == readAt.data
             d == data.cells
             k == readBuffer.cells
             kept == readBuffer.len > 0
             status == packetCheck(d)
  <1>1. /\ readBuffer.shared = FALSE /\ Cells(readBuffer) = k /\ Cells(data) = d
        /\ data.len = Len(d) /\ readBuffer.len = Len(k)
        /\ \A from, to : Cut(data, from, to) = Slice(SubSeq(d, from + 1, to))
    BY OwnedFacts
  <1>2. Joined(data).slice = Slice(all)
    BY <1>1 DEF Joined
  <1>3. Slice(all).shared = FALSE
    BY DEF Slice
  <1>4. readBuffer = Slice(k)
    BY DEF Owned
  <1>5. /\ Len(k) \in Nat /\ (k # <<>> => Len(k) # 0) /\ (k = <<>> => Len(k) = 0)
        /\ Len(d) \in Nat
    BY LenProperties, EmptySeq
  <1>6. /\ ~kept /\ d = <<>> => Reads /\ UNCHANGED <<readBuffer, b>>
        /\ ~kept /\ d # <<>> /\ status = 0 => CheckWhole(d, data)
        /\ ~kept /\ d # <<>> /\ status \in {-1, -2} => CheckFirst(data)
        /\ kept => CheckNext(data)
    <2> DEFINE empty == d = <<>>
               none == Reads /\ UNCHANGED <<readBuffer, b>>
               whole == CheckWhole(d, data)
               first == CheckFirst(data)
               next == CheckNext(data)
    <2> HIDE DEF d, kept, status
    <2>1. (CASE ~kept /\ empty -> none
             [] ~kept /\ ~empty /\ status = 0 -> whole
             [] ~kept /\ ~empty /\ status \in {-1, -2} -> first
             [] ~kept /\ ~empty /\ status \in {1, -3} -> none
             [] kept -> next)
      BY <1>1 DEF PacketCheck, status, kept, d
    <2> HIDE DEF data, empty, none, whole, first, next
    <2>2. ~kept /\ empty => none
      BY <2>1
    <2>3. ~kept /\ ~empty /\ status = 0 => whole
      BY <2>1
    <2>4. ~kept /\ ~empty /\ status \in {-1, -2} => first
      <3> DEFINE whole0 == status = 0
                 part == status \in {-1, -2}
                 wrong == status \in {1, -3}
      <3>1. (CASE ~kept /\ empty -> none
               [] ~kept /\ ~empty /\ whole0 -> whole
               [] ~kept /\ ~empty /\ part -> first
               [] ~kept /\ ~empty /\ wrong -> none
               [] kept -> next)
        BY <2>1
      <3>2. part => ~whole0 /\ ~wrong
        OBVIOUS
      <3> HIDE DEF whole0, part, wrong
      <3>3. ~kept /\ ~empty /\ part => first
        BY <3>1, <3>2
      <3> QED
        BY <3>3 DEF part
    <2>5. kept => next
      BY <2>1
    <2> QED
      BY <2>2, <2>3, <2>4, <2>5 DEF empty, none, whole, first, next
  <1>7. CASE ~kept
    <2>1. k = <<>>
      BY <1>1, <1>5, <1>7
    <2>2. all = d
      BY <2>1, ConcatEmptySeq
    <2>3. CASE d = <<>>
      <3>1. Reads /\ UNCHANGED <<readBuffer, b>>
        BY <1>6, <1>7, <2>3
      <3> QED
        BY <1>4, <2>1, <2>2, <2>3, <3>1 DEF Reads
    <2>4. CASE d # <<>>
      <3>1. d[1][1] = n /\ status \in {0, -1, -2}
        BY <2>2, <2>4, CheckFacts
      <3>2. CASE status = 0
        <4>1. CheckWhole(d, data)
          BY <1>6, <1>7, <2>4, <3>2
        <4>2. /\ readAt' = [at |-> "offer", data |-> Cut(data, 0, lengths[n])]
              /\ readBuffer' = Cut(data, lengths[n], data.len)
          BY <3>1, <4>1 DEF CheckWhole, Offers
        <4>3. /\ Cut(data, 0, lengths[n]) = Slice(SubSeq(d, 0 + 1, lengths[n]))
              /\ Cut(data, lengths[n], data.len) = Slice(SubSeq(d, lengths[n] + 1, Len(d)))
          BY <1>1
        <4>4. 0 + 1 = 1
          OBVIOUS
        <4> QED
          BY <2>2, <2>4, <3>2, <4>2, <4>3, <4>4
      <3>3. CASE status \in {-1, -2}
        <4>1. CheckFirst(data)
          BY <1>6, <1>7, <2>4, <3>3
        <4> QED
          BY <1>2, <4>1 DEF CheckFirst, Reads
      <3> QED
        BY <3>1, <3>2, <3>3
    <2> QED
      BY <2>3, <2>4
  <1>8. CASE kept
    <2>1. CheckNext(data)
      BY <1>6, <1>8
    <2>2. k # <<>>
      BY <1>1, <1>5, <1>8
    <2>3. all # <<>>
      <3>1. Len(all) = Len(k) + Len(d)
        BY ConcatProperties
      <3>2. Len(k) # 0 /\ Len(k) \in Nat /\ Len(d) \in Nat
        BY <1>5, <2>2
      <3> HIDE DEF k, d
      <3>3. Len(all) # 0
        BY <3>1, <3>2
      <3> QED
        BY <3>3, EmptySeq
    <2>4. all[1][1] = n /\ packetCheck(all) \in {0, -1, -2}
      BY <2>3, CheckFacts
    <2> DEFINE st == packetCheck(all)
    <2>5. /\ st = 0 => /\ Offers(Slice(SubSeq(all, 1, lengths[all[1][1]])))
                       /\ readBuffer' = Slice(SubSeq(all, lengths[all[1][1]] + 1, Len(all)))
          /\ st \in {-1, -2} => readBuffer' = Slice(all) /\ Reads
      <3> DEFINE whole == Offers(Slice(SubSeq(all, 1, lengths[all[1][1]])))
                 left == readBuffer' = Slice(SubSeq(all, lengths[all[1][1]] + 1, Len(all)))
                 none == readBuffer' = Cut(Slice(all), 0, 0)
                 same == readBuffer' = Slice(all)
      <3>1. (CASE st = 0 -> whole /\ left
               [] st \in {1, -3} -> none /\ Reads
               [] OTHER -> same /\ Reads)
        BY <1>1, <1>2, <1>3, <2>1 DEF CheckNext
      <3> HIDE DEF st, whole, left, none, same
      <3>2. (st = 0 => whole /\ left) /\ (st \in {-1, -2} => same /\ Reads)
        BY <3>1
      <3> QED
        BY <3>2 DEF whole, left, same
    <2>6. CASE packetCheck(all) = 0
      <3>1. /\ Offers(Slice(SubSeq(all, 1, lengths[all[1][1]])))
            /\ readBuffer' = Slice(SubSeq(all, lengths[all[1][1]] + 1, Len(all)))
        BY <2>5, <2>6
      <3> QED
        BY <2>3, <2>4, <2>6, <3>1 DEF Offers
    <2>7. CASE packetCheck(all) \in {-1, -2}
      <3>1. readBuffer' = Slice(all) /\ Reads
        BY <2>5, <2>7
      <3> QED
        BY <3>1 DEF Reads
    <2> QED
      BY <2>4, <2>6, <2>7
  <1> QED
    BY <1>7, <1>8

LEMMA PacketCheckKeeps ==
    ASSUME Header \in Nat, StreamInv, PacketCheck
    PROVE  StreamInv'
  <1> DEFINE k == readBuffer.cells
             d == readAt.data.cells
             all == k \o d
             c == AfterRead(lengths, k, Fresh, Due)
             n == Due
  <1>1. /\ UNCHANGED <<tcp, lengths, rest, net, spoiled>>
        /\ hand' = hand /\ received' = received /\ readAt.at = "check"
    BY DEF PacketCheck
  <1>2. LengthsOK(lengths) /\ lengths \in Seq(Nat)
    BY DEF StreamInv, StreamTypes, LengthsOK
  <1>3. ASSUME ~spoiled
        PROVE  /\ Owned' /\ ProcessedOK' /\ Kept(lengths, readBuffer'.cells, Fresh', Due')
               /\ AfterRead(lengths, readBuffer'.cells, Fresh', Due') = c
    <2>1. Owned /\ ProcessedOK /\ Kept(lengths, k, Fresh, Due)
      BY <1>3 DEF StreamInv, StreamOK
    <2>2. Fresh = d /\ n = Len(received) + (IF hand # Nil THEN 1 ELSE 0) + 1
      BY <1>1 DEF Fresh, Due
    <2>3. Len(received) \in Nat
      BY <2>1, LenProperties DEF ProcessedOK
    <2>4. n \in Nat
      BY <2>2, <2>3
    <2>5. Piece(lengths, k, <<n, 1>>) /\ Piece(lengths, d, After(lengths, k, <<n, 1>>))
      BY <2>1, <2>2 DEF Kept
    <2>6. Piece(lengths, all, <<n, 1>>) /\ After(lengths, all, <<n, 1>>) = c
      BY <2>2, <2>5, PieceJoin DEF AfterRead
    <2>7. k \in Seq(Cell) /\ d \in Seq(Cell) /\ all \in Seq(Cell)
      BY <2>5, <2>6 DEF Piece, Chained
    <2>8. \/ /\ readAt' = [at |-> "read", data |-> Nil]
             /\ readBuffer' = Slice(all)
          \/ /\ all # <<>> /\ packetCheck(all) = 0
             /\ readAt' = [at |-> "offer", data |-> Slice(SubSeq(all, 1, lengths[n]))]
             /\ readBuffer' = Slice(SubSeq(all, lengths[n] + 1, Len(all)))
      <3> HIDE DEF n
      <3> QED
        BY <1>2, <2>1, <2>4, <2>6, <2>7, CheckOutcome
    <2>9. /\ hand = Slice(hand.cells) /\ received \in Seq(Seq(Cell))
          /\ \A i \in DOMAIN received : i \in DOMAIN lengths /\ received[i] = CellsOf(lengths, i)
          /\ hand # Nil => /\ Len(received) + 1 \in DOMAIN lengths
                           /\ hand.cells = CellsOf(lengths, Len(received) + 1)
      BY <2>1 DEF Owned, ProcessedOK
    <2>10. Slice(all).cells = all /\ Nil = Slice(Nil.cells) /\ Nil.cells = <<>>
           /\ Nil' = Nil
      BY DEF Slice, Nil
    <2>11. \A x : Slice(x)' = Slice(x') /\ Slice(x).cells = x
      BY DEF Slice
    <2> HIDE DEF c, all, n, k, d
    <2>12. CASE /\ readAt' = [at |-> "read", data |-> Nil]
                /\ readBuffer' = Slice(all)
      <3>1. readAt'.at = "read" /\ readAt'.data = Nil /\ readBuffer'.cells = all
        BY <2>10, <2>12
      <3>2. Due' = n /\ Fresh' = <<>>
        BY <1>1, <2>2, <2>3, <2>10, <3>1 DEF Due, Fresh
      <3>3. Owned'
        BY <1>1, <2>9, <2>10, <2>12, <3>1 DEF Owned, Slice
      <3>4. ProcessedOK'
        BY <1>1, <2>9, <2>10, <3>1 DEF ProcessedOK
      <3> QED
        BY <2>6, <3>1, <3>2, <3>3, <3>4, EmptyPiece DEF Kept, AfterRead
    <2>13. CASE /\ all # <<>> /\ packetCheck(all) = 0
                /\ readAt' = [at |-> "offer", data |-> Slice(SubSeq(all, 1, lengths[n]))]
                /\ readBuffer' = Slice(SubSeq(all, lengths[n] + 1, Len(all)))
      <3> DEFINE w == SubSeq(all, 1, lengths[n])
                 q == SubSeq(all, lengths[n] + 1, Len(all))
      <3>1. /\ n \in DOMAIN lengths /\ lengths[n] \in 0 .. Len(all)
            /\ w = CellsOf(lengths, n)
        BY <1>2, <2>4, <2>6, <2>13, CheckFacts
      <3>2. /\ Piece(lengths, q, After(lengths, w, <<n, 1>>))
            /\ After(lengths, q, After(lengths, w, <<n, 1>>)) = c
        BY <2>6, <3>1, PieceCut
      <3>3. lengths[n] > 0
        BY <1>2, <3>1 DEF LengthsOK
      <3>4. After(lengths, w, <<n, 1>>) = <<n + 1, 1>>
        BY <1>2, <3>1, <3>3, PacketPiece
      <3> HIDE DEF w, q
      <3>5. /\ readAt' = [at |-> "offer", data |-> Slice(w)] /\ readBuffer' = Slice(q)
        BY <2>13 DEF w, q
      <3>6. /\ readAt'.at = "offer" /\ readAt'.data = Slice(w) /\ readAt'.data.cells = w
            /\ readBuffer'.cells = q
        BY <3>5 DEF Slice
      <3>7. Due' = n + 1 /\ Fresh' = <<>> /\ (n + 1) - 1 = n
        <4>1. Due' = Len(received) + (IF hand # Nil THEN 1 ELSE 0) + 1 + 1
          BY <1>1, <2>10, <3>6 DEF Due
        <4>2. Fresh' = <<>>
          BY <3>6 DEF Fresh
        <4> QED
          BY <2>2, <2>4, <4>1, <4>2
      <3>8. Owned'
        BY <1>1, <2>9, <3>5, <3>6 DEF Owned, Slice
      <3>9. ProcessedOK'
        BY <1>1, <2>9, <2>10, <3>1, <3>6, <3>7 DEF ProcessedOK
      <3>10. Kept(lengths, q, <<>>, n + 1) /\ AfterRead(lengths, q, <<>>, n + 1) = c
        BY <3>2, <3>4, EmptyPiece DEF Kept, AfterRead
      <3> QED
        BY <3>6, <3>7, <3>8, <3>9, <3>10
    <2> QED
      BY <2>8, <2>12, <2>13
  <1>4. ~spoiled => /\ NetOK(tcp, lengths, net, c)
                    /\ SendersOK(tcp, lengths, rest, AfterNet(tcp, lengths, net, c))
    BY DEF StreamInv, StreamOK, Written
  <1> HIDE DEF c
  <1> QED
    BY <1>1, <1>3, <1>4, ReaderKeeps

\* A read takes what was written first.
LEMMA ReadKeeps ==
    ASSUME SharedBuffer = FALSE, StreamInv, Read
    PROVE  StreamInv'
  <1> DEFINE k == readBuffer.cells
             c == After(lengths, k, <<Due, 1>>)
  <1>1. PICK size \in 1 .. Len(net) :
          LET cells == IF tcp THEN SubSeq(net, 1, size) ELSE net[1] IN
          /\ readAt.at = "read"
          /\ IF tcp THEN size <= BufSize ELSE size = 1
          /\ net' = SubSeq(net, size + 1, Len(net))
          /\ readAt' = [at |-> "check", data |-> Slice(cells)]
    BY Zenon DEF Read
  <1> DEFINE cells == IF tcp THEN SubSeq(net, 1, size) ELSE net[1]
             c2 == After(lengths, cells, c)
  <1>2. /\ UNCHANGED <<tcp, lengths, rest, readBuffer, hand, received, spoiled>>
    BY DEF Read
  <1>3. /\ readAt.at = "read"
        /\ ~tcp => size = 1
        /\ net' = SubSeq(net, size + 1, Len(net))
        /\ readAt' = [at |-> "check", data |-> Slice(cells)]
    BY <1>1
  <1> HIDE DEF cells
  <1>4. StreamTypes'
    BY <1>2 DEF StreamInv, StreamTypes
  <1>5. ASSUME ~spoiled' PROVE StreamOK'
    <2>1. Owned /\ ProcessedOK /\ StreamOK
      BY <1>2, <1>5 DEF StreamInv, StreamOK
    <2>2. Fresh = <<>>
      BY <1>3 DEF Fresh
    <2>3. Piece(lengths, k, <<Due, 1>>) /\ AfterRead(lengths, k, Fresh, Due) = c
      BY <2>1, <2>2, EmptyPiece DEF StreamOK, Kept, AfterRead
    <2>4. NetOK(tcp, lengths, net, c) /\ SendersOK(tcp, lengths, rest, AfterNet(tcp, lengths, net, c))
      BY <2>1, <2>3 DEF StreamOK, Written
    <2>5. Slice(cells).cells = cells /\ Slice(cells) = Slice(Slice(cells).cells)
      BY DEF Slice
    <2>6. readAt'.at = "check" /\ readAt'.data = Slice(cells) /\ readAt'.data.cells = cells
      BY <1>3, <2>5
    <2>7. Fresh' = cells /\ Due' = Due
      <3>1. Fresh' = cells
        BY <2>6 DEF Fresh
      <3>2. Due' = Due
        BY <1>2, <1>3, <2>6 DEF Due, Nil, Slice
      <3> QED
        BY <3>1, <3>2
    <2>8. Owned'
      BY <1>2, <1>3, <2>1, <2>5, <2>6 DEF Owned, Slice
    <2>9. ProcessedOK'
      BY <1>2, <2>1, <2>6, <2>7 DEF ProcessedOK, Nil, Slice
    <2> HIDE DEF c
    <2>10. /\ Piece(lengths, cells, c) /\ NetOK(tcp, lengths, net', c2)
           /\ AfterNet(tcp, lengths, net', c2) = AfterNet(tcp, lengths, net, c)
      <3>1. CASE tcp
        <4>1. Piece(lengths, net, c)
          BY <2>4, <3>1 DEF NetOK
        <4>2. size \in 0 .. Len(net)
          <5>1. Len(net) \in Nat
            BY <4>1, CellFacts DEF Piece
          <5> QED
            BY <5>1
        <4>3. cells = SubSeq(net, 1, size)
          BY <3>1 DEF cells
        <4> HIDE DEF c2
        <4>4. /\ Piece(lengths, cells, c)
              /\ Piece(lengths, net', After(lengths, cells, c))
              /\ After(lengths, net', After(lengths, cells, c)) = After(lengths, net, c)
          BY <1>3, <4>1, <4>2, <4>3, PieceCut
        <4> QED
          BY <3>1, <4>4 DEF NetOK, AfterNet, c2
      <3>2. CASE ~tcp
        <4>1. PartsFrom(lengths, net, c)
          BY <2>4, <3>2 DEF NetOK
        <4>2. net # <<>>
          <5>1. Len(net) # 0
            BY <1>1
          <5> QED
            BY <5>1, EmptySeq
        <4>3. size = 1 /\ size + 1 = 2 /\ cells = net[1] /\ net' = SubSeq(net, 2, Len(net))
          BY <1>3, <3>2 DEF cells
        <4> HIDE DEF c2
        <4>4. /\ Piece(lengths, cells, c)
              /\ PartsFrom(lengths, net', After(lengths, cells, c))
              /\ AfterParts(lengths, net', After(lengths, cells, c)) = AfterParts(lengths, net, c)
          BY <4>1, <4>2, <4>3, PartTaken
        <4> QED
          BY <3>2, <4>4 DEF NetOK, AfterNet, c2
      <3> QED
        BY <3>1, <3>2
    <2>11. Kept(lengths, k, cells, Due) /\ AfterRead(lengths, k, cells, Due) = c2
      BY <2>3, <2>10 DEF Kept, AfterRead, c
    <2>12. Written(tcp, lengths, net', rest, c2)
      BY <2>4, <2>10 DEF Written
    <2> QED
      BY <1>2, <2>7, <2>8, <2>9, <2>11, <2>12 DEF StreamOK
  <1> QED
    BY <1>4, <1>5 DEF StreamInv

\* The connection ends: nothing of the stream changes.
LEMMA EndKeeps ==
    ASSUME StreamInv, Disconnect \/ ReadEnds
    PROVE  StreamInv'
  <1> DEFINE c == AfterRead(lengths, readBuffer.cells, Fresh, Due)
  <1>1. UNCHANGED <<tcp, lengths, rest, net, spoiled, readBuffer, hand, received>>
    BY DEF Disconnect, ReadEnds
  <1>2. \/ readAt' = readAt
        \/ readAt.at = "read" /\ readAt' = [at |-> "ended", data |-> Nil]
    BY DEF Disconnect, ReadEnds
  <1>3. Nil.cells = <<>> /\ Nil = Slice(Nil.cells)
    BY DEF Nil, Slice
  <1>4. Due' = Due /\ Fresh' = Fresh
    <2>1. CASE readAt' = readAt
      BY <1>1, <2>1 DEF Due, Fresh, Nil, Slice
    <2>2. CASE readAt.at = "read" /\ readAt' = [at |-> "ended", data |-> Nil]
      <3>1. readAt'.at = "ended"
        BY <2>2
      <3>2. Due' = Due
        BY <1>1, <2>2, <3>1 DEF Due, Nil, Slice
      <3>3. Fresh' = Fresh
        BY <2>2, <3>1 DEF Fresh
      <3> QED
        BY <3>2, <3>3
    <2> QED
      BY <1>2, <2>1, <2>2
  <1>5. ASSUME ~spoiled
        PROVE  Owned' /\ ProcessedOK' /\ Kept(lengths, readBuffer'.cells, Fresh', Due')
    <2>1. Owned /\ ProcessedOK /\ Kept(lengths, readBuffer.cells, Fresh, Due)
      BY <1>5 DEF StreamInv, StreamOK
    <2>2. Owned'
      <3>1. CASE readAt' = readAt
        BY <1>1, <2>1, <3>1 DEF Owned, Slice
      <3>2. CASE readAt' = [at |-> "ended", data |-> Nil]
        <4>1. readAt'.at = "ended" /\ readAt'.data = Nil
          BY <3>2
        <4> QED
          BY <1>1, <1>3, <2>1, <3>2, <4>1 DEF Owned, Slice
      <3> QED
        BY <1>2, <3>1, <3>2
    <2>3. ProcessedOK'
      <3>1. readAt'.at = "offer" => readAt' = readAt
        BY <1>2
      <3> QED
        BY <1>1, <1>4, <2>1, <3>1 DEF ProcessedOK, Nil, Slice
    <2> QED
      BY <1>1, <1>4, <2>1, <2>2, <2>3
  <1>6. ~spoiled => /\ NetOK(tcp, lengths, net, c)
                    /\ SendersOK(tcp, lengths, rest, AfterNet(tcp, lengths, net, c))
    BY DEF StreamInv, StreamOK, Written
  <1>7. AfterRead(lengths, readBuffer'.cells, Fresh', Due') = c
    BY <1>1, <1>4
  <1> HIDE DEF c
  <1> QED
    BY <1>1, <1>5, <1>6, <1>7, ReaderKeeps

\* The packet goes to the goroutine that processes packets.
LEMMA ToProcessKeeps ==
    ASSUME Header \in Nat, StreamInv, ToProcess
    PROVE  StreamInv'
  <1> DEFINE c == AfterRead(lengths, readBuffer.cells, Fresh, Due)
  <1>1. /\ UNCHANGED <<tcp, lengths, rest, net, spoiled>>
        /\ readBuffer' = readBuffer /\ received' = received
        /\ readAt.at = "offer" /\ hand = Nil /\ hand' = readAt.data
        /\ readAt' = [at |-> "check", data |-> Nil]
    BY DEF ToProcess
  <1>2. Nil.cells = <<>> /\ Nil = Slice(Nil.cells) /\ Nil' = Nil
    BY DEF Nil, Slice
  <1>3. readAt'.at = "check" /\ readAt'.data = Nil /\ Fresh' = <<>> /\ Fresh = <<>>
    <2>1. readAt'.at = "check" /\ readAt'.data = Nil
      BY <1>1
    <2> QED
      BY <1>1, <1>2, <2>1 DEF Fresh
  <1>4. LengthsOK(lengths)
    BY DEF StreamInv, StreamTypes
  <1>5. ASSUME ~spoiled
        PROVE  /\ Owned' /\ ProcessedOK' /\ Kept(lengths, readBuffer'.cells, Fresh', Due')
               /\ AfterRead(lengths, readBuffer'.cells, Fresh', Due') = c
    <2>1. Owned /\ ProcessedOK /\ Kept(lengths, readBuffer.cells, Fresh, Due)
      BY <1>5 DEF StreamInv, StreamOK
    <2>2. /\ received \in Seq(Seq(Cell))
          /\ \A i \in DOMAIN received : i \in DOMAIN lengths /\ received[i] = CellsOf(lengths, i)
          /\ Due - 1 \in DOMAIN lengths /\ readAt.data.cells = CellsOf(lengths, Due - 1)
      BY <1>1, <2>1 DEF ProcessedOK
    <2>3. Len(received) \in Nat
      BY <2>2, LenProperties
    <2>4. Due = Len(received) + 2
      BY <1>1, <2>3 DEF Due
    <2>5. Due - 1 = Len(received) + 1
      BY <2>3, <2>4
    <2>6. hand' # Nil
      <3>1. lengths[Due - 1] > 0 /\ lengths \in Seq(Nat)
        BY <1>4, <2>2 DEF LengthsOK
      <3>2. readAt.data.cells # <<>>
        BY <2>2, <3>1, PacketPiece
      <3> QED
        BY <1>1, <1>2, <3>2
    <2>7. Due' = Due
      BY <1>1, <1>2, <1>3, <2>3, <2>4, <2>6 DEF Due
    <2>8. Owned'
      BY <1>1, <1>2, <1>3, <2>1 DEF Owned, Slice
    <2>9. ProcessedOK'
      BY <1>1, <1>3, <2>2, <2>5 DEF ProcessedOK
    <2> QED
      BY <1>1, <1>3, <2>1, <2>7, <2>8, <2>9
  <1>6. ~spoiled => /\ NetOK(tcp, lengths, net, c)
                    /\ SendersOK(tcp, lengths, rest, AfterNet(tcp, lengths, net, c))
    BY DEF StreamInv, StreamOK, Written
  <1> HIDE DEF c
  <1> QED
    BY <1>1, <1>5, <1>6, ReaderKeeps

\* The packet is processed.
LEMMA ProcessedKeeps ==
    ASSUME StreamInv, Processed
    PROVE  StreamInv'
  <1> DEFINE c == AfterRead(lengths, readBuffer.cells, Fresh, Due)
  <1>1. /\ UNCHANGED <<tcp, lengths, rest, net, spoiled>>
        /\ readBuffer' = readBuffer /\ readAt' = readAt
        /\ hand # Nil /\ hand' = Nil /\ received' = Append(received, Cells(hand))
    BY DEF Processed
  <1>2. Nil = Slice(Nil.cells) /\ Nil' = Nil
    BY DEF Nil, Slice
  <1>3. Fresh' = Fresh
    BY <1>1 DEF Fresh
  <1>4. lengths \in Seq(Nat)
    BY DEF StreamInv, StreamTypes, LengthsOK
  <1>5. ASSUME ~spoiled
        PROVE  /\ Owned' /\ ProcessedOK' /\ Kept(lengths, readBuffer'.cells, Fresh', Due')
               /\ AfterRead(lengths, readBuffer'.cells, Fresh', Due') = c
    <2> DEFINE m == Len(received)
               w == CellsOf(lengths, m + 1)
    <2>1. Owned /\ ProcessedOK /\ Kept(lengths, readBuffer.cells, Fresh, Due)
      BY <1>5 DEF StreamInv, StreamOK
    <2>2. /\ received \in Seq(Seq(Cell))
          /\ \A i \in DOMAIN received : i \in DOMAIN lengths /\ received[i] = CellsOf(lengths, i)
          /\ m + 1 \in DOMAIN lengths /\ hand.cells = w
      BY <1>1, <2>1 DEF ProcessedOK
    <2>3. m \in Nat /\ DOMAIN received = 1 .. m
      BY <2>2, LenProperties
    <2>4. received' = Append(received, w)
      BY <1>1, <2>1, <2>2, OwnedFacts
    <2>5. w \in Seq(Cell)
      <3>1. w \in [1 .. lengths[m + 1] -> Cell]
        BY <2>3 DEF CellsOf, Cell
      <3>2. lengths[m + 1] \in Nat
        BY <1>4, <2>2, LenProperties
      <3> QED
        BY <3>1, <3>2
    <2> HIDE DEF w
    <2>6. /\ received' \in Seq(Seq(Cell)) /\ Len(received') = m + 1
          /\ \A i \in 1 .. m : received'[i] = received[i]
          /\ received'[m + 1] = w
      BY <2>2, <2>4, <2>5, AppendProperties
    <2>7. DOMAIN received' = 1 .. m + 1
      BY <2>6, LenProperties
    <2> HIDE DEF m
    <2>8. Due' = Due
      <3>1. Due = m + 1 + (IF readAt.at = "offer" THEN 1 ELSE 0) + 1
        BY <1>1 DEF Due, m
      <3>2. Due' = (m + 1) + 0 + (IF readAt.at = "offer" THEN 1 ELSE 0) + 1
        BY <1>1, <1>2, <2>6 DEF Due
      <3> QED
        BY <2>3, <3>1, <3>2
    <2>9. Owned'
      BY <1>1, <1>2, <2>1 DEF Owned, Slice
    <2>10. \A i \in DOMAIN received' :
             i \in DOMAIN lengths /\ received'[i] = CellsOf(lengths, i)
      <3> SUFFICES ASSUME NEW i \in DOMAIN received'
                   PROVE  i \in DOMAIN lengths /\ received'[i] = CellsOf(lengths, i)
        OBVIOUS
      <3>1. CASE i \in 1 .. m
        BY <2>2, <2>3, <2>6, <3>1
      <3>2. CASE i = m + 1
        BY <2>2, <2>6, <3>2 DEF w
      <3> QED
        BY <2>3, <2>7, <3>1, <3>2
    <2>11. ProcessedOK'
      <3>1. readAt'.at = "offer" => /\ Due' - 1 \in DOMAIN lengths'
                                    /\ readAt'.data.cells = CellsOf(lengths', Due' - 1)
        BY <1>1, <2>1, <2>8 DEF ProcessedOK
      <3> QED
        BY <1>1, <1>2, <2>6, <2>10, <3>1 DEF ProcessedOK
    <2> QED
      BY <1>1, <1>3, <2>1, <2>8, <2>9, <2>11
  <1>6. ~spoiled => /\ NetOK(tcp, lengths, net, c)
                    /\ SendersOK(tcp, lengths, rest, AfterNet(tcp, lengths, net, c))
    BY DEF StreamInv, StreamOK, Written
  <1> HIDE DEF c
  <1> QED
    BY <1>1, <1>5, <1>6, ReaderKeeps

LEMMA StreamNext ==
    ASSUME SharedBuffer = FALSE, Header \in Nat, ChunkSize \in Nat \ {0},
           StreamInv, [CliNext]_cliVars
    PROVE  StreamInv'
  <1>1. ASSUME NEW g \in CliSender, SendPacket(g) PROVE StreamInv'
    BY <1>1, SendPacketKeeps
  <1>2. ASSUME NEW g \in CliSender, SendPart(g) PROVE StreamInv'
    BY <1>2, SendPartKeeps
  <1>3. CASE Disconnect \/ ReadEnds
    BY <1>3, EndKeeps
  <1>4. CASE PacketCheck
    BY <1>4, PacketCheckKeeps
  <1>5. CASE Read
    BY <1>5, ReadKeeps
  <1>6. CASE ToProcess
    BY <1>6, ToProcessKeeps
  <1>7. CASE Processed
    BY <1>7, ProcessedKeeps
  <1>8. CASE UNCHANGED cliVars
    <2>1. UNCHANGED <<tcp, lengths, rest, net, readBuffer, readAt, hand, received, spoiled>>
      BY <1>8 DEF cliVars
    <2>2. Due' = Due /\ Fresh' = Fresh
      BY <2>1 DEF Due, Fresh, Nil, Slice
    <2>3. Owned => Owned'
      BY <2>1 DEF Owned, Slice
    <2>4. ProcessedOK => ProcessedOK'
      BY <2>1, <2>2 DEF ProcessedOK, Nil, Slice
    <2> QED
      BY <2>1, <2>2, <2>3, <2>4 DEF StreamInv, StreamTypes, StreamOK
  <1> QED
    BY <1>1, <1>2, <1>3, <1>4, <1>5, <1>6, <1>7, <1>8 DEF CliNext

\* A client takes a new buffer for every read (SharedBuffer): then the packets it
\* processes are those that were sent, in their order, whole and without a gap, however
\* they are cut into parts and reads, for any number of goroutines that send and of
\* packets of any length, as long as no goroutine wrote between the parts of another
\* one's packet (PacketCheck and Write).
THEOREM StreamInOrderHolds ==
    ASSUME SharedBuffer = FALSE, Header \in Nat, ChunkSize \in Nat \ {0}
    PROVE  CliSpec => []StreamInOrder
  <1>1. CliInit => StreamInv
    BY StreamInit
  <1>2. StreamInv /\ [CliNext]_cliVars => StreamInv'
    BY StreamNext
  <1>3. StreamInv => StreamInOrder
    BY DEF StreamInv, StreamOK, ProcessedOK, StreamInOrder, CellsOf, WholePacket
  <1> QED
    BY <1>1, <1>2, <1>3, PTL DEF CliSpec
==============================================================================
