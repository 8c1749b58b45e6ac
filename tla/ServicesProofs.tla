---------------------------- MODULE ServicesProofs ----------------------------
(***************************************************************************)
(* Proofs about the services: the game rooms, the statistics of rooms, the *)
(* key-value service, the users, the registry, the configuration and the   *)
(* formats of the packets.                                                 *)
(***************************************************************************)
EXTENDS MCServices, SequenceTheorems, FiniteSetTheorems, WellFoundedInduction, TLAPS

-----------------------------------------------------------------------------
(* The game rooms *)

RoomPlace == {"idle", "new client", "choose", "new room", "add", "ready",
              "count", "saved", "leave", "closing", "each"}

ObjectType == [name : Client, loaded : BOOLEAN]

RoomType(objects) ==
    [state : {"creating", "running", "closed", "stopped"},
     client : Seq(0 .. objects),
     was : [Client -> {"no", "creating", "running"}]]

LocalType(objects, rooms) ==
    [at : RoomPlace, name : Client \cup {"none"}, obj : 0 .. objects,
     r : 0 .. rooms, pos : Nat, leave : BOOLEAN, i : Nat, n : Nat]

\* The types of a room's state, and of what its goroutines have in hand.
RoomTypes ==
    /\ object \in Seq(ObjectType)
    /\ mcli \in [Client -> 0 .. Len(object)]
    /\ room \in Seq(RoomType(Len(object)))
    /\ Len(room) <= MaxRooms
    /\ creating \in Seq(1 .. Len(room))
    /\ timers \in [Room -> [{"wait", "game", "close"} -> Nat]]
    /\ act \in [Actor -> LocalType(Len(object), Len(room))]
    /\ crashed \in BOOLEAN

\* A worker that makes a client has its name, and a timer that goes through the
\* clients of its room does not go past them.
RoomLocals ==
    /\ \A a \in Actor : act[a].at = "new client" => act[a].name \in Client
    /\ \A t \in Timer : act[t].n > 0 =>
         t[1] \in DOMAIN room /\ act[t].n <= Len(room[t[1]].client)

RoomOK == RoomTypes /\ RoomLocals

LEMMA RoomInitOK == RoomInit => RoomOK
  <1> SUFFICES ASSUME RoomInit PROVE RoomOK
    OBVIOUS
  <1>1. timers \in [Room -> [{"wait", "game", "close"} -> Nat]]
    BY DEF RoomInit, NoTimers
  <1>2. Resting \in LocalType(0, 0)
    BY DEF Resting, LocalType, RoomPlace
  <1>3. /\ object = <<>> /\ room = <<>> /\ creating = <<>>
        /\ Len(object) = 0 /\ Len(room) = 0
    BY DEF RoomInit
  <1>4. act \in [Actor -> LocalType(Len(object), Len(room))]
    BY <1>2, <1>3 DEF RoomInit
  <1>5. mcli \in [Client -> 0 .. Len(object)]
    BY <1>3 DEF RoomInit
  <1>e. \A S : <<>> \in Seq(S)
    OBVIOUS
  <1>6. RoomTypes
    <2>1. /\ object \in Seq(ObjectType)
          /\ room \in Seq(RoomType(Len(object)))
          /\ creating \in Seq(1 .. Len(room))
      BY <1>3, <1>e
    <2>2. Len(room) <= MaxRooms
      BY <1>3, RoomAssumption
    <2>3. crashed \in BOOLEAN
      BY DEF RoomInit
    <2> QED  BY <1>1, <1>4, <1>5, <2>1, <2>2, <2>3 DEF RoomTypes
  <1>7. Timer \subseteq Actor
    BY DEF Actor
  <1>8. \A a \in Actor : act[a].at = "idle" /\ act[a].n = 0
    BY DEF RoomInit, Resting
  <1>9. RoomLocals
    <2>1. \A t \in Timer : ~(act[t].n > 0)
      BY <1>7, <1>8
    <2>2. \A a \in Actor : act[a].at # "new client"
      BY <1>8
    <2> QED  BY <2>1, <2>2 DEF RoomLocals
  <1> QED  BY <1>6, <1>9 DEF RoomOK

\* A step of goroutine a after which it is at another place; its locals stay, but
\* for those that are given.
LEMMA ActStep ==
    ASSUME NEW os \in Nat, NEW rs \in Nat, NEW a \in Actor,
           act \in [Actor -> LocalType(os, rs)]
    PROVE  /\ \A at \in RoomPlace :
                [act EXCEPT ![a].at = at] \in [Actor -> LocalType(os, rs)]
           /\ \A at \in RoomPlace, c \in Client :
                [act EXCEPT ![a].at = at, ![a].name = c]
                    \in [Actor -> LocalType(os, rs)]
           /\ \A at \in RoomPlace, r \in 0 .. rs :
                [act EXCEPT ![a].at = at, ![a].r = r]
                    \in [Actor -> LocalType(os, rs)]
           /\ \A at \in RoomPlace, o \in 0 .. os :
                [act EXCEPT ![a].at = at, ![a].obj = o]
                    \in [Actor -> LocalType(os, rs)]
           /\ \A at \in RoomPlace, n \in Nat :
                [act EXCEPT ![a].at = at, ![a].n = n]
                    \in [Actor -> LocalType(os, rs)]
  <1>1. ASSUME NEW at \in RoomPlace
        PROVE  [act EXCEPT ![a].at = at] \in [Actor -> LocalType(os, rs)]
    BY DEF LocalType
  <1>2. ASSUME NEW at \in RoomPlace, NEW c \in Client
        PROVE  [act EXCEPT ![a].at = at, ![a].name = c]
                    \in [Actor -> LocalType(os, rs)]
    <2>1. ASSUME NEW f \in [Actor -> LocalType(os, rs)]
          PROVE  [f EXCEPT ![a].name = c] \in [Actor -> LocalType(os, rs)]
      BY DEF LocalType
    <2> QED  BY <1>1, <2>1
  <1>3. ASSUME NEW at \in RoomPlace, NEW r \in 0 .. rs
        PROVE  [act EXCEPT ![a].at = at, ![a].r = r]
                    \in [Actor -> LocalType(os, rs)]
    <2>1. ASSUME NEW f \in [Actor -> LocalType(os, rs)]
          PROVE  [f EXCEPT ![a].r = r] \in [Actor -> LocalType(os, rs)]
      BY DEF LocalType
    <2> QED  BY <1>1, <2>1
  <1>4. ASSUME NEW at \in RoomPlace, NEW o \in 0 .. os
        PROVE  [act EXCEPT ![a].at = at, ![a].obj = o]
                    \in [Actor -> LocalType(os, rs)]
    <2>1. ASSUME NEW f \in [Actor -> LocalType(os, rs)]
          PROVE  [f EXCEPT ![a].obj = o] \in [Actor -> LocalType(os, rs)]
      BY DEF LocalType
    <2> QED  BY <1>1, <2>1
  <1>5. ASSUME NEW at \in RoomPlace, NEW n \in Nat
        PROVE  [act EXCEPT ![a].at = at, ![a].n = n]
                    \in [Actor -> LocalType(os, rs)]
    <2>1. ASSUME NEW f \in [Actor -> LocalType(os, rs)]
          PROVE  [f EXCEPT ![a].n = n] \in [Actor -> LocalType(os, rs)]
      BY DEF LocalType
    <2> QED  BY <1>1, <2>1
  <1> QED  BY <1>1, <1>2, <1>3, <1>4, <1>5

\* What a goroutine other than a timer that stops a room may do to its locals.
GoesOn(a) ==
    /\ \A x \in Actor : x # a => act'[x] = act[x]
    /\ act'[a].at # "new client"
    /\ act'[a].n \in {0, act[a].n}

\* A goroutine is done.
LEMMA ActDone ==
    ASSUME NEW os \in Nat, NEW rs \in Nat, NEW a \in Actor,
           act \in [Actor -> LocalType(os, rs)],
           act' = [act EXCEPT ![a] = Resting] \/ done(a)
    PROVE  act' \in [Actor -> LocalType(os, rs)] /\ GoesOn(a)
  <1>0. 0 \in 0 .. os /\ 0 \in 0 .. rs
    OBVIOUS
  <1>1. Resting \in LocalType(os, rs)
    BY <1>0 DEF Resting, LocalType, RoomPlace
  <1>2. CASE act' = [act EXCEPT ![a] = Resting]
    <2>1. GoesOn(a)
      BY <1>2 DEF GoesOn, Resting
    <2> QED  BY <1>1, <1>2, <2>1
  <1>3. CASE done(a) /\ a \notin RoomWorker
    <2> DEFINE l == [Resting EXCEPT !.at = "each", !.i = act[a].i + 1,
                                    !.n = act[a].n]
    <2>1. act[a].i + 1 \in Nat /\ act[a].n \in Nat
      BY DEF LocalType
    <2>2. l \in LocalType(os, rs) /\ l.at = "each" /\ l.n = act[a].n
      BY <1>1, <2>1 DEF Resting, LocalType, RoomPlace
    <2>3. act' = [act EXCEPT ![a] = l]
      BY <1>3 DEF done
    <2> HIDE DEF l
    <2>4. GoesOn(a)
      BY <2>2, <2>3 DEF GoesOn
    <2> QED  BY <2>2, <2>3, <2>4
  <1> QED  BY <1>2, <1>3 DEF done

\* Of a sequence only the length and the other elements are kept by EXCEPT.
LEMMA SeqExcept ==
    ASSUME NEW T, NEW s \in Seq(T), NEW r, NEW v, r \in DOMAIN s => v \in T
    PROVE  /\ [s EXCEPT ![r] = v] \in Seq(T)
           /\ Len([s EXCEPT ![r] = v]) = Len(s)
           /\ DOMAIN [s EXCEPT ![r] = v] = DOMAIN s
           /\ \A q \in DOMAIN s :
                [s EXCEPT ![r] = v][q] = IF q = r THEN v ELSE s[q]
  <1>1. CASE r \in DOMAIN s
    BY <1>1
  <1>2. CASE r \notin DOMAIN s
    <2>1. [s EXCEPT ![r] = v] = s
      BY <1>2
    <2> QED  BY <1>2, <2>1
  <1> QED  BY <1>1, <1>2

LEMMA GoesOnStep ==
    ASSUME NEW os \in Nat, NEW rs \in Nat, NEW a \in Actor,
           act \in [Actor -> LocalType(os, rs)]
    PROVE  /\ \A at : act' = [act EXCEPT ![a].at = at] /\ at # "new client"
                => GoesOn(a)
           /\ \A at, r : act' = [act EXCEPT ![a].at = at, ![a].r = r]
                          /\ at # "new client"
                => GoesOn(a)
           /\ \A at, o : act' = [act EXCEPT ![a].at = at, ![a].obj = o]
                          /\ at # "new client"
                => GoesOn(a)
  <1>1. \A at : act' = [act EXCEPT ![a].at = at] /\ at # "new client"
           => GoesOn(a)
    BY DEF GoesOn, LocalType
  <1>2. \A at, r : act' = [act EXCEPT ![a].at = at, ![a].r = r] /\ at # "new client"
           => GoesOn(a)
    <2> SUFFICES ASSUME NEW at, NEW r,
                        act' = [act EXCEPT ![a].at = at, ![a].r = r],
                        at # "new client"
                 PROVE  GoesOn(a)
      OBVIOUS
    <2> QED  BY DEF GoesOn, LocalType
  <1>3. \A at, o : act' = [act EXCEPT ![a].at = at, ![a].obj = o] /\ at # "new client"
           => GoesOn(a)
    <2> SUFFICES ASSUME NEW at, NEW o,
                        act' = [act EXCEPT ![a].at = at, ![a].obj = o],
                        at # "new client"
                 PROVE  GoesOn(a)
      OBVIOUS
    <2> QED  BY DEF GoesOn, LocalType
  <1> QED  BY <1>1, <1>2, <1>3

\* The number of places of a room.
LEMMA ClientsLen ==
    ASSUME RoomOK
    PROVE  \A r \in DOMAIN room : Len(room[r].client) \in Nat
  <1>1. \A r \in DOMAIN room : room[r] \in RoomType(Len(object))
    BY DEF RoomOK, RoomTypes
  <1>2. \A r \in DOMAIN room : room[r].client \in Seq(0 .. Len(object))
    BY <1>1 DEF RoomType
  <1> QED  BY <1>2

\* RoomLocals stays when no room loses places.
LEMMA LocalsStay ==
    ASSUME RoomOK, NEW a \in Actor, GoesOn(a),
           \A r \in DOMAIN room : /\ r \in DOMAIN room'
                                  /\ Len(room'[r].client) >= Len(room[r].client)
                                  /\ Len(room'[r].client) \in Nat
    PROVE  RoomLocals'
  <1>1. ASSUME NEW t \in Timer, act'[t].n > 0
        PROVE  t[1] \in DOMAIN room' /\ act'[t].n <= Len(room'[t[1]].client)
    <2>1. t \in Actor
      BY DEF Actor
    <2>2. act'[t].n = act[t].n /\ act[t].n > 0
      <3>1. act'[t].n # 0
        BY <1>1
      <3>2. act'[t].n = act[t].n
        BY <2>1, <3>1 DEF GoesOn
      <3> QED  BY <1>1, <3>2
    <2>3. t[1] \in DOMAIN room /\ act[t].n <= Len(room[t[1]].client)
      BY <2>2 DEF RoomOK, RoomLocals
    <2>4. Len(room[t[1]].client) \in Nat
      <3>1. room[t[1]] \in RoomType(Len(object))
        BY <2>3 DEF RoomOK, RoomTypes
      <3>2. room[t[1]].client \in Seq(0 .. Len(object))
        BY <3>1 DEF RoomType
      <3> QED  BY <3>2
    <2>5. act[t].n \in Nat
      BY <2>1 DEF RoomOK, RoomTypes, LocalType
    <2> QED  BY <2>2, <2>3, <2>4, <2>5
  <1> QED  BY <1>1 DEF RoomOK, RoomLocals, GoesOn

\* A step that adds no object and no room, and takes no place from a room.
LEMMA RoomStep ==
    ASSUME RoomOK, NEW a \in Actor, GoesOn(a),
           UNCHANGED <<object, creating>>,
           mcli' \in [Client -> 0 .. Len(object)],
           room' \in Seq(RoomType(Len(object))),
           Len(room') = Len(room),
           \A r \in DOMAIN room : Len(room'[r].client) >= Len(room[r].client),
           timers' \in [Room -> [{"wait", "game", "close"} -> Nat]],
           act' \in [Actor -> LocalType(Len(object), Len(room))],
           crashed' \in BOOLEAN
    PROVE  RoomOK'
  <1>1. RoomTypes'
    BY DEF RoomOK, RoomTypes
  <1>2. DOMAIN room' = DOMAIN room
    BY DEF RoomOK, RoomTypes
  <1>3. \A r \in DOMAIN room : room'[r] \in RoomType(Len(object))
    BY <1>2
  <1>4. \A r \in DOMAIN room : Len(room'[r].client) \in Nat
    <2>1. \A r \in DOMAIN room : room'[r].client \in Seq(0 .. Len(object))
      BY <1>3 DEF RoomType
    <2> QED  BY <2>1
  <1>5. RoomLocals'
    BY <1>2, <1>4, LocalsStay
  <1> QED  BY <1>1, <1>5 DEF RoomOK

\* What is known of the sizes, for the facts above.
LEMMA RoomSizes ==
    ASSUME RoomOK
    PROVE  /\ Len(object) \in Nat /\ Len(room) \in Nat
           /\ act \in [Actor -> LocalType(Len(object), Len(room))]
           /\ \A a \in Actor : act[a].obj \in 0 .. Len(object)
                             /\ act[a].r \in 0 .. Len(room)
           /\ \A r \in DOMAIN room : room[r] \in RoomType(Len(object))
  BY DEF RoomOK, RoomTypes, LocalType

\* resendData puts the place of a client into the locals.
LEMMA ActMove ==
    ASSUME RoomOK, NEW a \in Actor, NEW c \in Client, NEW o \in 0 .. Len(object),
           NEW r \in 0 .. Len(room), NEW pos \in Nat, NEW leave \in BOOLEAN,
           NEW at \in {"leave", "ready"},
           act' = [act EXCEPT ![a].at = at, ![a].name = c, ![a].obj = o,
                              ![a].r = r, ![a].pos = pos, ![a].leave = leave]
    PROVE  /\ act' \in [Actor -> LocalType(Len(object), Len(room))]
           /\ GoesOn(a)
  <1> DEFINE l == [act[a] EXCEPT !.at = at, !.name = c, !.obj = o, !.r = r,
                                 !.pos = pos, !.leave = leave]
  <1>1. act[a] \in LocalType(Len(object), Len(room)) /\ at \in RoomPlace
    BY RoomSizes DEF RoomPlace
  <1>2. l \in LocalType(Len(object), Len(room)) /\ l.at = at /\ l.n = act[a].n
    BY <1>1 DEF LocalType
  <1>3. act' = [act EXCEPT ![a] = l]
    OBVIOUS
  <1> HIDE DEF l
  <1>4. act' \in [Actor -> LocalType(Len(object), Len(room))]
    BY <1>2, <1>3, RoomSizes
  <1>5. GoesOn(a)
    BY <1>2, <1>3, RoomSizes DEF GoesOn
  <1> QED  BY <1>4, <1>5

\* A step that changes no room but locals of a goroutine, and names.
LEMMA RoomStay ==
    ASSUME RoomOK, NEW a \in Actor, GoesOn(a),
           UNCHANGED <<object, room, creating, timers>>,
           mcli' \in [Client -> 0 .. Len(object)],
           act' \in [Actor -> LocalType(Len(object), Len(room))],
           crashed' \in BOOLEAN
    PROVE  RoomOK'
  <1>1. /\ room \in Seq(RoomType(Len(object)))
        /\ timers \in [Room -> [{"wait", "game", "close"} -> Nat]]
    BY DEF RoomOK, RoomTypes
  <1>2. \A r \in DOMAIN room : Len(room[r].client) \in Nat
    <2>1. \A r \in DOMAIN room : room[r].client \in Seq(0 .. Len(object))
      BY RoomSizes DEF RoomType
    <2> QED  BY <2>1
  <1>3. \A r \in DOMAIN room : Len(room'[r].client) >= Len(room[r].client)
    BY <1>2
  <1> QED  BY <1>1, <1>3, RoomStep

LEMMA RoomRequestOK ==
    ASSUME RoomOK, NEW w \in RoomWorker, NEW c \in Client, ComRoomRequest(w, c)
    PROVE  RoomOK'
  <1>1. w \in Actor
    BY DEF Actor
  <1>2. act' = [act EXCEPT ![w].at = "new client", ![w].name = c]
    BY DEF ComRoomRequest
  <1>3. act' \in [Actor -> LocalType(Len(object), Len(room))]
    <2>1. "new client" \in RoomPlace
      BY DEF RoomPlace
    <2> QED  BY <1>1, <1>2, <2>1, ActStep, RoomSizes
  <1>4. UNCHANGED <<object, mcli, room, creating, timers, crashed>>
    BY DEF ComRoomRequest
  <1>5. RoomTypes'
    BY <1>3, <1>4 DEF RoomOK, RoomTypes
  <1>6. /\ act'[w].name = c /\ act'[w].n = act[w].n
        /\ \A x \in Actor : x # w => act'[x] = act[x]
    BY <1>1, <1>2, RoomSizes DEF LocalType
  <1>7. RoomLocals'
    <2>1. \A x \in Actor : act'[x].at = "new client" => act'[x].name \in Client
      BY <1>6 DEF RoomOK, RoomLocals
    <2>2. \A t \in Timer : act'[t].n = act[t].n
      BY <1>6 DEF Actor
    <2> QED  BY <1>4, <2>1, <2>2 DEF RoomOK, RoomLocals
  <1> QED  BY <1>5, <1>7 DEF RoomOK

\* The types of larger numbers of objects and of rooms.
LEMMA TypesGrow ==
    ASSUME NEW m \in Nat, NEW n \in Nat, NEW r \in Nat, NEW q \in Nat,
           m <= n, r <= q
    PROVE  /\ LocalType(m, r) \subseteq LocalType(n, q)
           /\ RoomType(m) \subseteq RoomType(n)
           /\ [Client -> 0 .. m] \subseteq [Client -> 0 .. n]
           /\ Seq(1 .. r) \subseteq Seq(1 .. q)
  <1>1. 0 .. m \subseteq 0 .. n /\ 0 .. r \subseteq 0 .. q
    OBVIOUS
  <1>2. LocalType(m, r) \subseteq LocalType(n, q)
    BY <1>1 DEF LocalType
  <1>3. Seq(0 .. m) \subseteq Seq(0 .. n) /\ Seq(1 .. r) \subseteq Seq(1 .. q)
    OBVIOUS
  <1>4. RoomType(m) \subseteq RoomType(n)
    BY <1>3 DEF RoomType
  <1>5. [Client -> 0 .. m] \subseteq [Client -> 0 .. n]
    BY <1>1
  <1> QED  BY <1>2, <1>3, <1>4, <1>5

LEMMA NewClientOK ==
    ASSUME RoomOK, NEW w \in RoomWorker, newClient(w)
    PROVE  RoomOK'
  <1> DEFINE o == [name |-> act[w].name, loaded |-> FALSE]
  <1>1. w \in Actor
    BY DEF Actor
  <1>2. /\ act[w].at = "new client"
        /\ object' = Append(object, o)
        /\ mcli' = [mcli EXCEPT ![act[w].name] = Len(object')]
        /\ act' = [act EXCEPT ![w].at = "choose", ![w].obj = Len(object')]
        /\ UNCHANGED <<room, creating, timers, crashed>>
    BY DEF newClient, At
  <1>3. o \in ObjectType
    BY <1>1, <1>2 DEF RoomOK, RoomLocals, ObjectType
  <1>4. object' \in Seq(ObjectType) /\ Len(object') = Len(object) + 1
    <2>1. object \in Seq(ObjectType)
      BY DEF RoomOK, RoomTypes
    <2>2. \A x \in ObjectType : /\ Append(object, x) \in Seq(ObjectType)
                                /\ Len(Append(object, x)) = Len(object) + 1
      BY <2>1
    <2> QED  BY <1>2, <1>3, <2>2
  <1>5. /\ Len(object) \in Nat /\ Len(room) \in Nat
        /\ Len(object') \in Nat /\ Len(object) <= Len(object')
        /\ Len(object') \in 0 .. Len(object')
    BY <1>4, RoomSizes
  <1>6. /\ LocalType(Len(object), Len(room)) \subseteq LocalType(Len(object'), Len(room))
        /\ RoomType(Len(object)) \subseteq RoomType(Len(object'))
        /\ [Client -> 0 .. Len(object)] \subseteq [Client -> 0 .. Len(object')]
    BY <1>5, TypesGrow
  <1>7. act \in [Actor -> LocalType(Len(object'), Len(room))]
    BY <1>6, RoomSizes
  <1>8. "choose" \in RoomPlace
    BY DEF RoomPlace
  <1>9. act' \in [Actor -> LocalType(Len(object'), Len(room))]
    BY <1>1, <1>2, <1>5, <1>7, <1>8, ActStep
  <1>10. mcli' \in [Client -> 0 .. Len(object')]
    BY <1>2, <1>5, <1>6 DEF RoomOK, RoomTypes
  <1>11. room \in Seq(RoomType(Len(object')))
    BY <1>6 DEF RoomOK, RoomTypes
  <1>12. RoomTypes'
    BY <1>2, <1>4, <1>9, <1>10, <1>11 DEF RoomOK, RoomTypes
  <1>13. GoesOn(w)
    BY <1>1, <1>2, <1>5, <1>7, GoesOnStep
  <1>14. RoomLocals'
    <2>1. \A r \in DOMAIN room : /\ r \in DOMAIN room'
                                 /\ Len(room'[r].client) >= Len(room[r].client)
                                 /\ Len(room'[r].client) \in Nat
      <3>1. room' = room
        BY <1>2
      <3>2. \A r \in DOMAIN room : Len(room[r].client) \in Nat
        BY ClientsLen
      <3>3. \A r \in DOMAIN room : Len(room[r].client) >= Len(room[r].client)
        BY <3>2
      <3> QED  BY <3>1, <3>2, <3>3
    <2> QED  BY <1>1, <1>13, <2>1, LocalsStay
  <1> QED  BY <1>12, <1>14 DEF RoomOK

LEMMA NewRoomOK ==
    ASSUME RoomOK, NEW w \in RoomWorker, newRoom(w)
    PROVE  RoomOK'
  <1> DEFINE n == Len(room) + 1
             new == [state |-> "creating", client |-> <<>>,
                     was |-> [c \in Client |-> "no"]]
  <1>1. w \in Actor
    BY DEF Actor
  <1>2. /\ n \in Room
        /\ room' = Append(room, new)
        /\ creating' = Append(creating, n) \/ creating' = creating
        /\ timers' = [timers EXCEPT ![n].wait = 1]
        /\ act' = [act EXCEPT ![w].at = "add", ![w].r = n]
        /\ UNCHANGED <<object, mcli, crashed>>
    BY DEF newRoom
  <1>3. new \in RoomType(Len(object))
    BY DEF RoomType
  <1>4. /\ room' \in Seq(RoomType(Len(object))) /\ Len(room') = n
        /\ \A r \in DOMAIN room : r \in DOMAIN room' /\ room'[r] = room[r]
    BY <1>2, <1>3 DEF RoomOK, RoomTypes
  <1>5. /\ Len(object) \in Nat /\ Len(room) \in Nat /\ n \in Nat /\ n <= MaxRooms
        /\ Len(room) <= n /\ n \in 0 .. n /\ n \in 1 .. n
    BY <1>2, RoomSizes, RoomAssumption DEF Room
  <1>6. /\ LocalType(Len(object), Len(room)) \subseteq LocalType(Len(object), n)
        /\ Seq(1 .. Len(room)) \subseteq Seq(1 .. n)
    BY <1>5, TypesGrow
  <1>7. act \in [Actor -> LocalType(Len(object), n)]
    BY <1>6, RoomSizes
  <1>8. "add" \in RoomPlace
    BY DEF RoomPlace
  <1>9. act' \in [Actor -> LocalType(Len(object), n)]
    BY <1>1, <1>2, <1>5, <1>7, <1>8, ActStep
  <1>10. creating' \in Seq(1 .. n)
    <2>1. creating \in Seq(1 .. n)
      BY <1>6 DEF RoomOK, RoomTypes
    <2>2. Append(creating, n) \in Seq(1 .. n)
      <3> HIDE DEF n
      <3> QED  BY <1>5, <2>1
    <2> QED  BY <1>2, <2>1, <2>2
  <1>11. timers' \in [Room -> [{"wait", "game", "close"} -> Nat]]
    BY <1>2 DEF RoomOK, RoomTypes
  <1>12. RoomTypes'
    BY <1>2, <1>4, <1>5, <1>9, <1>10, <1>11 DEF RoomOK, RoomTypes
  <1>13. GoesOn(w)
    BY <1>1, <1>2, <1>5, <1>7, GoesOnStep
  <1>14. RoomLocals'
    BY <1>1, <1>4, <1>13, ClientsLen, LocalsStay
  <1> QED  BY <1>12, <1>14 DEF RoomOK

\* One room is changed, and loses no places.
LEMMA OneRoom ==
    ASSUME RoomOK, NEW r, NEW v, room' = [room EXCEPT ![r] = v],
           r \in DOMAIN room => /\ v \in RoomType(Len(object))
                               /\ Len(v.client) >= Len(room[r].client)
    PROVE  /\ room' \in Seq(RoomType(Len(object)))
           /\ Len(room') = Len(room)
           /\ \A q \in DOMAIN room : Len(room'[q].client) >= Len(room[q].client)
  <1>1. room \in Seq(RoomType(Len(object)))
    BY DEF RoomOK, RoomTypes
  <1>2. /\ room' \in Seq(RoomType(Len(object)))
        /\ Len(room') = Len(room)
        /\ \A q \in DOMAIN room : room'[q] = IF q = r THEN v ELSE room[q]
    BY <1>1, SeqExcept
  <1>3. ASSUME NEW q \in DOMAIN room
        PROVE  Len(room'[q].client) >= Len(room[q].client)
    <2>1. CASE q = r
      BY <1>2, <2>1
    <2>2. CASE q # r
      BY <1>2, <2>2, ClientsLen
    <2> QED  BY <2>1, <2>2
  <1> QED  BY <1>2, <1>3

LEMMA ChooseOK ==
    ASSUME RoomOK, NEW w \in RoomWorker, roomRequest(w)
    PROVE  RoomOK'
  <1>1. w \in Actor
    BY DEF Actor
  <1>2. UNCHANGED <<object, mcli, room, creating, timers, crashed>>
    BY DEF roomRequest
  <1>3. mcli \in [Client -> 0 .. Len(object)] /\ crashed \in BOOLEAN
    BY DEF RoomOK, RoomTypes
  <1>4. CASE act' = [act EXCEPT ![w].at = "new room"]
    <2>1. "new room" \in RoomPlace
      BY DEF RoomPlace
    <2>2. act' \in [Actor -> LocalType(Len(object), Len(room))]
      BY <1>1, <1>4, <2>1, RoomSizes, ActStep
    <2>3. GoesOn(w)
      BY <1>1, <1>4, RoomSizes, GoesOnStep
    <2> QED  BY <1>1, <1>2, <1>3, <2>2, <2>3, RoomStay
  <1>5. ASSUME NEW i \in DOMAIN creating,
               act' = [act EXCEPT ![w].at = "add", ![w].r = creating[i]]
        PROVE  RoomOK'
    <2>1. creating[i] \in 0 .. Len(room)
      <3>1. creating[i] \in 1 .. Len(room)
        BY DEF RoomOK, RoomTypes
      <3> QED  BY <3>1, RoomSizes
    <2>2. "add" \in RoomPlace
      BY DEF RoomPlace
    <2>3. act' \in [Actor -> LocalType(Len(object), Len(room))]
      BY <1>1, <1>5, <2>1, <2>2, RoomSizes, ActStep
    <2>4. GoesOn(w)
      BY <1>1, <1>5, RoomSizes, GoesOnStep
    <2> QED  BY <1>1, <1>2, <1>3, <2>3, <2>4, RoomStay
  <1> QED  BY <1>4, <1>5 DEF roomRequest, go

LEMMA AddClientOK ==
    ASSUME RoomOK, NEW w \in RoomWorker, addClient(w)
    PROVE  RoomOK'
  <1> DEFINE r == act[w].r
             name == act[w].name
             was == [room[r].was EXCEPT ![name] = "creating"]
             added == [[room[r] EXCEPT !.was = was]
                          EXCEPT !.client = Append(room[r].client, act[w].obj)]
             lost == [room[r] EXCEPT !.was = was]
  <1>1. w \in Actor
    BY DEF Actor
  <1>2. /\ done(w)
        /\ UNCHANGED <<object, mcli, creating, timers, crashed>>
        /\ \/ room' = [room EXCEPT ![r] = added]
           \/ room' = [room EXCEPT ![r] = lost]
    BY DEF addClient
  <1>3. /\ mcli \in [Client -> 0 .. Len(object)] /\ crashed \in BOOLEAN
        /\ timers \in [Room -> [{"wait", "game", "close"} -> Nat]]
    BY DEF RoomOK, RoomTypes
  <1>4. GoesOn(w) /\ act' \in [Actor -> LocalType(Len(object), Len(room))]
    BY <1>1, <1>2, RoomSizes, ActDone
  <1>5. ASSUME r \in DOMAIN room
        PROVE  /\ added \in RoomType(Len(object)) /\ lost \in RoomType(Len(object))
               /\ Len(added.client) >= Len(room[r].client)
               /\ Len(lost.client) >= Len(room[r].client)
    <2>1. room[r] \in RoomType(Len(object)) /\ act[w].obj \in 0 .. Len(object)
      BY <1>1, <1>5, RoomSizes
    <2>2. /\ room[r].client \in Seq(0 .. Len(object))
          /\ room[r].was \in [Client -> {"no", "creating", "running"}]
      BY <2>1 DEF RoomType
    <2>3. was \in [Client -> {"no", "creating", "running"}]
      <3> HIDE DEF r, name
      <3> QED  BY <2>2
    <2>4. /\ Append(room[r].client, act[w].obj) \in Seq(0 .. Len(object))
          /\ Len(Append(room[r].client, act[w].obj)) = Len(room[r].client) + 1
          /\ Len(room[r].client) \in Nat
      BY <2>1, <2>2
    <2> HIDE DEF was, r
    <2>5. lost \in RoomType(Len(object)) /\ lost.client = room[r].client
      BY <2>1, <2>3 DEF RoomType
    <2>6. /\ added \in RoomType(Len(object))
          /\ added.client = Append(room[r].client, act[w].obj)
      BY <2>1, <2>3, <2>4 DEF RoomType
    <2> QED  BY <2>4, <2>5, <2>6
  <1> HIDE DEF r, added, lost
  <1>6. /\ room' \in Seq(RoomType(Len(object))) /\ Len(room') = Len(room)
        /\ \A q \in DOMAIN room : Len(room'[q].client) >= Len(room[q].client)
    BY <1>2, <1>5, OneRoom
  <1> QED  BY <1>1, <1>2, <1>3, <1>4, <1>6, RoomStep

\* resendData moves the goroutine only, or takes a name out of the map.
LEMMA ResendOK ==
    ASSUME RoomOK, NEW a \in Actor, NEW c \in Client, NEW leave \in BOOLEAN,
           resendData(a, c, leave),
           UNCHANGED <<object, room, creating, timers, crashed>>
    PROVE  RoomOK' /\ GoesOn(a)
  <1> DEFINE o == mcli[c]
  <1>1. /\ mcli \in [Client -> 0 .. Len(object)] /\ crashed \in BOOLEAN
        /\ o \in 0 .. Len(object)
    BY DEF RoomOK, RoomTypes
  <1>2. 0 \in 0 .. Len(object)
    BY RoomSizes
  <1>3. mcli' \in [Client -> 0 .. Len(object)]
    <2>1. mcli' = mcli \/ mcli' = [mcli EXCEPT ![c] = 0]
      BY DEF resendData
    <2> QED  BY <1>1, <1>2, <2>1
  <1>4. CASE done(a)
    <2>1. GoesOn(a) /\ act' \in [Actor -> LocalType(Len(object), Len(room))]
      BY <1>4, RoomSizes, ActDone
    <2> QED  BY <1>1, <1>3, <2>1, RoomStay
  <1>5. ASSUME NEW r \in 0 .. Len(room), NEW pos \in Nat,
               NEW at \in {"leave", "ready"},
               act' = [act EXCEPT ![a].at = at, ![a].name = c, ![a].obj = o,
                                  ![a].r = r, ![a].pos = pos, ![a].leave = leave]
        PROVE  RoomOK' /\ GoesOn(a)
    <2> HIDE DEF o
    <2>1. GoesOn(a) /\ act' \in [Actor -> LocalType(Len(object), Len(room))]
      BY <1>1, <1>5, ActMove
    <2> QED  BY <1>1, <1>3, <2>1, RoomStay
  <1>6. ASSUME NEW p \in places(o), NEW at \in {"leave", "ready"},
               act' = [act EXCEPT ![a].at = at, ![a].name = c, ![a].obj = o,
                                  ![a].r = p[1], ![a].pos = p[2],
                                  ![a].leave = leave]
        PROVE  RoomOK' /\ GoesOn(a)
    <2>1. p[1] \in 0 .. Len(room) /\ p[2] \in Nat
      BY RoomSizes DEF places
    <2> HIDE DEF o
    <2> QED  BY <1>5, <1>6, <2>1
  <1>7. \/ done(a)
        \/ \E p \in places(o), at \in {"leave", "ready"} :
             act' = [act EXCEPT ![a].at = at, ![a].name = c, ![a].obj = o,
                                ![a].r = p[1], ![a].pos = p[2],
                                ![a].leave = leave]
    BY DEF resendData
  <1> QED  BY <1>4, <1>6, <1>7

LEMMA DisconnectNextOK ==
    ASSUME RoomOK, NEW t \in Timer, disconnectNext(t)
    PROVE  RoomOK' /\ GoesOn(t)
  <1> DEFINE clients == room[t[1]].client
             i == act[t].i + 1
  <1>1. t \in Actor
    BY DEF Actor
  <1>2. /\ UNCHANGED <<object, room, creating, timers, crashed>>
        /\ \/ act' = [act EXCEPT ![t] = Resting] /\ mcli' = mcli
           \/ done(t) /\ mcli' = mcli
           \/ /\ ~(i > act[t].n) /\ clients[i] # 0
              /\ resendData(t, object[clients[i]].name, TRUE)
    BY DEF disconnectNext
  <1>3. mcli \in [Client -> 0 .. Len(object)] /\ crashed \in BOOLEAN
    BY DEF RoomOK, RoomTypes
  <1>4. CASE (act' = [act EXCEPT ![t] = Resting] \/ done(t)) /\ mcli' = mcli
    <2>1. GoesOn(t) /\ act' \in [Actor -> LocalType(Len(object), Len(room))]
      BY <1>1, <1>4, RoomSizes, ActDone
    <2>2. mcli' \in [Client -> 0 .. Len(object)] /\ crashed' \in BOOLEAN
      BY <1>2, <1>3, <1>4
    <2> QED  BY <1>1, <1>2, <2>1, <2>2, RoomStay
  <1>5. CASE /\ ~(i > act[t].n) /\ clients[i] # 0
             /\ resendData(t, object[clients[i]].name, TRUE)
    <2>1. act[t].i \in Nat /\ act[t].n \in Nat
      BY <1>1, RoomSizes DEF LocalType
    <2>2. act[t].n > 0 /\ i \in 1 .. act[t].n
      BY <1>5, <2>1
    <2>3. t[1] \in DOMAIN room /\ act[t].n <= Len(clients)
      BY <2>2 DEF RoomOK, RoomLocals
    <2>4. clients \in Seq(0 .. Len(object)) /\ Len(clients) \in Nat
      <3>1. room[t[1]] \in RoomType(Len(object))
        BY <2>3, RoomSizes
      <3> QED  BY <2>3, <3>1, ClientsLen DEF RoomType
    <2>5. i \in 1 .. Len(clients)
      BY <2>1, <2>2, <2>3, <2>4
    <2>6. clients[i] \in 1 .. Len(object)
      <3>1. clients[i] \in 0 .. Len(object)
        <4> HIDE DEF clients, i
        <4> QED  BY <2>4, <2>5
      <3>2. clients[i] # 0 /\ Len(object) \in Nat
        BY <1>5, RoomSizes
      <3> HIDE DEF clients, i
      <3> QED  BY <3>1, <3>2
    <2>7. object[clients[i]].name \in Client
      <3>1. object[clients[i]] \in ObjectType
        <4> HIDE DEF clients, i
        <4> QED  BY <2>6 DEF RoomOK, RoomTypes
      <3> QED  BY <3>1 DEF ObjectType
    <2> QED  BY <1>1, <1>2, <1>5, <2>7, ResendOK
  <1> QED  BY <1>2, <1>4, <1>5

LEMMA ClientReadyOK ==
    ASSUME RoomOK, NEW a \in Actor, clientReady(a)
    PROVE  RoomOK' /\ GoesOn(a)
  <1> DEFINE r == act[a].r
             name == object[room[r].client[act[a].pos]].name
             v == [room[r] EXCEPT !.was = [room[r].was EXCEPT ![name] = "running"]]
  <1>1. UNCHANGED <<object, mcli, creating, timers>>
    BY DEF clientReady
  <1>2. /\ mcli \in [Client -> 0 .. Len(object)]
        /\ timers \in [Room -> [{"wait", "game", "close"} -> Nat]]
    BY DEF RoomOK, RoomTypes
  <1>3. CASE crashed' = TRUE /\ UNCHANGED <<room, act>>
    <2>1. act' \in [Actor -> LocalType(Len(object), Len(room))]
      BY <1>3, RoomSizes
    <2>2. GoesOn(a)
      <3>1. act[a].at = "ready"
        BY DEF clientReady, At
      <3> QED  BY <1>3, <3>1 DEF GoesOn
    <2>3. crashed' \in BOOLEAN
      BY <1>3
    <2> QED  BY <1>1, <1>2, <1>3, <2>1, <2>2, <2>3, RoomStay
  <1>4. ASSUME NEW at \in {"saved", "count"}, go(a, at), crashed' = crashed,
               room' = [room EXCEPT ![r] = v]
        PROVE  RoomOK' /\ GoesOn(a)
    <2>1. act' = [act EXCEPT ![a].at = at] /\ at \in RoomPlace /\ at # "new client"
      BY <1>4 DEF go, RoomPlace
    <2>2. act' \in [Actor -> LocalType(Len(object), Len(room))]
      BY <2>1, RoomSizes, ActStep
    <2>3. GoesOn(a)
      BY <2>1, RoomSizes, GoesOnStep
    <2>4. crashed' \in BOOLEAN
      BY <1>4 DEF RoomOK, RoomTypes
    <2>5. ASSUME r \in DOMAIN room
          PROVE  v \in RoomType(Len(object)) /\ Len(v.client) >= Len(room[r].client)
      <3>1. room[r] \in RoomType(Len(object)) /\ Len(room[r].client) \in Nat
        BY <2>5, RoomSizes, ClientsLen
      <3> HIDE DEF r, name
      <3>2. v \in RoomType(Len(object)) /\ v.client = room[r].client
        BY <3>1 DEF RoomType
      <3> HIDE DEF v
      <3> QED  BY <3>1, <3>2
    <2> HIDE DEF v, r
    <2>6. /\ room' \in Seq(RoomType(Len(object))) /\ Len(room') = Len(room)
          /\ \A q \in DOMAIN room : Len(room'[q].client) >= Len(room[q].client)
      BY <1>4, <2>5, OneRoom
    <2> QED  BY <1>1, <1>2, <2>2, <2>3, <2>4, <2>6, RoomStep
  <1>5. \/ crashed' = TRUE /\ UNCHANGED <<room, act>>
        \/ \E at \in {"saved", "count"} :
             /\ go(a, at) /\ crashed' = crashed
             /\ room' = [room EXCEPT ![r] = v]
    BY DEF clientReady
  <1> QED  BY <1>3, <1>4, <1>5

LEMMA CountReadyOK ==
    ASSUME RoomOK, NEW a \in Actor, countReady(a)
    PROVE  RoomOK' /\ GoesOn(a)
  <1> DEFINE r == act[a].r
             v == [room[r] EXCEPT !.state = "running"]
  <1>1. UNCHANGED <<object, mcli, creating, crashed>> /\ go(a, "saved")
    BY DEF countReady
  <1>2. /\ mcli \in [Client -> 0 .. Len(object)] /\ crashed \in BOOLEAN
        /\ timers \in [Room -> [{"wait", "game", "close"} -> Nat]]
    BY DEF RoomOK, RoomTypes
  <1>3. act' = [act EXCEPT ![a].at = "saved"] /\ "saved" \in RoomPlace
    BY <1>1 DEF go, RoomPlace
  <1>4. act' \in [Actor -> LocalType(Len(object), Len(room))] /\ GoesOn(a)
    BY <1>3, RoomSizes, ActStep, GoesOnStep
  <1>5. CASE UNCHANGED <<room, timers>>
    BY <1>1, <1>2, <1>4, <1>5, RoomStay
  <1>6. CASE startRoom(a)
    <2>1. /\ room' = [room EXCEPT ![r] = v]
          /\ timers' = [timers EXCEPT ![r].game = @ + 1, ![r].close = @ + 1]
      BY <1>6 DEF startRoom
    <2>2. timers' \in [Room -> [{"wait", "game", "close"} -> Nat]]
      <3> HIDE DEF r
      <3>1. CASE r \in Room
        <4> DEFINE t == [timers[r] EXCEPT !.game = @ + 1, !.close = @ + 1]
        <4>1. timers[r] \in [{"wait", "game", "close"} -> Nat]
          BY <1>2, <3>1
        <4>2. t \in [{"wait", "game", "close"} -> Nat]
          <5>1. timers[r].game + 1 \in Nat /\ timers[r].close + 1 \in Nat
            BY <4>1
          <5>2. \A f \in [{"wait", "game", "close"} -> Nat], m, n \in Nat :
                  [f EXCEPT !.game = m, !.close = n]
                      \in [{"wait", "game", "close"} -> Nat]
            OBVIOUS
          <5> QED  BY <4>1, <5>1, <5>2
        <4>3. timers' = [timers EXCEPT ![r] = t]
          BY <2>1
        <4> HIDE DEF t
        <4> QED  BY <1>2, <4>2, <4>3
      <3>2. CASE r \notin Room
        BY <1>2, <2>1, <3>2
      <3> QED  BY <3>1, <3>2
    <2>3. ASSUME r \in DOMAIN room
          PROVE  v \in RoomType(Len(object)) /\ Len(v.client) >= Len(room[r].client)
      <3>1. room[r] \in RoomType(Len(object)) /\ Len(room[r].client) \in Nat
        BY <2>3, RoomSizes, ClientsLen
      <3> HIDE DEF r
      <3>2. v \in RoomType(Len(object)) /\ v.client = room[r].client
        BY <3>1 DEF RoomType
      <3> HIDE DEF v
      <3> QED  BY <3>1, <3>2
    <2> HIDE DEF v, r
    <2>4. /\ room' \in Seq(RoomType(Len(object))) /\ Len(room') = Len(room)
          /\ \A q \in DOMAIN room : Len(room'[q].client) >= Len(room[q].client)
      BY <2>1, <2>3, OneRoom
    <2> QED  BY <1>1, <1>2, <1>4, <2>2, <2>4, RoomStep
  <1> QED  BY <1>5, <1>6 DEF countReady

LEMMA SaveDataOK ==
    ASSUME RoomOK, NEW a \in Actor, saveData(a)
    PROVE  RoomOK' /\ GoesOn(a)
  <1> DEFINE o == act[a].obj
  <1>1. /\ UNCHANGED <<mcli, room, creating, timers, crashed>>
        /\ object' = [object EXCEPT ![o].loaded = TRUE]
        /\ go(a, "leave") \/ done(a)
    BY DEF saveData
  <1>2. object' \in Seq(ObjectType) /\ Len(object') = Len(object)
    <2>1. object \in Seq(ObjectType)
      BY DEF RoomOK, RoomTypes
    <2>2. o \in DOMAIN object => [object[o] EXCEPT !.loaded = TRUE] \in ObjectType
      <3> HIDE DEF o
      <3> SUFFICES ASSUME o \in DOMAIN object
                   PROVE  [object[o] EXCEPT !.loaded = TRUE] \in ObjectType
        OBVIOUS
      <3>1. object[o] \in ObjectType
        BY <2>1
      <3> HIDE DEF o
      <3>2. \A x \in ObjectType : [x EXCEPT !.loaded = TRUE] \in ObjectType
        BY DEF ObjectType
      <3> QED  BY <3>1, <3>2
    <2> HIDE DEF o
    <2> QED  BY <1>1, <2>1, <2>2, SeqExcept
  <1>3. act' \in [Actor -> LocalType(Len(object), Len(room))] /\ GoesOn(a)
    <2>1. CASE go(a, "leave")
      <3>1. act' = [act EXCEPT ![a].at = "leave"] /\ "leave" \in RoomPlace
        BY <2>1 DEF go, RoomPlace
      <3> QED  BY <3>1, RoomSizes, ActStep, GoesOnStep
    <2>2. CASE done(a)
      BY <2>2, RoomSizes, ActDone
    <2> QED  BY <1>1, <2>1, <2>2
  <1>4. RoomTypes'
    BY <1>1, <1>2, <1>3 DEF RoomOK, RoomTypes
  <1>5. RoomLocals'
    <2>1. room' = room
      BY <1>1
    <2>2. \A q \in DOMAIN room : /\ Len(room[q].client) >= Len(room[q].client)
                                 /\ Len(room[q].client) \in Nat
      BY ClientsLen
    <2>3. \A q \in DOMAIN room : /\ q \in DOMAIN room'
                                 /\ Len(room'[q].client) >= Len(room[q].client)
                                 /\ Len(room'[q].client) \in Nat
      BY <2>1, <2>2
    <2> QED  BY <1>3, <2>3, LocalsStay
  <1> QED  BY <1>3, <1>4, <1>5 DEF RoomOK

LEMMA LeaveRoomOK ==
    ASSUME RoomOK, NEW a \in Actor, leaveRoom(a)
    PROVE  RoomOK' /\ GoesOn(a)
  <1> DEFINE r == act[a].r
             pos == act[a].pos
             v == [room[r] EXCEPT !.client = [room[r].client EXCEPT ![pos] = 0]]
  <1>1. /\ UNCHANGED <<object, creating, timers, crashed>>
        /\ room' = [room EXCEPT ![r] = v]
        /\ mcli' = [mcli EXCEPT ![act[a].name] = 0]
        /\ done(a)
    BY DEF leaveRoom
  <1>2. /\ mcli \in [Client -> 0 .. Len(object)] /\ crashed \in BOOLEAN
        /\ timers \in [Room -> [{"wait", "game", "close"} -> Nat]]
    BY DEF RoomOK, RoomTypes
  <1>3. 0 \in 0 .. Len(object)
    BY RoomSizes
  <1>4. mcli' \in [Client -> 0 .. Len(object)]
    BY <1>1, <1>2, <1>3
  <1>5. act' \in [Actor -> LocalType(Len(object), Len(room))] /\ GoesOn(a)
    BY <1>1, RoomSizes, ActDone
  <1>6. ASSUME r \in DOMAIN room
        PROVE  v \in RoomType(Len(object)) /\ Len(v.client) >= Len(room[r].client)
    <2>1. room[r] \in RoomType(Len(object)) /\ Len(room[r].client) \in Nat
      BY <1>6, RoomSizes, ClientsLen
    <2> HIDE DEF r, pos
    <2>2. room[r].client \in Seq(0 .. Len(object))
      BY <2>1 DEF RoomType
    <2>3. /\ [room[r].client EXCEPT ![pos] = 0] \in Seq(0 .. Len(object))
          /\ Len([room[r].client EXCEPT ![pos] = 0]) = Len(room[r].client)
      BY <1>3, <2>2, SeqExcept
    <2>4. /\ v \in RoomType(Len(object))
          /\ v.client = [room[r].client EXCEPT ![pos] = 0]
      BY <2>1, <2>3 DEF RoomType
    <2> HIDE DEF v
    <2> QED  BY <2>1, <2>3, <2>4
  <1> HIDE DEF v, r
  <1>7. /\ room' \in Seq(RoomType(Len(object))) /\ Len(room') = Len(room)
        /\ \A q \in DOMAIN room : Len(room'[q].client) >= Len(room[q].client)
    BY <1>1, <1>6, OneRoom
  <1> QED  BY <1>1, <1>2, <1>4, <1>5, <1>7, RoomStep

\* What the end of a timer leaves, and what a room has after it was stopped or
\* closed by it.
LEMMA EndsOK ==
    ASSUME RoomOK, NEW t \in Timer, NEW kind \in {"wait", "game", "close"},
           Ends(t, kind)
    PROVE  /\ UNCHANGED <<object, mcli, creating, crashed>>
           /\ timers' \in [Room -> [{"wait", "game", "close"} -> Nat]]
           /\ \A r \in Room, k \in {"wait", "game", "close"} :
                <<r, k>> # <<t[1], kind>> => timers'[r][k] = timers[r][k]
  <1> DEFINE q == t[1]
             n == timers[q][kind] - 1
             f == [timers[q] EXCEPT ![kind] = n]
  <1>1. /\ UNCHANGED <<object, mcli, creating, crashed>>
        /\ timers[q][kind] > 0
        /\ timers' = [timers EXCEPT ![q] = f]
    BY DEF Ends
  <1>2. q \in Room /\ timers \in [Room -> [{"wait", "game", "close"} -> Nat]]
    BY DEF Timer, RoomOK, RoomTypes
  <1>3. timers[q] \in [{"wait", "game", "close"} -> Nat]
    BY <1>2
  <1>4. n \in Nat
    BY <1>1, <1>3
  <1> HIDE DEF q, n
  <1>5. f \in [{"wait", "game", "close"} -> Nat]
    BY <1>3, <1>4
  <1>6. \A k \in {"wait", "game", "close"} : k # kind => f[k] = timers[q][k]
    BY <1>3
  <1> HIDE DEF f
  <1>7. timers' \in [Room -> [{"wait", "game", "close"} -> Nat]]
    BY <1>1, <1>2, <1>5
  <1>8. ASSUME NEW r \in Room, NEW k \in {"wait", "game", "close"},
               <<r, k>> # <<q, kind>>
        PROVE  timers'[r][k] = timers[r][k]
    BY <1>1, <1>2, <1>6, <1>8
  <1> QED  BY <1>1, <1>7, <1>8 DEF q

\* A room gets another state.
LEMMA StateOK ==
    ASSUME RoomOK, NEW r, NEW state \in {"running", "closed", "stopped"},
           room' = [room EXCEPT ![r].state = state]
    PROVE  /\ room' \in Seq(RoomType(Len(object)))
           /\ Len(room') = Len(room)
           /\ \A q \in DOMAIN room : room'[q].client = room[q].client
           /\ \A q \in DOMAIN room : room'[q].was = room[q].was
           /\ \A q \in DOMAIN room :
                room'[q].state = IF q = r THEN state ELSE room[q].state
  <1> DEFINE v == [room[r] EXCEPT !.state = state]
  <1>1. room \in Seq(RoomType(Len(object)))
    BY DEF RoomOK, RoomTypes
  <1>2. ASSUME r \in DOMAIN room
        PROVE  /\ v \in RoomType(Len(object)) /\ v.client = room[r].client
               /\ v.was = room[r].was /\ v.state = state
    <2>1. room[r] \in RoomType(Len(object))
      BY <1>1, <1>2
    <2> QED  BY <2>1 DEF RoomType
  <1>3. room' = [room EXCEPT ![r] = v]
    OBVIOUS
  <1> HIDE DEF v
  <1>4. /\ room' \in Seq(RoomType(Len(object)))
        /\ Len(room') = Len(room)
        /\ \A q \in DOMAIN room : room'[q] = IF q = r THEN v ELSE room[q]
    <2>1. r \in DOMAIN room => v \in RoomType(Len(object))
      BY <1>2
    <2> QED  BY <1>1, <1>3, <2>1, SeqExcept
  <1>5. ASSUME NEW q \in DOMAIN room
        PROVE  /\ room'[q].client = room[q].client /\ room'[q].was = room[q].was
               /\ room'[q].state = IF q = r THEN state ELSE room[q].state
    <2>1. CASE q = r
      BY <1>2, <1>4, <2>1
    <2>2. CASE q # r
      BY <1>4, <2>2
    <2> QED  BY <2>1, <2>2
  <1> QED  BY <1>4, <1>5

LEMMA StopRoomOK ==
    ASSUME RoomOK, NEW t \in Timer, t[1] \in DOMAIN room, stopRoom(t),
           UNCHANGED <<object, mcli, creating, crashed>>,
           timers' \in [Room -> [{"wait", "game", "close"} -> Nat]]
    PROVE  RoomOK'
  <1>1. t \in Actor
    BY DEF Actor
  <1>2. /\ room' = [room EXCEPT ![t[1]].state = "stopped"]
        /\ act' = [act EXCEPT ![t].at = "each", ![t].n = Len(room[t[1]].client)]
    BY DEF stopRoom
  <1>3. /\ room' \in Seq(RoomType(Len(object))) /\ Len(room') = Len(room)
        /\ \A q \in DOMAIN room : room'[q].client = room[q].client
    BY <1>2, StateOK
  <1>4. "each" \in RoomPlace /\ Len(room[t[1]].client) \in Nat
    BY ClientsLen DEF RoomPlace
  <1>5. act' \in [Actor -> LocalType(Len(object), Len(room))]
    BY <1>1, <1>2, <1>4, RoomSizes, ActStep
  <1>6. RoomTypes'
    BY <1>3, <1>5 DEF RoomOK, RoomTypes
  <1>7. /\ \A x \in Actor : x # t => act'[x] = act[x]
        /\ act'[t].at = "each" /\ act'[t].n = Len(room[t[1]].client)
    BY <1>1, <1>2, RoomSizes DEF LocalType
  <1>8. DOMAIN room' = DOMAIN room
    BY <1>3 DEF RoomOK, RoomTypes
  <1>9. ASSUME NEW x \in Timer, act'[x].n > 0
        PROVE  x[1] \in DOMAIN room' /\ act'[x].n <= Len(room'[x[1]].client)
    <2>1. CASE x = t
      BY <1>3, <1>4, <1>7, <1>8, <2>1
    <2>2. CASE x # t
      <3>1. act'[x] = act[x]
        BY <1>7, <2>2 DEF Actor
      <3>2. x[1] \in DOMAIN room /\ act[x].n <= Len(room[x[1]].client)
        BY <1>9, <3>1 DEF RoomOK, RoomLocals
      <3> QED  BY <1>3, <1>8, <3>1, <3>2
    <2> QED  BY <2>1, <2>2
  <1>10. RoomLocals'
    BY <1>7, <1>9 DEF RoomOK, RoomLocals
  <1> QED  BY <1>6, <1>10 DEF RoomOK

LEMMA TimersOK ==
    ASSUME RoomOK, NEW r \in 1 .. Len(room),
           WaitEnds(r) \/ GameEnds(r) \/ CloseEnds(r) \/ closeRoom(r)
    PROVE  RoomOK'
  <1>1. /\ r \in Room /\ r \in DOMAIN room
        /\ <<r, "stop">> \in Timer /\ <<r, "close">> \in Timer
        /\ <<r, "stop">> \in Actor /\ <<r, "close">> \in Actor
        /\ <<r, "stop">>[1] = r /\ <<r, "close">>[1] = r
    <2>1. r \in Room /\ r \in DOMAIN room
      BY RoomAssumption DEF RoomOK, RoomTypes, Room
    <2>2. <<r, "stop">> \in Timer /\ <<r, "close">> \in Timer
      BY <2>1 DEF Timer
    <2>3. <<r, "stop">> \in Actor /\ <<r, "close">> \in Actor
      BY <2>2 DEF Actor
    <2> QED  BY <2>1, <2>2, <2>3
  <1>2. /\ mcli \in [Client -> 0 .. Len(object)] /\ crashed \in BOOLEAN
        /\ timers \in [Room -> [{"wait", "game", "close"} -> Nat]]
        /\ room \in Seq(RoomType(Len(object)))
    BY DEF RoomOK, RoomTypes
  <1>3. CASE WaitEnds(r) \/ GameEnds(r)
    <2>1. /\ UNCHANGED <<object, mcli, creating, crashed>>
          /\ timers' \in [Room -> [{"wait", "game", "close"} -> Nat]]
      BY <1>1, <1>3, EndsOK DEF WaitEnds, GameEnds
    <2>2. CASE stopRoom(<<r, "stop">>)
      BY <1>1, <2>1, <2>2, StopRoomOK
    <2>3. CASE UNCHANGED <<room, act>>
      <3>1. RoomTypes'
        BY <2>1, <2>3 DEF RoomOK, RoomTypes
      <3>2. RoomLocals'
        BY <2>3 DEF RoomOK, RoomLocals
      <3> QED  BY <3>1, <3>2 DEF RoomOK
    <2> QED  BY <1>3, <2>2, <2>3 DEF WaitEnds, GameEnds
  <1>4. CASE CloseEnds(r)
    <2>1. /\ UNCHANGED <<object, mcli, creating, crashed>>
          /\ timers' \in [Room -> [{"wait", "game", "close"} -> Nat]]
          /\ room' = room
      BY <1>1, <1>4, EndsOK DEF CloseEnds
    <2>2. CASE UNCHANGED act
      <3>1. RoomTypes'
        BY <2>1, <2>2 DEF RoomOK, RoomTypes
      <3>2. RoomLocals'
        BY <2>1, <2>2 DEF RoomOK, RoomLocals
      <3> QED  BY <3>1, <3>2 DEF RoomOK
    <2>3. CASE go(<<r, "close">>, "closing")
      <3>1. /\ act' = [act EXCEPT ![<<r, "close">>].at = "closing"]
            /\ "closing" \in RoomPlace
        BY <2>3 DEF go, RoomPlace
      <3>2. act' \in [Actor -> LocalType(Len(object), Len(room))]
        BY <1>1, <3>1, RoomSizes, ActStep
      <3>3. GoesOn(<<r, "close">>)
        BY <1>1, <3>1, RoomSizes, GoesOnStep
      <3>4. \A q \in DOMAIN room : Len(room'[q].client) >= Len(room[q].client)
        BY <2>1, ClientsLen
      <3> QED
        BY <1>1, <1>2, <2>1, <3>2, <3>3, <3>4, RoomStep
    <2> QED  BY <1>4, <2>2, <2>3 DEF CloseEnds
  <1>5. CASE closeRoom(r)
    <2>1. /\ room' = [room EXCEPT ![r].state = "closed"]
          /\ act' = [act EXCEPT ![<<r, "close">>].at = "idle"]
          /\ UNCHANGED <<object, mcli, creating, timers, crashed>>
          /\ "idle" \in RoomPlace
      BY <1>5 DEF closeRoom, go, RoomPlace
    <2>2. act' \in [Actor -> LocalType(Len(object), Len(room))]
      BY <1>1, <2>1, RoomSizes, ActStep
    <2>3. GoesOn(<<r, "close">>)
      BY <1>1, <2>1, RoomSizes, GoesOnStep
    <2>4. /\ room' \in Seq(RoomType(Len(object))) /\ Len(room') = Len(room)
          /\ \A q \in DOMAIN room : room'[q].client = room[q].client
      BY <2>1, StateOK
    <2>5. \A q \in DOMAIN room : Len(room'[q].client) >= Len(room[q].client)
      BY <2>4, ClientsLen
    <2> QED
      BY <1>1, <1>2, <2>1, <2>2, <2>3, <2>4, <2>5, RoomStep
  <1> QED  BY <1>3, <1>4, <1>5

LEMMA RoomNextOK == RoomOK /\ [RoomNext]_roomVars => RoomOK'
  <1> SUFFICES ASSUME RoomOK, [RoomNext]_roomVars PROVE RoomOK'
    OBVIOUS
  <1>1. CASE UNCHANGED roomVars
    BY <1>1 DEF roomVars, RoomOK, RoomTypes, RoomLocals
  <1>2. ASSUME NEW w \in RoomWorker, NEW c \in Client,
               ComRoomRequest(w, c) \/ ComRoomData(w, c) \/ ComDisconnect(w, c)
        PROVE  RoomOK'
    <2>1. CASE ComRoomRequest(w, c)
      BY <2>1, RoomRequestOK
    <2>2. CASE ComRoomData(w, c)
      BY <2>2, ResendOK DEF ComRoomData, Actor
    <2>3. CASE ComDisconnect(w, c)
      BY <2>3, ResendOK DEF ComDisconnect, Actor
    <2> QED  BY <1>2, <2>1, <2>2, <2>3
  <1>3. ASSUME NEW w \in RoomWorker,
               newClient(w) \/ roomRequest(w) \/ newRoom(w) \/ addClient(w)
        PROVE  RoomOK'
    BY <1>3, NewClientOK, ChooseOK, NewRoomOK, AddClientOK
  <1>4. ASSUME NEW a \in Actor,
               clientReady(a) \/ countReady(a) \/ saveData(a) \/ leaveRoom(a)
        PROVE  RoomOK'
    BY <1>4, ClientReadyOK, CountReadyOK, SaveDataOK, LeaveRoomOK
  <1>5. ASSUME NEW t \in Timer, disconnectNext(t)
        PROVE  RoomOK'
    BY <1>5, DisconnectNextOK
  <1> QED  BY <1>1, <1>2, <1>3, <1>4, <1>5, TimersOK DEF RoomNext

\* Every variable of the game rooms has its type, for any number of workers,
\* clients and rooms.
THEOREM RoomTypeCorrect == RoomSpec => []RoomTypeOK
  <1>1. RoomOK => RoomTypeOK
    <2> SUFFICES ASSUME RoomOK PROVE RoomTypeOK
      OBVIOUS
    <2>1. \A r \in DOMAIN room : room[r] \in RoomType(Len(object))
      BY RoomSizes
    <2>2. \A r \in DOMAIN room :
            /\ room[r].state \in {"creating", "running", "closed", "stopped"}
            /\ room[r].client \in Seq(0 .. Len(object))
            /\ room[r].was \in [Client -> {"no", "creating", "running"}]
      BY <2>1 DEF RoomType
    <2>3. \A a \in Actor : act[a].r \in 0 .. Len(room)
      BY RoomSizes
    <2> QED
      BY <2>2, <2>3 DEF RoomTypeOK, RoomOK, RoomTypes, ObjectType
  <1> QED  BY <1>1, RoomInitOK, RoomNextOK, PTL DEF RoomSpec

\* The rooms are the same and have the same states, and nobody has become ready
\* but in room q.
StatesKept(q) ==
    /\ DOMAIN room' = DOMAIN room
    /\ \A r \in DOMAIN room : room'[r].state = room[r].state
    /\ \A r \in DOMAIN room \ {q}, c \in Client :
         room'[r].was[c] = "running" => room[r].was[c] = "running"

\* Only these steps change the state of a room or its timers.
LEMMA StatesKeptStep ==
    ASSUME RoomOK, [RoomNext]_roomVars
    PROVE  \/ StatesKept(0) /\ timers' = timers
           \/ \E a \in Actor :
                /\ StatesKept(act[a].r) /\ timers' = timers /\ clientReady(a)
           \/ \E w \in RoomWorker : newRoom(w)
           \/ \E a \in Actor : countReady(a) /\ startRoom(a)
           \/ \E r \in 1 .. Len(room) :
                WaitEnds(r) \/ GameEnds(r) \/ CloseEnds(r) \/ closeRoom(r)
  <1>0. ASSUME UNCHANGED <<room, timers>>
        PROVE  StatesKept(0) /\ timers' = timers
    BY <1>0 DEF StatesKept
  <1>1. CASE UNCHANGED roomVars
    BY <1>0, <1>1 DEF roomVars
  <1>2. ASSUME NEW w \in RoomWorker, NEW c \in Client,
               ComRoomRequest(w, c) \/ ComRoomData(w, c) \/ ComDisconnect(w, c)
        PROVE  StatesKept(0) /\ timers' = timers
    BY <1>0, <1>2 DEF ComRoomRequest, ComRoomData, ComDisconnect
  <1>3. ASSUME NEW w \in RoomWorker, newClient(w) \/ roomRequest(w)
        PROVE  StatesKept(0) /\ timers' = timers
    BY <1>0, <1>3 DEF newClient, roomRequest
  <1>4. ASSUME NEW w \in RoomWorker, addClient(w)
        PROVE  StatesKept(0) /\ timers' = timers
    <2> DEFINE r == act[w].r
               name == act[w].name
    <2>1. /\ timers' = timers
          /\ \/ room' = [room EXCEPT ![r].was[name] = "creating",
                                    ![r].client = Append(@, act[w].obj)]
             \/ room' = [room EXCEPT ![r].was[name] = "creating"]
      BY <1>4 DEF addClient
    <2> HIDE DEF r, name
    <2>2. DOMAIN room' = DOMAIN room
      BY <2>1
    <2>3. ASSUME NEW q \in DOMAIN room
          PROVE  /\ room'[q].state = room[q].state
                 /\ room'[q].was \in {room[q].was,
                                      [room[q].was EXCEPT ![name] = "creating"]}
      <3>1. room[q] \in RoomType(Len(object))
        BY RoomSizes
      <3>2. CASE q # r
        BY <2>1, <3>2
      <3>3. CASE q = r
        <4>1. CASE room' = [room EXCEPT ![r].was[name] = "creating"]
          BY <3>1, <3>3, <4>1 DEF RoomType
        <4>2. CASE room' = [room EXCEPT ![r].was[name] = "creating",
                                        ![r].client = Append(@, act[w].obj)]
          BY <3>1, <3>3, <4>2 DEF RoomType
        <4> QED  BY <2>1, <4>1, <4>2
      <3> QED  BY <3>2, <3>3
    <2>4. ASSUME NEW q \in DOMAIN room, NEW c \in Client,
                 room'[q].was[c] = "running"
          PROVE  room[q].was[c] = "running"
      <3>1. room[q].was \in [Client -> {"no", "creating", "running"}]
        <4>1. room[q] \in RoomType(Len(object))
          BY RoomSizes
        <4> QED  BY <4>1 DEF RoomType
      <3> QED  BY <2>3, <2>4, <3>1
    <2> QED  BY <2>1, <2>2, <2>3, <2>4 DEF StatesKept
  <1>5. ASSUME NEW a \in Actor, clientReady(a)
        PROVE  StatesKept(act[a].r) /\ timers' = timers
    <2> DEFINE r == act[a].r
               name == object[room[r].client[act[a].pos]].name
    <2>1. /\ timers' = timers
          /\ \/ room' = room
             \/ room' = [room EXCEPT ![r].was[name] = "running"]
      BY <1>5 DEF clientReady
    <2> HIDE DEF r, name
    <2>2. DOMAIN room' = DOMAIN room
      BY <2>1
    <2>3. \A q \in DOMAIN room \ {r} : room'[q] = room[q]
      BY <2>1
    <2>4. ASSUME NEW q \in DOMAIN room
          PROVE  room'[q].state = room[q].state
      <3>1. room[q] \in RoomType(Len(object))
        BY RoomSizes
      <3> QED  BY <2>1, <3>1 DEF RoomType
    <2> QED  BY <2>1, <2>2, <2>3, <2>4 DEF StatesKept, r
  <1>6. ASSUME NEW a \in Actor, saveData(a)
        PROVE  StatesKept(0) /\ timers' = timers
    BY <1>0, <1>6 DEF saveData
  <1>7. ASSUME NEW a \in Actor, leaveRoom(a)
        PROVE  StatesKept(0) /\ timers' = timers
    <2> DEFINE r == act[a].r
               pos == act[a].pos
    <2>1. timers' = timers /\ room' = [room EXCEPT ![r].client[pos] = 0]
      BY <1>7 DEF leaveRoom
    <2> HIDE DEF r, pos
    <2>2. DOMAIN room' = DOMAIN room
      BY <2>1
    <2>3. ASSUME NEW q \in DOMAIN room
          PROVE  room'[q].state = room[q].state /\ room'[q].was = room[q].was
      <3>1. room[q] \in RoomType(Len(object))
        BY RoomSizes
      <3> QED  BY <2>1, <3>1 DEF RoomType
    <2> QED  BY <2>1, <2>2, <2>3 DEF StatesKept
  <1>8. ASSUME NEW a \in Actor, countReady(a), ~startRoom(a)
        PROVE  StatesKept(0) /\ timers' = timers
    BY <1>0, <1>8 DEF countReady
  <1>9. ASSUME NEW t \in Timer, disconnectNext(t)
        PROVE  StatesKept(0) /\ timers' = timers
    BY <1>0, <1>9 DEF disconnectNext
  <1> QED
    BY <1>1, <1>2, <1>3, <1>4, <1>5, <1>6, <1>7, <1>8, <1>9 DEF RoomNext

LEMMA RunningEndsStep ==
    ASSUME RoomOK, RunningEnds, [RoomNext]_roomVars
    PROVE  RunningEnds'
  <1>0. /\ timers \in [Room -> [{"wait", "game", "close"} -> Nat]]
        /\ DOMAIN room \subseteq Room
        /\ room \in Seq(RoomType(Len(object)))
    BY RoomAssumption DEF RoomOK, RoomTypes, Room
  <1>1. ASSUME NEW q, StatesKept(q), timers' = timers
        PROVE  RunningEnds'
    BY <1>1 DEF RunningEnds, StatesKept
  <1>2. ASSUME NEW w \in RoomWorker, newRoom(w)
        PROVE  RunningEnds'
    <2> DEFINE n == Len(room) + 1
               new == [state |-> "creating", client |-> <<>>,
                       was |-> [c \in Client |-> "no"]]
    <2>1. /\ n \in Room
          /\ room' = Append(room, new)
          /\ timers' = [timers EXCEPT ![n].wait = 1]
      BY <1>2 DEF newRoom
    <2>2. \A r \in DOMAIN room' :
            \/ r \in DOMAIN room /\ room'[r] = room[r]
            \/ room'[r].state = "creating"
      BY <1>0, <2>1
    <2>3. \A r \in DOMAIN room : timers'[r] = timers[r]
      BY <1>0, <2>1
    <2> QED  BY <2>2, <2>3 DEF RunningEnds
  <1>3. ASSUME NEW a \in Actor, startRoom(a)
        PROVE  RunningEnds'
    <2> DEFINE r == act[a].r
    <2>1. /\ room' = [room EXCEPT ![r].state = "running"]
          /\ timers' = [timers EXCEPT ![r].game = @ + 1, ![r].close = @ + 1]
      BY <1>3 DEF startRoom
    <2>2. /\ DOMAIN room' = DOMAIN room
          /\ \A q \in DOMAIN room \ {r} : room'[q] = room[q]
      BY <2>1
    <2>3. \A q \in DOMAIN room \ {r} : timers'[q] = timers[q]
      BY <1>0, <2>1
    <2>4. r \in DOMAIN room => timers'[r].game = timers[r].game + 1
      BY <1>0, <2>1
    <2>5. r \in DOMAIN room => timers[r].game \in Nat
      BY <1>0
    <2> QED  BY <2>2, <2>3, <2>4, <2>5 DEF RunningEnds
  <1>4. ASSUME NEW r \in 1 .. Len(room), WaitEnds(r) \/ GameEnds(r) \/ CloseEnds(r)
        PROVE  RunningEnds'
    <2>1. /\ r \in Room /\ r \in DOMAIN room
          /\ <<r, "stop">> \in Timer /\ <<r, "close">> \in Timer
          /\ <<r, "stop">>[1] = r /\ <<r, "close">>[1] = r
      BY <1>0 DEF Timer
    <2>2. CASE /\ WaitEnds(r) \/ CloseEnds(r)
               /\ room' = room \/ room' = [room EXCEPT ![r].state = "stopped"]
      <3>1. \A q \in Room : timers'[q]["game"] = timers[q]["game"]
        BY <2>1, <2>2, EndsOK DEF WaitEnds, CloseEnds
      <3>2. DOMAIN room' = DOMAIN room
        BY <2>2
      <3>3. \A q \in DOMAIN room : room'[q].state \in {room[q].state, "stopped"}
        BY <2>2, StateOK
      <3> QED  BY <1>0, <3>1, <3>2, <3>3 DEF RunningEnds
    <2>3. CASE GameEnds(r)
      <3>1. room' = [room EXCEPT ![r].state = "stopped"]
        BY <2>1, <2>3 DEF GameEnds, stopRoom
      <3>2. \A q \in Room \ {r} : timers'[q]["game"] = timers[q]["game"]
        BY <2>1, <2>3, EndsOK DEF GameEnds
      <3>3. DOMAIN room' = DOMAIN room
        BY <3>1
      <3>4. \A q \in DOMAIN room :
              room'[q].state = IF q = r THEN "stopped" ELSE room[q].state
        BY <3>1, StateOK
      <3> QED  BY <1>0, <3>2, <3>3, <3>4 DEF RunningEnds
    <2> QED
      BY <1>4, <2>1, <2>2, <2>3 DEF WaitEnds, CloseEnds, stopRoom
  <1>5. ASSUME NEW r \in 1 .. Len(room), closeRoom(r)
        PROVE  RunningEnds'
    <2>1. timers' = timers /\ room' = [room EXCEPT ![r].state = "closed"]
      BY <1>5 DEF closeRoom
    <2>2. DOMAIN room' = DOMAIN room
      BY <2>1
    <2>3. \A q \in DOMAIN room : room'[q].state \in {room[q].state, "closed"}
      BY <2>1, StateOK
    <2> QED  BY <2>1, <2>2, <2>3 DEF RunningEnds
  <1> QED  BY <1>1, <1>2, <1>3, <1>4, <1>5, StatesKeptStep

\* A running game ends, for any number of clients, workers and rooms: whoever
\* starts a room starts a timer for its end, also when it is started again, and
\* a timer that ends takes the room out of the running ones.
THEOREM RunningEndsHolds == RoomSpec => []RunningEnds
  <1>1. RoomInit => RunningEnds
    BY DEF RoomInit, RunningEnds
  <1>2. RoomOK /\ RunningEnds /\ [RoomNext]_roomVars => RunningEnds'
    BY RunningEndsStep
  <1> QED  BY <1>1, <1>2, RoomInitOK, RoomNextOK, PTL DEF RoomSpec

\* A goroutine that is to count stays there until it counts.
LEMMA CountsLater ==
    ASSUME RoomOK, [RoomNext]_roomVars, NEW x \in Actor, act[x].at = "count"
    PROVE  act'[x] = act[x] \/ countReady(x)
  <1>0. ASSUME NEW a \in Actor, GoesOn(a), act[a].at # "count"
        PROVE  act'[x] = act[x]
    BY <1>0 DEF GoesOn
  <1>1. CASE UNCHANGED roomVars
    BY <1>1 DEF roomVars
  <1>2. ASSUME NEW w \in RoomWorker, NEW c \in Client,
               ComRoomRequest(w, c) \/ ComRoomData(w, c) \/ ComDisconnect(w, c)
        PROVE  act'[x] = act[x]
    <2>1. w \in Actor
      BY DEF Actor
    <2>2. CASE ComRoomRequest(w, c)
      <3>1. w # x /\ act' = [act EXCEPT ![w].at = "new client", ![w].name = c]
        BY <2>2 DEF ComRoomRequest, At
      <3> QED  BY <3>1, RoomSizes
    <2>3. CASE ComRoomData(w, c)
      BY <1>0, <2>1, <2>3, ResendOK DEF ComRoomData, At
    <2>4. CASE ComDisconnect(w, c)
      BY <1>0, <2>1, <2>4, ResendOK DEF ComDisconnect, At
    <2> QED  BY <1>2, <2>2, <2>3, <2>4
  <1>3. ASSUME NEW w \in RoomWorker,
               newClient(w) \/ roomRequest(w) \/ newRoom(w) \/ addClient(w)
        PROVE  act'[x] = act[x]
    <2>1. w # x
      BY <1>3 DEF newClient, roomRequest, newRoom, addClient, At
    <2>2. CASE newClient(w)
      BY <2>1, <2>2, RoomSizes DEF newClient
    <2>3. CASE roomRequest(w)
      BY <2>1, <2>3, RoomSizes DEF roomRequest, go
    <2>4. CASE newRoom(w)
      BY <2>1, <2>4, RoomSizes DEF newRoom
    <2>5. CASE addClient(w)
      BY <2>1, <2>5, RoomSizes DEF addClient, done
    <2> QED  BY <1>3, <2>2, <2>3, <2>4, <2>5
  <1>4. ASSUME NEW a \in Actor, clientReady(a) \/ saveData(a) \/ leaveRoom(a)
        PROVE  act'[x] = act[x]
    <2>1. act[a].at # "count"
      BY <1>4 DEF clientReady, saveData, leaveRoom, At
    <2>2. GoesOn(a)
      BY <1>4, ClientReadyOK, SaveDataOK, LeaveRoomOK
    <2> QED  BY <1>0, <2>1, <2>2
  <1>5. ASSUME NEW a \in Actor, countReady(a)
        PROVE  act'[x] = act[x] \/ countReady(x)
    BY <1>5, CountReadyOK DEF GoesOn
  <1>6. ASSUME NEW r \in 1 .. Len(room),
               WaitEnds(r) \/ GameEnds(r) \/ CloseEnds(r) \/ closeRoom(r)
        PROVE  act'[x] = act[x]
    <2>1. PICK kind \in {"stop", "close"} :
            /\ act[<<r, kind>>].at \in {"idle", "closing"}
            /\ \A a \in Actor : a # <<r, kind>> => act'[a] = act[a]
      <3>1. CASE WaitEnds(r) \/ GameEnds(r)
        BY <3>1, RoomSizes DEF WaitEnds, GameEnds, Ends, At, stopRoom
      <3>2. CASE CloseEnds(r) \/ closeRoom(r)
        BY <3>2, RoomSizes DEF CloseEnds, closeRoom, Ends, At, go
      <3> QED  BY <1>6, <3>1, <3>2
    <2> QED  BY <2>1
  <1>7. ASSUME NEW t \in Timer, disconnectNext(t)
        PROVE  act'[x] = act[x]
    <2>1. t \in Actor /\ act[t].at # "count"
      BY <1>7 DEF disconnectNext, At, Actor
    <2> QED  BY <1>0, <1>7, <2>1, DisconnectNextOK
  <1> QED
    BY <1>1, <1>2, <1>3, <1>4, <1>5, <1>6, <1>7 DEF RoomNext

ReadyIn(r) == {c \in Client : room[r].was[c] = "running"}

LEMMA ReadyFewer ==
    ASSUME NEW S, NEW T, S \subseteq T, T \subseteq Client
    PROVE  Cardinality(S) \in Nat /\ Cardinality(T) \in Nat
           /\ Cardinality(S) <= Cardinality(T)
  <1>1. IsFiniteSet(T)
    BY RoomAssumption, FS_Subset
  <1> QED  BY <1>1, FS_Subset, FS_CardinalityType

LEMMA NoLostStartStep ==
    ASSUME RoomOK, NoLostStart, [RoomNext]_roomVars
    PROVE  NoLostStart'
  <1> SUFFICES ASSUME NEW r \in DOMAIN room', room'[r].state = "creating",
                      Cardinality(ReadyIn(r)') >= MinClients
               PROVE  \E a \in Actor : act'[a].at = "count" /\ act'[a].r = r
    BY DEF NoLostStart, numReady, ReadyIn
  <1>0. /\ room \in Seq(RoomType(Len(object))) /\ MinClients \in Nat \ {0}
        /\ 0 \notin DOMAIN room
    BY RoomAssumption DEF RoomOK, RoomTypes
  <1>1. ASSUME r \in DOMAIN room, room[r].state = "creating",
               ReadyIn(r)' \subseteq ReadyIn(r)
        PROVE  \E a \in Actor : act'[a].at = "count" /\ act'[a].r = r
    <2>1. Cardinality(ReadyIn(r)) >= MinClients
      <3>1. /\ Cardinality(ReadyIn(r)') \in Nat /\ Cardinality(ReadyIn(r)) \in Nat
            /\ Cardinality(ReadyIn(r)') <= Cardinality(ReadyIn(r))
        BY <1>1, ReadyFewer DEF ReadyIn
      <3> QED  BY <1>0, <3>1
    <2>2. PICK x \in Actor : act[x].at = "count" /\ act[x].r = r
      BY <1>1, <2>1 DEF NoLostStart, numReady, ReadyIn
    <2>3. ~countReady(x)
      <3> SUFFICES ASSUME countReady(x) PROVE FALSE
        OBVIOUS
      <3>1. startRoom(x)
        BY <2>1, <2>2 DEF countReady, numReady, ReadyIn
      <3>2. room' = [room EXCEPT ![r].state = "running"]
        BY <2>2, <3>1 DEF startRoom
      <3>3. room'[r].state = "running"
        BY <1>1, <3>2, StateOK
      <3> QED  BY <3>3
    <2> QED  BY <2>2, <2>3, CountsLater
  <1>2. ASSUME NEW q, StatesKept(q), r # q
        PROVE  \E a \in Actor : act'[a].at = "count" /\ act'[a].r = r
    <2>1. r \in DOMAIN room /\ room[r].state = "creating"
      BY <1>2 DEF StatesKept
    <2>2. ReadyIn(r)' \subseteq ReadyIn(r)
      BY <1>2, <2>1 DEF StatesKept, ReadyIn
    <2> QED  BY <1>1, <2>1, <2>2
  <1>3. CASE StatesKept(0)
    <2>1. r \in DOMAIN room
      BY <1>3 DEF StatesKept
    <2> QED  BY <1>0, <1>2, <1>3, <2>1
  <1>4. ASSUME NEW a \in Actor, StatesKept(act[a].r), clientReady(a)
        PROVE  \E b \in Actor : act'[b].at = "count" /\ act'[b].r = r
    <2>1. CASE r # act[a].r
      BY <1>2, <1>4, <2>1
    <2>2. CASE r = act[a].r
      <3>1. r \in DOMAIN room /\ room[r].state = "creating"
        BY <1>4 DEF StatesKept
      <3>2. CASE UNCHANGED room
        BY <1>1, <3>1, <3>2 DEF ReadyIn
      <3>3. CASE act' = [act EXCEPT ![a].at = "count"]
        BY <2>2, <3>3, RoomSizes DEF LocalType
      <3> QED  BY <1>4, <2>2, <3>1, <3>2, <3>3 DEF clientReady, go
    <2> QED  BY <2>1, <2>2
  <1>5. ASSUME NEW w \in RoomWorker, newRoom(w)
        PROVE  \E a \in Actor : act'[a].at = "count" /\ act'[a].r = r
    <2> DEFINE new == [state |-> "creating", client |-> <<>>,
                       was |-> [c \in Client |-> "no"]]
    <2>1. room' = Append(room, new)
      BY <1>5 DEF newRoom
    <2>2. CASE r \in DOMAIN room
      <3>1. room'[r] = room[r]
        BY <1>0, <2>1, <2>2
      <3> QED  BY <1>1, <2>2, <3>1 DEF ReadyIn
    <2>3. CASE r \notin DOMAIN room
      <3>1. room'[r] = new
        <4> HIDE DEF new
        <4> QED  BY <1>0, <2>1, <2>3
      <3>2. ReadyIn(r)' = {}
        BY <3>1 DEF ReadyIn
      <3>3. Cardinality(ReadyIn(r)') = 0
        BY <3>2, FS_EmptySet
      <3> QED  BY <1>0, <3>3
    <2> QED  BY <2>2, <2>3
  <1>6. ASSUME NEW q, NEW state \in {"running", "closed", "stopped"},
               room' = [room EXCEPT ![q].state = state]
        PROVE  \E a \in Actor : act'[a].at = "count" /\ act'[a].r = r
    <2>1. r \in DOMAIN room
      BY <1>6
    <2>2. room[r].state = "creating" /\ room'[r].was = room[r].was
      BY <1>6, <2>1, StateOK
    <2> QED  BY <1>1, <2>1, <2>2 DEF ReadyIn
  <1>7. ASSUME NEW a \in Actor, startRoom(a)
        PROVE  \E b \in Actor : act'[b].at = "count" /\ act'[b].r = r
    BY <1>6, <1>7 DEF startRoom
  <1>8. ASSUME NEW q \in 1 .. Len(room),
               WaitEnds(q) \/ GameEnds(q) \/ CloseEnds(q) \/ closeRoom(q)
        PROVE  \E b \in Actor : act'[b].at = "count" /\ act'[b].r = r
    <2>1. \/ room' = room
          \/ room' = [room EXCEPT ![<<q, "stop">>[1]].state = "stopped"]
          \/ room' = [room EXCEPT ![q].state = "closed"]
      BY <1>8 DEF WaitEnds, GameEnds, CloseEnds, closeRoom, stopRoom
    <2>2. CASE room' = room
      BY <1>1, <2>2 DEF ReadyIn
    <2> QED  BY <1>6, <2>1, <2>2
  <1> QED
    BY <1>3, <1>4, <1>5, <1>7, <1>8, StatesKeptStep

\* No game is forgotten, for any number of clients, workers and rooms: whoever
\* makes a client ready in a room that waits counts afterwards, and the last one
\* to count sees all that are ready.
THEOREM NoLostStartHolds == RoomSpec => []NoLostStart
  <1>1. RoomInit => NoLostStart
    BY DEF RoomInit, NoLostStart
  <1>2. RoomOK /\ NoLostStart /\ [RoomNext]_roomVars => NoLostStart'
    BY NoLostStartStep
  <1> QED  BY <1>1, <1>2, RoomInitOK, RoomNextOK, PTL DEF RoomSpec

-----------------------------------------------------------------------------
(* The statistics of rooms *)

\* A report of a room's state is on its way.
OnTheWay == \E i \in DOMAIN reports : reports[i][1] = "room"

\* Until a worker was faster than another: there is one worker at most that
\* serves, and the last report of the room's state, on its way, in the hands of
\* the worker or written, is what was reported last.
StatInv ==
    /\ reports \in Seq(Report)
    /\ serving \in [StatWorker -> Report \cup {<<>>}]
    /\ roomRow \in [state : RoomState \cup {"none"},
                    filled : SUBSET (RoomState \cup {"created"})]
    /\ ~overtaken =>
         /\ \A v, w \in StatWorker :
              serving[v] # <<>> /\ serving[w] # <<>> => v = w
         /\ \A i \in DOMAIN reports :
              /\ reports[i][1] = "room"
              /\ \A j \in DOMAIN reports : j > i => reports[j][1] # "room"
              => reports[i][2] = reported
         /\ ~OnTheWay => \A w \in StatWorker :
              serving[w] # <<>> /\ serving[w][1] = "room"
                  => serving[w][2] = reported
         /\ ~OnTheWay /\ (\A w \in StatWorker :
                             serving[w] # <<>> => serving[w][1] # "room")
              => roomRow.state = reported

\* Reports are pairs, and none is the mark of a worker that rests.
LEMMA Reports ==
    /\ \A x \in Report : x # <<>>
    /\ \A state \in RoomState : <<"room", state>> \in Report
    /\ \A state \in ClientState : <<"client", state>> \in Report
    /\ <<"rooms", "by created">> \in Report
  <1>1. ASSUME NEW x \in Report
        PROVE  x # <<>>
    <2>1. PICK a, b : x = <<a, b>>
      <3>1. CASE x \in {"room"} \X RoomState
        BY <3>1
      <3>2. CASE x \in {"client"} \X ClientState
        BY <3>2
      <3>3. CASE x = <<"rooms", "by created">>
        BY <3>3
      <3> QED  BY <3>1, <3>2, <3>3 DEF Report
    <2>2. Len(<<a, b>>) # Len(<<>>)
      OBVIOUS
    <2> QED  BY <2>1, <2>2
  <1>2. /\ \A state \in RoomState : <<"room", state>> \in Report
        /\ \A state \in ClientState : <<"client", state>> \in Report
    BY DEF Report
  <1>3. <<"rooms", "by created">> \in Report
    BY DEF Report
  <1> QED  BY <1>1, <1>2, <1>3

LEMMA SendStep ==
    ASSUME StatInv, NEW kind, NEW what, <<kind, what>> \in Report,
           sendReport(kind, what),
           reported' = IF kind = "room" THEN what ELSE reported
    PROVE  StatInv'
  <1> DEFINE x == <<kind, what>>
  <1>1. /\ reports' = Append(reports, x)
        /\ UNCHANGED <<serving, roomRow, overtaken>>
    BY DEF sendReport
  <1>2. /\ reports' \in Seq(Report) /\ Len(reports) \in Nat
        /\ DOMAIN reports = 1 .. Len(reports)
        /\ DOMAIN reports' = 1 .. (Len(reports) + 1)
        /\ \A i \in DOMAIN reports : reports'[i] = reports[i]
        /\ reports'[Len(reports) + 1] = x
    <2> HIDE DEF x
    <2> QED  BY <1>1 DEF StatInv, x
  <1>3. x[1] = kind /\ x[2] = what
    OBVIOUS
  <1> HIDE DEF x
  <1>4. CASE kind = "room"
    <2>1. OnTheWay'
      BY <1>2, <1>3, <1>4 DEF OnTheWay
    <2>2. ASSUME NEW i \in DOMAIN reports', reports'[i][1] = "room",
                 \A j \in DOMAIN reports' : j > i => reports'[j][1] # "room"
          PROVE  reports'[i][2] = reported'
      <3>1. i = Len(reports) + 1
        BY <1>2, <1>3, <1>4, <2>2
      <3> QED  BY <1>2, <1>3, <1>4, <3>1
    <2> QED  BY <1>1, <1>2, <2>1, <2>2 DEF StatInv
  <1>5. CASE kind # "room"
    <2>1. OnTheWay' <=> OnTheWay
      BY <1>2, <1>3, <1>5 DEF OnTheWay
    <2>2. ASSUME ~overtaken, NEW i \in DOMAIN reports', reports'[i][1] = "room",
                 \A j \in DOMAIN reports' : j > i => reports'[j][1] # "room"
          PROVE  reports'[i][2] = reported'
      <3>1. i \in DOMAIN reports
        BY <1>2, <1>3, <1>5, <2>2
      <3>2. \A j \in DOMAIN reports : j > i => reports[j][1] # "room"
        BY <1>2, <2>2
      <3>3. reports[i][2] = reported
        BY <1>2, <2>2, <3>1, <3>2 DEF StatInv
      <3> QED  BY <1>2, <1>5, <3>1, <3>3
    <2> QED  BY <1>1, <1>2, <1>5, <2>1, <2>2 DEF StatInv
  <1> QED  BY <1>4, <1>5

LEMMA TakeStep ==
    ASSUME StatInv, NEW w \in StatWorker, TakeReport(w)
    PROVE  StatInv'
  <1>1. /\ serving[w] = <<>> /\ reports # <<>>
        /\ serving' = [serving EXCEPT ![w] = Head(reports)]
        /\ reports' = Tail(reports)
        /\ overtaken' = (overtaken \/ \E v \in StatWorker : serving[v] # <<>>)
        /\ UNCHANGED <<roomRow, reported>>
    BY DEF TakeReport
  <1>2. /\ reports' \in Seq(Report) /\ Len(reports) \in Nat /\ Len(reports) > 0
        /\ DOMAIN reports = 1 .. Len(reports)
        /\ DOMAIN reports' = 1 .. (Len(reports) - 1)
        /\ \A i \in DOMAIN reports' : reports'[i] = reports[i + 1]
        /\ Head(reports) = reports[1] /\ Head(reports) \in Report
    BY <1>1 DEF StatInv
  <1>3. serving' \in [StatWorker -> Report \cup {<<>>}]
    BY <1>1, <1>2 DEF StatInv
  <1>4. ASSUME ~overtaken'
        PROVE  /\ ~overtaken
               /\ \A v \in StatWorker : serving[v] = <<>>
               /\ \A v \in StatWorker \ {w} : serving'[v] = <<>>
               /\ serving'[w] = reports[1] /\ serving'[w] # <<>>
    BY <1>1, <1>2, <1>4, Reports DEF StatInv
  <1>5. ASSUME ~overtaken', NEW i \in DOMAIN reports', reports'[i][1] = "room",
               \A j \in DOMAIN reports' : j > i => reports'[j][1] # "room"
        PROVE  reports'[i][2] = reported'
    <2>1. i + 1 \in DOMAIN reports /\ reports[i + 1][1] = "room"
      BY <1>2, <1>5
    <2>2. \A j \in DOMAIN reports : j > i + 1 => reports[j][1] # "room"
      <3> SUFFICES ASSUME NEW j \in DOMAIN reports, j > i + 1
                   PROVE  reports[j][1] # "room"
        OBVIOUS
      <3>1. j - 1 \in DOMAIN reports' /\ j - 1 > i /\ (j - 1) + 1 = j
        BY <1>2
      <3> QED  BY <1>2, <1>5, <3>1
    <2> QED  BY <1>1, <1>2, <1>4, <1>5, <2>1, <2>2 DEF StatInv
  <1>6. ASSUME ~overtaken', ~OnTheWay', serving'[w][1] = "room"
        PROVE  serving'[w][2] = reported'
    <2>1. \A j \in DOMAIN reports : j > 1 => reports[j][1] # "room"
      <3> SUFFICES ASSUME NEW j \in DOMAIN reports, j > 1
                   PROVE  reports[j][1] # "room"
        OBVIOUS
      <3>1. j - 1 \in DOMAIN reports' /\ (j - 1) + 1 = j
        BY <1>2
      <3> QED  BY <1>2, <1>6, <3>1 DEF OnTheWay
    <2>2. 1 \in DOMAIN reports
      BY <1>2
    <2> QED  BY <1>1, <1>4, <1>6, <2>1, <2>2 DEF StatInv
  <1>7. ASSUME ~overtaken', ~OnTheWay', serving'[w][1] # "room"
        PROVE  roomRow'.state = reported'
    <2>1. ~OnTheWay
      <3> SUFFICES ASSUME NEW j \in DOMAIN reports, reports[j][1] = "room"
                   PROVE  FALSE
        BY DEF OnTheWay
      <3>1. j # 1
        BY <1>4, <1>7
      <3>2. j - 1 \in DOMAIN reports' /\ (j - 1) + 1 = j
        BY <1>2, <3>1
      <3> QED  BY <1>2, <1>7, <3>2 DEF OnTheWay
    <2> QED  BY <1>1, <1>4, <1>7, <2>1 DEF StatInv
  <1>8. roomRow' \in [state : RoomState \cup {"none"},
                      filled : SUBSET (RoomState \cup {"created"})]
    BY <1>1 DEF StatInv
  <1> QED
    BY <1>2, <1>3, <1>4, <1>5, <1>6, <1>7, <1>8 DEF StatInv

LEMMA ServeStep ==
    ASSUME StatInv, NEW w \in StatWorker, serving[w] # <<>>, Serve(w),
           roomRow' \in [state : RoomState \cup {"none"},
                         filled : SUBSET (RoomState \cup {"created"})],
           roomRow'.state = IF serving[w][1] = "room" THEN serving[w][2]
                            ELSE roomRow.state
    PROVE  StatInv'
  <1>1. /\ serving' = [serving EXCEPT ![w] = <<>>]
        /\ UNCHANGED <<reports, reported, overtaken>>
    BY DEF Serve
  <1>2. serving' \in [StatWorker -> Report \cup {<<>>}]
    BY <1>1 DEF StatInv
  <1>3. ASSUME ~overtaken
        PROVE  \A v \in StatWorker : serving'[v] = <<>>
    BY <1>1, <1>3 DEF StatInv
  <1>4. OnTheWay' = OnTheWay
    BY <1>1 DEF OnTheWay
  <1>5. ASSUME ~overtaken, ~OnTheWay
        PROVE  roomRow'.state = reported
    <2>1. CASE serving[w][1] = "room"
      BY <1>5, <2>1 DEF StatInv
    <2>2. CASE serving[w][1] # "room"
      <3>1. \A v \in StatWorker : serving[v] # <<>> => serving[v][1] # "room"
        BY <1>5, <2>2 DEF StatInv
      <3> QED  BY <1>5, <2>2, <3>1 DEF StatInv
    <2> QED  BY <2>1, <2>2
  <1> QED  BY <1>1, <1>2, <1>3, <1>4, <1>5 DEF StatInv

LEMMA StatStep == StatInv /\ [StatNext]_statVars => StatInv'
  <1> SUFFICES ASSUME StatInv, [StatNext]_statVars PROVE StatInv'
    OBVIOUS
  <1>1. CASE UNCHANGED statVars
    BY <1>1 DEF statVars, StatInv, OnTheWay
  <1>2. CASE SendRoomCreate
    BY <1>2, Reports, SendStep DEF SendRoomCreate, RoomState
  <1>3. CASE SendRoomState
    <2>1. PICK state \in RoomState : sendReport("room", state) /\ reported' = state
      BY <1>3 DEF SendRoomState
    <2> QED  BY <2>1, Reports, SendStep
  <1>4. CASE SendClientState
    <2>1. PICK state \in ClientState :
            sendReport("client", state) /\ reported' = reported
      BY <1>4 DEF SendClientState
    <2> QED  BY <2>1, Reports, SendStep
  <1>5. CASE SendRoomByCreated
    BY <1>5, Reports, SendStep DEF SendRoomByCreated
  <1>6. ASSUME NEW w \in StatWorker, TakeReport(w)
        PROVE  StatInv'
    BY <1>6, TakeStep
  <1>7. ASSUME NEW w \in StatWorker, ComRoomCreated(w)
        PROVE  StatInv'
    <2>1. /\ serving[w] = <<"room", "creating">> /\ Serve(w)
          /\ roomRow' = [state |-> "creating", filled |-> {"created"}]
      BY <1>7 DEF ComRoomCreated
    <2>2. roomRow' \in [state : RoomState \cup {"none"},
                        filled : SUBSET (RoomState \cup {"created"})]
      BY <2>1 DEF RoomState
    <2>3. serving[w] # <<>> /\ serving[w][1] = "room" /\ roomRow'.state = serving[w][2]
      BY <2>1
    <2> QED  BY <2>1, <2>2, <2>3, ServeStep
  <1>8. ASSUME NEW w \in StatWorker, ComRoomStateChanged(w)
        PROVE  StatInv'
    <2>1. PICK state \in RoomState :
            /\ serving[w] = <<"room", state>> /\ Serve(w)
            /\ roomRow' = [state |-> state, filled |-> roomRow.filled \cup {state}]
      BY <1>8 DEF ComRoomStateChanged, setRoomState
    <2>2. roomRow' \in [state : RoomState \cup {"none"},
                        filled : SUBSET (RoomState \cup {"created"})]
      BY <2>1 DEF StatInv
    <2>3. serving[w] # <<>> /\ serving[w][1] = "room" /\ roomRow'.state = serving[w][2]
      BY <2>1
    <2> QED  BY <2>1, <2>2, <2>3, ServeStep
  <1>9. ASSUME NEW w \in StatWorker, ComClientStatus(w) \/ ComGetRoomsByCreated(w)
        PROVE  StatInv'
    <2>1. /\ serving[w] # <<>> /\ serving[w][1] # "room"
          /\ Serve(w) /\ roomRow' = roomRow
      <3>1. CASE ComClientStatus(w)
        <4>1. PICK state \in ClientState : serving[w] = <<"client", state>>
          BY <3>1 DEF ComClientStatus
        <4>2. serving[w] # <<>> /\ serving[w][1] = "client"
          BY <4>1
        <4> QED  BY <3>1, <4>2 DEF ComClientStatus
      <3>2. CASE ComGetRoomsByCreated(w)
        <4>1. serving[w] = <<"rooms", "by created">>
          BY <3>2 DEF ComGetRoomsByCreated
        <4>2. serving[w] # <<>>
          BY <4>1, Reports
        <4>3. serving[w][1] # "room"
          <5>1. \A a, b : serving[w] = <<a, b>> => serving[w][1] = a
            OBVIOUS
          <5>2. serving[w][1] = "rooms"
            BY <4>1, <5>1
          <5> QED  BY <5>2
        <4> QED  BY <3>2, <4>2, <4>3 DEF ComGetRoomsByCreated
      <3> QED  BY <1>9, <3>1, <3>2
    <2>2. roomRow' \in [state : RoomState \cup {"none"},
                        filled : SUBSET (RoomState \cup {"created"})]
      BY <2>1 DEF StatInv
    <2> QED  BY <2>1, <2>2, ServeStep
  <1>10. ASSUME NEW w \in StatWorker, LoseReport(w)
         PROVE  StatInv'
    BY <1>10 DEF LoseReport, StatInv
  <1> QED
    BY <1>1, <1>2, <1>3, <1>4, <1>5, <1>6, <1>7, <1>8, <1>9, <1>10 DEF StatNext

LEMMA StatInitOK == StatInit => StatInv
  <1> SUFFICES ASSUME StatInit PROVE StatInv
    OBVIOUS
  <1>1. reports = <<>> /\ reports \in Seq(Report) /\ DOMAIN reports = {}
    BY DEF StatInit
  <1>2. serving \in [StatWorker -> Report \cup {<<>>}]
        /\ \A w \in StatWorker : serving[w] = <<>>
    BY DEF StatInit
  <1>3. /\ roomRow \in [state : RoomState \cup {"none"},
                        filled : SUBSET (RoomState \cup {"created"})]
        /\ roomRow.state = reported
    BY DEF StatInit
  <1> QED  BY <1>1, <1>2, <1>3 DEF StatInv

\* The table of rooms shows the state that was reported last, for any number of
\* workers and reports, until a worker is faster than another or a query fails.
THEOREM RowFollowsRoomHolds == StatSpec => []RowFollowsRoom
  <1>1. StatInv => RowFollowsRoom
    <2> SUFFICES ASSUME StatInv, ~overtaken, reports = <<>>,
                        \A w \in StatWorker : serving[w] = <<>>
                 PROVE  roomRow.state = reported
      BY DEF RowFollowsRoom
    <2>1. ~OnTheWay
      BY DEF OnTheWay
    <2> QED  BY <2>1 DEF StatInv
  <1> QED  BY <1>1, StatInitOK, StatStep, PTL DEF StatSpec

-----------------------------------------------------------------------------
(* The key-value service *)

WorkerType == [at : Place, req : Request, n : Nat]

\* What the first query of a command may do: the worker is free again or goes on
\* with a number or with a row, the counter starts anew, a row is added.
FirstQuery(w) ==
    /\ \/ worker' = [worker EXCEPT ![w] = Idle]
       \/ \E at \in {"create", "swap"}, n \in Nat : Goto(w, at, n)
       \/ \E row \in DOMAIN queue : Goto(w, "lock", row) /\ queue' = queue
    /\ answers' \subseteq answers \cup {worker[w].req}
    /\ data' \subseteq data \cup {"missing", "value"}
    /\ \/ UNCHANGED <<counter, oldNumbers, epoch>>
       \/ \E n \in {0, 1} : Number(n) /\ epoch' = epoch + 1
    /\ queue' \in {queue, Append(queue, "free")}
    /\ UNCHANGED <<given, taken>>

LEMMA ProcessStep ==
    ASSUME TypeOK, NEW w \in Worker, Process(w)
    PROVE  /\ worker[w].at = "begin" /\ UNCHANGED <<used, commands, client>>
           /\ FirstQuery(w)
  <1>1. UNCHANGED <<used, commands, client>>
    BY DEF Process
  <1>2. worker[w].at = "begin"
    BY DEF Process, CmdBinary, CmdSet, CmdDelete, CmdGet, CmdList, CmdListBody,
           CmdFunc, CmdGetID, CmdSetID, CmdDeleteID, CmdSetQueue, CmdGetQueue,
           Begins
  <1>3. ASSUME Answer(w) \/ Quit(w) \/ NotFound(w)
        PROVE  /\ worker' = [worker EXCEPT ![w] = Idle]
               /\ answers' \subseteq answers \cup {worker[w].req}
    BY <1>3 DEF Answer, Quit, NotFound
  <1>4. CASE Set(w) \/ Delete(w)
    BY <1>1, <1>2, <1>3, <1>4 DEF Set, Delete, FirstQuery
  <1>5. CASE Get(w) \/ List(w) \/ ListBody(w) \/ PluginFunc(w)
    <2>1. UNCHANGED tables /\ (Answer(w) \/ NotFound(w))
      BY <1>5 DEF Get, List, ListBody, PluginFunc
    <2> QED  BY <1>1, <1>2, <1>3, <2>1 DEF FirstQuery, tables
  <1>6. CASE SetID(w) \/ DeleteID(w)
    <2>1. PICK n \in {0, 1} : WriteID(n) /\ (Answer(w) \/ Quit(w))
      BY <1>6 DEF SetID, DeleteID
    <2> QED  BY <1>1, <1>2, <1>3, <2>1 DEF FirstQuery, WriteID
  <1>7. CASE GetID(w)
    <2>1. UNCHANGED tables
      BY <1>7 DEF GetID
    <2>2. PICK at \in {"create", "swap"}, n \in Nat : Goto(w, at, n)
      BY <1>7 DEF GetID, TypeOK
    <2> QED  BY <1>1, <1>2, <2>1, <2>2 DEF FirstQuery, Goto, tables
  <1>8. CASE SetQueue(w)
    BY <1>1, <1>2, <1>3, <1>8 DEF SetQueue, FirstQuery
  <1>9. CASE GetQueue(w)
    <2>1. UNCHANGED tables
      BY <1>9 DEF GetQueue
    <2>2. CASE NotFound(w)
      BY <1>1, <1>2, <1>3, <2>1, <2>2 DEF FirstQuery, tables
    <2>3. ASSUME NEW row \in DOMAIN queue, Goto(w, "lock", row)
          PROVE  FirstQuery(w)
      BY <2>1, <2>3 DEF FirstQuery, Goto, tables
    <2> QED  BY <1>1, <1>2, <1>9, <2>2, <2>3 DEF GetQueue
  <1> QED
    BY <1>4, <1>5, <1>6, <1>7, <1>8, <1>9
    DEF Process, CmdBinary, CmdSet, CmdDelete, CmdGet, CmdList, CmdListBody,
        CmdFunc, CmdGetID, CmdSetID, CmdDeleteID, CmdSetQueue, CmdGetQueue

\* A worker that goes on with one of its locals.
LEMMA WorkerStep ==
    ASSUME worker \in [Worker -> WorkerType], NEW w \in Worker,
           \/ worker' = [worker EXCEPT ![w] = Idle]
           \/ \E at \in Place, n \in Nat :
                worker' = [worker EXCEPT ![w].at = at, ![w].n = n]
    PROVE  /\ worker' \in [Worker -> WorkerType]
           /\ \A v \in Worker \ {w} : worker'[v] = worker[v]
           /\ worker'[w].req \in {worker[w].req, NoRequest}
  <1>1. CASE worker' = [worker EXCEPT ![w] = Idle]
    <2>1. Idle \in WorkerType /\ Idle.req = NoRequest
      BY DEF Idle, WorkerType, Place, NoRequest, Request, Command, ValueCommand
    <2> QED  BY <1>1, <2>1
  <1>2. ASSUME NEW at \in Place, NEW n \in Nat,
               worker' = [worker EXCEPT ![w].at = at, ![w].n = n]
        PROVE  /\ worker' \in [Worker -> WorkerType]
               /\ \A v \in Worker \ {w} : worker'[v] = worker[v]
               /\ worker'[w].req = worker[w].req
    <2> DEFINE l == [worker[w] EXCEPT !.at = at, !.n = n]
    <2>1. l \in WorkerType /\ l.req = worker[w].req
      BY ZenonT(40) DEF WorkerType
    <2>2. worker' = [worker EXCEPT ![w] = l]
      BY <1>2
    <2> HIDE DEF l
    <2> QED  BY <2>1, <2>2
  <1>3. CASE worker' # [worker EXCEPT ![w] = Idle]
    <2>1. PICK at \in Place, n \in Nat :
            worker' = [worker EXCEPT ![w].at = at, ![w].n = n]
      BY <1>3
    <2> QED  BY <1>2, <2>1
  <1> QED  BY <1>1, <1>3

\* No row of the queue disappears.
LEMMA QueueGrows ==
    ASSUME TypeOK, queue' \in {queue, Append(queue, "free")}
    PROVE  /\ queue' \in Seq({"free", "locked", "deleted"})
           /\ DOMAIN queue \subseteq DOMAIN queue'
           /\ \A row \in DOMAIN queue : queue'[row] = queue[row]
  <1>1. queue \in Seq({"free", "locked", "deleted"})
    BY DEF TypeOK
  <1>2. CASE queue' = queue
    BY <1>1, <1>2
  <1>3. CASE queue' = Append(queue, "free")
    <2> DEFINE S == {"free", "locked", "deleted"}
    <2>1. queue \in Seq(S) /\ "free" \in S
      BY <1>1
    <2> HIDE DEF S
    <2>2. /\ Append(queue, "free") \in Seq(S)
          /\ DOMAIN queue \subseteq DOMAIN Append(queue, "free")
          /\ \A row \in DOMAIN queue : Append(queue, "free")[row] = queue[row]
      BY <2>1
    <2> QED  BY <1>3, <2>2 DEF S
  <1> QED  BY <1>2, <1>3

\* What a step of a worker leaves of the rows in the hands of workers.
RowsKept == \A w \in Worker :
    worker[w].at \in {"lock", "remove"} => worker[w].n \in DOMAIN queue

LEMMA CdbTypeInit == Init => TypeOK
  <1> SUFFICES ASSUME Init PROVE TypeOK
    OBVIOUS
  <1>1. NoRequest \in Request
    BY DEF NoRequest, Request, Command, ValueCommand
  <1>2. Idle \in WorkerType /\ Idle.at = "idle"
    BY <1>1 DEF Idle, WorkerType, Place
  <1>3. \A S : <<>> \in Seq(S)
    OBVIOUS
  <1>4. worker \in [Worker -> WorkerType]
    BY <1>2 DEF Init
  <1>5. \A w \in Worker : worker[w].at = "idle"
    BY <1>2 DEF Init
  <1>6. /\ caller \in [Caller ->
             [at : {"idle", "sent", "waiting", "answered", "timeout", "dropped"},
              req : Request, got : Request]]
    BY <1>1 DEF Init
  <1>7. commands \in Seq(Request) /\ queue \in Seq({"free", "locked", "deleted"})
    BY <1>3 DEF Init
  <1> QED
    BY <1>4, <1>5, <1>6, <1>7 DEF Init, TypeOK, WorkerType

LEMMA CdbTypeNext == TypeOK /\ [Next]_vars => TypeOK'
  <1> SUFFICES ASSUME TypeOK, [Next]_vars PROVE TypeOK'
    OBVIOUS
  <1>0. /\ worker \in [Worker -> WorkerType] /\ RowsKept
        /\ queue \in Seq({"free", "locked", "deleted"})
        /\ commands \in Seq(Request) /\ nextID \in Nat
    BY DEF TypeOK, WorkerType, RowsKept
  <1>a. ASSUME worker' \in [Worker -> WorkerType], RowsKept',
               UNCHANGED <<used, commands, client>>,
               queue' \in Seq({"free", "locked", "deleted"}),
               data' \subseteq {"missing", "value"}, counter' \in Nat,
               oldNumbers' \subseteq Nat, epoch' \in Nat,
               answers' \subseteq Request,
               given' \subseteq [epoch : Nat, id : Nat, req : Request],
               taken' \subseteq [row : Nat, req : Request]
        PROVE  TypeOK'
    BY <1>a DEF TypeOK, WorkerType, RowsKept, client
  <1>b. \A w \in Worker : worker[w].req \in Request
    BY <1>0 DEF WorkerType
  <1>1. CASE UNCHANGED vars
    BY <1>1 DEF vars, tables, client, TypeOK
  <1>2. ASSUME NEW c \in Caller, NEW cmd \in used,
               nextID' = nextID + 1,
               caller' = [caller EXCEPT ![c] =
                    [@ EXCEPT !.at = "sent",
                              !.req = [id |-> nextID + 1, cmd |-> cmd,
                                       binary |-> TRUE]]],
               commands' = Append(commands,
                    [id |-> nextID + 1, cmd |-> cmd, binary |-> TRUE]),
               UNCHANGED <<used, tables, worker, answers>>
        PROVE  TypeOK'
    <2> DEFINE r == [id |-> nextID + 1, cmd |-> cmd, binary |-> TRUE]
    <2>1. r \in Request
      <3>1. cmd \in Command
        BY DEF TypeOK, Command
      <3> QED  BY <1>0, <3>1 DEF Request
    <2>2. /\ caller' = [caller EXCEPT ![c] = [@ EXCEPT !.at = "sent", !.req = r]]
          /\ commands' = Append(commands, r)
      BY <1>2
    <2> HIDE DEF r
    <2>3. commands' \in Seq(Request)
      BY <1>0, <2>1, <2>2
    <2>4. caller' \in [Caller ->
             [at : {"idle", "sent", "waiting", "answered", "timeout", "dropped"},
              req : Request, got : Request]]
      BY <2>1, <2>2 DEF TypeOK
    <2>5. nextID' \in Nat
      BY <1>0, <1>2
    <2> QED  BY <1>2, <2>3, <2>4, <2>5 DEF TypeOK, tables
  <1>3. ASSUME NEW c \in Caller, Register(c) \/ Timeout(c)
        PROVE  TypeOK'
    <2>1. CASE Register(c)
      BY <1>3, <2>1 DEF Register, TypeOK, tables
    <2>2. CASE Timeout(c)
      BY <1>3, <2>2 DEF Timeout, TypeOK, tables
    <2> QED  BY <1>3, <2>1, <2>2
  <1>4. CASE Deliver
    <2>1. PICK a \in answers :
            /\ answers' = answers \ {a}
            /\ caller' = [c \in Caller |->
                 IF caller[c].at # "waiting" THEN caller[c]
                 ELSE IF accepts(caller[c].req, a)
                 THEN [caller[c] EXCEPT !.at = "answered", !.got = a]
                 ELSE [caller[c] EXCEPT !.at = "dropped"]]
            /\ UNCHANGED <<used, tables, commands, worker, nextID>>
      BY <1>4 DEF Deliver
    <2>2. a \in Request
      BY DEF TypeOK
    <2>3. caller' \in [Caller ->
             [at : {"idle", "sent", "waiting", "answered", "timeout", "dropped"},
              req : Request, got : Request]]
      BY <2>1, <2>2 DEF TypeOK
    <2> QED  BY <2>1, <2>3 DEF TypeOK, tables
  <1>5. CASE SendText
    <2>1. PICK cmd \in used :
            /\ nextID' = nextID + 1
            /\ commands' = Append(commands,
                 [id |-> nextID + 1, cmd |-> cmd, binary |-> FALSE])
            /\ UNCHANGED <<used, tables, worker, caller, answers>>
      BY <1>5 DEF SendText
    <2> DEFINE r == [id |-> nextID + 1, cmd |-> cmd, binary |-> FALSE]
    <2>2. r \in Request
      <3>1. cmd \in Command
        BY DEF TypeOK, Command
      <3> QED  BY <1>0, <3>1 DEF Request
    <2>3. commands' = Append(commands, r)
      BY <2>1
    <2> HIDE DEF r
    <2>4. commands' \in Seq(Request) /\ nextID' \in Nat
      BY <1>0, <2>1, <2>2, <2>3
    <2> QED  BY <2>1, <2>4 DEF TypeOK, tables
  <1>6. ASSUME NEW w \in Worker, Take(w)
        PROVE  TypeOK'
    <2>1. /\ worker' = [worker EXCEPT ![w] =
                          [at |-> "begin", req |-> Head(commands), n |-> 0]]
          /\ commands # <<>> /\ commands' = Tail(commands)
          /\ UNCHANGED <<used, tables, client, answers>>
      BY <1>6 DEF Take
    <2>2. Head(commands) \in Request /\ commands' \in Seq(Request)
      BY <1>0, <2>1
    <2>3. [at |-> "begin", req |-> Head(commands), n |-> 0] \in WorkerType
      BY <2>2 DEF WorkerType, Place
    <2>4. worker' \in [Worker -> WorkerType]
      BY <1>0, <2>1, <2>3
    <2>5. RowsKept'
      BY <1>0, <2>1 DEF RowsKept, tables
    <2> QED
      BY <2>1, <2>2, <2>4, <2>5 DEF TypeOK, tables, client, WorkerType, RowsKept
  <1>7. ASSUME NEW w \in Worker, Process(w)
        PROVE  TypeOK'
    <2>1. FirstQuery(w) /\ UNCHANGED <<used, commands, client>>
      BY <1>7, ProcessStep
    <2>2. \/ worker' = [worker EXCEPT ![w] = Idle]
          \/ \E at \in Place, n \in Nat :
               worker' = [worker EXCEPT ![w].at = at, ![w].n = n]
      <3>1. \A row \in DOMAIN queue : row \in Nat
        BY <1>0
      <3>2. ASSUME NEW at \in {"create", "swap", "lock"}, NEW n \in Nat, Goto(w, at, n)
            PROVE  \E b \in Place, m \in Nat :
                     worker' = [worker EXCEPT ![w].at = b, ![w].n = m]
        BY <3>2 DEF Goto, Place
      <3> QED  BY <2>1, <3>1, <3>2 DEF FirstQuery
    <2>3. /\ worker' \in [Worker -> WorkerType]
          /\ \A v \in Worker \ {w} : worker'[v] = worker[v]
      BY <1>0, <2>2, WorkerStep
    <2>4. /\ queue' \in Seq({"free", "locked", "deleted"})
          /\ DOMAIN queue \subseteq DOMAIN queue'
      BY <2>1, QueueGrows DEF FirstQuery
    <2>5. worker'[w].at \in {"lock", "remove"} => worker'[w].n \in DOMAIN queue
      <3>1. CASE worker' = [worker EXCEPT ![w] = Idle]
        BY <1>0, <3>1 DEF Idle
      <3>2. ASSUME NEW at \in {"create", "swap"}, NEW n \in Nat, Goto(w, at, n)
            PROVE  worker'[w].at \notin {"lock", "remove"}
        BY <1>0, <3>2 DEF Goto, WorkerType
      <3>3. ASSUME NEW row \in DOMAIN queue, Goto(w, "lock", row)
            PROVE  worker'[w].n \in DOMAIN queue
        BY <1>0, <3>3 DEF Goto, WorkerType
      <3> QED  BY <2>1, <3>1, <3>2, <3>3 DEF FirstQuery
    <2>6. RowsKept'
      BY <1>0, <2>3, <2>4, <2>5 DEF RowsKept
    <2>7. /\ data' \subseteq {"missing", "value"} /\ counter' \in Nat
          /\ oldNumbers' \subseteq Nat /\ epoch' \in Nat
      <3>1. data' \subseteq {"missing", "value"}
        BY <2>1 DEF FirstQuery, TypeOK
      <3>2. counter \in Nat /\ oldNumbers \subseteq Nat /\ epoch \in Nat
        BY DEF TypeOK
      <3>3. CASE UNCHANGED <<counter, oldNumbers, epoch>>
        BY <3>1, <3>2, <3>3
      <3>4. ASSUME NEW n \in {0, 1}, Number(n), epoch' = epoch + 1
            PROVE  counter' \in Nat /\ oldNumbers' \subseteq Nat /\ epoch' \in Nat
        BY <3>2, <3>4 DEF Number
      <3> QED  BY <2>1, <3>1, <3>3, <3>4 DEF FirstQuery
    <2>8. /\ answers' \subseteq Request
          /\ given' \subseteq [epoch : Nat, id : Nat, req : Request]
          /\ taken' \subseteq [row : Nat, req : Request]
      BY <1>b, <2>1 DEF FirstQuery, TypeOK
    <2> QED
      BY <1>a, <2>1, <2>3, <2>4, <2>6, <2>7, <2>8
  <1>8. ASSUME NEW w \in Worker,
               \/ Fail(w) \/ Create(w) \/ Swap(w)
        PROVE  TypeOK'
    <2>1. UNCHANGED <<used, commands, client, data, queue, taken>>
      BY <1>8 DEF Fail, Create, Swap, WriteID, tables
    <2>2. \/ worker' = [worker EXCEPT ![w] = Idle]
          \/ \E n \in Nat : worker' = [worker EXCEPT ![w].at = "swap", ![w].n = n]
      BY <1>8 DEF Fail, Create, Swap, Goto, Quit, Answer, TypeOK
    <2>3. /\ worker' \in [Worker -> WorkerType]
          /\ \A v \in Worker \ {w} : worker'[v] = worker[v]
      BY <1>0, <2>2, WorkerStep DEF Place
    <2>4. worker'[w].at \notin {"lock", "remove"}
      BY <1>0, <2>2 DEF Idle, WorkerType
    <2>5. RowsKept'
      BY <1>0, <2>1, <2>3, <2>4 DEF RowsKept
    <2>6. counter' \in Nat /\ oldNumbers' \subseteq Nat /\ epoch' \in Nat
      <3>1. worker[w].n + 1 \in Nat
        BY <1>0 DEF WorkerType
      <3>2. counter \in Nat /\ oldNumbers \subseteq Nat /\ epoch \in Nat
        BY DEF TypeOK
      <3>3. \/ UNCHANGED <<counter, oldNumbers>>
            \/ Number(1)
            \/ Number(worker[w].n + 1)
        BY <1>8 DEF Fail, Create, Swap, WriteID, tables
      <3>4. counter' \in Nat /\ oldNumbers' \subseteq Nat
        <4>1. \A n \in Nat : Number(n) => counter' \in Nat /\ oldNumbers' \subseteq Nat
          BY <3>2 DEF Number
        <4> QED  BY <3>1, <3>2, <3>3, <4>1
      <3>5. epoch' \in {epoch, epoch + 1}
        BY <1>8 DEF Fail, Create, Swap, WriteID, tables
      <3> QED  BY <3>2, <3>4, <3>5
    <2>7. answers' \subseteq Request
      BY <1>8, <1>b DEF Fail, Create, Swap, Goto, Quit, Answer, TypeOK
    <2>8. given' \subseteq [epoch : Nat, id : Nat, req : Request]
      <3>1. [epoch |-> epoch, id |-> worker[w].n, req |-> worker[w].req]
              \in [epoch : Nat, id : Nat, req : Request]
        BY <1>0, <1>b DEF TypeOK, WorkerType
      <3> QED  BY <1>8, <3>1 DEF Fail, Create, Swap, WriteID, TypeOK, tables
    <2> QED
      BY <1>a, <1>0, <2>1, <2>3, <2>5, <2>6, <2>7, <2>8 DEF TypeOK
  <1>9. ASSUME NEW w \in Worker, Lock(w) \/ RemoveRow(w)
        PROVE  TypeOK'
    <2>1. UNCHANGED <<used, commands, client, data, counter, oldNumbers, epoch, given>>
      BY <1>9 DEF Lock, RemoveRow
    <2>2. worker[w].n \in DOMAIN queue /\ worker[w].n \in Nat
      BY <1>0, <1>9 DEF Lock, RemoveRow, RowsKept, WorkerType
    <2>3. \/ worker' = [worker EXCEPT ![w] = Idle]
          \/ worker' = [worker EXCEPT ![w].at = "remove", ![w].n = worker[w].n]
          \/ worker' = [worker EXCEPT ![w].at = "begin", ![w].n = 0]
      BY <1>9 DEF Lock, RemoveRow, Goto, Quit, Answer
    <2>4. /\ worker' \in [Worker -> WorkerType]
          /\ \A v \in Worker \ {w} : worker'[v] = worker[v]
      BY <1>0, <2>2, <2>3, WorkerStep DEF Place
    <2>5. /\ queue' \in Seq({"free", "locked", "deleted"})
          /\ DOMAIN queue' = DOMAIN queue
      BY <1>0, <1>9, <2>2 DEF Lock, RemoveRow
    <2>6. worker'[w].at \in {"lock", "remove"} => worker'[w].n = worker[w].n
      BY <1>0, <2>3 DEF Idle, WorkerType
    <2>7. RowsKept'
      BY <1>0, <2>2, <2>4, <2>5, <2>6 DEF RowsKept
    <2>8. answers' \subseteq Request
      BY <1>9, <1>b DEF Lock, RemoveRow, Goto, Quit, Answer, TypeOK
    <2>9. taken' \subseteq [row : Nat, req : Request]
      <3>1. [row |-> worker[w].n, req |-> worker[w].req] \in [row : Nat, req : Request]
        BY <1>b, <2>2
      <3> QED  BY <1>9, <3>1 DEF Lock, RemoveRow, TypeOK
    <2> QED
      BY <1>a, <2>1, <2>4, <2>5, <2>7, <2>8, <2>9 DEF TypeOK
  <1>10. CASE Crash
    <2>1. /\ worker' = [w \in Worker |-> Idle] /\ commands' = <<>>
          /\ UNCHANGED <<used, tables, client, answers>>
      BY <1>10 DEF Crash
    <2>2. Idle \in WorkerType /\ Idle.at = "idle"
      BY DEF Idle, WorkerType, Place, NoRequest, Request, Command, ValueCommand
    <2>3. worker' \in [Worker -> WorkerType] /\ \A w \in Worker : worker'[w].at = "idle"
      BY <2>1, <2>2
    <2>4. commands' \in Seq(Request)
      BY <2>1
    <2> QED  BY <2>1, <2>3, <2>4 DEF TypeOK, tables, client, WorkerType
  <1>11. ASSUME NEW c \in Caller, Send(c)
         PROVE  TypeOK'
    BY <1>2, <1>11 DEF Send
  <1> QED
    BY <1>1, <1>3, <1>4, <1>5, <1>6, <1>7, <1>8, <1>9, <1>10, <1>11 DEF Next

\* Every variable of the key-value service and of its client has its type, and a
\* worker's row is one of the queue, for any number of callers and workers.
THEOREM CdbTypeCorrect == Spec => []TypeOK
  BY CdbTypeInit, CdbTypeNext, PTL DEF Spec

-----------------------------------------------------------------------------
(* Values of the queue and ids *)

\* A row is in the hands of one worker, which has locked it; what was returned
\* is deleted.
RowsOwned ==
    /\ \A w \in Worker : worker[w].at = "remove" => queue[worker[w].n] = "locked"
    /\ \A v, w \in Worker :
         worker[v].at = "remove" /\ worker[w].at = "remove"
         /\ worker[v].n = worker[w].n => v = w
    /\ \A x \in taken : x.row \in DOMAIN queue /\ queue[x.row] = "deleted"

\* The counter is larger than the ids it gave since it was set.
IdsBelow ==
    \A x \in given : x.epoch <= epoch /\ (x.epoch = epoch => x.id < counter)

\* A step of a worker that locks and removes nothing.
LEMMA RowsStay ==
    ASSUME TypeOK, RowsOwned, TakenOnce, taken' = taken,
           queue' \in {queue, Append(queue, "free")},
           \A w \in Worker : worker'[w] = worker[w] \/ worker'[w].at # "remove"
    PROVE  RowsOwned' /\ TakenOnce'
  <1>1. /\ DOMAIN queue \subseteq DOMAIN queue'
        /\ \A row \in DOMAIN queue : queue'[row] = queue[row]
    BY QueueGrows
  <1>2. ASSUME NEW w \in Worker, worker'[w].at = "remove"
        PROVE  worker[w] = worker'[w] /\ queue'[worker'[w].n] = "locked"
    <2>1. worker'[w] = worker[w]
      BY <1>2
    <2>2. worker[w].n \in DOMAIN queue
      BY <1>2, <2>1 DEF TypeOK
    <2> QED  BY <1>1, <1>2, <2>1, <2>2 DEF RowsOwned
  <1>3. \A v, w \in Worker :
          worker'[v].at = "remove" /\ worker'[w].at = "remove"
          /\ worker'[v].n = worker'[w].n => v = w
    BY <1>2 DEF RowsOwned
  <1>4. \A x \in taken' : x.row \in DOMAIN queue' /\ queue'[x.row] = "deleted"
    BY <1>1 DEF RowsOwned
  <1> QED  BY <1>2, <1>3, <1>4 DEF RowsOwned, TakenOnce

LEMMA RowsNext ==
    ASSUME TypeOK, RowsOwned, TakenOnce, [Next]_vars
    PROVE  RowsOwned' /\ TakenOnce'
  <1>0. worker \in [Worker -> WorkerType] /\ queue \in Seq({"free", "locked", "deleted"})
    BY DEF TypeOK, WorkerType
  <1>1. ASSUME UNCHANGED <<queue, taken, worker>>
        PROVE  RowsOwned' /\ TakenOnce'
    BY <1>1, RowsStay
  <1>2. CASE UNCHANGED vars
    BY <1>1, <1>2 DEF vars, tables
  <1>3. ASSUME NEW c \in Caller, Send(c) \/ Register(c) \/ Timeout(c)
        PROVE  RowsOwned' /\ TakenOnce'
    BY <1>1, <1>3 DEF Send, Register, Timeout, tables
  <1>4. CASE Deliver \/ SendText
    BY <1>1, <1>4 DEF Deliver, SendText, tables
  <1>5. ASSUME NEW w \in Worker, Take(w) \/ Fail(w)
        PROVE  RowsOwned' /\ TakenOnce'
    <2>1. UNCHANGED <<queue, taken>>
      BY <1>5 DEF Take, Fail, tables
    <2>2. \A v \in Worker : worker'[v] = worker[v] \/ worker'[v].at # "remove"
      BY <1>0, <1>5 DEF Take, Fail, Quit, Idle
    <2> QED  BY <2>1, <2>2, RowsStay
  <1>6. ASSUME NEW w \in Worker, Process(w)
        PROVE  RowsOwned' /\ TakenOnce'
    <2>1. FirstQuery(w)
      BY <1>6, ProcessStep
    <2>2. ASSUME NEW v \in Worker
          PROVE  worker'[v] = worker[v] \/ worker'[v].at # "remove"
      <3>1. CASE worker' = [worker EXCEPT ![w] = Idle]
        BY <1>0, <3>1 DEF Idle
      <3>2. ASSUME NEW at \in {"create", "swap", "lock"}, NEW n, Goto(w, at, n)
            PROVE  worker'[v] = worker[v] \/ worker'[v].at # "remove"
        BY <1>0, <3>2 DEF Goto, WorkerType
      <3> QED  BY <2>1, <3>1, <3>2 DEF FirstQuery
    <2> QED  BY <2>1, <2>2, RowsStay DEF FirstQuery
  <1>7. ASSUME NEW w \in Worker, Create(w) \/ Swap(w)
        PROVE  RowsOwned' /\ TakenOnce'
    <2>1. UNCHANGED <<queue, taken>>
      BY <1>7 DEF Create, Swap, WriteID
    <2>2. \/ worker' = [worker EXCEPT ![w] = Idle]
          \/ \E n : worker' = [worker EXCEPT ![w].at = "swap", ![w].n = n]
      BY <1>7 DEF Create, Swap, Goto, Quit, Answer
    <2>3. \A v \in Worker : worker'[v] = worker[v] \/ worker'[v].at # "remove"
      BY <1>0, <2>2 DEF Idle, WorkerType
    <2> QED  BY <2>1, <2>3, RowsStay
  <1>8. ASSUME NEW w \in Worker, Lock(w)
        PROVE  RowsOwned' /\ TakenOnce'
    <2>1. taken' = taken /\ worker[w].at = "lock" /\ worker[w].n \in DOMAIN queue
      BY <1>8 DEF Lock, TypeOK
    <2>2. CASE queue' = queue
      <3>1. \/ worker' = [worker EXCEPT ![w] = Idle]
            \/ worker' = [worker EXCEPT ![w].at = "begin", ![w].n = 0]
        <4>1. queue[worker[w].n] # "free"
          BY <1>0, <1>8, <2>1, <2>2 DEF Lock
        <4> QED  BY <1>8, <4>1 DEF Lock, Goto
      <3>2. \A v \in Worker : worker'[v] = worker[v] \/ worker'[v].at # "remove"
        BY <1>0, <3>1 DEF Idle, WorkerType
      <3> QED  BY <2>1, <2>2, <3>2, RowsStay
    <2>3. CASE /\ queue[worker[w].n] = "free"
               /\ queue' = [queue EXCEPT ![worker[w].n] = "locked"]
      <3>1. \/ worker' = [worker EXCEPT ![w] = Idle]
            \/ worker' = [worker EXCEPT ![w].at = "remove", ![w].n = worker[w].n]
        BY <1>8, <2>3 DEF Lock, Goto, Quit
      <3>2. /\ \A v \in Worker \ {w} : worker'[v] = worker[v]
            /\ worker'[w].at = "remove" => worker'[w].n = worker[w].n
        BY <1>0, <3>1 DEF Idle, WorkerType
      <3>3. \A v \in Worker : worker[v].at = "remove" =>
              /\ queue[worker[v].n] = "locked" /\ worker[v].n # worker[w].n
              /\ worker[v].n \in DOMAIN queue
        BY <2>3 DEF RowsOwned, TypeOK
      <3>4. /\ DOMAIN queue' = DOMAIN queue /\ queue'[worker[w].n] = "locked"
            /\ \A row \in DOMAIN queue : row # worker[w].n => queue'[row] = queue[row]
        BY <1>0, <2>1, <2>3
      <3>5. \A v \in Worker : worker'[v].at = "remove" => queue'[worker'[v].n] = "locked"
        BY <3>2, <3>3, <3>4
      <3>6. \A u, v \in Worker :
              worker'[u].at = "remove" /\ worker'[v].at = "remove"
              /\ worker'[u].n = worker'[v].n => u = v
        BY <3>2, <3>3 DEF RowsOwned
      <3>7. \A x \in taken' : x.row \in DOMAIN queue' /\ queue'[x.row] = "deleted"
        BY <2>1, <2>3, <3>4 DEF RowsOwned
      <3> QED  BY <2>1, <3>5, <3>6, <3>7 DEF RowsOwned, TakenOnce
    <2> QED  BY <1>8, <2>2, <2>3 DEF Lock
  <1>9. ASSUME NEW w \in Worker, RemoveRow(w)
        PROVE  RowsOwned' /\ TakenOnce'
    <2> DEFINE row == worker[w].n
               x == [row |-> row, req |-> worker[w].req]
    <2>1. /\ worker[w].at = "remove" /\ row \in DOMAIN queue /\ queue[row] = "locked"
          /\ queue' = [queue EXCEPT ![row] = "deleted"]
          /\ worker' = [worker EXCEPT ![w] = Idle]
          /\ taken' \in {taken, taken \cup {x}}
      BY <1>9 DEF RemoveRow, Answer, Quit, TypeOK, RowsOwned
    <2>2. /\ DOMAIN queue' = DOMAIN queue /\ queue'[row] = "deleted"
          /\ \A q \in DOMAIN queue : q # row => queue'[q] = queue[q]
      BY <1>0, <2>1
    <2>3. /\ \A v \in Worker \ {w} : worker'[v] = worker[v]
          /\ worker'[w].at = "idle"
      BY <1>0, <2>1 DEF Idle
    <2>4. \A v \in Worker \ {w} : worker[v].at = "remove" =>
            /\ worker[v].n \in DOMAIN queue /\ worker[v].n # row
            /\ queue[worker[v].n] = "locked"
      BY <2>1 DEF RowsOwned, TypeOK
    <2>5. \A y \in taken : y.row # row /\ y.row \in DOMAIN queue
                            /\ queue[y.row] = "deleted"
      BY <2>1 DEF RowsOwned
    <2>6. x.row = row
      OBVIOUS
    <2> HIDE DEF x, row
    <2>7. \A v \in Worker : worker'[v].at = "remove" => queue'[worker'[v].n] = "locked"
      BY <2>2, <2>3, <2>4
    <2>8. \A u, v \in Worker :
            worker'[u].at = "remove" /\ worker'[v].at = "remove"
            /\ worker'[u].n = worker'[v].n => u = v
      BY <2>3 DEF RowsOwned
    <2>9. \A y \in taken' : y.row \in DOMAIN queue' /\ queue'[y.row] = "deleted"
      BY <2>1, <2>2, <2>5, <2>6
    <2>10. TakenOnce'
      BY <2>1, <2>5, <2>6 DEF TakenOnce
    <2> QED  BY <2>7, <2>8, <2>9, <2>10 DEF RowsOwned
  <1>10. CASE Crash
    <2>1. UNCHANGED <<queue, taken>> /\ worker' = [w \in Worker |-> Idle]
      BY <1>10 DEF Crash, tables
    <2>2. \A v \in Worker : worker'[v].at # "remove"
      BY <2>1 DEF Idle
    <2> QED  BY <2>1, <2>2, RowsStay
  <1> QED
    BY <1>2, <1>3, <1>4, <1>5, <1>6, <1>7, <1>8, <1>9, <1>10 DEF Next

\* A value of the queue is returned once, for any number of workers and requests:
\* a worker returns only a row that it has locked itself.
THEOREM TakenOnceHolds == Spec => []TakenOnce
  <1>1. Init => RowsOwned /\ TakenOnce
    BY DEF Init, RowsOwned, TakenOnce, Idle
  <1>2. TypeOK /\ RowsOwned /\ TakenOnce /\ [Next]_vars => RowsOwned' /\ TakenOnce'
    BY RowsNext
  <1> QED  BY <1>1, <1>2, CdbTypeInit, CdbTypeNext, PTL DEF Spec

LEMMA IdsNext ==
    ASSUME TypeOK, IdsBelow, IdsUnique, [Next]_vars
    PROVE  IdsBelow' /\ IdsUnique'
  <1>0. /\ counter \in Nat /\ epoch \in Nat
        /\ given \subseteq [epoch : Nat, id : Nat, req : Request]
        /\ \A w \in Worker : worker[w].n \in Nat
    BY DEF TypeOK
  <1>1. ASSUME UNCHANGED <<counter, epoch, given>>
        PROVE  IdsBelow' /\ IdsUnique'
    BY <1>1 DEF IdsBelow, IdsUnique
  <1>2. ASSUME epoch' = epoch + 1, given' = given
        PROVE  IdsBelow' /\ IdsUnique'
    BY <1>0, <1>2 DEF IdsBelow, IdsUnique
  <1>3. CASE UNCHANGED vars
    BY <1>1, <1>3 DEF vars, tables
  <1>4. ASSUME NEW c \in Caller, Send(c) \/ Register(c) \/ Timeout(c)
        PROVE  IdsBelow' /\ IdsUnique'
    BY <1>1, <1>4 DEF Send, Register, Timeout, tables
  <1>5. CASE Deliver \/ SendText \/ Crash
    BY <1>1, <1>5 DEF Deliver, SendText, Crash, tables
  <1>6. ASSUME NEW w \in Worker, Take(w) \/ Fail(w) \/ Lock(w) \/ RemoveRow(w)
        PROVE  IdsBelow' /\ IdsUnique'
    BY <1>1, <1>6 DEF Take, Fail, Lock, RemoveRow, tables
  <1>7. ASSUME NEW w \in Worker, Process(w)
        PROVE  IdsBelow' /\ IdsUnique'
    <2>1. FirstQuery(w)
      BY <1>7, ProcessStep
    <2> QED  BY <1>1, <1>2, <2>1 DEF FirstQuery
  <1>8. ASSUME NEW w \in Worker, Create(w)
        PROVE  IdsBelow' /\ IdsUnique'
    BY <1>2, <1>8 DEF Create, WriteID
  <1>9. ASSUME NEW w \in Worker, Swap(w)
        PROVE  IdsBelow' /\ IdsUnique'
    <2> DEFINE x == [epoch |-> epoch, id |-> worker[w].n, req |-> worker[w].req]
    <2>1. CASE UNCHANGED <<counter, given>>
      BY <1>1, <1>9, <2>1 DEF Swap
    <2>2. CASE /\ worker[w].n = counter /\ counter' = counter + 1
               /\ given' \in {given, given \cup {x}}
      <3>1. x.epoch = epoch /\ x.id = counter
        BY <2>2
      <3>2. epoch' = epoch
        BY <1>9 DEF Swap
      <3> HIDE DEF x
      <3>3. IdsBelow'
        BY <1>0, <2>2, <3>1, <3>2 DEF IdsBelow
      <3>4. \A y \in given : ~(y.epoch = x.epoch /\ y.id = x.id)
        BY <1>0, <3>1 DEF IdsBelow
      <3>5. IdsUnique'
        BY <2>2, <3>4 DEF IdsUnique
      <3> QED  BY <3>3, <3>5
    <2> QED  BY <1>9, <2>1, <2>2 DEF Swap, Number
  <1> QED
    BY <1>3, <1>4, <1>5, <1>6, <1>7, <1>8, <1>9 DEF Next

\* GetID returns a number once until the counter is set, deleted or created anew,
\* for any number of workers and however old the number is that they read.
THEOREM IdsUniqueHolds == Spec => []IdsUnique
  <1>1. Init => IdsBelow /\ IdsUnique
    BY DEF Init, IdsBelow, IdsUnique
  <1>2. TypeOK /\ IdsBelow /\ IdsUnique /\ [Next]_vars => IdsBelow' /\ IdsUnique'
    BY IdsNext
  <1> QED  BY <1>1, <1>2, CdbTypeInit, CdbTypeNext, PTL DEF Spec

-----------------------------------------------------------------------------
(* Answers *)

\* The requests that are still somewhere.
Alive ==
    {commands[i] : i \in DOMAIN commands} \cup {worker[w].req : w \in Worker}
    \cup {caller[c].req : c \in Caller} \cup answers \cup {NoRequest}

\* No two of them have one id.
RequestsOnce ==
    /\ \A x \in Alive : x.id <= nextID
    /\ \A x, y \in Alive : x.id = y.id => x = y

\* What is answered has the id of the question, and with it is its answer.
LEMMA AliveStay ==
    ASSUME RequestsOnce, Alive' \subseteq Alive, nextID' = nextID
    PROVE  RequestsOnce'
  BY DEF RequestsOnce

LEMMA AliveGrow ==
    ASSUME TypeOK, RequestsOnce, NEW r, r.id = nextID + 1,
           Alive' \subseteq Alive \cup {r}, nextID' = nextID + 1
    PROVE  RequestsOnce'
  <1>1. nextID \in Nat /\ \A x \in Alive : x.id \in Nat
    <2>1. nextID \in Nat /\ NoRequest.id \in Nat
      BY DEF TypeOK, NoRequest
    <2>2. ASSUME NEW i \in DOMAIN commands PROVE commands[i].id \in Nat
      <3>1. commands[i] \in Request
        BY DEF TypeOK
      <3> QED  BY <3>1 DEF Request
    <2>3. \A w \in Worker : worker[w].req.id \in Nat
      BY DEF TypeOK, Request
    <2>4. \A c \in Caller : caller[c].req.id \in Nat
      BY DEF TypeOK, Request
    <2>5. \A x \in answers : x.id \in Nat
      BY DEF TypeOK, Request
    <2> QED  BY <2>1, <2>2, <2>3, <2>4, <2>5 DEF Alive
  <1>2. \A x \in Alive : x.id # r.id /\ x.id <= nextID + 1
    BY <1>1 DEF RequestsOnce
  <1>3. r.id <= nextID + 1
    BY <1>1
  <1> QED  BY <1>2, <1>3 DEF RequestsOnce

\* A step in which a worker keeps or drops its request and may answer it.
LEMMA AliveServe ==
    ASSUME TypeOK, NEW w \in Worker, UNCHANGED <<commands, client>>,
           \/ worker' = [worker EXCEPT ![w] = Idle]
           \/ \E at \in Place, n \in Nat :
                worker' = [worker EXCEPT ![w].at = at, ![w].n = n],
           answers' \subseteq answers \cup {worker[w].req}
    PROVE  Alive' \subseteq Alive /\ nextID' = nextID /\ caller' = caller
  <1>1. worker \in [Worker -> WorkerType]
    BY DEF TypeOK, WorkerType
  <1>2. /\ \A v \in Worker \ {w} : worker'[v] = worker[v]
        /\ worker'[w].req \in {worker[w].req, NoRequest}
    BY <1>1, WorkerStep
  <1>3. \A v \in Worker : worker'[v].req \in Alive
    BY <1>2 DEF Alive
  <1>4. UNCHANGED <<commands, caller, nextID>>
    BY DEF client
  <1>5. answers' \subseteq Alive
    BY DEF Alive
  <1> QED  BY <1>3, <1>4, <1>5 DEF Alive

LEMMA AnswersNext ==
    ASSUME TypeOK, RequestsOnce, OwnAnswer, [Next]_vars
    PROVE  RequestsOnce' /\ OwnAnswer'
  <1>0. /\ commands \in Seq(Request) /\ nextID \in Nat
        /\ worker \in [Worker -> WorkerType]
        /\ \A w \in Worker : worker[w].n \in Nat
    BY DEF TypeOK, WorkerType
  <1>1. ASSUME Alive' \subseteq Alive, nextID' = nextID, caller' = caller
        PROVE  RequestsOnce' /\ OwnAnswer'
    BY <1>1, AliveStay DEF OwnAnswer
  <1>2. CASE UNCHANGED vars
    BY <1>1, <1>2 DEF vars, client, Alive
  <1>3. ASSUME NEW r, r \in Request, r.id = nextID + 1, nextID' = nextID + 1,
               commands' = Append(commands, r),
               UNCHANGED <<worker, answers>>,
               \A c \in Caller : caller'[c].req \in {caller[c].req, r}
        PROVE  RequestsOnce'
    <2>1. \A i \in DOMAIN commands' : commands'[i] = r \/
            \E j \in DOMAIN commands : commands'[i] = commands[j]
      BY <1>0, <1>3
    <2>2. Alive' \subseteq Alive \cup {r}
      BY <1>3, <2>1 DEF Alive
    <2> QED  BY <1>3, <2>2, AliveGrow
  <1>4. ASSUME NEW c \in Caller, Send(c)
        PROVE  RequestsOnce' /\ OwnAnswer'
    <2>1. PICK cmd \in used :
            LET r == [id |-> nextID + 1, cmd |-> cmd, binary |-> TRUE] IN
            /\ nextID' = r.id
            /\ caller' = [caller EXCEPT ![c] = [@ EXCEPT !.at = "sent", !.req = r]]
            /\ commands' = Append(commands, r)
            /\ UNCHANGED <<used, tables, worker, answers>>
      BY <1>4 DEF Send
    <2> DEFINE r == [id |-> nextID + 1, cmd |-> cmd, binary |-> TRUE]
    <2>2. r \in Request /\ r.id = nextID + 1
      <3>1. cmd \in Command
        BY DEF TypeOK, Command
      <3> QED  BY <1>0, <3>1 DEF Request
    <2>3. /\ nextID' = r.id /\ commands' = Append(commands, r)
          /\ caller' = [caller EXCEPT ![c] = [@ EXCEPT !.at = "sent", !.req = r]]
          /\ UNCHANGED <<worker, answers>>
      BY <2>1
    <2> HIDE DEF r
    <2>4. /\ \A d \in Caller \ {c} : caller'[d] = caller[d]
          /\ caller'[c].at = "sent" /\ caller'[c].req = r
      BY <2>3 DEF TypeOK
    <2>5. RequestsOnce'
      BY <1>3, <2>2, <2>3, <2>4
    <2>6. OwnAnswer'
      BY <2>4 DEF OwnAnswer
    <2> QED  BY <2>5, <2>6
  <1>5. ASSUME NEW c \in Caller, Register(c) \/ Timeout(c)
        PROVE  RequestsOnce' /\ OwnAnswer'
    <2>1. /\ UNCHANGED <<commands, worker, nextID, answers>>
          /\ \E at \in {"waiting", "timeout"} :
               caller' = [caller EXCEPT ![c].at = at]
      BY <1>5 DEF Register, Timeout
    <2>2. /\ \A d \in Caller \ {c} : caller'[d] = caller[d]
          /\ caller'[c].at # "answered" /\ caller'[c].req = caller[c].req
      BY <2>1 DEF TypeOK
    <2>3. Alive' \subseteq Alive
      BY <2>1, <2>2 DEF Alive
    <2>4. OwnAnswer'
      BY <2>2 DEF OwnAnswer
    <2> QED  BY <2>1, <2>3, <2>4, AliveStay
  <1>6. CASE Deliver
    <2>1. PICK a \in answers :
            /\ answers' = answers \ {a}
            /\ caller' = [c \in Caller |->
                 IF caller[c].at # "waiting" THEN caller[c]
                 ELSE IF accepts(caller[c].req, a)
                 THEN [caller[c] EXCEPT !.at = "answered", !.got = a]
                 ELSE [caller[c] EXCEPT !.at = "dropped"]]
            /\ UNCHANGED <<used, tables, commands, worker, nextID>>
      BY <1>6 DEF Deliver
    <2>2. ASSUME NEW c \in Caller
          PROVE  /\ caller'[c].req = caller[c].req
                 /\ caller'[c].at = "answered" => caller'[c].got = caller'[c].req
      <3>1. CASE caller[c].at # "waiting"
        BY <2>1, <3>1 DEF OwnAnswer
      <3>2. CASE caller[c].at = "waiting" /\ accepts(caller[c].req, a)
        <4>1. caller'[c] = [caller[c] EXCEPT !.at = "answered", !.got = a]
          BY <2>1, <3>2
        <4>2. caller'[c].req = caller[c].req /\ caller'[c].got = a
          BY <4>1 DEF TypeOK
        <4>3. caller[c].req = a
          BY <3>2 DEF RequestsOnce, Alive, accepts
        <4> QED  BY <4>2, <4>3
      <3>3. CASE caller[c].at = "waiting" /\ ~accepts(caller[c].req, a)
        <4>1. caller'[c] = [caller[c] EXCEPT !.at = "dropped"]
          BY <2>1, <3>3
        <4>2. caller'[c].req = caller[c].req /\ caller'[c].at = "dropped"
          BY <4>1 DEF TypeOK
        <4> QED  BY <4>2
      <3> QED  BY <3>1, <3>2, <3>3
    <2>3. /\ UNCHANGED <<commands, worker, nextID>> /\ answers' \subseteq answers
          /\ {caller'[c].req : c \in Caller} = {caller[c].req : c \in Caller}
      BY <2>1, <2>2
    <2>4. Alive' \subseteq Alive
      <3>1. Alive' = {commands[i] : i \in DOMAIN commands}
                       \cup {worker[w].req : w \in Worker}
                       \cup {caller'[c].req : c \in Caller} \cup answers'
                       \cup {NoRequest}
        BY <2>3 DEF Alive
      <3> QED  BY <2>3, <3>1 DEF Alive
    <2>5. OwnAnswer'
      BY <2>2 DEF OwnAnswer
    <2> QED  BY <2>3, <2>4, <2>5, AliveStay
  <1>7. CASE SendText
    <2>1. PICK cmd \in used :
            /\ nextID' = nextID + 1
            /\ commands' = Append(commands,
                 [id |-> nextID + 1, cmd |-> cmd, binary |-> FALSE])
            /\ UNCHANGED <<used, tables, worker, caller, answers>>
      BY <1>7 DEF SendText
    <2> DEFINE r == [id |-> nextID + 1, cmd |-> cmd, binary |-> FALSE]
    <2>2. r \in Request /\ r.id = nextID + 1
      <3>1. cmd \in Command
        BY DEF TypeOK, Command
      <3> QED  BY <1>0, <3>1 DEF Request
    <2>3. commands' = Append(commands, r)
      BY <2>1
    <2> HIDE DEF r
    <2>4. RequestsOnce'
      BY <1>3, <2>1, <2>2, <2>3
    <2> QED  BY <2>1, <2>4 DEF OwnAnswer
  <1>8. ASSUME NEW w \in Worker, Take(w)
        PROVE  RequestsOnce' /\ OwnAnswer'
    <2>1. /\ worker' = [worker EXCEPT ![w] =
                          [at |-> "begin", req |-> Head(commands), n |-> 0]]
          /\ commands # <<>> /\ commands' = Tail(commands)
          /\ UNCHANGED <<nextID, caller, answers>>
      BY <1>8 DEF Take, client
    <2>2. /\ Head(commands) = commands[1] /\ 1 \in DOMAIN commands
          /\ \A i \in DOMAIN commands' :
               i + 1 \in DOMAIN commands /\ commands'[i] = commands[i + 1]
      BY <1>0, <2>1
    <2>3. \A v \in Worker : worker'[v].req \in {worker[v].req, commands[1]}
      BY <1>0, <2>1, <2>2 DEF WorkerType
    <2>4. Alive' \subseteq Alive
      BY <2>1, <2>2, <2>3 DEF Alive
    <2> QED  BY <1>1, <2>1, <2>4
  <1>9. ASSUME NEW w \in Worker, Process(w)
        PROVE  RequestsOnce' /\ OwnAnswer'
    <2>1. UNCHANGED <<commands, client>> /\ FirstQuery(w)
      BY <1>9, ProcessStep
    <2>2. \/ worker' = [worker EXCEPT ![w] = Idle]
          \/ \E at \in Place, n \in Nat :
               worker' = [worker EXCEPT ![w].at = at, ![w].n = n]
      <3>1. \A row \in DOMAIN queue : row \in Nat
        BY DEF TypeOK
      <3> QED  BY <2>1, <3>1 DEF FirstQuery, Goto, Place
    <2>3. answers' \subseteq answers \cup {worker[w].req}
      BY <2>1 DEF FirstQuery
    <2> QED  BY <1>1, <2>1, <2>2, <2>3, AliveServe
  <1>10. ASSUME NEW w \in Worker,
                Fail(w) \/ Create(w) \/ Swap(w) \/ Lock(w) \/ RemoveRow(w)
         PROVE  RequestsOnce' /\ OwnAnswer'
    <2>1. UNCHANGED <<commands, client>>
      BY <1>10 DEF Fail, Create, Swap, Lock, RemoveRow
    <2>2. \/ Quit(w) \/ Answer(w)
          \/ Goto(w, "swap", 1) \/ Goto(w, "swap", counter)
          \/ Goto(w, "remove", worker[w].n) \/ Goto(w, "begin", 0)
      BY <1>10 DEF Fail, Create, Swap, Lock, RemoveRow
    <2>3. \/ worker' = [worker EXCEPT ![w] = Idle]
          \/ \E at \in Place, n \in Nat :
               worker' = [worker EXCEPT ![w].at = at, ![w].n = n]
      <3>1. counter \in Nat
        BY DEF TypeOK
      <3> QED  BY <1>0, <2>2, <3>1 DEF Quit, Answer, Goto, Place
    <2>4. answers' \subseteq answers \cup {worker[w].req}
      BY <2>2 DEF Quit, Answer, Goto
    <2> QED  BY <1>1, <2>1, <2>3, <2>4, AliveServe
  <1>11. CASE Crash
    <2>1. /\ worker' = [w \in Worker |-> Idle] /\ commands' = <<>>
          /\ UNCHANGED <<nextID, caller, answers>>
      BY <1>11 DEF Crash, client
    <2>2. \A w \in Worker : worker'[w].req = NoRequest
      BY <2>1 DEF Idle
    <2>3. DOMAIN commands' = {}
      BY <2>1
    <2>4. Alive' \subseteq Alive
      BY <2>1, <2>2, <2>3 DEF Alive
    <2> QED  BY <1>1, <2>1, <2>4
  <1> QED
    BY <1>2, <1>4, <1>5, <1>6, <1>7, <1>8, <1>9, <1>10, <1>11 DEF Next

\* A caller that is answered has the answer to its own last request, for any number
\* of callers, workers and requests: ids are given once and go with the answer.
THEOREM OwnAnswerHolds == Spec => []OwnAnswer
  <1>1. Init => RequestsOnce /\ OwnAnswer
    <2> SUFFICES ASSUME Init PROVE RequestsOnce /\ OwnAnswer
      OBVIOUS
    <2>1. /\ \A w \in Worker : worker[w].req = NoRequest
          /\ \A c \in Caller : caller[c].req = NoRequest /\ caller[c].at = "idle"
          /\ answers = {} /\ DOMAIN commands = {} /\ nextID = 0
      BY DEF Init, Idle
    <2>2. \A x \in Alive : x = NoRequest
      BY <2>1 DEF Alive
    <2>3. NoRequest.id = 0
      BY DEF NoRequest
    <2> QED  BY <2>1, <2>2, <2>3 DEF RequestsOnce, OwnAnswer
  <1>2. TypeOK /\ RequestsOnce /\ OwnAnswer /\ [Next]_vars
          => RequestsOnce' /\ OwnAnswer'
    BY AnswersNext
  <1> QED  BY <1>1, <1>2, CdbTypeInit, CdbTypeNext, PTL DEF Spec

-----------------------------------------------------------------------------
(* The users service *)

\* The row with id i and token k is that of user u, or on its way to u.
Has(u, i, k) ==
    \/ login[u].id # 0 /\ login[u].id = i /\ login[u].token = k
    \/ \E a \in responses : a.by = u /\ a.id = i /\ a.token = k

\* Ids that are drawn are odd and tokens even, so that an id taken from a token is
\* never one that was drawn; no two rows have the same token.
RowsOK ==
    /\ drawn % 2 = 0
    /\ \A r \in users : r.id <= drawn /\ r.token <= drawn /\ r.token % 2 = 0
    /\ \A r, s \in users : r.token = s.token => r = s

\* Tokens that are sent were drawn before.
SentTokens ==
    /\ \A u \in User : login[u].token <= drawn /\ login[u].token % 2 = 0
    /\ \A q \in requests : q.id <= drawn /\ q.id % 2 = 0
    /\ \A a \in responses : a.token <= drawn /\ a.token % 2 = 0

\* A user without trouble has one open request at most, with its token, or the
\* answer to it; it is created once.
RequestsOf(u) == {q \in requests : q.by = u}
AnswersOf(u) == {a \in responses : a.by = u}

OneOpenOf(mine, open, back) ==
    /\ mine.id = 0 <=> mine.token = 0
    /\ \A q \in open : /\ mine.req # 0 /\ q.n = mine.req /\ q.id = mine.token
                       /\ q.at = "create" => mine.id = 0
                       /\ open = {q} /\ back = {}
    /\ \A a \in back : mine.req # 0 /\ a.n = mine.req /\ back = {a}

OneOpen ==
    \A u \in User \ troubled : OneOpenOf(login[u], RequestsOf(u), AnswersOf(u))

\* Its row is in the table, has an id that was drawn, and is nobody else's.
RowsHeld ==
    \A u \in User \ troubled : \A i, k \in Nat : Has(u, i, k) =>
        /\ [id |-> i, token |-> k] \in users /\ i % 2 = 1
        /\ \A j, l \in Nat : Has(u, j, l) => j = i /\ l = k
        /\ \A v \in User \ (troubled \cup {u}) : \A l \in Nat : ~Has(v, i, l)

UserInv == /\ UserTypeOK /\ logins \in 0 .. MaxLogins
           /\ RowsOK /\ SentTokens /\ OneOpen /\ RowsHeld


\* What the types say of the elements.
LEMMA UserFields ==
    ASSUME UserTypeOK, MaxUuid \in Nat, MaxLogins \in Nat
    PROVE  /\ drawn \in Nat
           /\ \A q \in requests : /\ q.n \in 1 .. MaxLogins /\ q.by \in User
                                  /\ q.id \in 0 .. MaxUuid
                                  /\ q.at \in {"queue", "access", "create"}
           /\ \A a \in responses : /\ a.n \in 1 .. MaxLogins /\ a.by \in User
                                   /\ a.id \in 0 .. MaxUuid /\ a.token \in 0 .. MaxUuid
           /\ \A r \in users : /\ r.id \in 1 .. MaxUuid /\ r.token \in 1 .. MaxUuid
                               /\ r = [id |-> r.id, token |-> r.token]
           /\ \A u \in User : /\ login[u].id \in 0 .. MaxUuid
                              /\ login[u].token \in 0 .. MaxUuid
                              /\ login[u].req \in 0 .. MaxLogins
  <1>1. drawn \in Nat
    BY DEF UserTypeOK
  <1>2. \A q \in requests : /\ q.n \in 1 .. MaxLogins /\ q.by \in User
                            /\ q.id \in 0 .. MaxUuid
                            /\ q.at \in {"queue", "access", "create"}
    BY DEF UserTypeOK, UserRequest
  <1>3. \A a \in responses : /\ a.n \in 1 .. MaxLogins /\ a.by \in User
                             /\ a.id \in 0 .. MaxUuid /\ a.token \in 0 .. MaxUuid
    BY DEF UserTypeOK, UserResponce
  <1>4. \A r \in users : /\ r.id \in 1 .. MaxUuid /\ r.token \in 1 .. MaxUuid
                         /\ r = [id |-> r.id, token |-> r.token]
    BY DEF UserTypeOK
  <1>5. \A u \in User : /\ login[u].id \in 0 .. MaxUuid
                        /\ login[u].token \in 0 .. MaxUuid
                        /\ login[u].req \in 0 .. MaxLogins
    BY DEF UserTypeOK
  <1> QED
    BY <1>1, <1>2, <1>3, <1>4, <1>5

\* Types of what a step adds.
LEMMA UserTypeNext ==
    ASSUME MaxUuid \in Nat, MaxLogins \in Nat
    PROVE  UserTypeOK /\ logins \in 0 .. MaxLogins /\ [UserNext]_userVars
               => (UserTypeOK /\ logins \in 0 .. MaxLogins)'
  <1> SUFFICES ASSUME UserTypeOK, logins \in 0 .. MaxLogins, [UserNext]_userVars
               PROVE  (UserTypeOK /\ logins \in 0 .. MaxLogins)'
    OBVIOUS
  <1>1. ASSUME NEW u \in User, Login(u)
        PROVE  (UserTypeOK /\ logins \in 0 .. MaxLogins)'
    <2>1. logins' \in 1 .. MaxLogins
      BY <1>1 DEF Login
    <2>2. [n |-> logins', by |-> u, id |-> login[u].token, at |-> "queue"] \in UserRequest
      BY <2>1 DEF UserTypeOK, UserRequest
    <2>3. login' \in [User -> [id : 0 .. MaxUuid, token : 0 .. MaxUuid,
                               req : 0 .. MaxLogins]]
      BY <1>1, <2>1 DEF Login, UserTypeOK
    <2> QED
      BY <1>1, <2>1, <2>2, <2>3 DEF Login, UserTypeOK
  <1>2. ASSUME NEW u \in User, LoggedIn(u)
        PROVE  (UserTypeOK /\ logins \in 0 .. MaxLogins)'
    <2>1. PICK a \in responses :
             /\ responses' = responses \ {a}
             /\ login' = IF a.n = login[u].req
                         THEN [login EXCEPT ![u] = [id |-> a.id, token |-> a.token,
                                                    req |-> 0]]
                         ELSE login
      BY <1>2, Zenon DEF LoggedIn
    <2>2. [id |-> a.id, token |-> a.token, req |-> 0]
             \in [id : 0 .. MaxUuid, token : 0 .. MaxUuid, req : 0 .. MaxLogins]
      BY UserFields
    <2>3. login' \in [User -> [id : 0 .. MaxUuid, token : 0 .. MaxUuid,
                               req : 0 .. MaxLogins]]
      BY <2>1, <2>2 DEF UserTypeOK
    <2> QED
      BY <1>2, <2>1, <2>3 DEF LoggedIn, UserTypeOK
  <1>3. ASSUME NEW q \in requests, CheckUser(q)
        PROVE  (UserTypeOK /\ logins \in 0 .. MaxLogins)'
    <2>1. [q EXCEPT !.at = "access"] \in UserRequest
      BY DEF UserTypeOK, UserRequest
    <2> QED
      BY <1>3, <2>1 DEF CheckUser, UserTypeOK
  <1>4. ASSUME NEW q \in requests, ComCheckAccess(q)
        PROVE  (UserTypeOK /\ logins \in 0 .. MaxLogins)'
    <2>1. [q EXCEPT !.at = "create"] \in UserRequest
      BY DEF UserTypeOK, UserRequest
    <2>2. \A r \in getAccess(q) :
             [n |-> q.n, by |-> q.by, id |-> r.id, token |-> r.token] \in UserResponce
      BY UserFields DEF getAccess, UserResponce
    <2>3. requests' \subseteq UserRequest
      BY <1>4, <2>1 DEF ComCheckAccess, UserTypeOK
    <2>4. responses' \subseteq UserResponce
      BY <1>4, <2>2 DEF ComCheckAccess, UserTypeOK
    <2>5. troubled' \subseteq User
      BY <1>4, UserFields DEF ComCheckAccess, UserTypeOK
    <2> QED
      BY <1>4, <2>3, <2>4, <2>5 DEF ComCheckAccess, UserTypeOK
  <1>5. ASSUME NEW q \in requests, ComCreateUser(q)
        PROVE  (UserTypeOK /\ logins \in 0 .. MaxLogins)'
    <2> DEFINE id == IF q.id = 0 THEN drawn + 1 ELSE q.id
    <2>1. id \in 1 .. MaxUuid /\ drawn + 2 \in 1 .. MaxUuid
      BY <1>5, UserFields DEF ComCreateUser
    <2>2. /\ users' = {r \in users : r.id # id} \cup {[id |-> id, token |-> drawn + 2]}
          /\ responses' = responses \cup {[n |-> q.n, by |-> q.by, id |-> id,
                                           token |-> drawn + 2]}
      BY <1>5 DEF ComCreateUser
    <2> HIDE DEF id
    <2>3. [n |-> q.n, by |-> q.by, id |-> id, token |-> drawn + 2] \in UserResponce
      BY <2>1, UserFields DEF UserResponce
    <2>4. users' \subseteq [id : 1 .. MaxUuid, token : 1 .. MaxUuid]
      BY <2>1, <2>2 DEF UserTypeOK
    <2> QED
      BY <1>5, <2>1, <2>2, <2>3, <2>4 DEF ComCreateUser, UserTypeOK
  <1>6. ASSUME NEW q \in requests, LoseRequest(q)
        PROVE  (UserTypeOK /\ logins \in 0 .. MaxLogins)'
    BY <1>6 DEF LoseRequest, UserTypeOK
  <1>7. CASE UNCHANGED userVars
    BY <1>7 DEF userVars, UserTypeOK
  <1> QED
    BY <1>1, <1>2, <1>3, <1>4, <1>5, <1>6, <1>7 DEF UserNext

\* A step in which no user gets another row, and rows with ids that were drawn stay.
LEMMA RowsHeldStay ==
    ASSUME RowsHeld, troubled \subseteq troubled',
           \A r \in users : r.id % 2 = 1 => r \in users',
           \A u \in User \ troubled' : \A i, k \in Nat : Has(u, i, k)' => Has(u, i, k)
    PROVE  RowsHeld'
  <1> SUFFICES ASSUME NEW u \in User \ troubled', NEW i \in Nat, NEW k \in Nat,
                      Has(u, i, k)'
               PROVE  /\ [id |-> i, token |-> k] \in users' /\ i % 2 = 1
                      /\ \A j, l \in Nat : Has(u, j, l)' => j = i /\ l = k
                      /\ \A v \in User \ (troubled' \cup {u}) :
                            \A l \in Nat : ~Has(v, i, l)'
    BY Zenon DEF RowsHeld
  <1>1. u \in User \ troubled /\ Has(u, i, k)
    OBVIOUS
  <1>2. /\ [id |-> i, token |-> k] \in users /\ i % 2 = 1
        /\ \A j, l \in Nat : Has(u, j, l) => j = i /\ l = k
        /\ \A v \in User \ (troubled \cup {u}) : \A l \in Nat : ~Has(v, i, l)
    BY <1>1, Zenon DEF RowsHeld
  <1>3. [id |-> i, token |-> k].id = i
    OBVIOUS
  <1> QED
    BY <1>2, <1>3, Zenon

\* A retry is trouble; without one there was nothing open.
LEMMA LoginKeeps ==
    ASSUME MaxUuid \in Nat, MaxLogins \in Nat, UserInv, NEW u \in User, Login(u)
    PROVE  RowsOK' /\ SentTokens' /\ OneOpen' /\ RowsHeld'
  <1> DEFINE q == [n |-> logins', by |-> u, id |-> login[u].token, at |-> "queue"]
  <1>1. /\ login \in [User -> [id : 0 .. MaxUuid, token : 0 .. MaxUuid,
                               req : 0 .. MaxLogins]]
        /\ login' = [login EXCEPT ![u].req = logins']
        /\ logins' # 0
        /\ requests' = requests \cup {q}
        /\ users' = users /\ drawn' = drawn /\ responses' = responses
        /\ troubled' = IF login[u].req = 0 THEN troubled ELSE troubled \cup {u}
    BY DEF UserInv, UserTypeOK, Login
  <1>2. \A v \in User : /\ login'[v].id = login[v].id
                        /\ login'[v].token = login[v].token
                        /\ login'[v].req = IF v = u THEN logins' ELSE login[v].req
    BY <1>1
  <1>3. /\ q.by = u /\ q.n = logins' /\ q.id = login[u].token /\ q.at = "queue"
    OBVIOUS
  <1> HIDE DEF q
  <1>4. RowsOK'
    BY <1>1 DEF UserInv, RowsOK
  <1>5. SentTokens'
    <2>1. /\ \A v \in User : login[v].token <= drawn /\ login[v].token % 2 = 0
          /\ \A p \in requests : p.id <= drawn /\ p.id % 2 = 0
          /\ \A a \in responses : a.token <= drawn /\ a.token % 2 = 0
      BY Zenon DEF UserInv, SentTokens
    <2>2. \A p \in requests' : p \in requests \/ p.id = login[u].token
      BY <1>1, <1>3
    <2> QED
      BY <1>1, <1>2, <2>1, <2>2, Zenon DEF SentTokens
  <1>6. OneOpen'
    <2> SUFFICES ASSUME NEW v \in User \ troubled'
                 PROVE  OneOpenOf(login'[v], RequestsOf(v)', AnswersOf(v)')
      BY Zenon DEF OneOpen
    <2>1. v \in User \ troubled /\ AnswersOf(v)' = AnswersOf(v)
      BY <1>1 DEF AnswersOf
    <2>2. OneOpenOf(login[v], RequestsOf(v), AnswersOf(v))
      BY <2>1, Zenon DEF UserInv, OneOpen
    <2>3. CASE v # u
      <3>1. RequestsOf(v)' = RequestsOf(v)
        BY <1>1, <1>3, <2>3 DEF RequestsOf
      <3>2. login'[v] = login[v]
        BY <1>1, <2>3
      <3> QED
        BY <2>1, <2>2, <3>1, <3>2
    <2>4. CASE v = u
      <3>1. login[u].req = 0
        BY <1>1, <2>4
      <3>2. RequestsOf(u) = {} /\ AnswersOf(u) = {}
            /\ (login[u].id = 0 <=> login[u].token = 0)
        BY <2>2, <2>4, <3>1 DEF OneOpenOf
      <3>3. RequestsOf(u)' = {q}
        BY <1>1, <1>3, <3>2 DEF RequestsOf
      <3> QED
        BY <1>1, <1>2, <1>3, <2>1, <2>4, <3>2, <3>3 DEF OneOpenOf
    <2> QED
      BY <2>3, <2>4
  <1>7. RowsHeld'
    <2>1. \A v \in User : \A i, k \in Nat : Has(v, i, k)' => Has(v, i, k)
      BY <1>1, <1>2 DEF Has
    <2>2. troubled \subseteq troubled' /\ \A r \in users : r \in users'
      BY <1>1
    <2> QED
      BY <2>1, <2>2, RowsHeldStay, Zenon DEF UserInv
  <1> QED
    BY <1>4, <1>5, <1>6, <1>7

\* Only the answer to the open request is there for a user without trouble.
LEMMA LoggedInKeeps ==
    ASSUME MaxUuid \in Nat, MaxLogins \in Nat, UserInv, NEW u \in User, LoggedIn(u)
    PROVE  RowsOK' /\ SentTokens' /\ OneOpen' /\ RowsHeld'
  <1>1. PICK a \in responses :
           /\ a.by = u
           /\ responses' = responses \ {a}
           /\ login' = IF a.n = login[u].req
                       THEN [login EXCEPT ![u] = [id |-> a.id, token |-> a.token,
                                                  req |-> 0]]
                       ELSE login
    BY Zenon DEF LoggedIn
  <1>2. /\ requests' = requests /\ users' = users /\ drawn' = drawn
        /\ troubled' = troubled
    BY DEF LoggedIn
  <1>3. login \in [User -> [id : 0 .. MaxUuid, token : 0 .. MaxUuid,
                            req : 0 .. MaxLogins]]
    BY DEF UserInv, UserTypeOK
  <1>4. /\ \A v \in User : v # u => login'[v] = login[v]
        /\ a.n # login[u].req => login'[u] = login[u]
        /\ a.n = login[u].req => /\ login'[u].id = a.id
                                 /\ login'[u].token = a.token
                                 /\ login'[u].req = 0
    BY <1>1, <1>3
  <1>5. /\ a.id \in Nat /\ a.token \in Nat
        /\ \A v \in User : login[v].id \in Nat /\ login[v].token \in Nat
    BY UserFields DEF UserInv
  <1>6. RowsOK'
    BY <1>2 DEF UserInv, RowsOK
  <1>7. SentTokens'
    <2>1. \A b \in responses' : b \in responses
      BY <1>1
    <2>2. \A v \in User : login'[v].token = login[v].token \/ login'[v].token = a.token
      BY <1>4
    <2> QED
      BY <1>2, <2>1, <2>2, Zenon DEF UserInv, SentTokens
  <1>8. Has(u, a.id, a.token)
    BY <1>1 DEF Has
  <1>9. u \notin troubled =>
           /\ a.n = login[u].req
           /\ a.id # 0 /\ a.token # 0
           /\ AnswersOf(u)' = {} /\ RequestsOf(u) = {}
    <2> SUFFICES ASSUME u \notin troubled
                 PROVE  /\ a.n = login[u].req
                        /\ a.id # 0 /\ a.token # 0
                        /\ AnswersOf(u)' = {} /\ RequestsOf(u) = {}
      OBVIOUS
    <2>1. OneOpenOf(login[u], RequestsOf(u), AnswersOf(u)) /\ a \in AnswersOf(u)
      BY <1>1, Zenon DEF UserInv, OneOpen, AnswersOf
    <2>2. a.n = login[u].req /\ AnswersOf(u) = {a} /\ RequestsOf(u) = {}
      BY <2>1 DEF OneOpenOf
    <2>3. AnswersOf(u)' = {}
      BY <1>1, <2>2 DEF AnswersOf
    <2>4. [id |-> a.id, token |-> a.token] \in users
      BY <1>5, <1>8, Zenon DEF UserInv, RowsHeld
    <2>5. \A r \in users : r.id # 0 /\ r.token # 0
      BY UserFields DEF UserInv
    <2>6. a.id # 0 /\ a.token # 0
      BY <2>4, <2>5
    <2> QED
      BY <2>2, <2>3, <2>6
  <1>10. OneOpen'
    <2> SUFFICES ASSUME NEW v \in User \ troubled
                 PROVE  OneOpenOf(login'[v], RequestsOf(v)', AnswersOf(v)')
      BY <1>2, Zenon DEF OneOpen
    <2>1. RequestsOf(v)' = RequestsOf(v)
      BY <1>2 DEF RequestsOf
    <2>2. CASE v = u
      BY <1>4, <1>9, <2>1, <2>2 DEF OneOpenOf
    <2>3. CASE v # u
      <3>1. AnswersOf(v)' = AnswersOf(v)
        BY <1>1, <2>3 DEF AnswersOf
      <3>2. login'[v] = login[v]
        BY <1>4, <2>3
      <3> QED
        BY <2>1, <3>1, <3>2, Zenon DEF UserInv, OneOpen
    <2> QED
      BY <2>2, <2>3
  <1>11. RowsHeld'
    <2>1. ASSUME NEW v \in User \ troubled, NEW i \in Nat, NEW k \in Nat, Has(v, i, k)'
          PROVE  Has(v, i, k)
      <3>1. CASE \E b \in responses' : b.by = v /\ b.id = i /\ b.token = k
        BY <1>1, <3>1, Zenon DEF Has
      <3>2. CASE login'[v].id # 0 /\ login'[v].id = i /\ login'[v].token = k
        <4>1. CASE v = u
          BY <1>1, <1>4, <1>9, <3>2, <4>1 DEF Has
        <4>2. CASE v # u
          BY <1>4, <3>2, <4>2 DEF Has
        <4> QED
          BY <4>1, <4>2
      <3> QED
        BY <2>1, <3>1, <3>2 DEF Has
    <2> QED
      BY <1>2, <2>1, RowsHeldStay, Zenon DEF UserInv
  <1> QED
    BY <1>6, <1>7, <1>10, <1>11

\* A request that moves to another place, or is dropped.
LEMMA RequestStays ==
    ASSUME UserInv, NEW q \in requests, NEW at,
           \/ requests' = requests \ {q}
           \/ requests' = (requests \ {q}) \cup {[q EXCEPT !.at = at]},
           troubled \subseteq troubled',
           at = "create" => q.by \in troubled' \/ login[q.by].id = 0,
           users' = users, drawn' = drawn, login' = login, responses' = responses
    PROVE  RowsOK' /\ SentTokens' /\ OneOpen' /\ RowsHeld'
  <1> DEFINE w == [q EXCEPT !.at = at]
  <1>1. q \in [n : 1 .. MaxLogins, by : User, id : 0 .. MaxUuid,
               at : {"queue", "access", "create"}]
    BY DEF UserInv, UserTypeOK, UserRequest
  <1>2. w.n = q.n /\ w.by = q.by /\ w.id = q.id /\ w.at = at
    BY <1>1
  <1> HIDE DEF w
  <1>3. \A p \in requests' : p = w \/ (p \in requests /\ p # q)
    BY DEF w
  <1>4. RowsOK'
    BY DEF UserInv, RowsOK
  <1>5. SentTokens'
    BY <1>2, <1>3, Zenon DEF UserInv, SentTokens
  <1>6. OneOpen'
    <2> SUFFICES ASSUME NEW v \in User \ troubled'
                 PROVE  OneOpenOf(login[v], RequestsOf(v)', AnswersOf(v)')
      BY Zenon DEF OneOpen
    <2>1. v \in User \ troubled /\ AnswersOf(v)' = AnswersOf(v)
      BY DEF AnswersOf
    <2>2. OneOpenOf(login[v], RequestsOf(v), AnswersOf(v))
      BY <2>1, Zenon DEF UserInv, OneOpen
    <2>3. CASE q.by # v
      <3>1. RequestsOf(v)' = RequestsOf(v)
        BY <1>2, <2>3 DEF RequestsOf, w
      <3> QED
        BY <2>1, <2>2, <3>1
    <2>4. CASE q.by = v
      <3>1. q \in RequestsOf(v)
        BY <2>4 DEF RequestsOf
      <3>2. RequestsOf(v) = {q} /\ AnswersOf(v) = {} /\ login[v].req # 0
            /\ q.n = login[v].req /\ q.id = login[v].token
            /\ (login[v].id = 0 <=> login[v].token = 0)
        BY <2>2, <3>1 DEF OneOpenOf
      <3>3. RequestsOf(v)' \subseteq {w}
        BY <1>3, <3>2 DEF RequestsOf
      <3>4. w.at = "create" => login[v].id = 0
        BY <1>2, <2>4
      <3> QED
        BY <1>2, <2>1, <3>2, <3>3, <3>4 DEF OneOpenOf
    <2> QED
      BY <2>3, <2>4
  <1>7. RowsHeld'
    <2>1. \A v \in User : \A i, k \in Nat : Has(v, i, k)' => Has(v, i, k)
      BY DEF Has
    <2> QED
      BY <2>1, RowsHeldStay, Zenon DEF UserInv
  <1> QED
    BY <1>4, <1>5, <1>6, <1>7

\* The token of a user without trouble is found, once, and its row is answered.
LEMMA AccessKeeps ==
    ASSUME MaxUuid \in Nat, MaxLogins \in Nat, UserInv, NEW q \in requests,
           ComCheckAccess(q)
    PROVE  RowsOK' /\ SentTokens' /\ OneOpen' /\ RowsHeld'
  <1>1. users' = users /\ drawn' = drawn /\ login' = login
    BY DEF ComCheckAccess
  <1>2. /\ q.n \in 1 .. MaxLogins /\ q.by \in User /\ q.id \in 0 .. MaxUuid
        /\ \A u \in User : login[u].id \in Nat /\ login[u].token \in Nat
        /\ \A r \in users : r.id \in Nat /\ r.token \in Nat /\ r.id # 0 /\ r.token # 0
    BY UserFields DEF UserInv
  <1>3. q.by \notin troubled =>
           /\ q.n = login[q.by].req /\ login[q.by].req # 0
           /\ q.id = login[q.by].token
           /\ login[q.by].id = 0 <=> q.id = 0
           /\ RequestsOf(q.by) = {q} /\ AnswersOf(q.by) = {}
    <2> SUFFICES ASSUME q.by \notin troubled
                 PROVE  /\ q.n = login[q.by].req /\ login[q.by].req # 0
                        /\ q.id = login[q.by].token
                        /\ login[q.by].id = 0 <=> q.id = 0
                        /\ RequestsOf(q.by) = {q} /\ AnswersOf(q.by) = {}
      OBVIOUS
    <2>1. OneOpenOf(login[q.by], RequestsOf(q.by), AnswersOf(q.by))
      BY <1>2, Zenon DEF UserInv, OneOpen
    <2>2. q \in RequestsOf(q.by)
      BY DEF RequestsOf
    <2> QED
      BY <2>1, <2>2 DEF OneOpenOf
  <1>4. CASE \E r \in getAccess(q) :
                /\ responses' = responses \cup {[n |-> q.n, by |-> q.by,
                                                 id |-> r.id, token |-> r.token]}
                /\ requests' = requests \ {q}
                /\ UNCHANGED troubled
    <2>1. PICK r \in getAccess(q) :
             /\ responses' = responses \cup {[n |-> q.n, by |-> q.by,
                                              id |-> r.id, token |-> r.token]}
             /\ requests' = requests \ {q}
             /\ UNCHANGED troubled
      BY <1>4
    <2> DEFINE a == [n |-> q.n, by |-> q.by, id |-> r.id, token |-> r.token]
    <2>2. a.n = q.n /\ a.by = q.by /\ a.id = r.id /\ a.token = r.token
      OBVIOUS
    <2>3. r \in users /\ r.token = q.id
      BY DEF getAccess
    <2>4. responses' = responses \cup {a} /\ requests' = requests \ {q} /\ troubled' = troubled
      BY <2>1
    <2> HIDE DEF a
    <2>5. RowsOK'
      BY <1>1 DEF UserInv, RowsOK
    <2>6. SentTokens'
      <3>1. a.token <= drawn /\ a.token % 2 = 0
        BY <2>2, <2>3 DEF UserInv, RowsOK
      <3>2. \A p \in requests' : p \in requests
        BY <2>4
      <3>3. \A b \in responses' : b \in responses \/ b = a
        BY <2>4
      <3> QED
        BY <1>1, <3>1, <3>2, <3>3, Zenon DEF UserInv, SentTokens
    <2>7. OneOpen'
      <3> SUFFICES ASSUME NEW v \in User \ troubled
                   PROVE  OneOpenOf(login[v], RequestsOf(v)', AnswersOf(v)')
        BY <1>1, <2>4, Zenon DEF OneOpen
      <3>1. OneOpenOf(login[v], RequestsOf(v), AnswersOf(v))
        BY Zenon DEF UserInv, OneOpen
      <3>2. CASE v # q.by
        <4>1. RequestsOf(v)' = RequestsOf(v)
          BY <2>4, <3>2 DEF RequestsOf
        <4>2. AnswersOf(v)' = AnswersOf(v)
          BY <2>2, <2>4, <3>2 DEF AnswersOf
        <4> QED
          BY <3>1, <4>1, <4>2
      <3>3. CASE v = q.by
        <4>1. RequestsOf(v)' = {}
          BY <1>3, <2>4, <3>3 DEF RequestsOf
        <4>2. AnswersOf(v)' = {a}
          BY <1>3, <2>2, <2>4, <3>3 DEF AnswersOf
        <4>3. a.n = login[v].req /\ login[v].req # 0
          BY <1>3, <2>2, <3>3
        <4>4. login[v].id = 0 <=> login[v].token = 0
          BY <3>1 DEF OneOpenOf
        <4> QED
          BY <4>1, <4>2, <4>3, <4>4 DEF OneOpenOf
      <3> QED
        BY <3>2, <3>3
    <2>8. RowsHeld'
      <3>1. q.by \notin troubled => Has(q.by, r.id, r.token)
        <4> SUFFICES ASSUME q.by \notin troubled
                     PROVE  Has(q.by, r.id, r.token)
          OBVIOUS
        <4> DEFINE u == q.by
        <4>1. login[u].id # 0 /\ r.token = login[u].token
          BY <1>2, <1>3, <2>3
        <4>2. Has(u, login[u].id, login[u].token)
          BY <4>1 DEF Has
        <4>3. [id |-> login[u].id, token |-> login[u].token] \in users
          BY <1>2, <4>2, Zenon DEF UserInv, RowsHeld
        <4>4. [id |-> login[u].id, token |-> login[u].token] = r
          BY <2>3, <4>1, <4>3 DEF UserInv, RowsOK
        <4>5. login[u].id = r.id
          BY <4>4
        <4> QED
          BY <4>1, <4>2, <4>5
      <3>2. ASSUME NEW v \in User \ troubled, NEW i \in Nat, NEW k \in Nat, Has(v, i, k)'
            PROVE  Has(v, i, k)
        <4>1. CASE login[v].id # 0 /\ login[v].id = i /\ login[v].token = k
          BY <4>1 DEF Has
        <4>2. CASE \E b \in responses' : b.by = v /\ b.id = i /\ b.token = k
          <5>1. PICK b \in responses' : b.by = v /\ b.id = i /\ b.token = k
            BY <4>2
          <5>2. CASE b \in responses
            BY <5>1, <5>2 DEF Has
          <5>3. CASE b = a
            BY <2>2, <3>1, <5>1, <5>3
          <5> QED
            BY <2>4, <5>2, <5>3
        <4> QED
          BY <1>1, <3>2, <4>1, <4>2 DEF Has
      <3> QED
        BY <1>1, <2>4, <3>2, RowsHeldStay, Zenon DEF UserInv
    <2> QED
      BY <2>5, <2>6, <2>7, <2>8
  <1>5. CASE /\ requests' = (requests \ {q}) \cup {[q EXCEPT !.at = "create"]}
             /\ troubled' = IF getAccess(q) = {} THEN troubled ELSE troubled \cup {q.by}
             /\ UNCHANGED responses
    <2>1. q.by \in troubled' \/ login[q.by].id = 0
      <3> SUFFICES ASSUME q.by \notin troubled', login[q.by].id # 0
                   PROVE  FALSE
        OBVIOUS
      <3> DEFINE u == q.by
      <3>1. u \notin troubled /\ getAccess(q) = {}
        BY <1>5
      <3>2. Has(u, login[u].id, login[u].token)
        BY DEF Has
      <3>3. [id |-> login[u].id, token |-> login[u].token] \in users
        <4>1. u \in User \ troubled /\ login[u].id \in Nat /\ login[u].token \in Nat
          BY <1>2, <3>1
        <4> HIDE DEF u
        <4> QED
          BY <3>2, <4>1, Zenon DEF UserInv, RowsHeld
      <3>4. [id |-> login[u].id, token |-> login[u].token] \in getAccess(q)
        BY <1>3, <3>1, <3>3 DEF getAccess
      <3> QED
        BY <3>1, <3>4
    <2>2. troubled \subseteq troubled' /\ responses' = responses
      BY <1>5
    <2> QED
      BY <1>1, <1>5, <2>1, <2>2, RequestStays
  <1> QED
    BY <1>4, <1>5 DEF ComCheckAccess

\* The new row has an id that nobody without trouble has, and replaces none of theirs.
LEMMA CreateKeeps ==
    ASSUME MaxUuid \in Nat, MaxLogins \in Nat, UserInv, NEW q \in requests,
           ComCreateUser(q)
    PROVE  RowsOK' /\ SentTokens' /\ OneOpen' /\ RowsHeld'
  <1> DEFINE id == IF q.id = 0 THEN drawn + 1 ELSE q.id
             row == [id |-> id, token |-> drawn + 2]
             a == [n |-> q.n, by |-> q.by, id |-> id, token |-> drawn + 2]
  <1>1. /\ drawn \in Nat
        /\ q.n \in 1 .. MaxLogins /\ q.by \in User /\ q.id \in 0 .. MaxUuid
        /\ \A u \in User : login[u].id \in Nat /\ login[u].token \in Nat
        /\ \A r \in users : r.id \in Nat /\ r.token \in Nat /\ r.id # 0 /\ r.token # 0
        /\ \A r \in users : r = [id |-> r.id, token |-> r.token]
    BY UserFields DEF UserInv
  <1>2. /\ q.at = "create"
        /\ drawn' = drawn + 2
        /\ users' = {r \in users : r.id # id} \cup {row}
        /\ responses' = responses \cup {a}
        /\ requests' = requests \ {q}
        /\ login' = login /\ troubled' = troubled
    BY DEF ComCreateUser
  <1>3. /\ row.id = id /\ row.token = drawn + 2
        /\ a.n = q.n /\ a.by = q.by /\ a.id = id /\ a.token = drawn + 2
    OBVIOUS
  <1>4. /\ id \in Nat /\ id <= drawn + 1
        /\ q.id # 0 => id % 2 = 0
        /\ q.id = 0 => id = drawn + 1 /\ id % 2 = 1
    BY <1>1 DEF UserInv, SentTokens, RowsOK
  <1>5. q.by \notin troubled =>
           /\ q.n = login[q.by].req /\ login[q.by].req # 0
           /\ q.id = 0 /\ login[q.by].id = 0
           /\ RequestsOf(q.by) = {q} /\ AnswersOf(q.by) = {}
    <2> SUFFICES ASSUME q.by \notin troubled
                 PROVE  /\ q.n = login[q.by].req /\ login[q.by].req # 0
                        /\ q.id = 0 /\ login[q.by].id = 0
                        /\ RequestsOf(q.by) = {q} /\ AnswersOf(q.by) = {}
      OBVIOUS
    <2>1. OneOpenOf(login[q.by], RequestsOf(q.by), AnswersOf(q.by))
      BY <1>1, Zenon DEF UserInv, OneOpen
    <2>2. q \in RequestsOf(q.by)
      BY DEF RequestsOf
    <2> QED
      BY <1>2, <2>1, <2>2 DEF OneOpenOf
  <1> HIDE DEF id, row, a
  <1>6. \A r \in users' : r \in users \/ r = row
    BY <1>2
  <1>7. RowsOK'
    <2>1. drawn' % 2 = 0
      BY <1>1, <1>2 DEF UserInv, RowsOK
    <2>2. \A r \in users : r.id <= drawn /\ r.token <= drawn /\ r.token % 2 = 0
      BY DEF UserInv, RowsOK
    <2>3. \A r \in users' : r.id <= drawn' /\ r.token <= drawn' /\ r.token % 2 = 0
      BY <1>1, <1>2, <1>3, <1>4, <1>6, <2>1, <2>2
    <2>4. \A r, s \in users' : r.token = s.token => r = s
      <3>1. \A r, s \in users : r.token = s.token => r = s
        BY DEF UserInv, RowsOK
      <3>2. \A r \in users : r.token # row.token
        BY <1>1, <1>3, <2>2
      <3> QED
        BY <1>6, <3>1, <3>2
    <2> QED
      BY <2>1, <2>3, <2>4 DEF RowsOK
  <1>8. SentTokens'
    <2>1. \A u \in User : login'[u].token <= drawn' /\ login'[u].token % 2 = 0
      BY <1>1, <1>2 DEF UserInv, SentTokens
    <2>2. \A p \in requests' : p.id <= drawn' /\ p.id % 2 = 0
      <3>1. \A p \in requests : p.id \in Nat
        BY UserFields DEF UserInv
      <3> QED
        BY <1>1, <1>2, <3>1 DEF UserInv, SentTokens
    <2>3. \A b \in responses' : b.token <= drawn' /\ b.token % 2 = 0
      <3>1. \A b \in responses : b.token \in Nat /\ b.token <= drawn /\ b.token % 2 = 0
        BY UserFields DEF UserInv, SentTokens
      <3>2. (drawn + 2) % 2 = 0
        BY <1>1 DEF UserInv, RowsOK
      <3> QED
        BY <1>1, <1>2, <1>3, <3>1, <3>2
    <2> QED
      BY <2>1, <2>2, <2>3 DEF SentTokens
  <1>9. OneOpen'
    <2> SUFFICES ASSUME NEW v \in User \ troubled
                 PROVE  OneOpenOf(login[v], RequestsOf(v)', AnswersOf(v)')
      BY <1>2, Zenon DEF OneOpen
    <2>1. OneOpenOf(login[v], RequestsOf(v), AnswersOf(v))
      BY Zenon DEF UserInv, OneOpen
    <2>2. CASE v # q.by
      <3>1. RequestsOf(v)' = RequestsOf(v)
        BY <1>2, <2>2 DEF RequestsOf
      <3>2. AnswersOf(v)' = AnswersOf(v)
        BY <1>2, <1>3, <2>2 DEF AnswersOf
      <3> QED
        BY <2>1, <3>1, <3>2
    <2>3. CASE v = q.by
      <3>1. RequestsOf(v)' = {}
        BY <1>2, <1>5, <2>3 DEF RequestsOf
      <3>2. AnswersOf(v)' = {a}
        BY <1>2, <1>3, <1>5, <2>3 DEF AnswersOf
      <3>3. a.n = login[v].req /\ login[v].req # 0
        BY <1>3, <1>5, <2>3
      <3>4. login[v].id = 0 <=> login[v].token = 0
        BY <2>1 DEF OneOpenOf
      <3> QED
        BY <3>1, <3>2, <3>3, <3>4 DEF OneOpenOf
    <2> QED
      BY <2>2, <2>3
  <1>10. \A v \in User \ troubled : \A i, k \in Nat : Has(v, i, k) =>
            i # id /\ [id |-> i, token |-> k] \in users'
    <2> SUFFICES ASSUME NEW v \in User \ troubled, NEW i \in Nat, NEW k \in Nat,
                        Has(v, i, k)
                 PROVE  i # id /\ [id |-> i, token |-> k] \in users'
      OBVIOUS
    <2> DEFINE r == [id |-> i, token |-> k]
    <2>1. r \in users /\ i % 2 = 1
      BY Zenon DEF UserInv, RowsHeld
    <2>2. r.id <= drawn /\ r.id = i
      BY <2>1 DEF UserInv, RowsOK
    <2>3. i # id
      BY <1>1, <1>4, <2>1, <2>2
    <2> HIDE DEF r
    <2>4. r \in users'
      BY <1>2, <2>1, <2>2, <2>3
    <2> QED
      BY <2>3, <2>4 DEF r
  <1>11. ASSUME NEW v \in User \ troubled, NEW i \in Nat, NEW k \in Nat, Has(v, i, k)'
         PROVE  \/ Has(v, i, k)
                \/ v = q.by /\ i = id /\ k = drawn + 2
    <2>1. CASE login[v].id # 0 /\ login[v].id = i /\ login[v].token = k
      BY <2>1 DEF Has
    <2>2. CASE \E b \in responses' : b.by = v /\ b.id = i /\ b.token = k
      <3>1. PICK b \in responses' : b.by = v /\ b.id = i /\ b.token = k
        BY <2>2
      <3>2. CASE b \in responses
        BY <3>1, <3>2 DEF Has
      <3>3. CASE b = a
        BY <1>3, <3>1, <3>3
      <3> QED
        BY <1>2, <3>2, <3>3
    <2> QED
      BY <1>2, <1>11, <2>1, <2>2 DEF Has
  <1>12. q.by \notin troubled => \A i, k \in Nat : ~Has(q.by, i, k)
    <2>1. q.by \notin troubled => \A b \in responses : b.by # q.by
      BY <1>5 DEF AnswersOf
    <2> QED
      BY <1>5, <2>1 DEF Has
  <1>13. RowsHeld'
    <2> SUFFICES ASSUME NEW u \in User \ troubled, NEW i \in Nat, NEW k \in Nat,
                        Has(u, i, k)'
                 PROVE  /\ [id |-> i, token |-> k] \in users' /\ i % 2 = 1
                        /\ \A j, l \in Nat : Has(u, j, l)' => j = i /\ l = k
                        /\ \A v \in User \ (troubled \cup {u}) :
                              \A l \in Nat : ~Has(v, i, l)'
      BY <1>2, Zenon DEF RowsHeld
    <2>1. CASE Has(u, i, k)
      <3>1. u # q.by /\ i # id /\ [id |-> i, token |-> k] \in users'
        BY <1>10, <1>12, <2>1
      <3>2. /\ i % 2 = 1
            /\ \A j, l \in Nat : Has(u, j, l) => j = i /\ l = k
            /\ \A v \in User \ (troubled \cup {u}) : \A l \in Nat : ~Has(v, i, l)
        BY <2>1, Zenon DEF UserInv, RowsHeld
      <3>3. \A j, l \in Nat : Has(u, j, l)' => Has(u, j, l)
        BY <1>11, <3>1
      <3>4. \A v \in User \ (troubled \cup {u}) : \A l \in Nat : ~Has(v, i, l)'
        BY <1>11, <3>1, <3>2
      <3> QED
        BY <3>1, <3>2, <3>3, <3>4, Zenon
    <2>2. CASE u = q.by /\ i = id /\ k = drawn + 2
      <3>1. [id |-> i, token |-> k] \in users'
        BY <1>2, <2>2 DEF row
      <3>2. i % 2 = 1
        BY <1>4, <1>5, <2>2
      <3>3. \A j, l \in Nat : Has(u, j, l)' => j = i /\ l = k
        BY <1>11, <1>12, <2>2
      <3>4. \A v \in User \ (troubled \cup {u}) : \A l \in Nat : ~Has(v, i, l)'
        BY <1>10, <1>11, <2>2
      <3> QED
        BY <3>1, <3>2, <3>3, <3>4
    <2> QED
      BY <1>11, <2>1, <2>2
  <1> QED
    BY <1>7, <1>8, <1>9, <1>13

LEMMA UserInvHolds ==
    ASSUME MaxUuid \in Nat, MaxLogins \in Nat
    PROVE  UserSpec => []UserInv
  <1>1. UserInit => UserInv
    <2> SUFFICES ASSUME UserInit PROVE UserInv
      OBVIOUS
    <2>1. /\ users = {} /\ drawn = 0 /\ requests = {} /\ responses = {} /\ troubled = {}
          /\ login = [u \in User |-> [id |-> 0, token |-> 0, req |-> 0]] /\ logins = 0
      BY DEF UserInit
    <2>2. \A u \in User : login[u].id = 0 /\ login[u].token = 0 /\ login[u].req = 0
      BY <2>1
    <2>3. UserTypeOK /\ logins \in 0 .. MaxLogins
      BY <2>1 DEF UserTypeOK
    <2>4. RowsOK /\ SentTokens
      BY <2>1, <2>2 DEF RowsOK, SentTokens
    <2>5. OneOpen
      BY <2>1, <2>2 DEF OneOpen, OneOpenOf, RequestsOf, AnswersOf
    <2>6. RowsHeld
      BY <2>1, <2>2 DEF RowsHeld, Has
    <2> QED
      BY <2>3, <2>4, <2>5, <2>6 DEF UserInv
  <1>2. UserInv /\ [UserNext]_userVars => UserInv'
    <2> SUFFICES ASSUME UserInv, [UserNext]_userVars PROVE UserInv'
      OBVIOUS
    <2>1. (UserTypeOK /\ logins \in 0 .. MaxLogins)'
      BY UserTypeNext DEF UserInv
    <2>2. ASSUME NEW q \in requests, CheckUser(q)
          PROVE  RowsOK' /\ SentTokens' /\ OneOpen' /\ RowsHeld'
      BY <2>2, RequestStays DEF CheckUser
    <2>3. ASSUME NEW q \in requests, LoseRequest(q)
          PROVE  RowsOK' /\ SentTokens' /\ OneOpen' /\ RowsHeld'
      BY <2>3, RequestStays DEF LoseRequest
    <2>4. ASSUME UNCHANGED userVars
          PROVE  RowsOK' /\ SentTokens' /\ OneOpen' /\ RowsHeld'
      <3>1. RowsOK' /\ SentTokens'
        BY <2>4 DEF userVars, UserInv, RowsOK, SentTokens
      <3>2. OneOpen'
        BY <2>4 DEF userVars, UserInv, OneOpen, RequestsOf, AnswersOf
      <3>3. RowsHeld'
        BY <2>4 DEF userVars, UserInv, RowsHeld, Has
      <3> QED
        BY <3>1, <3>2, <3>3
    <2>5. RowsOK' /\ SentTokens' /\ OneOpen' /\ RowsHeld'
      BY <2>2, <2>3, <2>4, LoginKeeps, LoggedInKeeps, AccessKeeps, CreateKeeps
         DEF UserNext
    <2> QED
      BY <2>1, <2>5 DEF UserInv
  <1> QED
    BY <1>1, <1>2, PTL DEF UserSpec

\* Every variable of the users service has its type, whatever is lost, answered late or
\* sent again: a row never has the id or the token 0 of one that is not known.
THEOREM UserTypeCorrect ==
    ASSUME MaxUuid \in Nat, MaxLogins \in Nat
    PROVE  UserSpec => []UserTypeOK
  <1>1. UserInv => UserTypeOK
    BY DEF UserInv
  <1> QED
    BY <1>1, UserInvHolds, PTL

\* Whoever logs in again is the same user as before and no other has its id, unless a
\* query failed in part or the request was sent again (ComCheckAccess and ComCreateUser
\* of teousers): any number of users, workers, requests and UUIDs.
THEOREM SameUserHolds ==
    ASSUME MaxUuid \in Nat, MaxLogins \in Nat
    PROVE  UserSpec => []SameUser
  <1>1. UserInv => SameUser
    <2> SUFFICES ASSUME UserInv, NEW u \in User \ troubled, login[u].id # 0
                 PROVE  /\ [id |-> login[u].id, token |-> login[u].token] \in users
                        /\ \A a \in responses : a.by = u => a.id = login[u].id
                        /\ \A v \in User \ (troubled \cup {u}) : login[v].id # login[u].id
      BY DEF SameUser
    <2>1. /\ \A v \in User : login[v].id \in Nat /\ login[v].token \in Nat
          /\ \A a \in responses : a.id \in Nat /\ a.token \in Nat
      BY UserFields DEF UserInv
    <2>2. Has(u, login[u].id, login[u].token)
      BY DEF Has
    <2>3. /\ [id |-> login[u].id, token |-> login[u].token] \in users
          /\ \A j, l \in Nat : Has(u, j, l) => j = login[u].id /\ l = login[u].token
          /\ \A v \in User \ (troubled \cup {u}) :
                \A l \in Nat : ~Has(v, login[u].id, l)
      BY <2>1, <2>2, Zenon DEF UserInv, RowsHeld
    <2>4. \A a \in responses : a.by = u => Has(u, a.id, a.token)
      BY DEF Has
    <2>5. \A v \in User : login[v].id # 0 => Has(v, login[v].id, login[v].token)
      BY DEF Has
    <2> QED
      BY <2>1, <2>3, <2>4, <2>5
  <1> QED
    BY <1>1, UserInvHolds, PTL

-----------------------------------------------------------------------------
(* The types of the registry, the configuration and the statistics, and of all  *)
(* services side by side                                                        *)

\* A caller of the registry has in hand what it has read, which may be old.
LEMMA RegistryTypeNext ==
    RegistryTypeOK /\ [RegistryNext]_registryVars => RegistryTypeOK'
  <1> SUFFICES ASSUME RegistryTypeOK, [RegistryNext]_registryVars
               PROVE  RegistryTypeOK'
    OBVIOUS
  <1>1. CASE UNCHANGED registryVars
    BY <1>1 DEF registryVars, RegistryTypeOK
  <1>2. ASSUME NEW c \in RegistryCaller,
               NEW at \in {"idle", "list", "remove all"},
               NEW rows \in SUBSET AppCommand, to(c, at, rows)
        PROVE  call' \in [RegistryCaller -> [at : {"idle", "list", "remove all"},
                                             commands : SUBSET AppCommand]]
    BY <1>2 DEF RegistryTypeOK, to
  <1>3. ASSUME NEW c \in RegistryCaller, AppSet(c) \/ ComSet(c)
        PROVE  RegistryTypeOK'
    BY <1>3 DEF RegistryTypeOK, AppSet, ComSet
  <1>4. ASSUME NEW c \in RegistryCaller,
               AppGet(c) \/ AppRemove(c) \/ ComList(c) \/ ComRemoveAll(c) \/ QueryFails(c)
        PROVE  RegistryTypeOK'
    <2>1. application' \in BOOLEAN /\ appCommands' \subseteq AppCommand
      BY <1>4 DEF RegistryTypeOK, AppGet, AppRemove, ComList, ComRemoveAll, QueryFails
    <2>2. \E at \in {"idle", "list", "remove all"} :
             \E rows \in SUBSET AppCommand : to(c, at, rows)
      BY <1>4 DEF RegistryTypeOK, AppGet, AppRemove, ComList, ComRemoveAll, QueryFails
    <2> QED  BY <1>2, <2>1, <2>2 DEF RegistryTypeOK
  <1> QED  BY <1>1, <1>3, <1>4 DEF RegistryNext

\* Every variable of the registry has its type.
THEOREM RegistryTypeCorrect == RegistrySpec => []RegistryTypeOK
  <1>1. RegistryInit => RegistryTypeOK
    <2>1. AtRest \in [at : {"idle", "list", "remove all"}, commands : SUBSET AppCommand]
      BY DEF AtRest
    <2> QED  BY <2>1 DEF RegistryInit, RegistryTypeOK
  <1> QED  BY <1>1, RegistryTypeNext, PTL DEF RegistrySpec

\* What is read from a text has a number for every field, and is written as a text
\* of some of them.
LEMMA MarshalTypes ==
    ASSUME NEW c \in [ConfField -> Nat]
    PROVE  /\ IsObject(marshal(c))
           /\ \A f \in DOMAIN marshal(c) : marshal(c)[f] = c[f]
           /\ \A t : IsObject(t) => unmarshal(t, c) \in [ConfField -> Nat]
  <1>1. CASE OmitEmpty
    <2> DEFINE S == {f \in ConfField : c[f] # 0}
    <2>1. marshal(c) = [f \in S |-> c[f]]
      BY <1>1 DEF marshal, Restrict
    <2> HIDE DEF S
    <2>2. S \subseteq ConfField
      BY DEF S
    <2> QED
      BY <2>1, <2>2 DEF IsObject, unmarshal
  <1>2. CASE ~OmitEmpty
    BY <1>2 DEF marshal, IsObject, unmarshal
  <1> QED
    BY <1>1, <1>2

\* A file that was written over has the text, or the mixture of it with a longer
\* one, which is none.
LEMMA WrittenText ==
    ASSUME NEW c \in [ConfField -> Nat], NEW w \in written(marshal(c))
    PROVE  /\ w.kind \in {"mixed", "whole"} /\ IsObject(w.text)
           /\ \A f \in DOMAIN w.text : w.text[f] = c[f]
  <1>1. CASE w = Whole(marshal(c))
    BY <1>1, MarshalTypes DEF Whole
  <1>2. CASE w = None("mixed")
    BY <1>2 DEF None, IsObject
  <1> QED
    BY <1>1, <1>2 DEF written

LEMMA ConfTypeNext ==
    ASSUME ConfTypeOK, [ConfNext]_confVars
    PROVE  ConfTypeOK'
  <1> DEFINE Places == {"none", "read", "create", "write", "both", "reread", "ready"}
             Doing == {"none", "ask", "give", "create", "write"}
  <1>1. /\ Default \in [ConfField -> Nat]
        /\ \A kind : None(kind).kind = kind /\ IsObject(None(kind).text)
        /\ \A t : Whole(t).kind = "whole" /\ Whole(t).text = t
    BY ConfAssumption DEF None, Whole, IsObject
  <1>2. ASSUME NEW h \in Holder, NEW from, NEW next \in Places, move(h, from, next)
        PROVE  place' \in [Holder -> Places]
    BY <1>2 DEF move, ConfTypeOK
  <1>3. ASSUME NEW h \in Holder, NEW g \in Reading, NEW from, NEW next \in Doing,
               Step(h, g, from, next)
        PROVE  reading' \in [Holder \X Reading -> Doing]
    BY <1>3 DEF Step, ConfTypeOK
  <1>4. CASE UNCHANGED confVars
    BY <1>4 DEF confVars, ConfTypeOK
  <1>5. ASSUME NEW h \in Holder, NEW c \in [ConfField -> Nat],
               value' = [value EXCEPT ![h] = c]
        PROVE  value' \in [Holder -> [ConfField -> Nat]]
    BY <1>5 DEF ConfTypeOK
  <1>6. ASSUME NEW h \in Holder, New(h) \/ ReadBoth(h)
        PROVE  ConfTypeOK'
    <2>1. place' \in [Holder -> Places]
      BY <1>2, <1>6 DEF New, ReadBoth
    <2>2. value' \in [Holder -> [ConfField -> Nat]]
      BY <1>1, <1>5, <1>6 DEF New, ReadBoth, setDefault, ConfTypeOK
    <2> QED  BY <1>6, <2>1, <2>2 DEF New, ReadBoth, ConfTypeOK
  <1>7. ASSUME NEW h \in Holder, Read(h) \/ Reread(h)
        PROVE  ConfTypeOK'
    <2>1. place' \in [Holder -> Places]
      BY <1>2, <1>7 DEF Read, Reread
    <2>2. unmarshal(file.text, value[h]) \in [ConfField -> Nat]
      BY MarshalTypes DEF ConfTypeOK
    <2>3. value' \in [Holder -> [ConfField -> Nat]]
      BY <1>5, <1>7, <2>2 DEF Read, Reread, ReadFile, ConfTypeOK
    <2>4. reading' \in [Holder \X Reading -> Doing]
      BY <1>7 DEF Read, Reread, ConfTypeOK
    <2> QED  BY <1>7, <2>1, <2>3, <2>4 DEF Read, Reread, ConfTypeOK
  <1>8. ASSUME NEW h \in Holder, Truncate(h) \/ Write(h) \/ Connected(h)
        PROVE  ConfTypeOK'
    <2>1. place' \in [Holder -> Places]
      BY <1>2, <1>8 DEF Truncate, Write, Connected
    <2>2. file'.kind \in {"absent", "empty", "mixed", "whole"} /\ IsObject(file'.text)
      BY <1>1, <1>8, WrittenText DEF Truncate, Write, Connected, ConfTypeOK
    <2> QED  BY <1>8, <2>1, <2>2 DEF Truncate, Write, Connected, ConfTypeOK
  <1>9. ASSUME NEW h \in Holder, NEW g \in Reading,
               ReadFails(h, g) \/ EmptyCdb(h, g) \/ CreateFile(h, g) \/ WriteFile(h, g)
        PROVE  ConfTypeOK'
    <2>1. reading' \in [Holder \X Reading -> Doing]
      BY <1>3, <1>9 DEF ReadFails, EmptyCdb, CreateFile, WriteFile
    <2>2. file'.kind \in {"absent", "empty", "mixed", "whole"} /\ IsObject(file'.text)
      BY <1>1, <1>9, WrittenText
      DEF ReadFails, EmptyCdb, CreateFile, WriteFile, ConfTypeOK
    <2> QED
      BY <1>9, <2>1, <2>2 DEF ReadFails, EmptyCdb, CreateFile, WriteFile, ConfTypeOK
  <1>10. ASSUME NEW h \in Holder, NEW g \in Reading, ReadCdb(h, g)
         PROVE  ConfTypeOK'
    <2>1. reading' \in [Holder \X Reading -> Doing]
      BY <1>3, <1>10 DEF ReadCdb
    <2>2. unmarshal(cdb.text, value[h]) \in [ConfField -> Nat]
      BY MarshalTypes DEF ConfTypeOK
    <2>3. value' \in [Holder -> [ConfField -> Nat]]
      BY <1>5, <1>10, <2>2 DEF ReadCdb
    <2> QED  BY <1>10, <2>1, <2>3 DEF ReadCdb, ConfTypeOK
  <1>11. ASSUME NEW h \in Holder, NEW g \in Reading, WriteCdb(h, g)
         PROVE  ConfTypeOK'
    <2>1. reading' \in [Holder \X Reading -> Doing]
      BY <1>3, <1>11 DEF WriteCdb
    <2>2. cdb'.kind \in {"absent", "empty", "whole"} /\ IsObject(cdb'.text)
      BY <1>1, <1>11, MarshalTypes DEF WriteCdb, ConfTypeOK
    <2> QED  BY <1>11, <2>1, <2>2 DEF WriteCdb, ConfTypeOK
  <1>12. CASE SetCdb
    <2>1. cdb'.kind \in {"absent", "empty", "whole"} /\ IsObject(cdb'.text)
          /\ wasSet' \subseteq AdminText
      BY <1>1, <1>12, ConfAssumption DEF SetCdb, ConfTypeOK
    <2> QED  BY <1>12, <2>1 DEF SetCdb, ConfTypeOK
  <1>13. CASE ConfCrash
    BY <1>13 DEF ConfCrash, ConfTypeOK
  <1> QED
    BY <1>4, <1>6, <1>7, <1>8, <1>9, <1>10, <1>11, <1>12, <1>13 DEF ConfNext

\* Every variable of a configuration has its type, for any number of holders,
\* goroutines and fields.
LEMMA ConfTypeCorrect == ConfSpec => []ConfTypeOK
  <1>1. ConfInit => ConfTypeOK
    BY ConfAssumption DEF ConfInit, ConfTypeOK, None, IsObject
  <1> QED  BY <1>1, ConfTypeNext, PTL DEF ConfSpec

\* The fields of a text or a configuration were given.
FieldsKnown(t) == \A f \in ConfField \cap DOMAIN t : t[f] \in Known(f)

LEMMA KnownFacts ==
    ASSUME ConfTypeOK, FieldsGiven
    PROVE  /\ FieldsKnown(Default) /\ FieldsKnown(file.text) /\ FieldsKnown(cdb.text)
           /\ \A h \in Holder : FieldsKnown(value[h])
           /\ \A kind : FieldsKnown(None(kind).text)
           /\ \A t, c : FieldsKnown(t) /\ FieldsKnown(c) /\ c \in [ConfField -> Nat]
                       => FieldsKnown(unmarshal(t, c))
           /\ \A c \in [ConfField -> Nat] : FieldsKnown(c) =>
                /\ FieldsKnown(Whole(marshal(c)).text)
                /\ \A w \in written(marshal(c)) : FieldsKnown(w.text)
  <1>1. FieldsKnown(Default)
    BY DEF FieldsKnown, Known
  <1>2. /\ FieldsKnown(file.text) /\ FieldsKnown(cdb.text)
        /\ \A h \in Holder : FieldsKnown(value[h])
    BY DEF FieldsKnown, FieldsGiven
  <1>3. \A kind : FieldsKnown(None(kind).text)
    BY DEF FieldsKnown, None
  <1>4. ASSUME NEW t, NEW c \in [ConfField -> Nat], FieldsKnown(t), FieldsKnown(c)
        PROVE  FieldsKnown(unmarshal(t, c))
    BY <1>4 DEF FieldsKnown, unmarshal
  <1>5. ASSUME NEW c \in [ConfField -> Nat], FieldsKnown(c)
        PROVE  /\ FieldsKnown(Whole(marshal(c)).text)
               /\ \A w \in written(marshal(c)) : FieldsKnown(w.text)
    <2>1. \A f \in ConfField : c[f] \in Known(f)
      BY <1>5 DEF FieldsKnown
    <2>2. FieldsKnown(Whole(marshal(c)).text)
      BY <2>1, MarshalTypes DEF FieldsKnown, Whole
    <2>3. \A w \in written(marshal(c)) : FieldsKnown(w.text)
      BY <2>1, WrittenText DEF FieldsKnown
    <2> QED
      BY <2>2, <2>3
  <1> QED
    BY <1>1, <1>2, <1>3, <1>4, <1>5

\* A step that sets nothing in the service as an administrator does.
LEMMA GivenStep ==
    ASSUME ConfTypeOK, wasSet' = wasSet,
           \A h \in Holder : FieldsKnown(value'[h]) /\ value'[h] \in [ConfField -> Nat],
           FieldsKnown(file'.text), IsObject(file'.text),
           FieldsKnown(cdb'.text), IsObject(cdb'.text)
    PROVE  FieldsGiven'
  <1>1. \A f : Known(f)' = Known(f)
    BY DEF Known
  <1> QED
    BY <1>1 DEF FieldsGiven, FieldsKnown, IsObject

LEMMA GivenNext ==
    ASSUME ConfTypeOK, ConfTypeOK', FieldsGiven, [ConfNext]_confVars
    PROVE  FieldsGiven'
  <1>1. /\ value \in [Holder -> [ConfField -> Nat]]
        /\ \A h \in Holder : value'[h] \in [ConfField -> Nat]
        /\ IsObject(file'.text) /\ IsObject(cdb'.text)
    BY DEF ConfTypeOK
  <1>2. CASE UNCHANGED confVars
    <2>1. /\ wasSet' = wasSet /\ value' = value /\ file' = file /\ cdb' = cdb
      BY <1>2 DEF confVars
    <2> QED
      BY <1>1, <2>1, KnownFacts, GivenStep
  <1>3. ASSUME NEW h \in Holder, NEW c, value' = [value EXCEPT ![h] = c], FieldsKnown(c),
               UNCHANGED <<file, cdb, wasSet>>
        PROVE  FieldsGiven'
    <2>1. \A k \in Holder : FieldsKnown(value'[k])
      BY <1>1, <1>3, KnownFacts
    <2> QED
      BY <1>1, <1>3, <2>1, KnownFacts, GivenStep
  <1>4. ASSUME UNCHANGED <<value, cdb, wasSet>>, FieldsKnown(file'.text)
        PROVE  FieldsGiven'
    BY <1>1, <1>4, KnownFacts, GivenStep
  <1>5. ASSUME NEW h \in Holder, New(h) \/ ReadBoth(h)
        PROVE  FieldsGiven'
    <2>1. /\ UNCHANGED <<file, cdb, wasSet>>
          /\ value' = value \/ value' = [value EXCEPT ![h] = Default]
      BY <1>5 DEF New, ReadBoth, setDefault
    <2>2. CASE value' = value
      BY <1>1, <2>1, <2>2, KnownFacts, GivenStep
    <2> QED
      BY <1>3, <2>1, <2>2, KnownFacts
  <1>6. ASSUME NEW h \in Holder, Read(h) \/ Reread(h)
        PROVE  FieldsGiven'
    <2>1. /\ UNCHANGED <<file, cdb, wasSet>>
          /\ value' = value \/ value' = [value EXCEPT ![h] = unmarshal(file.text, value[h])]
      BY <1>1, <1>6 DEF Read, Reread, ReadFile
    <2>2. CASE value' = value
      BY <1>1, <2>1, <2>2, KnownFacts, GivenStep
    <2>3. FieldsKnown(unmarshal(file.text, value[h]))
      BY <1>1, KnownFacts
    <2> QED
      BY <1>3, <2>1, <2>2, <2>3
  <1>7. ASSUME NEW h \in Holder, Truncate(h) \/ Write(h) \/ Connected(h)
        PROVE  FieldsGiven'
    <2>1. UNCHANGED <<value, cdb, wasSet>>
      BY <1>7 DEF Truncate, Write, Connected
    <2>2. FieldsKnown(file'.text)
      BY <1>1, <1>7, KnownFacts DEF Truncate, Write, Connected
    <2> QED
      BY <1>4, <2>1, <2>2
  <1>8. ASSUME NEW h \in Holder, NEW g \in Reading,
               ReadFails(h, g) \/ EmptyCdb(h, g) \/ CreateFile(h, g) \/ WriteFile(h, g)
        PROVE  FieldsGiven'
    <2>1. UNCHANGED <<value, cdb, wasSet>>
      BY <1>8 DEF ReadFails, EmptyCdb, CreateFile, WriteFile
    <2>2. FieldsKnown(file'.text)
      BY <1>1, <1>8, KnownFacts DEF ReadFails, EmptyCdb, CreateFile, WriteFile
    <2> QED
      BY <1>4, <2>1, <2>2
  <1>9. ASSUME NEW h \in Holder, NEW g \in Reading, ReadCdb(h, g)
        PROVE  FieldsGiven'
    <2>1. /\ UNCHANGED <<file, cdb, wasSet>>
          /\ value' = [value EXCEPT ![h] = unmarshal(cdb.text, value[h])]
      BY <1>1, <1>9 DEF ReadCdb
    <2>2. FieldsKnown(unmarshal(cdb.text, value[h]))
      BY <1>1, KnownFacts
    <2> QED
      BY <1>3, <2>1, <2>2
  <1>10. ASSUME NEW h \in Holder, NEW g \in Reading, WriteCdb(h, g)
         PROVE  FieldsGiven'
    <2>1. /\ UNCHANGED <<value, file, wasSet>>
          /\ cdb' = cdb \/ cdb' = Whole(marshal(value[h]))
      BY <1>10 DEF WriteCdb
    <2>2. FieldsKnown(cdb'.text)
      BY <1>1, <2>1, KnownFacts
    <2> QED
      BY <1>1, <2>1, <2>2, KnownFacts, GivenStep
  <1>11. CASE ConfCrash
    <2>1. UNCHANGED <<file, cdb, value, wasSet>>
      BY <1>11 DEF ConfCrash
    <2> QED
      BY <1>1, <2>1, KnownFacts, GivenStep
  <1>12. CASE SetCdb
    <2>1. CASE cdb' = None("empty") /\ wasSet' = wasSet
      <3>1. UNCHANGED <<file, value>>
        BY <1>12 DEF SetCdb
      <3> QED
        BY <1>1, <2>1, <3>1, KnownFacts, GivenStep
    <2>2. ASSUME NEW t \in AdminText, cdb' = Whole(t), wasSet' = wasSet \cup {t}
          PROVE  FieldsGiven'
      <3>1. \A f : Known(f) \subseteq Known(f)'
        BY <2>2 DEF Known
      <3>2. \A f \in DOMAIN t : t[f] \in Known(f)'
        BY <2>2 DEF Known
      <3>3. UNCHANGED <<file, value>> /\ cdb'.text = t
        BY <1>12, <2>2 DEF SetCdb, Whole
      <3> QED
        BY <3>1, <3>2, <3>3 DEF FieldsGiven
    <2> QED
      BY <1>12, <2>1, <2>2 DEF SetCdb
  <1> QED
    BY <1>2, <1>5, <1>6, <1>7, <1>8, <1>9, <1>10, <1>11, <1>12 DEF ConfNext

\* No field of a configuration is one that nobody gave: writers of one file at once
\* and crashes may leave a text that cannot be parsed, and texts may lack fields, but
\* what a holder has, writes to the file or gives the service is always made of the
\* default and of what was set, for any number of holders, goroutines and fields.
THEOREM FieldsGivenHolds == ConfSpec => []FieldsGiven
  <1>1. ConfInit => FieldsGiven
    BY DEF ConfInit, FieldsGiven, Known, None
  <1>2. ConfTypeOK /\ ConfTypeOK' /\ FieldsGiven /\ [ConfNext]_confVars => FieldsGiven'
    BY GivenNext
  <1> QED
    BY <1>1, <1>2, ConfTypeCorrect, PTL DEF ConfSpec

\* The columns of a client and the state that is reported; the rest is in StatInv.
LEMMA StatTypeNext ==
    StatInv /\ StatTypeOK /\ [StatNext]_statVars => StatTypeOK'
  <1> SUFFICES ASSUME StatInv, StatTypeOK, [StatNext]_statVars
               PROVE  StatTypeOK'
    OBVIOUS
  <1>1. /\ (reports \in Seq(Report))' /\ (serving \in [StatWorker -> Report \cup {<<>>}])'
        /\ (roomRow \in [state : RoomState \cup {"none"},
                         filled : SUBSET (RoomState \cup {"created"})])'
    BY StatStep DEF StatInv
  <1>2. /\ clientRow \subseteq ClientState /\ overtaken \in BOOLEAN
        /\ reported \in RoomState \cup {"none"}
    BY DEF StatTypeOK
  <1>3. ASSUME \/ UNCHANGED statVars
               \/ SendRoomCreate \/ SendRoomState \/ SendClientState \/ SendRoomByCreated
        PROVE  /\ clientRow' \subseteq ClientState /\ overtaken' \in BOOLEAN
               /\ reported' \in RoomState \cup {"none"}
    BY <1>2, <1>3 DEF statVars, SendRoomCreate, SendRoomState, SendClientState,
                      SendRoomByCreated, sendReport, RoomState
  <1>4. ASSUME NEW w \in StatWorker,
               \/ TakeReport(w) \/ ComRoomCreated(w) \/ ComRoomStateChanged(w)
               \/ ComGetRoomsByCreated(w) \/ LoseReport(w)
        PROVE  /\ clientRow' \subseteq ClientState /\ overtaken' \in BOOLEAN
               /\ reported' \in RoomState \cup {"none"}
    BY <1>2, <1>4 DEF TakeReport, ComRoomCreated, ComRoomStateChanged,
                      ComGetRoomsByCreated, LoseReport, Serve
  <1>5. ASSUME NEW w \in StatWorker, ComClientStatus(w)
        PROVE  /\ clientRow' \subseteq ClientState /\ overtaken' \in BOOLEAN
               /\ reported' \in RoomState \cup {"none"}
    <2>1. PICK state \in ClientState : setClientState(state)
      BY <1>5 DEF ComClientStatus
    <2>2. clientRow' \subseteq ClientState
      BY <1>2, <2>1 DEF setClientState, ClientState
    <2> QED  BY <1>2, <1>5, <2>2 DEF ComClientStatus, Serve
  <1> QED  BY <1>1, <1>3, <1>4, <1>5 DEF StatNext, StatTypeOK

\* Every variable of the statistics of rooms has its type.
THEOREM StatTypeCorrect == StatSpec => []StatTypeOK
  <1>1. StatInit => StatTypeOK
    <2>1. StatInit => clientRow = {} /\ reported = "none" /\ overtaken = FALSE
      BY DEF StatInit
    <2> QED  BY <2>1, StatInitOK DEF StatInv, StatTypeOK
  <1> QED  BY <1>1, StatInitOK, StatStep, StatTypeNext, PTL DEF StatSpec

-----------------------------------------------------------------------------
(* Reading a packet from its beginning *)

Cells == Seq(Nat)

\* What is behind the first part of a packet, and that part.
LEMMA AfterConcat ==
    ASSUME NEW s \in Cells, NEW t \in Cells
    PROVE  /\ After(s \o t, Len(s)) = t
           /\ ReadData(s \o t, Len(s)) = s
           /\ s \o t \in Cells /\ Len(s \o t) = Len(s) + Len(t)
  <1> DEFINE d == s \o t
  <1>1. /\ d \in Cells /\ Len(d) = Len(s) + Len(t)
        /\ Len(s) \in Nat /\ Len(t) \in Nat
        /\ \A i \in 1 .. Len(s) + Len(t) : d[i] = IF i <= Len(s) THEN s[i] ELSE t[i - Len(s)]
    BY ConcatProperties, LenProperties DEF Cells
  <1> HIDE DEF d
  <1>2. After(d, Len(s)) = t
    <2> DEFINE a == SubSeq(d, Len(s) + 1, Len(d))
    <2>1. \A i \in Len(s) + 1 .. Len(d) : d[i] \in Nat
      BY <1>1, ElementOfSeq DEF Cells
    <2>2. /\ a \in Cells /\ Len(a) = Len(t)
          /\ \A i \in 1 .. Len(t) : a[i] = d[Len(s) + 1 + i - 1]
      <3>1. /\ a \in Seq(Nat)
            /\ Len(a) = IF Len(s) + 1 <= Len(d) THEN Len(d) - (Len(s) + 1) + 1 ELSE 0
            /\ \A i \in 1 .. Len(d) - (Len(s) + 1) + 1 : a[i] = d[Len(s) + 1 + i - 1]
        <4>1. Len(s) + 1 \in Int /\ Len(d) \in Int
          BY <1>1
        <4> QED  BY <2>1, <4>1, SubSeqProperties
      <3> QED  BY <1>1, <3>1 DEF Cells
    <2> HIDE DEF a
    <2>3. ASSUME NEW i \in 1 .. Len(a) PROVE a[i] = t[i]
      <3> DEFINE k == Len(s) + 1 + i - 1
      <3>1. k \in 1 .. Len(s) + Len(t) /\ ~(k <= Len(s)) /\ k - Len(s) = i
        BY <1>1, <2>2
      <3>2. a[i] = d[k] /\ d[k] = t[k - Len(s)]
        <4> HIDE DEF k
        <4>1. d[k] = t[k - Len(s)]
          BY <1>1, <3>1
        <4> QED  BY <2>2, <4>1 DEF k
      <3> QED  BY <3>1, <3>2
    <2>4. a = t
      BY <2>2, <2>3, SeqEqual DEF Cells
    <2> QED  BY <2>4 DEF After, a
  <1>3. ReadData(d, Len(s)) = s
    <2> DEFINE a == SubSeq(d, 1, Len(s))
    <2>1. \A i \in 1 .. Len(s) : d[i] \in Nat
      BY <1>1, ElementOfSeq DEF Cells
    <2>2. /\ a \in Seq(Nat)
          /\ Len(a) = IF 1 <= Len(s) THEN Len(s) - 1 + 1 ELSE 0
          /\ \A i \in 1 .. Len(s) - 1 + 1 : a[i] = d[1 + i - 1]
      <3>1. Len(s) \in Int
        BY <1>1
      <3> QED  BY <2>1, <3>1, SubSeqProperties
    <2> HIDE DEF a
    <2>3. Len(a) = Len(s) /\ \A i \in 1 .. Len(a) : a[i] = s[i]
      BY <1>1, <2>2
    <2>4. a = s
      BY <2>2, <2>3, SeqEqual DEF Cells
    <2> QED  BY <1>1, <2>4 DEF ReadData, a
  <1> QED  BY <1>1, <1>2, <1>3 DEF d

\* The last part of a packet.
LEMMA ReadAll ==
    ASSUME NEW s \in Cells
    PROVE  ReadData(s, Len(s)) = s /\ After(s, 0) = s
  <1>1. s \o <<>> = s /\ <<>> \o s = s /\ <<>> \in Cells /\ Len(<<>>) = 0
    BY ConcatEmptySeq, EmptySeq DEF Cells
  <1> QED  BY <1>1, AfterConcat

\* A field at the beginning.
LEMMA OneField ==
    ASSUME NEW x \in Nat, NEW t \in Cells
    PROVE  /\ Field(<<x>> \o t) = x
           /\ After(<<x>> \o t, 1) = t
           /\ <<x>> \o t \in Cells /\ Len(<<x>> \o t) = 1 + Len(t)
           /\ (<<x>> \o t)[1] = x
  <1>1. <<x>> \in Cells /\ Len(<<x>>) = 1
    BY DEF Cells
  <1>2. After(<<x>> \o t, 1) = t /\ <<x>> \o t \in Cells /\ Len(<<x>> \o t) = 1 + Len(t)
    BY <1>1, AfterConcat
  <1>3. (<<x>> \o t)[1] = x /\ Len(t) \in Nat
    BY DEF Cells
  <1>4. <<x>> \o t # <<>> /\ Head(<<x>> \o t) = x
    BY <1>2, <1>3 DEF Cells
  <1> QED  BY <1>2, <1>3, <1>4 DEF Field

\* A text with its length before it.
LEMMA TextRead ==
    ASSUME NEW text \in Cells, NEW rest \in Cells, NEW w \in Nat, Len(text) < w
    PROVE  /\ ReadString(Written(text, w) \o rest) = text
           /\ AfterString(Written(text, w) \o rest) = rest
           /\ Written(text, w) \in Cells /\ Len(Written(text, w)) = 1 + Len(text)
           /\ Written(text, w) \o rest \in Cells
           /\ Len(Written(text, w) \o rest) = 1 + Len(text) + Len(rest)
           /\ Written(text, w) \o rest = <<Len(text)>> \o (text \o rest)
  <1>1. Len(text) \in Nat /\ Len(rest) \in Nat /\ Len(text) % w = Len(text)
    <2>1. \A n \in Nat : n < w => n % w = n
      OBVIOUS
    <2> QED  BY <2>1, LenProperties DEF Cells
  <1>2. Written(text, w) = <<Len(text)>> \o text
    BY <1>1 DEF Written
  <1> DEFINE t == text \o rest
             d == <<Len(text)>> \o t
  <1>3. Written(text, w) \o rest = d
    BY <1>1, <1>2, ConcatAssociative DEF Cells
  <1>4. /\ t \in Cells /\ Len(t) = Len(text) + Len(rest)
        /\ ReadData(t, Len(text)) = text /\ After(t, Len(text)) = rest
    BY AfterConcat
  <1> HIDE DEF t
  <1>5. Field(d) = Len(text) /\ After(d, 1) = t /\ d \in Cells /\ Len(d) = 1 + Len(t)
    BY <1>1, <1>4, OneField
  <1>6. Written(text, w) \in Cells /\ Len(Written(text, w)) = 1 + Len(text)
    BY <1>1, <1>2, OneField
  <1> HIDE DEF d
  <1>7. ReadString(d) = text
    BY <1>4, <1>5 DEF ReadString
  <1>8. After(d, 1 + Len(text)) = rest
    <2> DEFINE s == <<Len(text)>> \o text
    <2>1. s \in Cells /\ Len(s) = 1 + Len(text) /\ d = s \o rest
      BY <1>2, <1>3, <1>6
    <2> HIDE DEF s
    <2> QED  BY <2>1, AfterConcat
  <1> QED  BY <1>1, <1>3, <1>4, <1>5, <1>6, <1>7, <1>8 DEF AfterString, d, t

\* The texts that are sent.
LEMMA TextCells ==
    ASSUME NEW chars, chars \subseteq Nat, NEW text \in Texts(chars)
    PROVE  /\ text \in Cells /\ Len(text) \in Nat
           /\ \A i \in 1 .. Len(text) : text[i] \in chars
  <1>1. PICK n \in 0 .. MaxText : text \in [1 .. n -> chars]
    BY DEF Texts
  <1>2. n \in Nat
    BY CodecAssumption
  <1>3. text \in Seq(chars) /\ Len(text) = n
    BY <1>1, <1>2
  <1>4. text \in Seq(Nat)
    BY <1>3, SeqMonotonic
  <1> QED  BY <1>1, <1>2, <1>3, <1>4 DEF Cells

LEMMA Characters ==
    /\ Letter \in Nat /\ Comma \in Nat /\ Dash \in Nat /\ Zero \in Nat
    /\ Plain \subseteq Nat /\ Char \subseteq Nat /\ Numbers \subseteq Nat
    /\ Plain \cup {Comma} \subseteq Nat /\ Plain \cup {Dash} \subseteq Nat
    /\ Plain \cup {Zero} \subseteq Nat
    /\ Zero \notin Plain /\ Zero \notin {Comma, Dash}
    /\ W8 \in Nat /\ W16 \in Nat
  BY CodecAssumption DEF Plain, Char, Zero

-----------------------------------------------------------------------------
(* The formats of fields and of texts with their lengths *)

\* Concatenations may be read from either side.
LEMMA Associative ==
    ASSUME NEW s \in Cells, NEW t \in Cells, NEW u \in Cells
    PROVE  (s \o t) \o u = s \o (t \o u)
  BY ConcatAssociative DEF Cells

\* A cell of one part of a packet or of the other, and the cells of a text.
LEMMA CellOf ==
    ASSUME NEW s \in Cells, NEW t \in Cells
    PROVE  /\ \A i \in 1 .. Len(s) : (s \o t)[i] = s[i]
           /\ \A j \in 1 .. Len(t) : (s \o t)[Len(s) + j] = t[j]
  <1> DEFINE d == s \o t
  <1>1. Len(s) \in Nat /\ Len(t) \in Nat
    BY DEF Cells
  <1>2. \A i \in 1 .. Len(s) + Len(t) : d[i] = IF i <= Len(s) THEN s[i] ELSE t[i - Len(s)]
    BY ConcatProperties DEF Cells
  <1> HIDE DEF d
  <1>3. \A i \in 1 .. Len(s) : d[i] = s[i]
    BY <1>1, <1>2
  <1>4. \A j \in 1 .. Len(t) : d[Len(s) + j] = t[j]
    <2> TAKE j \in 1 .. Len(t)
    <2> DEFINE k == Len(s) + j
    <2>1. k \in 1 .. Len(s) + Len(t) /\ ~(k <= Len(s)) /\ k - Len(s) = j
      BY <1>1
    <2> HIDE DEF k
    <2>2. d[k] = t[k - Len(s)]
      BY <1>2, <2>1
    <2> QED  BY <2>1, <2>2 DEF k
  <1> QED  BY <1>3, <1>4 DEF d

LEMMA FieldFirst ==
    ASSUME NEW d \in Cells, Len(d) > 0
    PROVE  Field(d) = d[1]
  BY DEF Field, Cells

LEMMA NotIn ==
    ASSUME NEW text \in Cells, NEW c, c \notin Range(text)
    PROVE  \A i \in 1 .. Len(text) : text[i] # c
  BY DEF Cells, Range

\* A field of those before a packet's text.
LEMMA FieldAt ==
    ASSUME NEW s \in Cells, NEW t \in Cells, NEW i \in 1 .. Len(s)
    PROVE  Field(After(s \o t, i - 1)) = s[i]
  <1> DEFINE d == s \o t
             a == SubSeq(d, i - 1 + 1, Len(d))
  <1>1. /\ d \in Cells /\ Len(d) = Len(s) + Len(t) /\ Len(s) \in Nat /\ Len(t) \in Nat
        /\ d[i] = s[i] /\ i \in Nat
    <2>1. Len(s) \in Nat /\ Len(t) \in Nat
      BY DEF Cells
    <2> QED  BY <2>1, ConcatProperties DEF Cells
  <1> HIDE DEF d
  <1>2. a \in Seq(Nat) /\ Len(a) > 0 /\ a[1] = d[i]
    <2>1. \A k \in i - 1 + 1 .. Len(d) : d[k] \in Nat
      BY <1>1, ElementOfSeq DEF Cells
    <2>2. i - 1 + 1 \in Int /\ Len(d) \in Int /\ i <= Len(d)
      BY <1>1
    <2>3. /\ a \in Seq(Nat)
          /\ Len(a) = IF i - 1 + 1 <= Len(d) THEN Len(d) - (i - 1 + 1) + 1 ELSE 0
          /\ \A k \in 1 .. Len(d) - (i - 1 + 1) + 1 : a[k] = d[i - 1 + 1 + k - 1]
      BY <2>1, <2>2, SubSeqProperties
    <2> HIDE DEF a
    <2>4. 1 \in 1 .. Len(d) - (i - 1 + 1) + 1 /\ i - 1 + 1 + 1 - 1 = i
      BY <2>2
    <2>5. a[1] = d[i]
      BY <2>3, <2>4
    <2> QED  BY <1>1, <2>2, <2>3, <2>5
  <1> HIDE DEF a
  <1>3. a # <<>> /\ Head(a) = a[1]
    BY <1>2
  <1>4. Field(a) = d[i]
    BY <1>2, <1>3 DEF Field
  <1> QED  BY <1>1, <1>4 DEF After, a, d

LEMMA FirstField ==
    ASSUME NEW s \in Cells, NEW t \in Cells, Len(s) > 0
    PROVE  Field(s \o t) = s[1]
  <1>1. 1 \in 1 .. Len(s)
    BY DEF Cells
  <1>2. Field(After(s \o t, 1 - 1)) = s[1]
    BY <1>1, FieldAt
  <1>3. s \o t \in Cells
    BY AfterConcat
  <1>4. After(s \o t, 0) = s \o t
    BY <1>3, ReadAll
  <1>5. 1 - 1 = 0
    OBVIOUS
  <1>6. Field(After(s \o t, 0)) = s[1]
    BY <1>2, <1>5
  <1> QED  BY <1>4, <1>6

\* Fields before a packet's text.
LEMMA TwoFields ==
    ASSUME NEW s \in Cells, NEW t \in Cells, Len(s) = 2
    PROVE  /\ Field(s \o t) = s[1] /\ Field(After(s \o t, 1)) = s[2]
           /\ After(s \o t, 2) = t
           /\ s \o t \in Cells /\ Len(s \o t) = 2 + Len(t)
  <1>1. Field(s \o t) = s[1]
    BY FirstField
  <1>2. Field(After(s \o t, 2 - 1)) = s[2]
    <2>1. 2 \in 1 .. Len(s)
      OBVIOUS
    <2> QED  BY <2>1, FieldAt
  <1>3. After(s \o t, Len(s)) = t /\ s \o t \in Cells /\ Len(s \o t) = Len(s) + Len(t)
    BY AfterConcat
  <1> QED  BY <1>1, <1>2, <1>3

LEMMA ThreeFields ==
    ASSUME NEW s \in Cells, NEW t \in Cells, Len(s) = 3
    PROVE  /\ Field(s \o t) = s[1] /\ Field(After(s \o t, 1)) = s[2]
           /\ Field(After(s \o t, 2)) = s[3] /\ After(s \o t, 3) = t
  <1>1. Field(s \o t) = s[1]
    BY FirstField
  <1>2. Field(After(s \o t, 2 - 1)) = s[2]
    <2>1. 2 \in 1 .. Len(s)
      OBVIOUS
    <2> QED  BY <2>1, FieldAt
  <1>3. Field(After(s \o t, 3 - 1)) = s[3]
    <2>1. 3 \in 1 .. Len(s)
      OBVIOUS
    <2> QED  BY <2>1, FieldAt
  <1>4. After(s \o t, Len(s)) = t
    BY AfterConcat
  <1> QED  BY <1>1, <1>2, <1>3, <1>4

LEMMA Tuples ==
    ASSUME NEW a \in Nat, NEW b \in Nat, NEW c \in Nat
    PROVE  /\ <<a>> \in Cells /\ Len(<<a>>) = 1
           /\ <<a, b>> \in Cells /\ Len(<<a, b>>) = 2
           /\ <<a, b, c>> \in Cells /\ Len(<<a, b, c>>) = 3
  <1>1. <<a>> \in Cells /\ Len(<<a>>) = 1
    BY DEF Cells
  <1>2. <<a, b>> \in Cells
    BY DEF Cells
  <1>3. <<a, b, c>> \in Cells /\ Len(<<a, b, c>>) = 3
    BY DEF Cells
  <1> QED  BY <1>1, <1>2, <1>3

LEMMA KeyValueCells ==
    ASSUME NEW cmd \in Nat, NEW id \in Nat, NEW key \in Cells, NEW err \in Cells,
           NEW val \in Cells, Len(key) < W16, Len(err) < W8
    PROVE  UnmarshalKeyValue(<<cmd, id>> \o Written(key, W16) \o Written(err, W8) \o val)
             = [cmd |-> cmd, id |-> id, key |-> key, err |-> err, value |-> val]
  <1> DEFINE K == Written(key, W16)
             E == Written(err, W8)
             e == E \o val
             r == K \o e
             s == <<cmd, id>>
             d == s \o r
  <1>1. Len(key) \in Nat /\ Len(err) \in Nat /\ Len(val) \in Nat
    BY LenProperties DEF Cells
  <1>2. W8 \in Nat /\ W16 \in Nat
    BY Characters
  <1>3. /\ E \in Cells /\ e \in Cells /\ Len(e) = 1 + Len(err) + Len(val)
        /\ ReadString(e) = err /\ AfterString(e) = val
    <2>1. /\ ReadString(Written(err, W8) \o val) = err
          /\ AfterString(Written(err, W8) \o val) = val
          /\ Written(err, W8) \in Cells /\ Len(Written(err, W8)) = 1 + Len(err)
          /\ Written(err, W8) \o val \in Cells
          /\ Len(Written(err, W8) \o val) = 1 + Len(err) + Len(val)
          /\ Written(err, W8) \o val = <<Len(err)>> \o (err \o val)
      BY <1>2, TextRead
    <2> QED  BY <2>1
  <1> HIDE DEF e
  <1>4. /\ K \in Cells /\ r \in Cells /\ Len(r) = 1 + Len(key) + Len(e)
        /\ ReadString(r) = key /\ AfterString(r) = e
    <2>1. e \in Cells
      BY <1>3
    <2>2. /\ ReadString(Written(key, W16) \o e) = key
          /\ AfterString(Written(key, W16) \o e) = e
          /\ Written(key, W16) \in Cells /\ Len(Written(key, W16)) = 1 + Len(key)
          /\ Written(key, W16) \o e \in Cells
          /\ Len(Written(key, W16) \o e) = 1 + Len(key) + Len(e)
          /\ Written(key, W16) \o e = <<Len(key)>> \o (key \o e)
      BY <1>2, <2>1, TextRead
    <2> QED  BY <2>2
  <1> HIDE DEF K, E
  <1>5. s \in Cells /\ Len(s) = 2 /\ s[1] = cmd /\ s[2] = id
    BY Tuples
  <1> HIDE DEF s
  <1>6. ((s \o K) \o E) \o val = d
    <2>1. K \in Cells /\ E \in Cells /\ s \in Cells
      BY <1>3, <1>4, <1>5
    <2>2. s \o K \in Cells
      BY <2>1, AfterConcat
    <2> DEFINE x == s \o K
    <2>3. x \in Cells /\ x = s \o K
      BY <2>2
    <2> HIDE DEF x
    <2>4. (x \o E) \o val = x \o (E \o val)
      <3>1. x \in Cells /\ E \in Cells
        BY <2>1, <2>3
      <3> QED  BY <3>1, Associative, ZenonT(60)
    <2>5. e \in Cells /\ e = E \o val
      BY <1>3 DEF e
    <2>6. (s \o K) \o e = s \o (K \o e)
      <3>1. s \in Cells /\ K \in Cells /\ e \in Cells
        BY <2>1, <2>5
      <3> QED  BY <3>1, Associative
    <2> QED  BY <2>3, <2>4, <2>5, <2>6
  <1> HIDE DEF r
  <1>7. /\ Field(d) = s[1] /\ Field(After(d, 1)) = s[2]
        /\ After(d, 2) = r /\ Len(d) = 2 + Len(r)
    <2>1. s \in Cells /\ Len(s) = 2 /\ r \in Cells
      BY <1>4, <1>5
    <2> QED  BY <2>1, TwoFields
  <1>8. ReadData(val, Len(d) - 4 - Len(key) - Len(err)) = val
    <2>1. Len(d) - 4 - Len(key) - Len(err) = Len(val)
      BY <1>1, <1>3, <1>4, <1>7
    <2> QED  BY <2>1, ReadAll
  <1> HIDE DEF d
  <1>9. UnmarshalKeyValue(d)
          = [cmd |-> cmd, id |-> id, key |-> key, err |-> err, value |-> val]
    BY <1>3, <1>4, <1>5, <1>7, <1>8 DEF UnmarshalKeyValue
  <1> QED  BY <1>6, <1>9 DEF K, E, s

\* The key, the error and the value of a packet of the key-value service.
LEMMA KeyValueTrip ==
    ASSUME NEW v \in KeyValue, Len(v.key) < W16, Len(v.err) < W8
    PROVE  UnmarshalKeyValue(MarshalKeyValue(v)) = v
  <1>1. /\ v.cmd \in Nat /\ v.id \in Nat
        /\ v.key \in Cells /\ v.err \in Cells /\ v.value \in Cells
    <2>1. /\ v.cmd \in Numbers /\ v.id \in Numbers
          /\ v.key \in Texts(Plain \cup {Comma}) /\ v.err \in Texts(Plain)
          /\ v.value \in Texts(Plain \cup {Comma})
      BY DEF KeyValue
    <2> QED  BY <2>1, Characters, TextCells
  <1>2. UnmarshalKeyValue(MarshalKeyValue(v))
          = [cmd |-> v.cmd, id |-> v.id, key |-> v.key, err |-> v.err, value |-> v.value]
    BY <1>1, KeyValueCells DEF MarshalKeyValue
  <1> QED  BY <1>2 DEF KeyValue

\* A json text keeps what is no string and not null.
LEMMA KeyJsonTrip ==
    ASSUME NEW v \in {"none", "text", "object"}
    PROVE  UnmarshalKeyJson(MarshalKeyJson(v)) = v
  <1>1. CASE v = "none"
    BY <1>1 DEF MarshalKeyJson, UnmarshalKeyJson
  <1>2. CASE v = "text"
    BY <1>2 DEF MarshalKeyJson, UnmarshalKeyJson
  <1>3. CASE v = "object"
    BY <1>3 DEF MarshalKeyJson, UnmarshalKeyJson
  <1> QED  BY <1>1, <1>2, <1>3

\* The answer of the users service, and a client's state with its statistics.
LEMMA ThreeFieldsTrip ==
    ASSUME NEW a \in Nat, NEW b \in Nat, NEW c \in Nat, NEW t \in Cells
    PROVE  /\ UnmarshalUserResponce(<<a, b, c>> \o t)
                = [id |-> a, uuid |-> b, token |-> c, prefix |-> t]
           /\ UnmarshalClientState(<<a, b, c>> \o t)
                = [state |-> a, room |-> b, id |-> c, stat |-> t]
  <1> DEFINE s == <<a, b, c>>
             d == s \o t
  <1>0. s \in Cells /\ Len(s) = 3 /\ s[1] = a /\ s[2] = b /\ s[3] = c
    BY Tuples
  <1> HIDE DEF s
  <1>1. Field(d) = a /\ Field(After(d, 1)) = b /\ Field(After(d, 2)) = c /\ After(d, 3) = t
    BY <1>0, ThreeFields
  <1> HIDE DEF d
  <1>2. /\ UnmarshalUserResponce(d) = [id |-> a, uuid |-> b, token |-> c, prefix |-> t]
        /\ UnmarshalClientState(d) = [state |-> a, room |-> b, id |-> c, stat |-> t]
    BY <1>1 DEF UnmarshalUserResponce, UnmarshalClientState
  <1> QED  BY <1>2 DEF d, s

LEMMA UserResponceTrip ==
    ASSUME NEW v \in Items("user responce")
    PROVE  UnmarshalUserResponce(MarshalUserResponce(v)) = v
  <1>1. v \in [id : Numbers, uuid : Numbers, token : Numbers, prefix : Texts(Plain)]
    BY DEF Items
  <1>2. v.id \in Nat /\ v.uuid \in Nat /\ v.token \in Nat /\ v.prefix \in Cells
    BY <1>1, Characters, TextCells
  <1>3. UnmarshalUserResponce(MarshalUserResponce(v))
          = [id |-> v.id, uuid |-> v.uuid, token |-> v.token, prefix |-> v.prefix]
    BY <1>2, ThreeFieldsTrip, ZenonT(60) DEF MarshalUserResponce
  <1> QED  BY <1>1, <1>3

LEMMA ClientStateTrip ==
    ASSUME NEW v \in Items("client state")
    PROVE  UnmarshalClientState(MarshalClientState(v)) = v
  <1>1. v \in [state : Numbers, room : Numbers, id : Numbers, stat : Texts(Char)]
    BY DEF Items
  <1>2. v.state \in Nat /\ v.room \in Nat /\ v.id \in Nat /\ v.stat \in Cells
    BY <1>1, Characters, TextCells
  <1>3. UnmarshalClientState(MarshalClientState(v))
          = [state |-> v.state, room |-> v.room, id |-> v.id, stat |-> v.stat]
    BY <1>2, ThreeFieldsTrip, ZenonT(60) DEF MarshalClientState
  <1> QED  BY <1>1, <1>3

\* Requests of the statistics: fields only.
LEMMA RoomRequestCells ==
    ASSUME NEW a \in Nat, NEW b \in Nat
    PROVE  UnmarshalRoomRequest(<<a, b>>) = [room |-> a, n |-> b]
  <1> DEFINE s == <<a, b>>
  <1>1. s \in Cells /\ Len(s) = 2 /\ <<>> \in Cells /\ s[1] = a /\ s[2] = b
    BY Tuples, EmptySeq DEF Cells
  <1> HIDE DEF s
  <1>2. s \o <<>> = s
    BY <1>1, ConcatEmptySeq DEF Cells
  <1>3. Field(s \o <<>>) = a /\ Field(After(s \o <<>>, 1)) = b
    BY <1>1, TwoFields
  <1>4. UnmarshalRoomRequest(s) = [room |-> a, n |-> b]
    <2>1. ~(Len(s) < 2) /\ Field(s) = a /\ Field(After(s, 1)) = b
      BY <1>1, <1>2, <1>3
    <2> QED  BY <2>1 DEF UnmarshalRoomRequest
  <1> QED  BY <1>4 DEF s

LEMMA RoomRequestTrip ==
    ASSUME NEW v \in Items("room request")
    PROVE  UnmarshalRoomRequest(MarshalRoomRequest(v)) = v
  <1>1. v \in [room : Numbers, n : Numbers]
    BY DEF Items
  <1>2. v.room \in Nat /\ v.n \in Nat
    BY <1>1, Characters
  <1>3. UnmarshalRoomRequest(MarshalRoomRequest(v)) = [room |-> v.room, n |-> v.n]
    BY <1>2, RoomRequestCells DEF MarshalRoomRequest
  <1> QED  BY <1>1, <1>3

LEMMA ByCreatedCells ==
    ASSUME NEW d, Len(d) = 4
    PROVE  UnmarshalByCreated(d) = [id |-> d[1], from |-> d[2], to |-> d[3], limit |-> d[4]]
  <1>1. ~(Len(d) < 4)
    OBVIOUS
  <1> QED  BY <1>1 DEF UnmarshalByCreated

LEMMA ByCreatedTrip ==
    ASSUME NEW v \in Items("by created")
    PROVE  UnmarshalByCreated(MarshalByCreated(v)) = v
  <1>1. v \in [id : Numbers, from : Numbers, to : Numbers, limit : Numbers]
    BY DEF Items
  <1> DEFINE d == <<v.id, v.from, v.to, v.limit>>
  <1>2. Len(d) = 4
    OBVIOUS
  <1>3. d[1] = v.id /\ d[2] = v.from /\ d[3] = v.to /\ d[4] = v.limit
    OBVIOUS
  <1> HIDE DEF d
  <1>4. UnmarshalByCreated(d) = [id |-> v.id, from |-> v.from, to |-> v.to, limit |-> v.limit]
    BY <1>2, <1>3, ByCreatedCells
  <1> QED  BY <1>1, <1>4 DEF MarshalByCreated, d

-----------------------------------------------------------------------------
(* Texts that end with a separator *)

\* The first place of a character, and none.
LEMMA IndexNone ==
    ASSUME NEW d \in Cells, NEW c, \A i \in 1 .. Len(d) : d[i] # c
    PROVE  Index(d, c) = 0 /\ Before(d, c) = d /\ Behind(d, c) = d
  <1>1. {i \in 1 .. Len(d) : d[i] = c} = {}
    OBVIOUS
  <1>2. Index(d, c) = 0
    BY <1>1 DEF Index, SelectInSeq
  <1>3. After(d, 0) = d
    BY ReadAll
  <1> QED  BY <1>2, <1>3 DEF Before, Behind

LEMMA IndexFirst ==
    ASSUME NEW d \in Cells, NEW c, NEW k \in 1 .. Len(d), d[k] = c,
           \A i \in 1 .. k - 1 : d[i] # c
    PROVE  Index(d, c) = k
  <1> DEFINE I == {i \in 1 .. Len(d) : d[i] = c}
  <1>1. k \in I /\ I # {} /\ k \in Int
    OBVIOUS
  <1>2. \A i \in I : k <= i /\ i \in Int
    <2> TAKE i \in I
    <2>1. i \in 1 .. Len(d) /\ d[i] = c /\ i \in Int
      OBVIOUS
    <2>2. CASE i < k
      <3>1. i \in 1 .. k - 1
        BY <2>1, <2>2
      <3> QED  BY <2>1, <3>1
    <2>3. CASE ~(i < k)
      BY <1>1, <2>1, <2>3
    <2> QED  BY <2>2, <2>3
  <1>3. Index(d, c) = Min(I)
    BY <1>1 DEF Index, SelectInSeq
  <1> HIDE DEF I
  <1>4. Min(I) = k
    <2>1. \A x \in I : (\A y \in I : x <= y) => x = k
      <3> TAKE x \in I
      <3> HAVE \A y \in I : x <= y
      <3>1. x <= k /\ k <= x /\ x \in Int /\ k \in Int
        BY <1>1, <1>2
      <3> QED  BY <3>1
    <2> QED  BY <1>1, <1>2, <2>1 DEF Min
  <1> QED  BY <1>3, <1>4

\* A text with a separator behind it.
LEMMA IndexBehind ==
    ASSUME NEW s \in Cells, NEW c \in Nat, NEW t \in Cells, \A i \in 1 .. Len(s) : s[i] # c
    PROVE  /\ Index(s \o (<<c>> \o t), c) = Len(s) + 1
           /\ Before(s \o (<<c>> \o t), c) = s
           /\ Behind(s \o (<<c>> \o t), c) = t
  <1> DEFINE x == <<c>>
             u == x \o t
             d == s \o u
             k == Len(s) + 1
  <1>1. x \in Cells /\ Len(x) = 1 /\ x[1] = c
    BY Tuples
  <1> HIDE DEF x
  <1>2. u \in Cells /\ Len(u) = 1 + Len(t) /\ u[1] = c /\ Len(t) \in Nat /\ Len(s) \in Nat
    <2>1. Len(t) \in Nat /\ Len(s) \in Nat
      BY DEF Cells
    <2>2. u \in Cells /\ Len(u) = 1 + Len(t)
      BY <1>1, AfterConcat
    <2>3. u[1] = c
      BY <1>1, CellOf
    <2> QED  BY <2>1, <2>2, <2>3
  <1> HIDE DEF u
  <1>3. /\ d \in Cells /\ Len(d) = Len(s) + Len(u)
        /\ d[k] = c /\ \A i \in 1 .. k - 1 : d[i] = s[i]
    <2>1. d \in Cells /\ Len(d) = Len(s) + Len(u)
      BY <1>2, AfterConcat
    <2>2. \A i \in 1 .. Len(s) + Len(u) : d[i] = IF i <= Len(s) THEN s[i] ELSE u[i - Len(s)]
      BY <1>2, ConcatProperties DEF Cells
    <2>3. k \in 1 .. Len(s) + Len(u) /\ ~(k <= Len(s)) /\ k - Len(s) = 1
      BY <1>2
    <2> HIDE DEF d
    <2>4. d[k] = c
      <3>1. d[k] = u[k - Len(s)]
        <4> HIDE DEF k
        <4> QED  BY <2>2, <2>3
      <3> QED  BY <1>2, <2>3, <3>1
    <2>5. \A i \in 1 .. k - 1 : d[i] = s[i]
      BY <1>2, <2>2
    <2> QED  BY <2>1, <2>4, <2>5
  <1>4. ReadData(d, Len(s)) = s
    BY <1>2, AfterConcat
  <1>5. After(d, k) = t
    <2> DEFINE y == s \o x
    <2>1. y \in Cells /\ Len(y) = k
      BY <1>1, AfterConcat
    <2>2. d = y \o t
      BY <1>1, Associative DEF u
    <2> HIDE DEF y, d
    <2>3. After(y \o t, Len(y)) = t
      BY <2>1, AfterConcat
    <2> QED  BY <2>1, <2>2, <2>3
  <1> HIDE DEF d
  <1>6. Index(d, c) = k
    <2>1. k \in 1 .. Len(d) /\ k - 1 = Len(s)
      BY <1>2, <1>3
    <2>2. \A i \in 1 .. k - 1 : d[i] # c
      BY <1>3, <2>1
    <2> HIDE DEF k
    <2> QED  BY <1>3, <2>1, <2>2, IndexFirst
  <1>7. SubSeq(d, 1, k - 1) = s
    <2>1. Len(s) <= Len(d) /\ k - 1 = Len(s)
      BY <1>2, <1>3
    <2>2. SubSeq(d, 1, Len(s)) = s
      BY <1>4, <2>1 DEF ReadData
    <2> QED  BY <2>1, <2>2
  <1>8. k # 0
    BY <1>2
  <1> HIDE DEF k
  <1>9. Before(d, c) = s /\ Behind(d, c) = t
    BY <1>5, <1>6, <1>7, <1>8 DEF Before, Behind
  <1> QED  BY <1>6, <1>9 DEF d, u, k, x

\* The id, the prefix up to the first dash, and the UUID of a request to the users
\* service.
LEMMA UserRequestCells ==
    ASSUME NEW id \in Nat, NEW prefix \in Cells, NEW uuid \in Numbers, uuid # Zero,
           \A i \in 1 .. Len(prefix) : prefix[i] # Dash
    PROVE  UnmarshalUserRequest(<<id>> \o prefix \o <<Dash, uuid>>)
             = [id |-> id, prefix |-> prefix, uuid |-> uuid]
  <1> DEFINE u == <<uuid>>
             x == <<Dash>>
             y == <<Dash, uuid>>
             s == <<id>>
             text == prefix \o (x \o u)
             d == s \o text
  <1>1. Dash \in Nat /\ uuid \in Nat
    BY Characters
  <1>2. /\ u \in Cells /\ Len(u) = 1 /\ u[1] = uuid
        /\ x \in Cells /\ s \in Cells /\ y \in Cells
    BY <1>1, Tuples
  <1>3. y = x \o u
    <2>1. y \in Seq(Nat) /\ Len(y) = 2 /\ y[1] = Dash /\ y[2] = uuid
      BY <1>2 DEF Cells
    <2>2. Len(x) = 1 /\ x[1] = Dash
      OBVIOUS
    <2> HIDE DEF y, x, u
    <2> DEFINE z == x \o u
    <2>3. z \in Seq(Nat) /\ Len(z) = 2
      <3>1. z \in Cells /\ Len(z) = Len(x) + Len(u)
        BY <1>2, AfterConcat
      <3> QED  BY <1>2, <2>2, <3>1 DEF Cells
    <2>4. z[1] = Dash /\ z[Len(x) + 1] = uuid
      <3>1. 1 \in 1 .. Len(x) /\ 1 \in 1 .. Len(u)
        BY <1>2, <2>2
      <3>2. x \in Cells /\ u \in Cells
        BY <1>2
      <3>3. /\ \A i \in 1 .. Len(x) : z[i] = x[i]
            /\ \A j \in 1 .. Len(u) : z[Len(x) + j] = u[j]
        BY <3>2, CellOf
      <3> QED  BY <1>2, <2>2, <3>1, <3>3
    <2> HIDE DEF z
    <2>5. \A i \in 1 .. Len(z) : z[i] = y[i]
      BY <2>1, <2>2, <2>3, <2>4
    <2>6. z = y
      BY <2>1, <2>3, <2>5, SeqEqual
    <2> QED  BY <2>6 DEF z
  <1>4. (s \o prefix) \o y = d
    <2> HIDE DEF s, x, u, y
    <2>1. x \o u \in Cells
      BY <1>2, AfterConcat
    <2>2. (s \o prefix) \o (x \o u) = s \o (prefix \o (x \o u))
      BY <1>2, <2>1, Associative, ZenonT(60)
    <2> QED  BY <1>3, <2>2
  <1> HIDE DEF u, y
  <1>5. /\ Index(text, Dash) = Len(prefix) + 1
        /\ Before(text, Dash) = prefix /\ Behind(text, Dash) = u
    BY <1>1, <1>2, IndexBehind
  <1>6. text \in Cells
    <2>1. x \o u \in Cells
      BY <1>2, AfterConcat
    <2> HIDE DEF x
    <2> QED  BY <2>1, AfterConcat
  <1> HIDE DEF text, x
  <1>7. Field(d) = id /\ After(d, 1) = text
    BY <1>6, OneField
  <1>8. Index(text, Dash) # 0
    <2>1. Len(prefix) \in Nat
      BY DEF Cells
    <2> QED  BY <1>5, <2>1
  <1>9. SubSeq(text, 1, Index(text, Dash) - 1) = prefix /\ After(text, Index(text, Dash)) = u
    BY <1>5, <1>8 DEF Before, Behind
  <1>10. Field(u) = uuid /\ uuid \in Numbers \ {Zero}
    BY <1>2, FieldFirst
  <1> HIDE DEF d
  <1>11. UnmarshalUserRequest(d) = [id |-> id, prefix |-> prefix, uuid |-> uuid]
    BY <1>2, <1>7, <1>8, <1>9, <1>10 DEF UnmarshalUserRequest
  <1> QED  BY <1>4, <1>11 DEF s, y

LEMMA UserRequestTrip ==
    ASSUME NEW v \in Items("user request"), Fits("user request", v)
    PROVE  UnmarshalUserRequest(MarshalUserRequest(v)) = v
  <1>1. v \in [id : Numbers, prefix : Texts(Plain \cup {Dash}), uuid : Numbers]
    BY DEF Items
  <1>2. Dash \notin Range(v.prefix) /\ v.uuid # Zero
    BY DEF Fits
  <1>3. v.id \in Nat /\ v.prefix \in Cells /\ v.uuid \in Numbers
    BY <1>1, Characters, TextCells
  <1>4. \A i \in 1 .. Len(v.prefix) : v.prefix[i] # Dash
    BY <1>2, <1>3, NotIn
  <1>5. UnmarshalUserRequest(MarshalUserRequest(v))
          = [id |-> v.id, prefix |-> v.prefix, uuid |-> v.uuid]
    BY <1>2, <1>3, <1>4, UserRequestCells DEF MarshalUserRequest
  <1> QED  BY <1>1, <1>5

\* The name of the sender, the command and the data of a packet of teonet.
LEMMA PacketCells ==
    ASSUME NEW from \in Cells, NEW cmd \in Nat, NEW rest \in Cells, Len(from) + 1 < W8,
           \A i \in 1 .. Len(from) : from[i] # Zero
    PROVE  parsePacket(Written(from \o <<Zero>>, W8) \o <<cmd>> \o rest)
             = [from |-> from, cmd |-> cmd, data |-> rest]
  <1> DEFINE z == <<Zero>>
             f == from \o z
             n == Len(from) + 1
             W == Written(f, W8)
             c == <<cmd>>
             r == c \o rest
             d == W \o r
  <1>1. W8 \in Nat /\ Zero \in Nat
    BY Characters
  <1>2. z \in Cells /\ Len(z) = 1 /\ c \in Cells /\ Len(c) = 1 /\ c[1] = cmd /\ z[1] = Zero
    BY <1>1, Tuples
  <1>3. Len(from) \in Nat /\ Len(rest) \in Nat /\ n \in Nat /\ n # 0
    BY DEF Cells
  <1>4. CString(f) = n /\ GoString(f) = from
    <2>1. <<>> \in Cells
      BY EmptySeq DEF Cells
    <2>2. /\ Index(from \o (<<Zero>> \o <<>>), Zero) = Len(from) + 1
          /\ Before(from \o (<<Zero>> \o <<>>), Zero) = from
      BY <1>1, <2>1, IndexBehind
    <2>3. <<Zero>> \o <<>> = <<Zero>>
      BY <1>2, ConcatEmptySeq DEF Cells
    <2> QED  BY <2>2, <2>3 DEF CString, GoString
  <1> HIDE DEF z
  <1>5. f \in Cells /\ Len(f) = n
    BY <1>2, AfterConcat
  <1>6. r \in Cells /\ Len(r) = 1 + Len(rest) /\ r[1] = cmd
    <2> HIDE DEF c
    <2>1. r \in Cells /\ Len(r) = Len(c) + Len(rest)
      BY <1>2, AfterConcat
    <2>2. 1 \in 1 .. Len(c)
      BY <1>2
    <2>3. r[1] = c[1]
      BY <1>2, <2>2, CellOf
    <2> QED  BY <1>2, <2>1, <2>3
  <1> HIDE DEF f
  <1>7. /\ W \in Cells /\ Len(W) = 1 + n
        /\ d = <<n>> \o (f \o r) /\ Len(d) = 1 + n + Len(r)
        /\ ReadString(d) = f
    <2> HIDE DEF r, n
    <2>1. Len(f) < W8 /\ f \in Cells /\ r \in Cells
      BY <1>5, <1>6 DEF n
    <2>2. /\ ReadString(Written(f, W8) \o r) = f
          /\ AfterString(Written(f, W8) \o r) = r
          /\ Written(f, W8) \in Cells /\ Len(Written(f, W8)) = 1 + Len(f)
          /\ Written(f, W8) \o r \in Cells
          /\ Len(Written(f, W8) \o r) = 1 + Len(f) + Len(r)
          /\ Written(f, W8) \o r = <<Len(f)>> \o (f \o r)
      BY <1>1, <2>1, TextRead
    <2> QED  BY <1>5, <2>2
  <1>8. (W \o c) \o rest = d
    <2> HIDE DEF W, c
    <2> QED  BY <1>2, <1>7, Associative
  <1>9. Field(d) = n
    <2>1. f \o r \in Cells
      <3> HIDE DEF r
      <3> QED  BY <1>5, <1>6, AfterConcat
    <2> DEFINE u == f \o r
    <2> HIDE DEF u, d, n
    <2>2. Field(<<n>> \o u) = n
      BY <1>3, <2>1, OneField DEF u
    <2> QED  BY <1>7, <2>2 DEF u
  <1>10. d[n + 2] = cmd
    <2> HIDE DEF W, r, n
    <2>1. 1 \in 1 .. Len(r) /\ Len(W) + 1 = n + 2
      BY <1>3, <1>6, <1>7
    <2>2. d[Len(W) + 1] = r[1]
      BY <1>6, <1>7, <2>1, CellOf
    <2> QED  BY <1>6, <2>1, <2>2
  <1>11. After(d, n + 2) = rest
    <2> DEFINE y == W \o c
    <2> HIDE DEF W, c, n, d
    <2>1. y \in Cells /\ Len(y) = Len(W) + Len(c)
      BY <1>2, <1>7, AfterConcat
    <2>2. Len(y) = n + 2
      BY <1>2, <1>3, <1>7, <2>1
    <2>3. d = y \o rest
      BY <1>8
    <2> HIDE DEF y
    <2>4. After(y \o rest, Len(y)) = rest
      BY <2>1, AfterConcat
    <2> QED  BY <2>2, <2>3, <2>4
  <1>12. n + 2 <= Len(d)
    <2> HIDE DEF d, r, n
    <2> QED  BY <1>3, <1>6, <1>7
  <1> HIDE DEF d, n
  <1>13. ReadData(After(d, 1), n) = f
    BY <1>7, <1>9 DEF ReadString
  <1>14. parsePacket(d) = [from |-> from, cmd |-> cmd, data |-> rest]
    BY <1>3, <1>4, <1>9, <1>10, <1>11, <1>12, <1>13 DEF parsePacket
  <1>15. Written(from \o <<Zero>>, W8) \o <<cmd>> \o rest = d
    BY <1>8 DEF f, z
  <1> QED  BY <1>14, <1>15

LEMMA PacketTrip ==
    ASSUME NEW v \in Items("packet"), Fits("packet", v)
    PROVE  parsePacket(createPacketFrom(v)) = v
  <1>1. v \in [cmd : Numbers, from : Texts(Plain \cup {Zero}), data : Texts(Char)]
    BY DEF Items
  <1>2. Zero \notin Range(v.from) /\ Len(v.from) + 1 < W8
    BY DEF Fits
  <1>3. v.cmd \in Nat /\ v.from \in Cells /\ v.data \in Cells
    BY <1>1, Characters, TextCells
  <1>4. \A i \in 1 .. Len(v.from) : v.from[i] # Zero
    BY <1>2, <1>3, NotIn
  <1>5. parsePacket(createPacketFrom(v)) = [from |-> v.from, cmd |-> v.cmd, data |-> v.data]
    BY <1>2, <1>3, <1>4, PacketCells DEF createPacketFrom
  <1> QED  BY <1>1, <1>5

\* The command, the lengths, the name and the data of a packet of an l0 client.
LEMMA NextNatural == 0 \in Nat /\ \A n \in Nat : n + 1 \in Nat
  OBVIOUS

LEMMA FourTuple ==
    ASSUME NEW a \in Nat, NEW b \in Nat, NEW c \in Nat, NEW e \in Nat
    PROVE  <<a, b, c, e>> \in Cells /\ Len(<<a, b, c, e>>) = 4
  BY DEF Cells

LEMMA L0PacketCells ==
    ASSUME NEW peer \in Cells, NEW h \in Cells, NEW rest \in Cells, Len(h) = 4,
           h[2] = Len(rest), h[3] = Len(peer) + 1,
           \A i \in 1 .. Len(peer) : peer[i] # Zero
    PROVE  PacketGet(h \o peer \o <<Zero>> \o rest)
             = [cmd |-> h[1], peer |-> peer, data |-> rest]
  <1> DEFINE z == <<Zero>>
             r == z \o rest
             t == peer \o r
             d == h \o t
  <1>1. Zero \in Nat
    BY Characters
  <1>2. z \in Cells /\ Len(z) = 1
    BY <1>1, Tuples
  <1>3. Len(peer) \in Nat /\ Len(rest) \in Nat
    BY DEF Cells
  <1>4. GoString(t) = peer
    BY <1>1, IndexBehind DEF GoString
  <1> HIDE DEF z
  <1>5. r \in Cells
    BY <1>2, AfterConcat
  <1>6. h \o peer \in Cells /\ Len(h \o peer) = 4 + Len(peer)
    BY AfterConcat
  <1> DEFINE a == h \o peer
             b == a \o z
  <1> HIDE DEF a
  <1>7. b \in Cells /\ Len(b) = 4 + (Len(peer) + 1)
    <2>1. a \in Cells /\ Len(a) = 4 + Len(peer)
      BY <1>6 DEF a
    <2>2. b \in Cells /\ Len(b) = Len(a) + Len(z)
      BY <1>2, <2>1, AfterConcat
    <2> QED  BY <1>2, <1>3, <2>1, <2>2
  <1>8. b \o rest = a \o r
    BY <1>2, <1>6, Associative DEF a
  <1> HIDE DEF r
  <1>9. t \in Cells
    BY <1>5, AfterConcat
  <1>10. a \o r = d
    BY <1>5, Associative DEF a
  <1> HIDE DEF t
  <1>11. After(d, 4) = t
    <2>1. After(d, Len(h)) = t
      BY <1>9, AfterConcat
    <2> QED  BY <2>1
  <1>12. d[2] = h[2] /\ d[3] = h[3]
    <2>1. 2 \in 1 .. Len(h) /\ 3 \in 1 .. Len(h)
      OBVIOUS
    <2> QED  BY <1>9, <2>1, CellOf
  <1>13. Field(d) = h[1]
    <2>1. Len(h) > 0
      OBVIOUS
    <2> QED  BY <1>9, <2>1, FirstField
  <1> HIDE DEF d
  <1>14. After(d, 4 + d[3]) = rest
    <2> HIDE DEF b
    <2>1. After(b \o rest, Len(b)) = rest
      BY <1>7, AfterConcat
    <2>2. b \o rest = d /\ Len(b) = 4 + d[3]
      BY <1>7, <1>8, <1>10, <1>12
    <2> QED  BY <2>1, <2>2
  <1>15. ReadData(After(d, 4 + d[3]), d[2]) = rest
    BY <1>12, <1>14, ReadAll
  <1>16. PacketGet(d) = [cmd |-> h[1], peer |-> peer, data |-> rest]
    BY <1>4, <1>11, <1>13, <1>15 DEF PacketGet
  <1>17. h \o peer \o <<Zero>> \o rest = d
    BY <1>8, <1>10 DEF a, z
  <1> QED  BY <1>16, <1>17

LEMMA L0PacketTrip ==
    ASSUME NEW v \in Items("l0 packet"), PacketCreate(v) # <<>>
    PROVE  PacketGet(PacketCreate(v)) = v
  <1>1. v \in [cmd : Numbers, peer : Texts(Plain), data : Texts(Char)]
    BY DEF Items
  <1>2. /\ v.cmd \in Nat /\ v.peer \in Cells /\ v.data \in Cells
        /\ \A i \in 1 .. Len(v.peer) : v.peer[i] \in Plain
        /\ Len(v.peer) \in Nat /\ Len(v.data) \in Nat
    BY <1>1, Characters, TextCells
  <1>4. \A i \in 1 .. Len(v.peer) : v.peer[i] # Zero
    BY <1>2, Characters
  <1> DEFINE h == <<v.cmd, Len(v.data), Len(v.peer) + 1, 0>>
  <1>3. Len(v.peer) + 1 \in Nat /\ 0 \in Nat
    BY <1>2, NextNatural
  <1>5. h \in Cells /\ Len(h) = 4
    BY <1>2, <1>3, FourTuple
  <1>6. h[1] = v.cmd /\ h[2] = Len(v.data) /\ h[3] = Len(v.peer) + 1
    OBVIOUS
  <1>7. PacketCreate(v) = h \o v.peer \o <<Zero>> \o v.data
    BY DEF PacketCreate
  <1> HIDE DEF h
  <1>8. PacketGet(h \o v.peer \o <<Zero>> \o v.data)
          = [cmd |-> h[1], peer |-> v.peer, data |-> v.data]
    BY <1>2, <1>4, <1>5, <1>6, L0PacketCells
  <1> QED  BY <1>1, <1>6, <1>7, <1>8

\* A name that is filled up with zeros ends at its first zero.
LEMMA NameCells ==
    ASSUME NEW text \in Cells, NEW name \in Cells, NEW mode \in Nat,
           Len(text) < Len(name), name[Len(text) + 1] = Zero,
           \A i \in 1 .. Len(text) : name[i] = text[i] /\ text[i] # Zero
    PROVE  /\ GoString(name \o <<mode>>) = text
           /\ (name \o <<mode>>)[Len(name) + 1] = mode
  <1>0. Len(text) \in Nat /\ Len(name) \in Nat
    BY DEF Cells
  <1> SUFFICES ASSUME NEW size \in Nat, NEW n \in Nat, size = Len(name), n = Len(text),
                      n < size, name[n + 1] = Zero,
                      \A i \in 1 .. n : name[i] = text[i],
                      \A i \in 1 .. n : text[i] # Zero
               PROVE  /\ GoString(name \o <<mode>>) = text
                      /\ (name \o <<mode>>)[size + 1] = mode
    BY <1>0
  <1> DEFINE d == name \o <<mode>>
             a == SubSeq(d, 1, n)
  <1>1. /\ n + 1 \in 1 .. size /\ n + 1 \in 1 .. size + 1 /\ n + 1 - 1 = n
        /\ n + 1 # 0 /\ 1 \in 1 .. 1
        /\ \A i \in 1 .. n : i \in 1 .. size /\ i \in 1 .. size + 1
    OBVIOUS
  <1>2. <<mode>> \in Cells /\ Len(<<mode>>) = 1 /\ <<mode>>[1] = mode
    BY Tuples
  <1>3. d \in Cells /\ Len(d) = size + 1
    BY <1>2, AfterConcat
  <1>4. d[size + 1] = mode
    <2>1. d[Len(name) + 1] = <<mode>>[1]
      <3>1. 1 \in 1 .. Len(<<mode>>)
        BY <1>1, <1>2
      <3> QED  BY <1>2, <3>1, CellOf
    <2> QED  BY <1>2, <2>1
  <1>5. \A i \in 1 .. size : d[i] = name[i]
    BY <1>2, CellOf
  <1> HIDE DEF d
  <1>6. d[n + 1] = Zero /\ \A i \in 1 .. n : d[i] = text[i]
    BY <1>1, <1>5
  <1>7. Index(d, Zero) = n + 1
    <2>1. n + 1 \in 1 .. Len(d)
      BY <1>1, <1>3
    <2>2. \A i \in 1 .. (n + 1) - 1 : d[i] # Zero
      BY <1>1, <1>6
    <2> QED  BY <1>3, <1>6, <2>1, <2>2, IndexFirst
  <1>8. a = text
    <2>1. \A i \in 1 .. n : d[i] \in Nat
      BY <1>1, <1>3, ElementOfSeq DEF Cells
    <2>2. /\ a \in Seq(Nat) /\ Len(a) = IF 1 <= n THEN n - 1 + 1 ELSE 0
          /\ \A i \in 1 .. n - 1 + 1 : a[i] = d[1 + i - 1]
      <3>1. n \in Int
        OBVIOUS
      <3> QED  BY <2>1, <3>1, SubSeqProperties
    <2> HIDE DEF a
    <2>3. Len(a) = n
      BY <2>2
    <2>4. \A i \in 1 .. n : i \in 1 .. n - 1 + 1 /\ 1 + i - 1 = i
      OBVIOUS
    <2>5. \A i \in 1 .. n : a[i] = text[i]
      BY <1>6, <2>2, <2>4
    <2>6. text \in Seq(Nat) /\ Len(text) = Len(a)
      BY <2>3 DEF Cells
    <2> QED  BY <2>2, <2>3, <2>5, <2>6, SeqEqual
  <1>9. GoString(d) = text
    <2>1. Index(d, Zero) # 0 /\ Index(d, Zero) - 1 = n
      BY <1>1, <1>7
    <2> QED  BY <1>8, <2>1 DEF GoString, Before
  <1> QED  BY <1>4, <1>9 DEF d

\* The name of a peer, filled up with zeros, and its mode.
LEMMA PeerCells ==
    ASSUME NEW p, p.peer \in Cells, p.mode \in Nat, Len(p.peer) < NameSize,
           \A i \in 1 .. Len(p.peer) : p.peer[i] # Zero
    PROVE  ParsePeerData(PeerData(p)) = [peer |-> p.peer, mode |-> p.mode]
  <1> DEFINE name == [i \in 1 .. NameSize |-> IF i <= Len(p.peer) THEN p.peer[i] ELSE Zero]
             n == Len(p.peer)
  <1>1. NameSize \in Nat /\ n \in Nat /\ n < NameSize /\ Zero \in Nat
    BY CodecAssumption DEF Cells, Zero
  <1>2. name \in Cells /\ Len(name) = NameSize
    <2>1. \A i \in 1 .. NameSize : name[i] \in Nat
      BY <1>1 DEF Cells
    <2> QED  BY <1>1, <2>1 DEF Cells
  <1>3. /\ \A i \in 1 .. n : name[i] = p.peer[i]
        /\ name[n + 1] = Zero
    BY <1>1
  <1> HIDE DEF name, n
  <1>4. Len(p.peer) = n /\ \A i \in 1 .. n : p.peer[i] # Zero
    BY DEF n
  <1>5. /\ GoString(name \o <<p.mode>>) = p.peer
        /\ (name \o <<p.mode>>)[NameSize + 1] = p.mode
    <2> DEFINE text == p.peer
               mode == p.mode
    <2>1. /\ text \in Cells /\ mode \in Nat /\ Len(text) = n
          /\ \A i \in 1 .. Len(text) : name[i] = text[i] /\ text[i] # Zero
      BY <1>1, <1>3, <1>4
    <2> HIDE DEF text, mode
    <2>2. Len(text) < Len(name) /\ name[Len(text) + 1] = Zero
      BY <1>1, <1>2, <1>3, <2>1
    <2>3. /\ GoString(name \o <<mode>>) = text
          /\ (name \o <<mode>>)[Len(name) + 1] = mode
      BY <1>2, <2>1, <2>2, NameCells
    <2> QED  BY <1>2, <2>3 DEF text, mode
  <1>6. PeerData(p) = name \o <<p.mode>>
    BY DEF PeerData, name
  <1> HIDE DEF PeerData
  <1> QED  BY <1>5, <1>6 DEF ParsePeerData

LEMMA PeerTrip ==
    ASSUME NEW v \in Items("peer"), Fits("peer", v)
    PROVE  ParsePeerData(PeerData(v)) = v
  <1>1. v \in [mode : Numbers, peer : Texts(Plain)]
    BY DEF Items
  <1>2. Len(v.peer) < NameSize
    BY DEF Fits
  <1>3. /\ v.mode \in Nat /\ v.peer \in Cells
        /\ \A i \in 1 .. Len(v.peer) : v.peer[i] \in Plain
    BY <1>1, Characters, TextCells
  <1>4. \A i \in 1 .. Len(v.peer) : v.peer[i] # Zero
    BY <1>3, Characters
  <1>5. ParsePeerData(PeerData(v)) = [peer |-> v.peer, mode |-> v.mode]
    BY <1>2, <1>3, <1>4, PeerCells
  <1> QED  BY <1>1, <1>5

-----------------------------------------------------------------------------
(* Packets of any number of texts *)

\* The least element of a set of natural numbers, by the order of the intervals up to
\* its members.
LEMMA LeastNatural ==
    ASSUME NEW T, T \subseteq Nat, T # {}
    PROVE  \E x \in T : \A y \in T : x <= y
  <1>1. PICK n \in T : TRUE
    OBVIOUS
  <1> DEFINE I == 1 .. n
             U == {1 .. x : x \in {y \in T : y <= n}}
  <1>2. IsFiniteSet(I)
    BY FS_Interval
  <1>3. IsWellFoundedOn(StrictSubsetOrdering(I), FiniteSubsetsOf(I))
    BY <1>2, FS_StrictSubsetOrderingWellFounded, FS_FiniteSubsetsOfFinite
  <1>4. U \subseteq FiniteSubsetsOf(I)
    <2>1. U \subseteq SUBSET I
      OBVIOUS
    <2> QED
      BY <1>2, <2>1, FS_FiniteSubsetsOfFinite
  <1>5. U # {}
    BY <1>1
  <1>6. PICK u \in U : \A v \in U : <<v, u>> \notin StrictSubsetOrdering(I)
    <2> HIDE DEF U, I
    <2> QED
      BY <1>3, <1>4, <1>5, WFMin
  <1>7. PICK x \in T : u = 1 .. x /\ x <= n
    OBVIOUS
  <1>8. ASSUME NEW y \in T, y < x PROVE FALSE
    <2>1. 1 .. y \in U
      BY <1>1, <1>7, <1>8
    <2>2. 1 .. y \subseteq 1 .. x
      BY <1>7, <1>8
    <2>3. x \in 1 .. x /\ x \notin 1 .. y
      BY <1>7, <1>8
    <2>4. 1 .. y # 1 .. x
      BY <2>3
    <2>5. 1 .. y \in SUBSET I /\ 1 .. x \in SUBSET I
      BY <1>1, <1>7, <1>8
    <2>6. <<1 .. y, 1 .. x>> \in StrictSubsetOrdering(I)
      BY <2>2, <2>4, <2>5 DEF StrictSubsetOrdering
    <2> QED
      BY <1>6, <1>7, <2>1, <2>6
  <1> QED
    BY <1>7, <1>8

\* Steps from 0 to n.
LEMMA UpToN ==
    ASSUME NEW n \in Nat, NEW T, 0 \in T, \A i \in 0 .. n - 1 : i \in T => i + 1 \in T
    PROVE  \A i \in 0 .. n : i \in T
  <1> DEFINE U == {i \in 0 .. n : i \notin T}
  <1>1. ASSUME U # {} PROVE FALSE
    <2>1. U \subseteq Nat
      OBVIOUS
    <2>2. PICK x \in U : \A y \in U : x <= y
      <3> HIDE DEF U
      <3> QED  BY <1>1, <2>1, LeastNatural
    <2>3. x \in 0 .. n /\ x \notin T /\ x # 0
      BY <2>2
    <2>4. x - 1 \in 0 .. n - 1 /\ x - 1 \in 0 .. n /\ (x - 1) + 1 = x
      BY <2>3
    <2>5. x - 1 \in T
      <3>1. ~(x <= x - 1)
        BY <2>3
      <3> QED  BY <2>2, <2>4, <3>1
    <2> QED  BY <2>3, <2>4, <2>5
  <1> QED  BY <1>1

\* The packets that grow by one part after another.
LEMMA PartsExist ==
    ASSUME NEW n \in Nat, NEW c \in [1 .. n -> Cells]
    PROVE  \E f \in [0 .. n -> Cells] :
              f[0] = <<>> /\ \A i \in 1 .. n : f[i] = f[i - 1] \o c[i]
  <1> DEFINE P(k, f) == f[0] = <<>> /\ \A i \in 1 .. k : f[i] = f[i - 1] \o c[i]
             T == {k \in 0 .. n : \E f \in [0 .. k -> Cells] : P(k, f)}
  <1>1. 0 \in T
    <2> DEFINE f == [i \in 0 .. 0 |-> <<>>]
    <2>1. <<>> \in Cells
      BY DEF Cells
    <2>2. f \in [0 .. 0 -> Cells] /\ P(0, f)
      BY <2>1
    <2> HIDE DEF P, f
    <2>3. 0 \in 0 .. n
      OBVIOUS
    <2> QED  BY <2>2, <2>3
  <1>2. ASSUME NEW k \in 0 .. n - 1, k \in T
        PROVE  k + 1 \in T
    <2>1. PICK f \in [0 .. k -> Cells] : P(k, f)
      BY <1>2
    <2> DEFINE g == [i \in 0 .. k + 1 |-> IF i <= k THEN f[i] ELSE f[k] \o c[k + 1]]
    <2>2. k + 1 \in 1 .. n /\ k \in 0 .. k /\ k + 1 \in 0 .. n
      OBVIOUS
    <2>3. f[k] \o c[k + 1] \in Cells
      BY <2>1, <2>2, AfterConcat
    <2>4. g \in [0 .. k + 1 -> Cells]
      BY <2>3
    <2>5. g[0] = <<>>
      BY <2>1
    <2>6. ASSUME NEW i \in 1 .. k + 1
          PROVE  g[i] = g[i - 1] \o c[i]
      <3>1. i - 1 \in 0 .. k /\ i - 1 \in 0 .. k + 1 /\ i \in 0 .. k + 1
        OBVIOUS
      <3>2. g[i - 1] = f[i - 1]
        BY <3>1
      <3>3. CASE i <= k
        <4>1. i \in 1 .. k
          BY <3>3
        <4>2. g[i] = f[i]
          BY <3>1, <3>3
        <4> QED  BY <2>1, <3>2, <4>1, <4>2
      <3>4. CASE ~(i <= k)
        <4>1. i = k + 1 /\ i - 1 = k
          BY <3>4
        <4>2. g[i] = f[k] \o c[k + 1]
          BY <3>1, <3>4
        <4> QED  BY <3>2, <4>1, <4>2
      <3> QED  BY <3>3, <3>4
    <2> QED  BY <2>2, <2>4, <2>5, <2>6
  <1> HIDE DEF T
  <1>3. \A k \in 0 .. n : k \in T
    BY <1>1, <1>2, UpToN
  <1>4. n \in T
    BY <1>3
  <1> QED  BY <1>4 DEF T

\* They are what FlattenSeq builds.
LEMMA Flattened ==
    ASSUME NEW n \in Nat, NEW c \in [1 .. n -> Cells], NEW f \in [0 .. n -> Cells],
           f[0] = <<>>, \A i \in 1 .. n : f[i] = f[i - 1] \o c[i]
    PROVE  FlattenSeq(c) = f[n]
  <1> DEFINE G(h) == [i \in 1 .. n |-> IF i = 1 THEN c[i] ELSE h[i - 1] \o c[i]]
             h == CHOOSE h : h = G(h)
             e == [i \in 1 .. n |-> f[i]]
  <1>1. Len(c) = n /\ c \in Seq(Cells)
    OBVIOUS
  <1>2. CASE n = 0
    <2>1. c = <<>>
      BY <1>1, <1>2, EmptySeq
    <2>2. FlattenSeq(c) = c
      BY <1>1, <1>2 DEF FlattenSeq
    <2> QED  BY <1>2, <2>1, <2>2
  <1>3. CASE n # 0
    <2>1. FlattenSeq(c) = h[n]
      BY <1>1, <1>3 DEF FlattenSeq
    <2>2. f[1] = c[1]
      <3>1. 1 \in 1 .. n /\ 1 - 1 = 0
        BY <1>3
      <3>2. f[1] = <<>> \o c[1]
        BY <3>1
      <3> QED  BY <3>1, <3>2, ConcatEmptySeq DEF Cells
    <2>3. e = G(e)
      <3>1. ASSUME NEW i \in 1 .. n
            PROVE  e[i] = IF i = 1 THEN c[i] ELSE e[i - 1] \o c[i]
        <4>1. CASE i = 1
          BY <2>2, <4>1
        <4>2. CASE i # 1
          <5>1. i - 1 \in 1 .. n
            BY <4>2
          <5> QED  BY <4>2, <5>1
        <4> QED  BY <4>1, <4>2
      <3> QED  BY <3>1
    <2>4. h = G(h)
      <3>1. \E x : x = G(x)
        BY <2>3
      <3> HIDE DEF G
      <3> QED  BY <3>1
    <2> DEFINE T == {k \in Nat : k <= n - 1 => h[k + 1] = e[k + 1]}
    <2> HIDE DEF h
    <2>5. 0 \in T
      <3>1. 0 + 1 = 1 /\ 1 \in 1 .. n
        BY <1>3
      <3>2. h[1] = c[1]
        BY <2>4, <3>1
      <3> QED  BY <2>2, <3>1, <3>2
    <2>6. n - 1 \in Nat
      BY <1>3
    <2>7. ASSUME NEW k \in 0 .. (n - 1) - 1, k \in T
          PROVE  k + 1 \in T
      <3>1. /\ k + 1 \in 1 .. n /\ (k + 1) + 1 \in 1 .. n /\ (k + 1) + 1 # 1
            /\ ((k + 1) + 1) - 1 = k + 1 /\ k <= n - 1 /\ k + 1 \in Nat
        BY <1>3
      <3>2. h[k + 1] = e[k + 1]
        BY <2>7, <3>1
      <3>3. h[(k + 1) + 1] = h[k + 1] \o c[(k + 1) + 1]
        BY <2>4, <3>1
      <3>4. e[(k + 1) + 1] = e[k + 1] \o c[(k + 1) + 1]
        BY <2>3, <3>1
      <3> QED  BY <3>1, <3>2, <3>3, <3>4
    <2> HIDE DEF T
    <2>8. \A k \in 0 .. n - 1 : k \in T
      BY <2>5, <2>6, <2>7, UpToN
    <2>9. n - 1 \in 0 .. n - 1 /\ (n - 1) + 1 = n /\ n \in 1 .. n
      BY <1>3
    <2>10. h[n] = e[n]
      <3>1. n - 1 \in T
        BY <2>8, <2>9
      <3> QED  BY <2>9, <3>1 DEF T
    <2> QED  BY <2>1, <2>9, <2>10 DEF h
  <1> QED  BY <1>2, <1>3

\* The parts of a packet, what comes before each of them and what comes behind it.
LEMMA Pieces ==
    ASSUME NEW n \in Nat, NEW c \in [1 .. n -> Cells]
    PROVE  \E f \in [0 .. n -> Cells], r \in [0 .. n -> Cells] :
              /\ f[0] = <<>> /\ r[0] = FlattenSeq(c) /\ r[n] = <<>>
              /\ \A i \in 1 .. n : f[i] = f[i - 1] \o c[i] /\ r[i - 1] = c[i] \o r[i]
              /\ \A i \in 0 .. n : FlattenSeq(c) = f[i] \o r[i]
  <1>1. PICK f \in [0 .. n -> Cells] :
            f[0] = <<>> /\ \A i \in 1 .. n : f[i] = f[i - 1] \o c[i]
    BY PartsExist
  <1>2. FlattenSeq(c) = f[n]
    BY <1>1, Flattened
  <1> DEFINE T == {k \in Nat : k <= n => \E t \in Cells : f[n] = f[n - k] \o t}
             r == [i \in 0 .. n |-> After(f[n], Len(f[i]))]
  <1>3. 0 \in T
    <2>1. <<>> \in Cells /\ n - 0 = n /\ n \in 0 .. n
      BY DEF Cells
    <2>2. f[n] \o <<>> = f[n]
      BY <2>1, ConcatEmptySeq DEF Cells
    <2> QED  BY <2>1, <2>2
  <1>4. ASSUME NEW k \in 0 .. n - 1, k \in T
        PROVE  k + 1 \in T
    <2>1. /\ n - k \in 1 .. n /\ n - (k + 1) = (n - k) - 1 /\ k <= n /\ k + 1 \in Nat
          /\ (n - k) - 1 \in 0 .. n /\ n - k \in 0 .. n
      OBVIOUS
    <2>2. PICK t \in Cells : f[n] = f[n - k] \o t
      BY <1>4, <2>1
    <2>3. f[n - k] = f[(n - k) - 1] \o c[n - k]
      BY <1>1, <2>1
    <2>4. c[n - k] \o t \in Cells
      BY <2>1, AfterConcat
    <2>5. f[n] = f[(n - k) - 1] \o (c[n - k] \o t)
      <3>1. f[(n - k) - 1] \in Cells /\ c[n - k] \in Cells
        BY <2>1
      <3>2. (f[(n - k) - 1] \o c[n - k]) \o t = f[(n - k) - 1] \o (c[n - k] \o t)
        BY <3>1, Associative
      <3> QED  BY <2>2, <2>3, <3>2
    <2> QED  BY <2>1, <2>4, <2>5
  <1> HIDE DEF T
  <1>5. \A k \in 0 .. n : k \in T
    BY <1>3, <1>4, UpToN
  <1>6. ASSUME NEW i \in 0 .. n
        PROVE  r[i] \in Cells /\ f[n] = f[i] \o r[i]
    <2>1. n - i \in 0 .. n /\ n - (n - i) = i /\ n - i <= n
      OBVIOUS
    <2>2. n - i \in T
      BY <1>5, <2>1
    <2>3. PICK t \in Cells : f[n] = f[i] \o t
      BY <2>1, <2>2 DEF T
    <2>4. After(f[i] \o t, Len(f[i])) = t
      BY AfterConcat
    <2> QED  BY <2>3, <2>4
  <1> HIDE DEF r
  <1>7. ASSUME NEW i \in 1 .. n
        PROVE  r[i - 1] = c[i] \o r[i]
    <2>1. i - 1 \in 0 .. n /\ i \in 0 .. n
      OBVIOUS
    <2>2. f[n] = (f[i - 1] \o c[i]) \o r[i] /\ r[i] \in Cells /\ f[i - 1] \in Cells
      BY <1>1, <1>6, <2>1
    <2>3. f[n] = f[i - 1] \o (c[i] \o r[i]) /\ c[i] \o r[i] \in Cells
      <3>1. c[i] \in Cells
        OBVIOUS
      <3>2. (f[i - 1] \o c[i]) \o r[i] = f[i - 1] \o (c[i] \o r[i])
        BY <2>2, <3>1, Associative
      <3>3. c[i] \o r[i] \in Cells
        BY <2>2, <3>1, AfterConcat
      <3> QED  BY <2>2, <3>2, <3>3
    <2>4. After(f[i - 1] \o (c[i] \o r[i]), Len(f[i - 1])) = c[i] \o r[i]
      BY <2>2, <2>3, AfterConcat
    <2> QED  BY <2>1, <2>3, <2>4 DEF r
  <1>8. r \in [0 .. n -> Cells]
    BY <1>6 DEF r
  <1>9. r[0] = f[n]
    <2>1. 0 \in 0 .. n /\ n \in 0 .. n
      OBVIOUS
    <2>2. f[n] = <<>> \o r[0] /\ r[0] \in Cells
      BY <1>1, <1>6, <2>1
    <2> QED  BY <2>2, ConcatEmptySeq DEF Cells
  <1>10. r[n] = <<>>
    <2>1. n \in 0 .. n
      OBVIOUS
    <2>2. f[n] \in Cells /\ <<>> \in Cells
      BY <2>1 DEF Cells
    <2>3. After(f[n] \o <<>>, Len(f[n])) = <<>>
      BY <2>2, AfterConcat
    <2>4. f[n] \o <<>> = f[n]
      BY <2>2, ConcatEmptySeq DEF Cells
    <2> QED  BY <2>1, <2>3, <2>4 DEF r
  <1> QED  BY <1>1, <1>2, <1>6, <1>7, <1>8, <1>9, <1>10

\* Only what comes behind each part.
LEMMA Rests ==
    ASSUME NEW n \in Nat, NEW c \in [1 .. n -> Cells]
    PROVE  \E r \in [0 .. n -> Cells] :
              /\ r[0] = FlattenSeq(c) /\ r[n] = <<>>
              /\ \A i \in 1 .. n : r[i - 1] = c[i] \o r[i]
  <1>1. \E f \in [0 .. n -> Cells], r \in [0 .. n -> Cells] :
              /\ f[0] = <<>> /\ r[0] = FlattenSeq(c) /\ r[n] = <<>>
              /\ \A i \in 1 .. n : f[i] = f[i - 1] \o c[i] /\ r[i - 1] = c[i] \o r[i]
              /\ \A i \in 0 .. n : FlattenSeq(c) = f[i] \o r[i]
    BY Pieces
  <1>2. PICK r \in [0 .. n -> Cells] :
              /\ r[0] = FlattenSeq(c) /\ r[n] = <<>>
              /\ \A i \in 1 .. n : r[i - 1] = c[i] \o r[i]
    BY <1>1
  <1> QED  BY <1>2

-----------------------------------------------------------------------------
(* Calls of plugins and lists of rooms *)

\* What is left of a call after each of its parameters.
LEMMA ParamsRead ==
    ASSUME NEW n \in Nat, NEW p \in [1 .. n -> Cells], \A i \in 1 .. n : Len(p[i]) < W16,
           NEW c \in [1 .. n -> Cells], \A i \in 1 .. n : c[i] = Written(p[i], W16)
    PROVE  \E r \in [0 .. n -> Cells] :
              /\ r[0] = FlattenSeq(c)
              /\ \A i \in 1 .. n : ReadString(r[i - 1]) = p[i] /\ AfterString(r[i - 1]) = r[i]
  <1>1. W16 \in Nat
    BY CodecAssumption
  <1>2. PICK r \in [0 .. n -> Cells] :
            /\ r[0] = FlattenSeq(c) /\ r[n] = <<>>
            /\ \A i \in 1 .. n : r[i - 1] = c[i] \o r[i]
    BY Rests
  <1>3. ASSUME NEW i \in 1 .. n
        PROVE  ReadString(r[i - 1]) = p[i] /\ AfterString(r[i - 1]) = r[i]
    <2>1. p[i] \in Cells /\ r[i] \in Cells /\ Len(p[i]) < W16
      OBVIOUS
    <2>2. r[i - 1] = Written(p[i], W16) \o r[i]
      BY <1>2
    <2>3. /\ ReadString(Written(p[i], W16) \o r[i]) = p[i]
          /\ AfterString(Written(p[i], W16) \o r[i]) = r[i]
      BY <1>1, <2>1, TextRead
    <2> QED  BY <2>2, <2>3
  <1> QED  BY <1>2, <1>3

\* The reader has that left, parameter by parameter.
LEMMA LeftIs ==
    ASSUME NEW n \in Nat, NEW r, \A i \in 1 .. n : AfterString(r[i - 1]) = r[i],
           NEW h, h[0] = r[0], \A i \in 1 .. n : h[i] = AfterString(h[i - 1])
    PROVE  \A i \in 0 .. n : h[i] = r[i]
  <1> DEFINE T == {i \in 0 .. n : h[i] = r[i]}
  <1>1. 0 \in T
    OBVIOUS
  <1>2. ASSUME NEW i \in 0 .. n - 1, i \in T
        PROVE  i + 1 \in T
    <2>1. i + 1 \in 0 .. n /\ i + 1 \in 1 .. n /\ (i + 1) - 1 = i
      OBVIOUS
    <2>2. h[i + 1] = AfterString(h[i]) /\ r[i + 1] = AfterString(r[i])
      BY <2>1
    <2>3. h[i] = r[i]
      BY <1>2
    <2> QED  BY <2>1, <2>2, <2>3
  <1> HIDE DEF T
  <1>3. \A i \in 0 .. n : i \in T
    BY <1>1, <1>2, UpToN
  <1> QED  BY <1>3 DEF T

\* A call is read as it was written.
LEMMA PluginCells ==
    ASSUME NEW id \in Nat, NEW name \in Cells, NEW func \in Cells,
           Len(name) < W16, Len(func) < W16,
           NEW n \in Nat, n < W16, NEW p \in [1 .. n -> Cells],
           \A i \in 1 .. n : Len(p[i]) < W16
    PROVE  UnmarshalPlugin(MarshalPlugin([id |-> id, name |-> name, func |-> func,
                                          params |-> p]))
             = [id |-> id, name |-> name, func |-> func, params |-> p]
  <1> DEFINE c == [i \in 1 .. n |-> Written(p[i], W16)]
             F == FlattenSeq(c)
             v == [id |-> id, name |-> name, func |-> func, params |-> p]
             d == <<n>> \o F
             e == Written(func, W16) \o d
             g == Written(name, W16) \o e
             x == <<id>> \o g
  <1>1. W16 \in Nat \ {0}
    BY CodecAssumption
  <1>2. Len(p) = n /\ n % W16 = n /\ DOMAIN p = 1 .. n
    BY <1>1
  <1>2a. c \in [1 .. n -> Cells] /\ \A i \in 1 .. n : c[i] = Written(p[i], W16)
    <2>1. \A i \in 1 .. n : Written(p[i], W16) \in Cells
      <3> TAKE i \in 1 .. n
      <3>1. p[i] \in Cells /\ Len(p[i]) < W16 /\ <<>> \in Cells
        BY DEF Cells
      <3> QED  BY <1>1, <3>1, TextRead
    <2> QED  BY <2>1
  <1>3. F \in Cells
    <2> HIDE DEF c
    <2>1. PICK r \in [0 .. n -> Cells] :
              /\ r[0] = FlattenSeq(c) /\ r[n] = <<>>
              /\ \A i \in 1 .. n : r[i - 1] = c[i] \o r[i]
      BY <1>2a, Rests
    <2>2. 0 \in 0 .. n
      OBVIOUS
    <2> QED  BY <2>1, <2>2
  <1>4. MarshalPlugin(v) = <<id>> \o Written(name, W16) \o Written(func, W16) \o <<n>> \o F
    BY <1>2 DEF MarshalPlugin
  <1> HIDE DEF F, v, c
  <1>5. d \in Cells /\ Field(d) = n /\ After(d, 1) = F /\ <<n>> \in Cells
    BY <1>3, OneField, Tuples
  <1> HIDE DEF d
  <1>6. /\ Written(func, W16) \in Cells /\ e \in Cells
        /\ ReadString(e) = func /\ AfterString(e) = d
    <2>1. Written(func, W16) \in Cells /\ ReadString(e) = func /\ AfterString(e) = d
      BY <1>1, <1>5, TextRead
    <2> QED  BY <1>5, <2>1, AfterConcat
  <1> HIDE DEF e
  <1>7. /\ Written(name, W16) \in Cells /\ g \in Cells
        /\ ReadString(g) = name /\ AfterString(g) = e
    <2>1. Written(name, W16) \in Cells /\ ReadString(g) = name /\ AfterString(g) = e
      BY <1>1, <1>6, TextRead
    <2> QED  BY <1>6, <2>1, AfterConcat
  <1> HIDE DEF g
  <1>8. Field(x) = id /\ After(x, 1) = g /\ <<id>> \in Cells
    BY <1>7, OneField, Tuples
  <1>9. MarshalPlugin(v) = x
    <2> DEFINE a == <<id>>
               b == Written(name, W16)
               u == Written(func, W16)
               w == <<n>>
    <2>1. a \in Cells /\ b \in Cells /\ u \in Cells /\ w \in Cells
      BY <1>5, <1>6, <1>7, <1>8
    <2> DEFINE ab == a \o b
               abu == ab \o u
    <2>2. MarshalPlugin(v) = (abu \o w) \o F
      BY <1>4
    <2>3. d = w \o F /\ e = u \o d /\ g = b \o e /\ x = a \o g
      BY DEF d, e, g
    <2> HIDE DEF a, b, u, w, x
    <2>4. ab \in Cells /\ ab \o e = a \o (b \o e)
      <3>1. a \o b \in Cells
        BY <2>1, AfterConcat
      <3>2. a \in Cells /\ b \in Cells /\ e \in Cells
        BY <1>6, <2>1
      <3>3. (a \o b) \o e = a \o (b \o e)
        BY <3>2, Associative
      <3> QED  BY <3>1, <3>3
    <2> HIDE DEF ab
    <2>5. abu \in Cells /\ abu \o d = ab \o (u \o d)
      <3>1. ab \o u \in Cells
        BY <2>1, <2>4, AfterConcat
      <3>2. ab \in Cells /\ u \in Cells /\ d \in Cells
        BY <1>5, <2>1, <2>4
      <3>3. (ab \o u) \o d = ab \o (u \o d)
        BY <3>2, Associative
      <3> QED  BY <3>1, <3>3
    <2> HIDE DEF abu
    <2>6. (abu \o w) \o F = abu \o (w \o F)
      BY <1>3, <2>1, <2>5, Associative
    <2> QED  BY <2>2, <2>3, <2>4, <2>5, <2>6
  <1> HIDE DEF x
  <1> DEFINE y == AfterString(AfterString(After(x, 1)))
             G(f) == [i \in 0 .. Field(y) |-> IF i = 0 THEN After(y, 1)
                                             ELSE AfterString(f[i - 1])]
             left == CHOOSE f : f = G(f)
             params == [i \in 1 .. Field(y) |-> ReadString(left[i - 1])]
  <1>10. UnmarshalPlugin(x) =
            [id |-> Field(x), name |-> ReadString(After(x, 1)),
             func |-> ReadString(AfterString(After(x, 1))), params |-> params]
    BY DEF UnmarshalPlugin
  <1> HIDE DEF params, left
  <1>11. y = d
    BY <1>6, <1>7, <1>8
  <1> HIDE DEF y
  <1>12. params = p
    <2>1. Field(y) = n /\ After(y, 1) = FlattenSeq(c)
      BY <1>5, <1>11 DEF F
    <2>2. PICK r \in [0 .. n -> Cells] :
              /\ r[0] = FlattenSeq(c)
              /\ \A i \in 1 .. n : ReadString(r[i - 1]) = p[i] /\ AfterString(r[i - 1]) = r[i]
      BY <1>2a, ParamsRead
    <2>3. r = G(r)
      <3>1. ASSUME NEW i \in 0 .. n
            PROVE  r[i] = IF i = 0 THEN After(y, 1) ELSE AfterString(r[i - 1])
        <4>1. CASE i = 0
          BY <2>1, <2>2, <4>1
        <4>2. CASE i # 0
          <5>1. i \in 1 .. n
            BY <4>2
          <5> QED  BY <2>2, <4>2, <5>1
        <4> QED  BY <4>1, <4>2
      <3> QED  BY <2>1, <3>1
    <2>4. left = G(left)
      <3>1. \E f : f = G(f)
        BY <2>3
      <3> HIDE DEF G
      <3> QED  BY <3>1 DEF left
    <2>5. left[0] = r[0]
      <3>1. 0 \in 0 .. Field(y)
        BY <2>1
      <3>2. left[0] = After(y, 1)
        BY <2>4, <3>1
      <3> QED  BY <2>1, <2>2, <3>2
    <2>6. ASSUME NEW i \in 1 .. n
          PROVE  left[i] = AfterString(left[i - 1])
      <3>1. i \in 0 .. Field(y) /\ i # 0
        BY <2>1
      <3> QED  BY <2>4, <3>1
    <2>7. \A i \in 0 .. n : left[i] = r[i]
      BY <2>2, <2>5, <2>6, LeftIs, ZenonT(60)
    <2>8. ASSUME NEW i \in 1 .. n
          PROVE  ReadString(left[i - 1]) = p[i]
      <3>1. i - 1 \in 0 .. n
        OBVIOUS
      <3> QED  BY <2>2, <2>7, <3>1
    <2>9. [i \in 1 .. Field(y) |-> ReadString(left[i - 1])] = p
      BY <2>1, <2>8
    <2> QED  BY <2>9 DEF params
  <1>13. UnmarshalPlugin(x) = v
    BY <1>6, <1>7, <1>8, <1>10, <1>12 DEF v
  <1> QED  BY <1>9, <1>13 DEF v

LEMMA PluginTrip ==
    ASSUME NEW v \in Items("plugin"), Fits("plugin", v)
    PROVE  UnmarshalPlugin(MarshalPlugin(v)) = v
  <1>1. v \in [id : Numbers, name : Texts(Plain), func : Texts(Plain),
               params : UNION {[1 .. n -> Texts(Plain)] : n \in 0 .. MaxTexts}]
    BY DEF Items
  <1>2. /\ \A text \in {v.name, v.func} \cup Range(v.params) : Len(text) < W16
        /\ Len(v.params) < W16
    BY DEF Fits
  <1>3. /\ v.id \in Nat /\ v.name \in Cells /\ v.func \in Cells
        /\ Len(v.name) < W16 /\ Len(v.func) < W16
    BY <1>1, <1>2, Characters, TextCells
  <1>4. PICK n \in 0 .. MaxTexts : v.params \in [1 .. n -> Texts(Plain)]
    BY <1>1
  <1>5. n \in Nat /\ Len(v.params) = n /\ DOMAIN v.params = 1 .. n
    BY <1>4, CodecAssumption
  <1>6. v.params \in [1 .. n -> Cells]
    <2>1. \A text \in Texts(Plain) : text \in Cells
      BY Characters, TextCells
    <2> QED  BY <1>4, <2>1
  <1>7. \A i \in 1 .. n : Len(v.params[i]) < W16
    BY <1>2, <1>5 DEF Range
  <1>8. v = [id |-> v.id, name |-> v.name, func |-> v.func, params |-> v.params]
    BY <1>1
  <1>9. \A id, name, func, p :
            /\ id \in Nat /\ name \in Cells /\ func \in Cells
            /\ Len(name) < W16 /\ Len(func) < W16
            /\ p \in [1 .. n -> Cells] /\ \A i \in 1 .. n : Len(p[i]) < W16
            => LET w == [id |-> id, name |-> name, func |-> func, params |-> p]
               IN  UnmarshalPlugin(MarshalPlugin(w)) = w
    BY <1>2, <1>5, PluginCells
  <1> HIDE DEF UnmarshalPlugin, MarshalPlugin
  <1> QED  BY <1>2, <1>3, <1>5, <1>6, <1>7, <1>8, <1>9

\* A part of a packet by its place.
LEMMA PartAt ==
    ASSUME NEW g \in Cells, NEW c \in Cells, NEW t \in Cells, NEW k \in Nat,
           Len(g) = k - 1, Len(c) = 2
    PROVE  SubSeq(g \o (c \o t), k, k + 1) = c
  <1> DEFINE u == c \o t
             d == g \o u
             a == SubSeq(d, k, k + 1)
  <1>1. u \in Cells /\ Len(u) = 2 + Len(t) /\ Len(t) \in Nat /\ Len(g) \in Nat
    <2>1. Len(t) \in Nat /\ Len(g) \in Nat
      BY DEF Cells
    <2>2. u \in Cells /\ Len(u) = Len(c) + Len(t)
      BY AfterConcat
    <2> QED  BY <2>1, <2>2
  <1>2. u[1] = c[1] /\ u[2] = c[2]
    <2>1. 1 \in 1 .. Len(c) /\ 2 \in 1 .. Len(c)
      OBVIOUS
    <2> QED  BY <2>1, CellOf
  <1> HIDE DEF u
  <1>3. d \in Cells /\ Len(d) = Len(g) + Len(u)
    BY <1>1, AfterConcat
  <1>4. d[Len(g) + 1] = u[1] /\ d[Len(g) + 2] = u[2]
    <2>1. 1 \in 1 .. Len(u) /\ 2 \in 1 .. Len(u)
      BY <1>1
    <2> QED  BY <1>1, <2>1, CellOf
  <1> HIDE DEF d
  <1>5. d[k] = c[1] /\ d[k + 1] = c[2]
    <2>1. Len(g) + 1 = k /\ Len(g) + 2 = k + 1
      OBVIOUS
    <2> QED  BY <1>2, <1>4, <2>1
  <1>6. k \in 1 .. Len(d) /\ k + 1 \in 1 .. Len(d)
    BY <1>1, <1>3
  <1>7. /\ a \in Seq(Nat) /\ Len(a) = (k + 1) - k + 1
        /\ \A i \in 1 .. (k + 1) - k + 1 : a[i] = d[k + i - 1]
    <2>1. k \in Int /\ k + 1 \in Int /\ k <= k + 1
      OBVIOUS
    <2>2. \A i \in k .. k + 1 : i \in 1 .. Len(d)
      BY <1>6
    <2>3. \A i \in k .. k + 1 : d[i] \in Nat
      BY <1>3, <2>2, ElementOfSeq DEF Cells
    <2> QED  BY <2>1, <2>3, SubSeqProperties
  <1> HIDE DEF a
  <1>8. Len(a) = 2 /\ a[1] = d[k] /\ a[2] = d[k + 1]
    <2>1. (k + 1) - k + 1 = 2 /\ k + 1 - 1 = k /\ k + 2 - 1 = k + 1
      OBVIOUS
    <2>2. 1 \in 1 .. 2 /\ 2 \in 1 .. 2
      OBVIOUS
    <2> QED  BY <1>7, <2>1, <2>2
  <1>9. \A i \in 1 .. Len(a) : a[i] = c[i]
    BY <1>5, <1>8
  <1>10. c \in Seq(Nat) /\ Len(c) = Len(a)
    BY <1>8 DEF Cells
  <1>11. a = c
    BY <1>7, <1>9, <1>10, SeqEqual
  <1> QED  BY <1>11 DEF a, d, u

\* Half of a number.
LEMMA HalfOf ==
    ASSUME NEW n \in Nat
    PROVE  (1 + 2 * n) % 2 = 1 /\ (1 + 2 * n) \div 2 = n
  OBVIOUS

\* The rooms of a list are read as they were written.
LEMMA RoomsCells ==
    ASSUME NEW id \in Nat, NEW n \in Nat, NEW c \in [1 .. n -> Cells],
           \A i \in 1 .. n : Len(c[i]) = 2
    PROVE  UnmarshalRooms(<<id>> \o FlattenSeq(c)) = [id |-> id, rooms |-> c]
  <1> DEFINE F == FlattenSeq(c)
             d == <<id>> \o F
  <1>1. PICK f \in [0 .. n -> Cells], r \in [0 .. n -> Cells] :
              /\ f[0] = <<>> /\ r[0] = F /\ r[n] = <<>>
              /\ \A i \in 1 .. n : f[i] = f[i - 1] \o c[i] /\ r[i - 1] = c[i] \o r[i]
              /\ \A i \in 0 .. n : F = f[i] \o r[i]
    BY Pieces
  <1> HIDE DEF F
  <1>2. F = f[n] /\ F \in Cells
    <2>1. n \in 0 .. n /\ 0 \in 0 .. n
      OBVIOUS
    <2>2. F = f[n] \o <<>> /\ f[n] \in Cells
      BY <1>1, <2>1
    <2> QED  BY <2>2, ConcatEmptySeq DEF Cells
  <1> DEFINE T == {k \in 0 .. n : Len(f[k]) = 2 * k}
  <1>3. 0 \in T
    BY <1>1
  <1>4. ASSUME NEW k \in 0 .. n - 1, k \in T
        PROVE  k + 1 \in T
    <2>1. k + 1 \in 1 .. n /\ (k + 1) - 1 = k /\ k \in 0 .. n /\ k + 1 \in 0 .. n
          /\ 2 * (k + 1) = 2 * k + 2
      OBVIOUS
    <2>2. f[k] \in Cells /\ c[k + 1] \in Cells /\ Len(c[k + 1]) = 2
      BY <2>1
    <2>3. f[k + 1] = f[k] \o c[k + 1]
      BY <1>1, <2>1
    <2>4. Len(f[k] \o c[k + 1]) = Len(f[k]) + Len(c[k + 1])
      BY <2>2, AfterConcat
    <2>5. Len(f[k]) = 2 * k
      BY <1>4
    <2> QED  BY <2>1, <2>2, <2>3, <2>4, <2>5
  <1>5. \A k \in 0 .. n : Len(f[k]) = 2 * k
    <2> HIDE DEF T
    <2>1. \A k \in 0 .. n : k \in T
      BY <1>3, <1>4, UpToN
    <2> QED  BY <2>1 DEF T
  <1>6. d \in Cells /\ Len(d) = 1 + 2 * n /\ Field(d) = id
    <2>1. Len(F) = 2 * n
      <3>1. n \in 0 .. n
        OBVIOUS
      <3> QED  BY <1>2, <1>5, <3>1
    <2> QED  BY <1>2, <2>1, OneField
  <1>7. ASSUME NEW i \in 1 .. n
        PROVE  SubSeq(d, 2 * i, 2 * i + 1) = c[i]
    <2> DEFINE h == <<id>>
               g == h \o f[i - 1]
    <2>1. i - 1 \in 0 .. n /\ i \in 0 .. n /\ 2 * i \in Nat
          /\ 1 + 2 * (i - 1) = 2 * i - 1
      OBVIOUS
    <2>2. f[i - 1] \in Cells /\ r[i] \in Cells /\ c[i] \in Cells /\ Len(c[i]) = 2
          /\ r[i - 1] \in Cells
      BY <2>1
    <2>3. F = f[i - 1] \o r[i - 1] /\ r[i - 1] = c[i] \o r[i]
      BY <1>1, <2>1
    <2>4. h \in Cells /\ Len(h) = 1
      BY Tuples
    <2>5. d = h \o F
      OBVIOUS
    <2> HIDE DEF h, d
    <2>6. (h \o f[i - 1]) \o r[i - 1] = h \o (f[i - 1] \o r[i - 1])
      <3>1. h \in Cells /\ f[i - 1] \in Cells /\ r[i - 1] \in Cells
        BY <2>2, <2>4
      <3> QED  BY <3>1, Associative
    <2>7. d = g \o (c[i] \o r[i])
      BY <2>3, <2>5, <2>6
    <2>8. g \in Cells /\ Len(g) = Len(h) + Len(f[i - 1])
      BY <2>2, <2>4, AfterConcat
    <2>9. Len(g) = 2 * i - 1
      <3>1. Len(f[i - 1]) = 2 * (i - 1)
        BY <1>5, <2>1
      <3> QED  BY <2>1, <2>4, <2>8, <3>1
    <2> HIDE DEF g
    <2>10. SubSeq(g \o (c[i] \o r[i]), 2 * i, 2 * i + 1) = c[i]
      BY <2>1, <2>2, <2>8, <2>9, PartAt, ZenonT(60)
    <2> QED  BY <2>7, <2>10
  <1> HIDE DEF d
  <1>8. Len(d) % 2 # 0 /\ Len(d) \div 2 = n
    BY <1>6, HalfOf
  <1>9. UnmarshalRooms(d) =
          [id |-> Field(d), rooms |-> [i \in 1 .. n |-> SubSeq(d, 2 * i, 2 * i + 1)]]
    BY <1>8 DEF UnmarshalRooms
  <1>10. [i \in 1 .. n |-> SubSeq(d, 2 * i, 2 * i + 1)] = c
    BY <1>7
  <1> QED  BY <1>6, <1>9, <1>10 DEF d, F

LEMMA RoomsTrip ==
    ASSUME NEW v \in Items("rooms")
    PROVE  UnmarshalRooms(MarshalRooms(v)) = v
  <1>1. v \in [id : Numbers,
               rooms : UNION {[1 .. n -> Numbers \X Numbers] : n \in 0 .. MaxTexts}]
    BY DEF Items
  <1>2. v.id \in Nat
    BY <1>1, Characters
  <1>3. PICK n \in 0 .. MaxTexts : v.rooms \in [1 .. n -> Numbers \X Numbers]
    BY <1>1
  <1>4. n \in Nat
    BY <1>3, CodecAssumption
  <1>5. \A x \in Numbers \X Numbers : x \in Cells /\ Len(x) = 2
    <2> TAKE x \in Numbers \X Numbers
    <2>1. PICK a \in Numbers, b \in Numbers : x = <<a, b>>
      OBVIOUS
    <2>2. a \in Nat /\ b \in Nat
      BY Characters
    <2> QED  BY <2>1, <2>2, Tuples
  <1>6. v.rooms \in [1 .. n -> Cells] /\ \A i \in 1 .. n : Len(v.rooms[i]) = 2
    BY <1>3, <1>5
  <1>7. \A id \in Nat : \A c \in [1 .. n -> Cells] :
            (\A i \in 1 .. n : Len(c[i]) = 2)
            => UnmarshalRooms(<<id>> \o FlattenSeq(c)) = [id |-> id, rooms |-> c]
    BY <1>4, RoomsCells
  <1> HIDE DEF UnmarshalRooms
  <1>8. UnmarshalRooms(<<v.id>> \o FlattenSeq(v.rooms)) = [id |-> v.id, rooms |-> v.rooms]
    BY <1>2, <1>6, <1>7
  <1> QED  BY <1>1, <1>8 DEF MarshalRooms

-----------------------------------------------------------------------------
(* Texts with separators between them *)

\* As many elements are there when all are moved.
LEMMA Moved ==
    ASSUME NEW S, S \subseteq Nat, IsFiniteSet(S), NEW m \in Nat
    PROVE  LET V == {m + i : i \in S}
           IN  IsFiniteSet(V) /\ Cardinality(V) = Cardinality(S)
  <1> DEFINE V == {m + i : i \in S}
             f == [i \in S |-> m + i]
  <1>1. f \in [S -> V]
    OBVIOUS
  <1>2. ASSUME NEW a \in S, NEW b \in S, f[a] = f[b]
        PROVE  a = b
    <2>1. a \in Nat /\ b \in Nat /\ m + a = m + b
      BY <1>2
    <2> QED  BY <2>1
  <1>3. \A v \in V : \E i \in S : f[i] = v
    OBVIOUS
  <1>4. DOMAIN f = S
    OBVIOUS
  <1> HIDE DEF f, V
  <1>5. f \in Bijection(S, V)
    BY <1>1, <1>2, <1>3, <1>4 DEF Bijection, Injection, Surjection, IsInjective
  <1>6. ExistsBijection(S, V)
    BY <1>5 DEF ExistsBijection
  <1>7. IsFiniteSet(V) /\ Cardinality(V) = Cardinality(S)
    BY <1>6, FS_Bijection
  <1> QED  BY <1>7 DEF V

\* How many separators there are in a text without one, and in one more part.
LEMMA NoSeparator ==
    ASSUME NEW s \in Cells, NEW c, \A i \in 1 .. Len(s) : s[i] # c
    PROVE  Cardinality({i \in DOMAIN s : s[i] = c}) = 0
  <1>1. DOMAIN s = 1 .. Len(s)
    BY DEF Cells
  <1>2. {i \in DOMAIN s : s[i] = c} = {}
    BY <1>1
  <1> QED  BY <1>2, FS_EmptySet

LEMMA SeparatorsFinite ==
    ASSUME NEW s \in Cells, NEW c
    PROVE  /\ {i \in DOMAIN s : s[i] = c} \subseteq Nat
           /\ IsFiniteSet({i \in DOMAIN s : s[i] = c})
  <1>1. DOMAIN s = 1 .. Len(s) /\ Len(s) \in Nat
    BY DEF Cells
  <1>2. IsFiniteSet(1 .. Len(s))
    BY <1>1, FS_Interval
  <1>3. {i \in DOMAIN s : s[i] = c} \in SUBSET (1 .. Len(s))
    BY <1>1
  <1>4. IsFiniteSet({i \in DOMAIN s : s[i] = c})
    BY <1>2, <1>3, FS_Subset
  <1> QED  BY <1>1, <1>3, <1>4

LEMMA OneSeparator ==
    ASSUME NEW s \in Cells, NEW c \in Nat, NEW t \in Cells,
           \A i \in 1 .. Len(s) : s[i] # c
    PROVE  Cardinality({i \in DOMAIN (s \o (<<c>> \o t)) : (s \o (<<c>> \o t))[i] = c})
             = Cardinality({i \in DOMAIN t : t[i] = c}) + 1
  <1> DEFINE x == <<c>>
             u == x \o t
             d == s \o u
             m == Len(s) + 1
             S == {i \in DOMAIN t : t[i] = c}
             V == {m + i : i \in S}
             U == {i \in DOMAIN d : d[i] = c}
  <1>1. x \in Cells /\ Len(x) = 1 /\ x[1] = c
    BY Tuples
  <1> HIDE DEF x
  <1>2. u \in Cells /\ Len(u) = 1 + Len(t) /\ u[1] = c
        /\ \A j \in 1 .. Len(t) : u[1 + j] = t[j]
    <2>1. u \in Cells /\ Len(u) = Len(x) + Len(t)
      BY <1>1, AfterConcat
    <2>2. u[1] = x[1]
      <3>1. 1 \in 1 .. Len(x)
        BY <1>1
      <3> QED  BY <1>1, <3>1, CellOf
    <2>3. \A j \in 1 .. Len(t) : u[Len(x) + j] = t[j]
      BY <1>1, CellOf
    <2> QED  BY <1>1, <2>1, <2>2, <2>3
  <1> HIDE DEF u
  <1>3. d \in Cells /\ Len(d) = Len(s) + Len(u)
    BY <1>2, AfterConcat
  <1>4. /\ \A i \in 1 .. Len(s) : d[i] = s[i]
        /\ \A j \in 1 .. Len(u) : d[Len(s) + j] = u[j]
    BY <1>2, CellOf
  <1>5. /\ DOMAIN d = 1 .. Len(d) /\ DOMAIN t = 1 .. Len(t)
        /\ Len(s) \in Nat /\ Len(t) \in Nat
    BY <1>3 DEF Cells
  <1> HIDE DEF d
  <1>6. m \in Nat /\ m \in 1 .. Len(d) /\ d[m] = c
    <2>1. 1 \in 1 .. Len(u)
      BY <1>2, <1>5
    <2>2. d[Len(s) + 1] = u[1]
      BY <1>4, <2>1
    <2>3. Len(s) + 1 \in 1 .. Len(s) + Len(u)
      BY <1>2, <1>5
    <2> QED  BY <1>2, <1>3, <1>5, <2>2, <2>3
  <1>7. \A j \in 1 .. Len(t) : m + j \in 1 .. Len(d) /\ d[m + j] = t[j]
    <2> TAKE j \in 1 .. Len(t)
    <2>1. 1 + j \in 1 .. 1 + Len(t) /\ m + j = Len(s) + (1 + j)
      BY <1>5
    <2>2. m + j \in 1 .. Len(s) + (1 + Len(t))
      BY <1>5
    <2>3. d[Len(s) + (1 + j)] = u[1 + j]
      BY <1>2, <1>4, <2>1
    <2> QED  BY <1>2, <1>3, <2>1, <2>2, <2>3
  <1>8. \A i \in 1 .. Len(d) : d[i] = c => i = m \/ \E j \in 1 .. Len(t) : i = m + j
    <2> TAKE i \in 1 .. Len(d)
    <2>1. CASE i <= Len(s)
      <3>1. i \in 1 .. Len(s)
        BY <1>5, <2>1
      <3> QED  BY <1>4, <3>1
    <2>2. CASE i = m
      BY <2>2
    <2>3. CASE i > m
      <3>1. i - m \in 1 .. Len(t) /\ i = m + (i - m)
        BY <1>2, <1>3, <1>5, <2>3
      <3> QED  BY <3>1
    <2>4. i <= Len(s) \/ i = m \/ i > m
      BY <1>5
    <2> QED  BY <2>1, <2>2, <2>3, <2>4
  <1>9. U = V \cup {m}
    <2>1. V \cup {m} \subseteq U
      BY <1>5, <1>6, <1>7
    <2>2. U \subseteq V \cup {m}
      <3> SUFFICES ASSUME NEW i \in 1 .. Len(d), d[i] = c, i # m
                   PROVE  i \in V
        BY <1>5
      <3>1. PICK j \in 1 .. Len(t) : i = m + j
        BY <1>8
      <3>2. t[j] = c
        BY <1>7, <3>1
      <3> QED  BY <1>5, <3>1, <3>2
    <2> QED  BY <2>1, <2>2
  <1>10. m \notin V
    <2>1. \A i \in S : i \in Nat /\ i >= 1
      BY <1>5
    <2>2. \A i \in S : m + i # m
      BY <1>6, <2>1
    <2> QED  BY <2>2
  <1>11. S \subseteq Nat /\ IsFiniteSet(S)
    BY SeparatorsFinite
  <1> HIDE DEF S, m, U
  <1>12. IsFiniteSet(V) /\ Cardinality(V) = Cardinality(S)
    BY <1>6, <1>11, Moved
  <1> HIDE DEF V
  <1>13. Cardinality(V \cup {m}) = Cardinality(V) + 1
    BY <1>10, <1>12, FS_AddElement
  <1>14. Cardinality(U) = Cardinality(S) + 1
    BY <1>9, <1>12, <1>13
  <1> QED  BY <1>14 DEF U, S, d, u, x

\* A text that was put together of parts without separators is split into them.
LEMMA SplitIs ==
    ASSUME NEW n \in Nat, NEW p \in [1 .. n + 1 -> Cells], NEW L \in [0 .. n -> Cells],
           NEW sep \in Nat,
           \A i \in 1 .. n + 1 : \A j \in 1 .. Len(p[i]) : p[i][j] # sep,
           \A i \in 1 .. n : L[i - 1] = p[i] \o (<<sep>> \o L[i]),
           L[n] = p[n + 1]
    PROVE  Split(L[0], sep) = p
  <1> DEFINE Count(t) == Cardinality({i \in DOMAIN t : t[i] = sep})
             count == Count(L[0])
             G(f) == [i \in 0 .. count |-> IF i = 0 THEN L[0] ELSE Behind(f[i - 1], sep)]
             h == CHOOSE f : f = G(f)
             T == {k \in 0 .. n : Count(L[n - k]) = k}
             V == {k \in 0 .. n : h[k] = L[k]}
  <1>1. Split(L[0], sep) = [i \in 1 .. count + 1 |-> Before(h[i - 1], sep)]
    BY DEF Split
  <1>2. Count(L[n]) = 0
    <2>1. n + 1 \in 1 .. n + 1
      OBVIOUS
    <2>2. p[n + 1] \in Cells /\ \A j \in 1 .. Len(p[n + 1]) : p[n + 1][j] # sep
      BY <2>1
    <2> QED  BY <2>2, NoSeparator
  <1>3. ASSUME NEW i \in 1 .. n
        PROVE  /\ Count(L[i - 1]) = Count(L[i]) + 1
               /\ Before(L[i - 1], sep) = p[i]
               /\ Behind(L[i - 1], sep) = L[i]
    <2>1. i \in 1 .. n + 1 /\ i \in 0 .. n
      OBVIOUS
    <2>2. p[i] \in Cells /\ L[i] \in Cells /\ \A j \in 1 .. Len(p[i]) : p[i][j] # sep
      BY <2>1
    <2>3. L[i - 1] = p[i] \o (<<sep>> \o L[i])
      OBVIOUS
    <2>4. Count(p[i] \o (<<sep>> \o L[i])) = Count(L[i]) + 1
      BY <2>2, OneSeparator
    <2>5. /\ Before(p[i] \o (<<sep>> \o L[i]), sep) = p[i]
          /\ Behind(p[i] \o (<<sep>> \o L[i]), sep) = L[i]
      BY <2>2, IndexBehind
    <2> HIDE DEF Count
    <2> QED  BY <2>3, <2>4, <2>5
  <1> HIDE DEF Count
  <1>4. 0 \in T
    <2>1. n - 0 = n /\ 0 \in 0 .. n
      OBVIOUS
    <2> QED  BY <1>2, <2>1
  <1>5. ASSUME NEW k \in 0 .. n - 1, k \in T
        PROVE  k + 1 \in T
    <2>1. /\ n - k \in 1 .. n /\ n - (k + 1) = (n - k) - 1 /\ k + 1 \in 0 .. n
      OBVIOUS
    <2>2. Count(L[n - k]) = k
      BY <1>5
    <2>3. Count(L[(n - k) - 1]) = k + 1
      BY <1>3, <2>1, <2>2
    <2> QED  BY <2>1, <2>3
  <1>6. count = n
    <2> HIDE DEF T
    <2>1. \A k \in 0 .. n : k \in T
      BY <1>4, <1>5, UpToN
    <2>2. n \in T /\ n - n = 0
      BY <2>1
    <2> QED  BY <2>2 DEF T
  <1> HIDE DEF T, count
  <1>7. L = G(L)
    <2>1. ASSUME NEW i \in 0 .. n
          PROVE  L[i] = IF i = 0 THEN L[0] ELSE Behind(L[i - 1], sep)
      <3>1. CASE i # 0
        <4>1. i \in 1 .. n
          BY <3>1
        <4> QED  BY <1>3, <3>1, <4>1
      <3> QED  BY <3>1
    <2> QED  BY <1>6, <2>1
  <1>8. h = G(h)
    <2>1. \E f : f = G(f)
      BY <1>7
    <2> HIDE DEF G
    <2> QED  BY <2>1
  <1> HIDE DEF h
  <1>9. 0 \in V
    <2>1. 0 \in 0 .. n
      OBVIOUS
    <2>2. h[0] = L[0]
      BY <1>6, <1>8, <2>1
    <2> QED  BY <2>1, <2>2
  <1>10. ASSUME NEW k \in 0 .. n - 1, k \in V
         PROVE  k + 1 \in V
    <2>1. k + 1 \in 0 .. n /\ k + 1 \in 1 .. n /\ (k + 1) - 1 = k /\ k + 1 # 0
      OBVIOUS
    <2>2. h[k + 1] = Behind(h[k], sep)
      BY <1>6, <1>8, <2>1
    <2>3. L[k + 1] = Behind(L[k], sep)
      BY <1>3, <2>1
    <2>4. h[k] = L[k]
      BY <1>10
    <2> QED  BY <2>1, <2>2, <2>3, <2>4
  <1>11. \A k \in 0 .. n : h[k] = L[k]
    <2> HIDE DEF V
    <2>1. \A k \in 0 .. n : k \in V
      BY <1>9, <1>10, UpToN
    <2> QED  BY <2>1 DEF V
  <1>12. \A i \in 1 .. n + 1 : Before(h[i - 1], sep) = p[i]
    <2> TAKE i \in 1 .. n + 1
    <2>1. i - 1 \in 0 .. n
      OBVIOUS
    <2>2. h[i - 1] = L[i - 1]
      BY <1>11, <2>1
    <2>3. CASE i = n + 1
      <3>1. i - 1 = n /\ n + 1 \in 1 .. n + 1
        BY <2>3
      <3>2. p[n + 1] \in Cells /\ \A j \in 1 .. Len(p[n + 1]) : p[n + 1][j] # sep
        BY <3>1
      <3>3. Before(p[n + 1], sep) = p[n + 1]
        BY <3>2, IndexNone
      <3> QED  BY <2>2, <2>3, <3>1, <3>3
    <2>4. CASE i # n + 1
      <3>1. i \in 1 .. n
        BY <2>4
      <3> QED  BY <1>3, <2>2, <3>1
    <2> QED  BY <2>3, <2>4
  <1>13. [i \in 1 .. count + 1 |-> Before(h[i - 1], sep)] = p
    BY <1>6, <1>12
  <1> QED  BY <1>1, <1>13 DEF h, count

\* Three texts between commas are three parts.
LEMMA SplitThree ==
    ASSUME NEW a \in Cells, NEW b \in Cells, NEW t \in Cells, NEW sep \in Nat,
           \A i \in 1 .. Len(a) : a[i] # sep, \A i \in 1 .. Len(b) : b[i] # sep,
           \A i \in 1 .. Len(t) : t[i] # sep
    PROVE  Split(a \o (<<sep>> \o (b \o (<<sep>> \o t))), sep) = <<a, b, t>>
  <1> DEFINE x == <<sep>>
             l1 == b \o (x \o t)
             l0 == a \o (x \o l1)
             p == <<a, b, t>>
             L == [i \in 0 .. 2 |-> IF i = 0 THEN l0 ELSE IF i = 1 THEN l1 ELSE t]
  <1>1. x \in Cells
    BY Tuples
  <1>2. l1 \in Cells
    <2> HIDE DEF x
    <2>1. x \o t \in Cells
      BY <1>1, AfterConcat
    <2> QED  BY <2>1, AfterConcat
  <1>3. l0 \in Cells
    <2> HIDE DEF x, l1
    <2>1. x \o l1 \in Cells
      BY <1>1, <1>2, AfterConcat
    <2> QED  BY <2>1, AfterConcat
  <1>4. L[0] = l0 /\ L[1] = l1 /\ L[2] = t
    OBVIOUS
  <1>5. L \in [0 .. 2 -> Cells]
    <2> HIDE DEF l0, l1
    <2> QED  BY <1>2, <1>3
  <1>6. p \in [1 .. 2 + 1 -> Cells] /\ p[1] = a /\ p[2] = b /\ p[3] = t
    <2>1. 1 .. 2 + 1 = {1, 2, 3}
      OBVIOUS
    <2>2. p[1] = a /\ p[2] = b /\ p[3] = t /\ DOMAIN p = {1, 2, 3}
      OBVIOUS
    <2>3. p = [i \in {1, 2, 3} |-> p[i]]
      OBVIOUS
    <2> HIDE DEF p
    <2>4. \A i \in {1, 2, 3} : p[i] \in Cells
      BY <2>2
    <2> QED  BY <2>1, <2>2, <2>3, <2>4
  <1> HIDE DEF p, L
  <1>7. \A i \in 1 .. 2 : L[i - 1] = p[i] \o (<<sep>> \o L[i])
    <2>1. L[0] = p[1] \o (<<sep>> \o L[1])
      BY <1>4, <1>6
    <2>2. L[1] = p[2] \o (<<sep>> \o L[2])
      BY <1>4, <1>6
    <2>3. \A i \in 1 .. 2 : (i = 1 /\ i - 1 = 0) \/ (i = 2 /\ i - 1 = 1)
      OBVIOUS
    <2> HIDE DEF x, l0, l1
    <2> TAKE i \in 1 .. 2
    <2>4. CASE i = 1 /\ i - 1 = 0
      BY <2>1, <2>4, Zenon
    <2>5. CASE i = 2 /\ i - 1 = 1
      BY <2>2, <2>5, Zenon
    <2> QED  BY <2>3, <2>4, <2>5
  <1>8. \A i \in 1 .. 2 + 1 : \A j \in 1 .. Len(p[i]) : p[i][j] # sep
    <2>1. \A i \in 1 .. 2 + 1 : i = 1 \/ i = 2 \/ i = 3
      OBVIOUS
    <2> QED  BY <1>6, <2>1
  <1>9. L[2] = p[2 + 1]
    BY <1>4, <1>6
  <1>10. 2 \in Nat
    OBVIOUS
  <1> HIDE DEF x, l1, l0
  <1>11. Split(L[0], sep) = p
    BY <1>5, <1>6, <1>7, <1>8, <1>9, <1>10, SplitIs
  <1> QED  BY <1>4, <1>11 DEF p, l0, l1, x

\* Three values in a text are read as they were written.
LEMMA KeyTextCells ==
    ASSUME NEW key \in Cells, NEW id \in Numbers, NEW val \in Cells,
           \A i \in 1 .. Len(key) : key[i] # Comma,
           \A i \in 1 .. Len(val) : val[i] # Comma
    PROVE  UnmarshalKeyText(key \o <<Comma, id, Comma>> \o val, "set")
             = [key |-> key, id |-> id, value |-> val]
  <1> DEFINE d == key \o <<Comma, id, Comma>> \o val
             b == <<id>>
             words == Split(d, Comma)
  <1>1. Comma \in Nat /\ id \in Nat /\ id # Comma
    BY Characters, CodecAssumption
  <1>2. b \in Cells /\ Len(b) = 1 /\ b[1] = id /\ \A i \in 1 .. Len(b) : b[i] # Comma
    <2>1. b \in Cells /\ Len(b) = 1 /\ b[1] = id
      BY <1>1, Tuples
    <2>2. \A i \in 1 .. 1 : i = 1
      OBVIOUS
    <2> QED  BY <1>1, <2>1, <2>2
  <1>3. d = key \o (<<Comma>> \o (b \o (<<Comma>> \o val)))
    <2> DEFINE x == <<Comma>>
               y == <<Comma, id, Comma>>
    <2>1. x \in Cells /\ y \in Cells
      BY <1>1, Tuples
    <2>2. y = (x \o b) \o x
      OBVIOUS
    <2>3. d = (key \o y) \o val
      OBVIOUS
    <2> HIDE DEF x, y, b, d
    <2>4. x \o val \in Cells
      BY <2>1, AfterConcat
    <2>5. x \o b \in Cells
      BY <1>2, <2>1, AfterConcat
    <2>6. (key \o y) \o val = key \o (y \o val)
      BY <2>1, Associative
    <2>7. ((x \o b) \o x) \o val = (x \o b) \o (x \o val)
      BY <2>1, <2>5, Associative
    <2>8. b \in Cells
      BY <1>2
    <2>9. (x \o b) \o (x \o val) = x \o (b \o (x \o val))
      BY <2>1, <2>4, <2>8, Associative, ZenonT(60)
    <2>10. d = key \o (x \o (b \o (x \o val)))
      BY <2>2, <2>3, <2>6, <2>7, <2>9
    <2> QED  BY <2>10 DEF x
  <1> HIDE DEF b
  <1>4. words = <<key, b, val>>
    <2> HIDE DEF d
    <2>1. Split(key \o (<<Comma>> \o (b \o (<<Comma>> \o val))), Comma) = <<key, b, val>>
      BY <1>1, <1>2, SplitThree
    <2> QED  BY <1>3, <2>1
  <1>5. Len(words) = 3 /\ words[1] = key /\ words[2] = b /\ words[3] = val
    BY <1>4
  <1> HIDE DEF words, d
  <1>6. UnmarshalKeyText(d, "set") =
            [key |-> words[1],
             id |-> IF Len(words[2]) = 1 /\ words[2][1] \in Numbers THEN words[2][1] ELSE 0,
             value |-> words[3]]
    <2>1. ~(Len(words) = 1) /\ ~(Len(words) = 2)
      BY <1>5
    <2> QED  BY <1>5, <2>1 DEF UnmarshalKeyText, words
  <1> QED  BY <1>2, <1>5, <1>6 DEF d

LEMMA KeyTextTrip ==
    ASSUME NEW v \in Items("key text"), Fits("key text", v)
    PROVE  UnmarshalKeyText(MarshalKeyText(v), "set") = v
  <1>1. v \in [key : Texts(Plain \cup {Comma}), id : Numbers, value : Texts(Plain)]
    BY DEF Items
  <1>2. Comma \notin Range(v.key) /\ Comma \notin Range(v.value)
    BY DEF Fits
  <1>3. v.key \in Cells /\ v.value \in Cells /\ v.id \in Numbers
    BY <1>1, Characters, TextCells
  <1>4. /\ \A i \in 1 .. Len(v.key) : v.key[i] # Comma
        /\ \A i \in 1 .. Len(v.value) : v.value[i] # Comma
    BY <1>2, <1>3, NotIn
  <1>5. UnmarshalKeyText(v.key \o <<Comma, v.id, Comma>> \o v.value, "set")
          = [key |-> v.key, id |-> v.id, value |-> v.value]
    BY <1>3, <1>4, KeyTextCells
  <1> HIDE DEF UnmarshalKeyText
  <1> QED  BY <1>1, <1>5 DEF MarshalKeyText

LEMMA NotNone ==
    ASSUME NEW x, NEW a \in Nat, NEW b \in Nat, x = a + (1 + b)
    PROVE  x # 0
  OBVIOUS

\* A list of keys is read as it was written.
LEMMA KeyListCells ==
    ASSUME NEW n \in Nat, NEW keys \in [1 .. n + 1 -> Cells],
           \A i \in 1 .. n + 1 : \A j \in 1 .. Len(keys[i]) : keys[i][j] # Zero,
           n = 0 => keys[1] # <<>>
    PROVE  UnmarshalKeyList(MarshalKeyList(keys)) = keys
  <1> DEFINE c == [i \in 1 .. n + 1 |-> IF i = 1 THEN keys[i] ELSE <<Zero>> \o keys[i]]
             F == FlattenSeq(c)
  <1>1. Zero \in Nat /\ n + 1 \in Nat /\ 1 \in 1 .. n + 1
    BY DEF Zero
  <1>2. c \in [1 .. n + 1 -> Cells]
    <2>1. \A i \in 1 .. n + 1 : c[i] \in Cells
      <3> TAKE i \in 1 .. n + 1
      <3>1. keys[i] \in Cells
        OBVIOUS
      <3>2. <<Zero>> \o keys[i] \in Cells
        BY <1>1, <3>1, OneField
      <3> QED  BY <3>1, <3>2
    <2> QED  BY <2>1
  <1>3. /\ c[1] = keys[1]
        /\ \A i \in 1 .. n + 1 : i # 1 => c[i] = <<Zero>> \o keys[i]
    BY <1>1
  <1>4. MarshalKeyList(keys) = F
    BY DEF MarshalKeyList
  <1> HIDE DEF c
  <1>5. PICK r \in [0 .. n + 1 -> Cells] :
              /\ r[0] = FlattenSeq(c) /\ r[n + 1] = <<>>
              /\ \A i \in 1 .. n + 1 : r[i - 1] = c[i] \o r[i]
    BY <1>1, <1>2, Rests
  <1> HIDE DEF F
  <1> DEFINE L == [i \in 0 .. n |-> keys[i + 1] \o r[i + 1]]
  <1>6. \A i \in 0 .. n : i + 1 \in 1 .. n + 1 /\ i + 1 \in 0 .. n + 1 /\ (i + 1) - 1 = i
    OBVIOUS
  <1>7. L \in [0 .. n -> Cells]
    <2>1. \A i \in 0 .. n : keys[i + 1] \o r[i + 1] \in Cells
      <3> TAKE i \in 0 .. n
      <3>1. keys[i + 1] \in Cells /\ r[i + 1] \in Cells
        BY <1>6
      <3> QED  BY <3>1, AfterConcat
    <2> QED  BY <2>1
  <1>8. L[0] = F
    <2>1. 0 \in 0 .. n /\ 0 + 1 = 1 /\ 1 - 1 = 0
      OBVIOUS
    <2>2. r[0] = c[1] \o r[1]
      BY <1>1, <1>5, <2>1
    <2>3. L[0] = keys[1] \o r[1]
      BY <2>1
    <2> QED  BY <1>3, <1>5, <2>2, <2>3 DEF F
  <1>9. \A i \in 1 .. n : L[i - 1] = keys[i] \o (<<Zero>> \o L[i])
    <2> TAKE i \in 1 .. n
    <2>1. /\ i - 1 \in 0 .. n /\ (i - 1) + 1 = i /\ i \in 0 .. n
          /\ i + 1 \in 1 .. n + 1 /\ i + 1 # 1 /\ (i + 1) - 1 = i
      OBVIOUS
    <2>2. L[i - 1] = keys[i] \o r[i] /\ L[i] = keys[i + 1] \o r[i + 1]
      BY <2>1
    <2> HIDE DEF L
    <2>3. r[i] = c[i + 1] \o r[i + 1] /\ c[i + 1] = <<Zero>> \o keys[i + 1]
      BY <1>3, <1>5, <2>1
    <2>4. keys[i + 1] \in Cells /\ r[i + 1] \in Cells /\ <<Zero>> \in Cells
      <3>1. i + 1 \in 0 .. n + 1
        OBVIOUS
      <3> QED  BY <1>1, <2>1, <3>1, Tuples
    <2>5. (<<Zero>> \o keys[i + 1]) \o r[i + 1] = <<Zero>> \o (keys[i + 1] \o r[i + 1])
      BY <2>4, Associative
    <2> QED  BY <2>2, <2>3, <2>5
  <1>10. L[n] = keys[n + 1]
    <2>1. n \in 0 .. n /\ n + 1 \in 1 .. n + 1
      OBVIOUS
    <2>2. L[n] = keys[n + 1] \o <<>> /\ keys[n + 1] \in Cells
      BY <1>5, <2>1
    <2> QED  BY <2>2, ConcatEmptySeq DEF Cells
  <1> HIDE DEF L
  <1>11. Split(L[0], Zero) = keys
    BY <1>1, <1>7, <1>9, <1>10, SplitIs
  <1>12. F # <<>>
    <2>1. CASE n = 0
      <3>1. F = keys[1]
        BY <1>8, <1>10, <2>1
      <3> QED  BY <2>1, <3>1
    <2>2. CASE n # 0
      <3>1. 1 \in 1 .. n /\ 1 - 1 = 0 /\ 1 \in 0 .. n
        BY <2>2
      <3>2. F = keys[1] \o (<<Zero>> \o L[1])
        BY <1>8, <1>9, <3>1
      <3>3. keys[1] \in Cells /\ L[1] \in Cells
        BY <1>1, <1>7, <3>1
      <3>4. /\ <<Zero>> \o L[1] \in Cells
            /\ Len(<<Zero>> \o L[1]) = 1 + Len(L[1])
        BY <1>1, <3>3, OneField
      <3> DEFINE u == <<Zero>> \o L[1]
      <3> HIDE DEF u
      <3>5. Len(keys[1] \o u) = Len(keys[1]) + Len(u)
        BY <3>3, <3>4, AfterConcat DEF u
      <3>6. Len(keys[1]) \in Nat /\ Len(L[1]) \in Nat /\ Len(<<>>) = 0
        BY <3>3 DEF Cells
      <3>7. Len(F) # 0
        <4>1. F = keys[1] \o u /\ Len(u) = 1 + Len(L[1])
          BY <3>2, <3>4 DEF u
        <4>2. Len(F) = Len(keys[1]) + (1 + Len(L[1]))
          BY <3>5, <4>1
        <4> HIDE DEF u
        <4> QED  BY <3>6, <4>2, NotNone
      <3> QED  BY <3>6, <3>7
    <2> QED  BY <2>1, <2>2
  <1> QED  BY <1>4, <1>8, <1>11, <1>12 DEF UnmarshalKeyList

LEMMA KeyListAny ==
    ASSUME NEW n \in Nat, NEW keys \in [1 .. n -> Cells], keys # <<<<>>>>,
           \A i \in 1 .. n : \A j \in 1 .. Len(keys[i]) : keys[i][j] # Zero
    PROVE  UnmarshalKeyList(MarshalKeyList(keys)) = keys
  <1>1. CASE n = 0
    <2>1. keys = <<>>
      BY <1>1
    <2>2. MarshalKeyList(<<>>) = <<>>
      <3>1. [i \in DOMAIN <<>> |-> IF i = 1 THEN <<>>[i] ELSE <<Zero>> \o <<>>[i]] = <<>>
        OBVIOUS
      <3>2. FlattenSeq(<<>>) = <<>>
        BY DEF FlattenSeq
      <3> QED  BY <3>1, <3>2 DEF MarshalKeyList
    <2> QED  BY <2>1, <2>2 DEF UnmarshalKeyList
  <1>2. CASE n # 0
    <2> DEFINE k == n - 1
    <2>1. k \in Nat /\ n = k + 1
      BY <1>2
    <2> HIDE DEF k
    <2>2. k = 0 => keys[1] # <<>>
      <3> SUFFICES ASSUME k = 0, keys[1] = <<>>
                   PROVE  FALSE
        OBVIOUS
      <3>1. n = 1 /\ 1 .. 1 = {1}
        BY <2>1
      <3>2. keys \in [{1} -> Cells]
        BY <3>1
      <3>3. Len(keys) = 1 /\ keys \in Seq(Cells)
        BY <3>1
      <3>4. keys = <<<<>>>>
        <4> DEFINE e == <<<<>>>>
        <4>1. e \in Seq(Cells) /\ Len(e) = 1 /\ e[1] = <<>>
          BY DEF Cells
        <4>2. \A i \in 1 .. Len(keys) : keys[i] = e[i]
          BY <3>1, <3>3, <4>1
        <4> HIDE DEF e
        <4>3. keys = e
          BY <3>3, <4>1, <4>2, SeqEqual
        <4> QED  BY <4>3 DEF e
      <3> QED  BY <3>4
    <2> QED  BY <2>1, <2>2, KeyListCells
  <1> QED  BY <1>1, <1>2

\* As many texts as a packet may have.
LEMMA SomeTexts ==
    ASSUME NEW v, v \in UNION {[1 .. n -> Texts(Plain)] : n \in 0 .. MaxTexts}
    PROVE  \E n \in Nat : /\ v \in [1 .. n -> Cells]
                          /\ \A i \in 1 .. n : \A j \in 1 .. Len(v[i]) : v[i][j] # Zero
  <1>1. PICK n \in 0 .. MaxTexts : v \in [1 .. n -> Texts(Plain)]
    OBVIOUS
  <1>2. n \in Nat
    BY CodecAssumption
  <1>3. \A text \in Texts(Plain) :
            text \in Cells /\ \A j \in 1 .. Len(text) : text[j] \in Plain
    BY Characters, TextCells
  <1>4. v \in [1 .. n -> Cells]
    BY <1>1, <1>3
  <1>5. \A i \in 1 .. n : \A j \in 1 .. Len(v[i]) : v[i][j] # Zero
    <2> TAKE i \in 1 .. n
    <2>1. v[i] \in Texts(Plain)
      BY <1>1
    <2> QED  BY <1>3, <2>1, Characters
  <1> QED  BY <1>2, <1>4, <1>5

LEMMA KeyListTrip ==
    ASSUME NEW v \in Items("key list"), Fits("key list", v)
    PROVE  UnmarshalKeyList(MarshalKeyList(v)) = v
  <1>1. v \in UNION {[1 .. n -> Texts(Plain)] : n \in 0 .. MaxTexts}
    BY DEF Items
  <1>2. v # <<<<>>>>
    BY DEF Fits
  <1>3. \E n \in Nat : /\ v \in [1 .. n -> Cells]
                       /\ \A i \in 1 .. n : \A j \in 1 .. Len(v[i]) : v[i][j] # Zero
    BY <1>1, SomeTexts
  <1> QED  BY <1>2, <1>3, KeyListAny

-----------------------------------------------------------------------------
(* All kinds of packets *)

\* What is read from a packet is what was written into it.
LEMMA FormatTrip ==
    ASSUME NEW kind \in Kind, NEW v \in Items(kind), Fits(kind, v),
           Encoded(kind, v) # <<>> \/ kind = "key list"
    PROVE  Decoded(kind, Encoded(kind, v)) = v
  <1> DEFINE R == Decoded(kind, Encoded(kind, v)) = v
  <1> SUFFICES R
    OBVIOUS
  <1>1. CASE kind = "key value"
    <2>1. v \in Items("key value") /\ Fits("key value", v)
      BY <1>1
    <2>2. R <=> UnmarshalKeyValue(MarshalKeyValue(v)) = v
      BY <1>1 DEF Decoded, Encoded
    <2>3. v \in KeyValue
      BY <2>1 DEF Items
    <2>4. Len(v.key) < W16 /\ Len(v.err) < W8
      BY <2>1 DEF Fits
    <2> HIDE DEF R
    <2> QED  BY <2>2, <2>3, <2>4, KeyValueTrip
  <1>2. CASE kind = "key text"
    <2>1. v \in Items("key text") /\ Fits("key text", v)
      BY <1>2
    <2>2. R <=> UnmarshalKeyText(MarshalKeyText(v), "set") = v
      BY <1>2 DEF Decoded, Encoded
    <2> HIDE DEF R
    <2> QED  BY <2>1, <2>2, KeyTextTrip
  <1>3. CASE kind = "key json"
    <2>1. v \in Items("key json") /\ Fits("key json", v)
      BY <1>3
    <2>2. R <=> UnmarshalKeyJson(MarshalKeyJson(v)) = v
      BY <1>3 DEF Decoded, Encoded
    <2>3. v \in {"none", "text", "object"}
      BY <2>1 DEF Fits
    <2> HIDE DEF R
    <2> QED  BY <2>2, <2>3, KeyJsonTrip
  <1>4. CASE kind = "key list"
    <2>1. v \in Items("key list") /\ Fits("key list", v)
      BY <1>4
    <2>2. R <=> UnmarshalKeyList(MarshalKeyList(v)) = v
      BY <1>4 DEF Decoded, Encoded
    <2> HIDE DEF R
    <2> QED  BY <2>1, <2>2, KeyListTrip
  <1>5. CASE kind = "plugin"
    <2>1. v \in Items("plugin") /\ Fits("plugin", v)
      BY <1>5
    <2>2. R <=> UnmarshalPlugin(MarshalPlugin(v)) = v
      BY <1>5 DEF Decoded, Encoded
    <2> HIDE DEF R
    <2> QED  BY <2>1, <2>2, PluginTrip
  <1>6. CASE kind = "user request"
    <2>1. v \in Items("user request") /\ Fits("user request", v)
      BY <1>6
    <2>2. R <=> UnmarshalUserRequest(MarshalUserRequest(v)) = v
      BY <1>6 DEF Decoded, Encoded
    <2> HIDE DEF R
    <2> QED  BY <2>1, <2>2, UserRequestTrip
  <1>7. CASE kind = "user responce"
    <2>1. v \in Items("user responce") /\ Fits("user responce", v)
      BY <1>7
    <2>2. R <=> UnmarshalUserResponce(MarshalUserResponce(v)) = v
      BY <1>7 DEF Decoded, Encoded
    <2> HIDE DEF R
    <2> QED  BY <2>1, <2>2, UserResponceTrip
  <1>8. CASE kind = "room request"
    <2>1. v \in Items("room request") /\ Fits("room request", v)
      BY <1>8
    <2>2. R <=> UnmarshalRoomRequest(MarshalRoomRequest(v)) = v
      BY <1>8 DEF Decoded, Encoded
    <2> HIDE DEF R
    <2> QED  BY <2>1, <2>2, RoomRequestTrip
  <1>9. CASE kind = "by created"
    <2>1. v \in Items("by created") /\ Fits("by created", v)
      BY <1>9
    <2>2. R <=> UnmarshalByCreated(MarshalByCreated(v)) = v
      BY <1>9 DEF Decoded, Encoded
    <2> HIDE DEF R
    <2> QED  BY <2>1, <2>2, ByCreatedTrip
  <1>10. CASE kind = "client state"
    <2>1. v \in Items("client state") /\ Fits("client state", v)
      BY <1>10
    <2>2. R <=> UnmarshalClientState(MarshalClientState(v)) = v
      BY <1>10 DEF Decoded, Encoded
    <2> HIDE DEF R
    <2> QED  BY <2>1, <2>2, ClientStateTrip
  <1>11. CASE kind = "rooms"
    <2>1. v \in Items("rooms") /\ Fits("rooms", v)
      BY <1>11
    <2>2. R <=> UnmarshalRooms(MarshalRooms(v)) = v
      BY <1>11 DEF Decoded, Encoded
    <2> HIDE DEF R
    <2> QED  BY <2>1, <2>2, RoomsTrip
  <1>12. CASE kind = "l0 packet"
    <2>1. v \in Items("l0 packet") /\ Fits("l0 packet", v)
      BY <1>12
    <2>2. R <=> PacketGet(PacketCreate(v)) = v
      BY <1>12 DEF Decoded, Encoded
    <2>3. PacketCreate(v) # <<>>
      BY <1>12 DEF Encoded
    <2> HIDE DEF R
    <2> QED  BY <2>1, <2>2, <2>3, L0PacketTrip
  <1>13. CASE kind = "packet"
    <2>1. v \in Items("packet") /\ Fits("packet", v)
      BY <1>13
    <2>2. R <=> parsePacket(createPacketFrom(v)) = v
      BY <1>13 DEF Decoded, Encoded
    <2> HIDE DEF R
    <2> QED  BY <2>1, <2>2, PacketTrip
  <1>14. CASE kind = "peer"
    <2>1. v \in Items("peer") /\ Fits("peer", v)
      BY <1>14
    <2>2. R <=> ParsePeerData(PeerData(v)) = v
      BY <1>14 DEF Decoded, Encoded
    <2> HIDE DEF R
    <2> QED  BY <2>1, <2>2, PeerTrip
  <1> QED
    <2> HIDE DEF R
    <2> QED
      BY <1>1, <1>2, <1>3, <1>4, <1>5, <1>6, <1>7,
         <1>8, <1>9, <1>10, <1>11, <1>12, <1>13, <1>14 DEF Kind

\* Nothing is sent yet; or an item has its packet, and nothing is read yet or what is in
\* the packet is read.
CodecInv ==
    \/ item = <<"none">> /\ read = <<"none">>
    \/ \E kind \in Kind : \E v \in Items(kind) :
          /\ item = <<kind, v>> /\ wire = Encoded(kind, v)
          /\ \/ read = <<"none">>
             \/ /\ wire # <<>> \/ kind = "key list"
                /\ read = <<kind, Decoded(kind, wire)>>

LEMMA CodecInvNext ==
    CodecInv /\ [CodecNext]_codecVars => CodecInv'
  <1> SUFFICES ASSUME CodecInv, [CodecNext]_codecVars PROVE CodecInv'
    OBVIOUS
  <1>1. CASE Encode
    <2>1. PICK kind \in Kind : \E v \in Items(kind) :
              /\ item = <<"none">> /\ item' = <<kind, v>>
              /\ wire' = Encoded(kind, v) /\ UNCHANGED read
      BY <1>1 DEF Encode
    <2>2. PICK v \in Items(kind) :
              /\ item = <<"none">> /\ item' = <<kind, v>>
              /\ wire' = Encoded(kind, v) /\ UNCHANGED read
      BY <2>1
    <2>3. read = <<"none">>
      BY <2>2 DEF CodecInv
    <2> QED  BY <2>2, <2>3 DEF CodecInv
  <1>2. CASE Decode
    <2>0. PICK kind \in Kind : \E v \in Items(kind) :
              item = <<kind, v>> /\ wire = Encoded(kind, v)
      BY <1>2 DEF CodecInv, Decode
    <2>1. PICK v \in Items(kind) : item = <<kind, v>> /\ wire = Encoded(kind, v)
      BY <2>0
    <2>2. /\ item' = item /\ wire' = wire
          /\ wire # <<>> \/ kind = "key list"
          /\ read' = <<kind, Decoded(kind, wire)>>
      BY <1>2, <2>1 DEF Decode
    <2> QED  BY <2>1, <2>2 DEF CodecInv
  <1>3. CASE UNCHANGED codecVars
    BY <1>3 DEF CodecInv, codecVars
  <1> QED  BY <1>1, <1>2, <1>3 DEF CodecNext

\* What UnmarshalBinary, UnmarshalText, PacketGet or parsePacket read is what their
\* counterparts wrote, for all kinds of packets that fit, for texts of any length, any
\* numbers in the fields and any limits of the lengths.
THEOREM RoundTripHolds == CodecSpec => []RoundTrip
  <1>1. CodecInit => CodecInv
    BY DEF CodecInit, CodecInv
  <1>2. CodecInv => RoundTrip
    <2> SUFFICES ASSUME CodecInv, read # <<"none">>, Fits(item[1], item[2])
                 PROVE  read = item
      BY DEF RoundTrip
    <2>0. PICK kind \in Kind : \E v \in Items(kind) :
              /\ item = <<kind, v>> /\ wire = Encoded(kind, v)
              /\ wire # <<>> \/ kind = "key list"
              /\ read = <<kind, Decoded(kind, wire)>>
      BY DEF CodecInv
    <2>1. PICK v \in Items(kind) :
              /\ item = <<kind, v>> /\ wire = Encoded(kind, v)
              /\ wire # <<>> \/ kind = "key list"
              /\ read = <<kind, Decoded(kind, wire)>>
      BY <2>0
    <2>2. Fits(kind, v)
      BY <2>1
    <2>3. Decoded(kind, Encoded(kind, v)) = v
      BY <2>1, <2>2, FormatTrip
    <2> QED  BY <2>1, <2>3
  <1> QED  BY <1>1, <1>2, CodecInvNext, PTL DEF CodecSpec

-----------------------------------------------------------------------------
(* All of them *)

\* The services side by side: each one does its steps or rests.
LEMMA EachService ==
    MCSpec => Spec /\ UserSpec /\ RegistrySpec /\ ConfSpec /\ RoomSpec /\ StatSpec
           /\ CodecSpec
  <1>1. MCInit => /\ Init /\ UserInit /\ RegistryInit
                  /\ ConfInit /\ RoomInit /\ StatInit /\ CodecInit
    BY DEF MCInit
  <1>2. [MCNext /\ UNCHANGED part]_<<part, vars, userVars, registryVars, confVars,
                                     codecVars, roomVars, statVars>>
          => /\ [Next]_vars /\ [UserNext]_userVars /\ [RegistryNext]_registryVars
             /\ [ConfNext]_confVars /\ [RoomNext]_roomVars /\ [StatNext]_statVars
             /\ [CodecNext]_codecVars
    BY DEF MCNext
  <1> QED
    BY <1>1, <1>2, PTL
    DEF MCSpec, Spec, UserSpec, RegistrySpec, ConfSpec, RoomSpec, StatSpec, CodecSpec

\* Every variable of all the services has its type, for any numbers of callers, workers,
\* users, rooms, holders and requests.
THEOREM AllTypesHold ==
    ASSUME MaxUuid \in Nat, MaxLogins \in Nat
    PROVE  MCSpec => []AllTypesOK
  <1>1. TypeOK /\ UserTypeOK /\ RegistryTypeOK /\ ConfTypeOK /\ RoomTypeOK /\ StatTypeOK
            => AllTypesOK
    BY DEF AllTypesOK
  <1> QED
    BY <1>1, EachService, CdbTypeCorrect, UserTypeCorrect, RegistryTypeCorrect,
       ConfTypeCorrect, RoomTypeCorrect, StatTypeCorrect, PTL
==============================================================================
