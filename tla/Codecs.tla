-------------------------------- MODULE Codecs --------------------------------
(***************************************************************************)
(* The packets that the parts of the system exchange, as what is read from *)
(* what was written:                                                       *)
(*                                                                         *)
(*   key values, key lists and calls of plugins   services/teocdbcli       *)
(*   requests and answers of the users service    services/teouserscli     *)
(*   reports of game rooms and their list         services/teoroomcli/stats*)
(*   packets of l0 clients and addresses of peers teocli/teocli            *)
(*   packets of teonet                            teonet/teonet/packet.go  *)
(*                                                                         *)
(* A packet is a sequence of cells: a character, or a field of fixed size  *)
(* (a number, a UUID, a time). All are numbers, the larger ones characters.*)
(* A length is written with one or two bytes and a longer text loses the   *)
(* rest of its length. A field that is read past the end of a packet is    *)
(* zero (binary.Read returns an error, which these readers do not look at  *)
(* unless it is said).                                                     *)
(***************************************************************************)
EXTENDS Integers, Sequences, SequencesExt, FiniteSets

CONSTANTS
    Letter, Comma, Dash,    \* characters of texts
    Numbers,        \* what a field of fixed size holds
    MaxText,        \* bound: the length of a text
    MaxTexts,       \* bound: the keys, parameters and rooms of a packet
    W8,             \* a length of one byte is less than this (256)
    W16,            \* a length of two bytes is less than this (65536)
    NameSize        \* size of the name in the address of a peer

Zero == 0

\* Numbers and characters do not mix, and no letter is a separator.
ASSUME CodecAssumption ==
    /\ Numbers \subseteq Nat /\ Zero \in Numbers
    /\ {Letter, Comma, Dash} \subseteq Nat \ Numbers
    /\ Letter # Comma /\ Letter # Dash /\ Comma # Dash
    /\ MaxText \in Nat /\ MaxTexts \in Nat
    /\ W8 \in Nat \ {0} /\ W16 \in Nat \ {0} /\ NameSize \in Nat

Plain == {Letter}
Char == {Letter, Comma, Dash, Zero}

VARIABLES
    item,       \* what is sent: its kind and value
    wire,       \* the packet
    read        \* what is read from it

codecVars == <<item, wire, read>>

Texts(chars) == UNION {[1 .. n -> chars] : n \in 0 .. MaxText}

-----------------------------------------------------------------------------
(* Reading and writing *)

\* The next field, or 0 at the end.
Field(d) == IF d = <<>> THEN Zero ELSE Head(d)

\* n cells of a packet, all zero if it has less.
ReadData(d, n) == IF n <= Len(d) THEN SubSeq(d, 1, n) ELSE [i \in 1 .. n |-> Zero]

\* The packet after n cells.
After(d, n) == SubSeq(d, n + 1, Len(d))

\* A text with its length before it.
Written(text, w) == <<Len(text) % w>> \o text
ReadString(d) == ReadData(After(d, 1), Field(d))
AfterString(d) == After(d, 1 + Len(ReadString(d)))

\* The place of the first c, or 0.
Index(d, c) == SelectInSeq(d, LAMBDA x : x = c)

\* The text before the first c, and what is behind it.
Before(d, c) == IF Index(d, c) = 0 THEN d ELSE SubSeq(d, 1, Index(d, c) - 1)
Behind(d, c) == After(d, Index(d, c))

\* The parts of a text between separators (strings.Split): one more than there are
\* separators, each the text before the first one in what is left.
Split(text, sep) ==
    LET count == Cardinality({i \in DOMAIN text : text[i] = sep})
        left[i \in 0 .. count] ==
            IF i = 0 THEN text ELSE Behind(left[i - 1], sep)
    IN [i \in 1 .. count + 1 |-> Before(left[i - 1], sep)]

\* A name that ends with a zero (C strings).
CString(d) == Index(d, Zero)
GoString(d) == Before(d, Zero)

-----------------------------------------------------------------------------
(* services/teocdbcli *)

KeyValue == [cmd : Numbers, id : Numbers, key : Texts(Plain \cup {Comma}),
             err : Texts(Plain), value : Texts(Plain \cup {Comma})]

MarshalKeyValue(kv) ==
    <<kv.cmd, kv.id>> \o Written(kv.key, W16) \o Written(kv.err, W8) \o kv.value

\* Fault: the length of the error text is not taken off.
UnmarshalKeyValueNoErr(d) ==
    LET afterKey == AfterString(After(d, 2))
        key == ReadString(After(d, 2))
    IN [cmd |-> Field(d), id |-> Field(After(d, 1)), key |-> key,
        err |-> ReadString(afterKey),
        value |-> ReadData(AfterString(afterKey), Len(d) - 4 - Len(key))]

\* The value is what is left by the lengths of the texts. (A packet that is too
\* short for its own lengths makes the reader ask for 4 GB; none is sent.)
UnmarshalKeyValue(d) ==
    LET afterKey == AfterString(After(d, 2))
        key == ReadString(After(d, 2))
        err == ReadString(afterKey)
    IN [cmd |-> Field(d), id |-> Field(After(d, 1)), key |-> key, err |-> err,
        value |-> ReadData(AfterString(afterKey),
                           Len(d) - 4 - Len(key) - Len(err))]

\* Text: the key, the id and the value with commas between them.
MarshalKeyText(kv) == kv.key \o <<Comma, kv.id, Comma>> \o kv.value

\* A text with one, two or three parts; the second of two is an id in a request
\* to get, and a value in others. More parts are an error.
UnmarshalKeyText(d, cmd) ==
    LET part == Split(d, Comma)
        Atoi(text) == IF Len(text) = 1 /\ text[1] \in Numbers THEN text[1] ELSE 0
        Result(id, value) == [key |-> part[1], id |-> id, value |-> value]
    IN CASE Len(part) = 1 -> Result(0, <<>>)
         [] Len(part) = 2 /\ cmd = "get" -> Result(Atoi(part[2]), <<>>)
         [] Len(part) = 2 /\ cmd # "get" -> Result(0, part[2])
         [] Len(part) = 3 -> Result(Atoi(part[2]), part[3])
         [] OTHER -> [err |-> "not enough parameters"]

\* A json text keeps the kind of its value: a value that is json itself is put in
\* as it is, and read back as the text of a string or as nothing at null.
JsonValue == {"none", "text", "object", "quoted", "null"}
MarshalKeyJson(value) ==
    CASE value = "quoted" -> <<"string">> [] value = "text" -> <<"string of text">>
      [] value = "none" -> <<"null">> [] OTHER -> <<value>>
UnmarshalKeyJson(json) ==
    CASE json[1] \in {"string", "string of text"} -> "text"
      [] json[1] = "null" -> "none" [] OTHER -> json[1]

\* A list of keys with zeros between them; an empty packet is an empty list.
MarshalKeyList(keys) == FlattenSeq(
    [i \in DOMAIN keys |-> IF i = 1 THEN keys[i] ELSE <<Zero>> \o keys[i]])
UnmarshalKeyList(d) == IF d = <<>> THEN <<>> ELSE Split(d, Zero)

\* A call of a function of a plugin.
MarshalPlugin(p) ==
    <<p.id>> \o Written(p.name, W16) \o Written(p.func, W16)
        \o <<Len(p.params) % W16>>
        \o FlattenSeq([i \in DOMAIN p.params |-> Written(p.params[i], W16)])
UnmarshalPlugin(d) ==
    LET afterName == AfterString(After(d, 1))
        afterFunc == AfterString(afterName)
        left[i \in 0 .. Field(afterFunc)] ==
            IF i = 0 THEN After(afterFunc, 1) ELSE AfterString(left[i - 1])
    IN [id |-> Field(d), name |-> ReadString(After(d, 1)),
        func |-> ReadString(afterName),
        params |-> [i \in 1 .. Field(afterFunc) |-> ReadString(left[i - 1])]]

-----------------------------------------------------------------------------
(* services/teouserscli *)

MarshalUserRequest(r) == <<r.id>> \o r.prefix \o <<Dash, r.uuid>>

NewUuid == -1

\* The prefix ends at the first dash; without one the service draws a UUID, and
\* what is no UUID after it, or the empty one, is an error.
UnmarshalUserRequest(d) ==
    LET text == After(d, 1)
        dash == Index(text, Dash)
        uuid == After(text, dash)
    IN CASE dash = 0 -> [id |-> Field(d), prefix |-> text, uuid |-> NewUuid]
         [] dash # 0 /\ Len(uuid) = 1 /\ Field(uuid) \in Numbers \ {Zero} ->
              [id |-> Field(d), prefix |-> SubSeq(text, 1, dash - 1),
               uuid |-> Field(uuid)]
         [] OTHER -> [err |-> "ParseUUID"]

MarshalUserResponce(r) == <<r.id, r.uuid, r.token>> \o r.prefix
UnmarshalUserResponce(d) ==
    [id |-> Field(d), uuid |-> Field(After(d, 1)), token |-> Field(After(d, 2)),
     prefix |-> After(d, 3)]

-----------------------------------------------------------------------------
(* services/teoroomcli/stats *)

\* RoomCreateRequest and RoomStateRequest: a room, and its number or state.
MarshalRoomRequest(r) == <<r.room, r.n>>
UnmarshalRoomRequest(d) ==
    IF Len(d) < 2 THEN [err |-> "EOF"]
    ELSE [room |-> Field(d), n |-> Field(After(d, 1))]

\* RoomByCreatedRequest: an id, a period and a limit.
MarshalByCreated(r) == <<r.id, r.from, r.to, r.limit>>
UnmarshalByCreated(d) ==
    IF Len(d) < 4 THEN [err |-> "EOF"]
    ELSE [id |-> d[1], from |-> d[2], to |-> d[3], limit |-> d[4]]

\* ClientStateRequest has the statistics of a game behind its fields.
MarshalClientState(r) == <<r.state, r.room, r.id>> \o r.stat
UnmarshalClientState(d) ==
    [state |-> Field(d), room |-> Field(After(d, 1)), id |-> Field(After(d, 2)),
     stat |-> After(d, 3)]

\* RoomByCreatedResponce: rooms of two fields here (of seven in the code); an
\* incomplete last room is an error.
MarshalRooms(r) == <<r.id>> \o FlattenSeq(r.rooms)
UnmarshalRooms(d) ==
    IF Len(d) % 2 = 0 THEN [err |-> "EOF"]
    ELSE [id |-> Field(d),
          rooms |-> [i \in 1 .. Len(d) \div 2 |-> SubSeq(d, 2 * i, 2 * i + 1)]]

-----------------------------------------------------------------------------
(* teocli and teonet *)

\* PacketCreate: the command, the lengths and the checksums, the name of the peer
\* with a zero behind it, and the data. A length that was cut off is an error.
PacketCreate(p) ==
    IF Len(p.peer) + 1 >= W8 \/ Len(p.data) >= W16 THEN <<>>
    ELSE <<p.cmd, Len(p.data), Len(p.peer) + 1, 0>>
             \o p.peer \o <<Zero>> \o p.data
PacketGet(d) ==
    [cmd |-> Field(d), peer |-> GoString(After(d, 4)),
     data |-> ReadData(After(d, 4 + d[3]), d[2])]

\* createPacketFrom and parsePacket: the name with its zero and their length
\* before the command. A name that does not end where its length says is not
\* valid.
createPacketFrom(p) == Written(p.from \o <<Zero>>, W8) \o <<p.cmd>> \o p.data
parsePacket(d) ==
    LET n == Field(d)
        from == ReadData(After(d, 1), n)
    IN IF n # 0 /\ n + 2 <= Len(d) /\ CString(from) = n
       THEN [from |-> GoString(from), cmd |-> d[n + 2], data |-> After(d, n + 2)]
       ELSE [err |-> "not valid packet"]

\* PeerData: a name is filled up with zeros, or cut off, to a fixed size.
PeerData(p) ==
    [i \in 1 .. NameSize |-> IF i <= Len(p.peer) THEN p.peer[i] ELSE Zero]
        \o <<p.mode>>
ParsePeerData(d) == [peer |-> GoString(d), mode |-> d[NameSize + 1]]

-----------------------------------------------------------------------------
Kind == {"key value", "key text", "key json", "key list", "plugin",
         "user request", "user responce", "room request", "by created",
         "client state", "rooms",
         "l0 packet", "packet", "peer"}

\* What the parts may have to send, by kind.
Items(kind) ==
    CASE kind = "key value" -> KeyValue
      [] kind = "key text" ->
           [key : Texts(Plain \cup {Comma}), id : Numbers, value : Texts(Plain)]
      [] kind = "key json" -> JsonValue
      [] kind = "key list" -> UNION {[1 .. n -> Texts(Plain)] : n \in 0 .. MaxTexts}
      [] kind = "plugin" ->
           [id : Numbers, name : Texts(Plain), func : Texts(Plain),
            params : UNION {[1 .. n -> Texts(Plain)] : n \in 0 .. MaxTexts}]
      [] kind = "user request" ->
           [id : Numbers, prefix : Texts(Plain \cup {Dash}), uuid : Numbers]
      [] kind = "user responce" ->
           [id : Numbers, uuid : Numbers, token : Numbers, prefix : Texts(Plain)]
      [] kind = "room request" -> [room : Numbers, n : Numbers]
      [] kind = "by created" ->
           [id : Numbers, from : Numbers, to : Numbers, limit : Numbers]
      [] kind = "client state" ->
           [state : Numbers, room : Numbers, id : Numbers, stat : Texts(Char)]
      [] kind = "rooms" ->
           [id : Numbers, rooms : UNION {[1 .. n -> Numbers \X Numbers] : n \in 0 .. MaxTexts}]
      [] kind = "l0 packet" ->
           [cmd : Numbers, peer : Texts(Plain), data : Texts(Char)]
      [] kind = "packet" ->
           [cmd : Numbers, from : Texts(Plain \cup {Zero}), data : Texts(Char)]
      [] kind = "peer" -> [mode : Numbers, peer : Texts(Plain)]

CodecInit ==
    /\ item = <<"none">>
    /\ wire = <<"none">>
    /\ read = <<"none">>

Encoded(kind, v) ==
    CASE kind = "key value" -> MarshalKeyValue(v)
      [] kind = "key text" -> MarshalKeyText(v)
      [] kind = "key json" -> MarshalKeyJson(v)
      [] kind = "key list" -> MarshalKeyList(v)
      [] kind = "plugin" -> MarshalPlugin(v)
      [] kind = "user request" -> MarshalUserRequest(v)
      [] kind = "user responce" -> MarshalUserResponce(v)
      [] kind = "room request" -> MarshalRoomRequest(v)
      [] kind = "by created" -> MarshalByCreated(v)
      [] kind = "client state" -> MarshalClientState(v)
      [] kind = "rooms" -> MarshalRooms(v)
      [] kind = "l0 packet" -> PacketCreate(v)
      [] kind = "packet" -> createPacketFrom(v)
      [] kind = "peer" -> PeerData(v)

Decoded(kind, d) ==
    CASE kind = "key value" -> UnmarshalKeyValue(d)
      [] kind = "key text" -> UnmarshalKeyText(d, "set")
      [] kind = "key json" -> UnmarshalKeyJson(d)
      [] kind = "key list" -> UnmarshalKeyList(d)
      [] kind = "plugin" -> UnmarshalPlugin(d)
      [] kind = "user request" -> UnmarshalUserRequest(d)
      [] kind = "user responce" -> UnmarshalUserResponce(d)
      [] kind = "room request" -> UnmarshalRoomRequest(d)
      [] kind = "by created" -> UnmarshalByCreated(d)
      [] kind = "client state" -> UnmarshalClientState(d)
      [] kind = "rooms" -> UnmarshalRooms(d)
      [] kind = "l0 packet" -> PacketGet(d)
      [] kind = "packet" -> parsePacket(d)
      [] kind = "peer" -> ParsePeerData(d)

\* An item is written. (PacketCreate may refuse it.)
Encode == \E kind \in Kind : \E v \in Items(kind) :
    /\ item = <<"none">>
    /\ item' = <<kind, v>>
    /\ wire' = Encoded(kind, v)
    /\ UNCHANGED read

\* The packet is read.
Decode ==
    /\ item # <<"none">>
    /\ wire # <<>> \/ item[1] = "key list"
    /\ read = <<"none">>
    /\ read' = <<item[1], Decoded(item[1], wire)>>
    /\ UNCHANGED <<item, wire>>

CodecNext == Encode \/ Decode

CodecSpec == CodecInit /\ [][CodecNext]_codecVars

-----------------------------------------------------------------------------
(* Properties *)

\* What cannot be sent: texts that their length does not hold, separators in the
\* texts they separate, one empty key, the empty UUID, and json strings and null.
Fits(kind, v) ==
    CASE kind = "key value" -> Len(v.key) < W16 /\ Len(v.err) < W8
      [] kind = "key text" -> Comma \notin Range(v.key) /\ Comma \notin Range(v.value)
      [] kind = "key json" -> v \in {"none", "text", "object"}
      [] kind = "key list" -> v # <<<<>>>>
      [] kind = "plugin" ->
           /\ \A text \in {v.name, v.func} \cup Range(v.params) : Len(text) < W16
           /\ Len(v.params) < W16
      [] kind = "user request" -> Dash \notin Range(v.prefix) /\ v.uuid # Zero
      [] kind = "packet" -> Zero \notin Range(v.from) /\ Len(v.from) + 1 < W8
      [] kind = "peer" -> Len(v.peer) < NameSize
      [] OTHER -> TRUE

\* What is read is what was written, for all kinds of packets, whatever their
\* texts are, when they fit: no length is counted wrong, no text takes from the
\* next one, and no packet is refused.
RoundTrip == read # <<"none">> /\ Fits(item[1], item[2]) => read = item
==============================================================================
