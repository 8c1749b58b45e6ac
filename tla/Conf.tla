--------------------------------- MODULE Conf ---------------------------------
(***************************************************************************)
(* A configuration kept in a file and in the key-value service             *)
(* (services/teoconf, services/teocdbcli/conf), as the l0 server and the   *)
(* rooms of the game controller use it. Every room makes a holder of its   *)
(* own for the same file. A holder takes defaults, the file, and then, in  *)
(* a goroutine, the value of the service, which it writes to the file. A   *)
(* file is truncated first and written then, without a lock.               *)
(*                                                                         *)
(* A configuration gives every field a number, 0 the zero value of Go. A   *)
(* text gives some fields a number: json.Unmarshal sets the fields that    *)
(* the text has and leaves the others as they are, in one step here.       *)
(***************************************************************************)
EXTENDS Naturals, Functions

CONSTANTS
    Holder,         \* the holders of the configuration
    Reading,        \* names of the goroutines of one holder
    HasDefault,     \* does the holder give default values (Default() # nil)?
    OmitEmpty,      \* do the fields have the option omitempty?
    ConfField,      \* the fields of a configuration
    Default,        \* the default configuration
    AdminText       \* bound: the texts that an administrator gives the service

\* A JSON object: some of the fields with their numbers.
IsObject(t) == DOMAIN t \subseteq ConfField /\ t \in [DOMAIN t -> Nat]

ASSUME ConfAssumption ==
    /\ HasDefault \in BOOLEAN /\ OmitEmpty \in BOOLEAN
    /\ Default \in [ConfField -> Nat]
    /\ \A t \in AdminText : IsObject(t)

\* A text of no configuration: no value, an empty one, or one text over another.
None(kind) == [kind |-> kind, text |-> [f \in {} |-> 0]]
Whole(t) == [kind |-> "whole", text |-> t]

VARIABLES
    file,       \* the file's text
    cdb,        \* the service's value, "absent" for a key that is not found
    value,      \* the configuration that a holder has
    place,      \* the goroutine that makes a holder or serves its events
    reading,    \* the goroutines that ask the service
    wasSet      \* history: the texts that were set in the service

confVars == <<file, cdb, value, place, reading, wasSet>>

\* json.Marshal of configuration c.
marshal(c) == IF OmitEmpty THEN Restrict(c, {f \in ConfField : c[f] # 0}) ELSE c

\* Fault: the text replaces the configuration.
unmarshalNew(t, c) == [f \in ConfField |-> IF f \in DOMAIN t THEN t[f] ELSE 0]

\* json.Unmarshal of text t into configuration c.
unmarshal(t, c) == [f \in ConfField |-> IF f \in DOMAIN t THEN t[f] ELSE c[f]]

\* The file after text t was written at its beginning: the end of a longer text
\* may stay behind it.
written(t) ==
    {Whole(t)} \cup IF file.kind \in {"absent", "empty"} \/ file = Whole(t) THEN {}
                   ELSE {None("mixed")}

ConfInit ==
    /\ file = None("absent")
    /\ cdb = None("absent")
    /\ value = [h \in Holder |-> Default]
    /\ place = [h \in Holder |-> "none"]
    /\ reading = [g \in Holder \X Reading |-> "none"]
    /\ wasSet = {}

-----------------------------------------------------------------------------
move(h, from, next) == place[h] = from /\ place' = [place EXCEPT ![h] = next]

setDefault(h) ==
    value' = IF HasDefault THEN [value EXCEPT ![h] = Default] ELSE value

\* New of teoconf: defaults first.
New(h) ==
    /\ move(h, "none", "read")
    /\ value' = [value EXCEPT ![h] = Default]
    /\ UNCHANGED <<file, cdb, reading, wasSet>>

\* A file that is not there or cannot be parsed leaves the value as it is.
ReadFile(h) ==
    value' = IF file.kind = "whole"
             THEN [value EXCEPT ![h] = unmarshal(file.text, @)] ELSE value

Read(h) ==
    /\ move(h, "read", IF file.kind = "whole" THEN "both" ELSE "create")
    /\ ReadFile(h)
    /\ UNCHANGED <<file, cdb, reading, wasSet>>

\* Write of New: the file is created or truncated ...
Truncate(h) ==
    /\ move(h, "create", "write")
    /\ file' = None("empty")
    /\ UNCHANGED <<cdb, value, reading, wasSet>>

\* ... and written.
Write(h) ==
    /\ move(h, "write", "both")
    /\ file' \in written(marshal(value[h]))
    /\ UNCHANGED <<cdb, value, reading, wasSet>>

\* ReadBoth: defaults again, ...
ReadBoth(h) ==
    /\ move(h, "both", "reread")
    /\ setDefault(h)
    /\ UNCHANGED <<file, cdb, reading, wasSet>>

\* ... the file, and a goroutine that asks the service.
Reread(h) == \E g \in Reading :
    /\ move(h, "reread", "ready")
    /\ ReadFile(h)
    /\ reading[<<h, g>>] = "none"
    /\ reading' = [reading EXCEPT ![<<h, g>>] = "ask"]
    /\ UNCHANGED <<file, cdb, wasSet>>

\* eventProcess of the l0 server: the service has connected (again).
Connected(h) ==
    /\ move(h, "ready", "both")
    /\ UNCHANGED <<file, cdb, value, reading, wasSet>>

Step(h, g, from, next) ==
    /\ reading[<<h, g>>] = from
    /\ reading' = [reading EXCEPT ![<<h, g>>] = next]

\* ReadCdb: the service does not answer, or says that the key is not found, which
\* is another error than that of an empty value.
ReadFails(h, g) ==
    /\ Step(h, g, "ask", "none")
    /\ UNCHANGED <<file, cdb, value, place, wasSet>>

ReadCdb(h, g) ==
    /\ Step(h, g, "ask", "create")
    /\ cdb.kind = "whole"
    /\ value' = [value EXCEPT ![h] = unmarshal(cdb.text, @)]
    /\ UNCHANGED <<file, cdb, place, wasSet>>

\* Only an empty value makes the holder give the service its own, ...
EmptyCdb(h, g) ==
    /\ Step(h, g, "ask", "give")
    /\ cdb.kind = "empty"
    /\ UNCHANGED <<file, cdb, value, place, wasSet>>

\* ... whatever the service has by then; or the request is lost.
WriteCdb(h, g) ==
    /\ Step(h, g, "give", "none")
    /\ cdb' \in {cdb, Whole(marshal(value[h]))}
    /\ UNCHANGED <<file, value, place, wasSet>>

CreateFile(h, g) ==
    /\ Step(h, g, "create", "write")
    /\ file' = None("empty")
    /\ UNCHANGED <<cdb, value, place, wasSet>>

WriteFile(h, g) ==
    /\ Step(h, g, "write", "none")
    /\ file' \in written(marshal(value[h]))
    /\ UNCHANGED <<cdb, value, place, wasSet>>

\* An administrator sets the value in the service, or empties it.
SetCdb ==
    /\ \/ cdb' = None("empty") /\ UNCHANGED wasSet
       \/ \E t \in AdminText : cdb' = Whole(t) /\ wasSet' = wasSet \cup {t}
    /\ UNCHANGED <<file, value, place, reading>>

\* The process crashes; it is started again with New.
ConfCrash ==
    /\ place' = [h \in Holder |-> "none"]
    /\ reading' = [g \in Holder \X Reading |-> "none"]
    /\ UNCHANGED <<file, cdb, value, wasSet>>

ConfNext ==
    \/ \E h \in Holder :
         \/ New(h) \/ Read(h) \/ Truncate(h) \/ Write(h)
         \/ ReadBoth(h) \/ Reread(h) \/ Connected(h)
         \/ \E g \in Reading : \/ ReadFails(h, g) \/ ReadCdb(h, g) \/ EmptyCdb(h, g)
                               \/ WriteCdb(h, g) \/ CreateFile(h, g)
                               \/ WriteFile(h, g)
    \/ SetCdb
    \/ ConfCrash

ConfSpec == ConfInit /\ [][ConfNext]_confVars

\* Every variable has its type.
ConfTypeOK ==
    /\ file.kind \in {"absent", "empty", "mixed", "whole"} /\ IsObject(file.text)
    /\ cdb.kind \in {"absent", "empty", "whole"} /\ IsObject(cdb.text)
    /\ value \in [Holder -> [ConfField -> Nat]]
    /\ place \in [Holder -> {"none", "read", "create", "write", "both",
                             "reread", "ready"}]
    /\ reading \in [Holder \X Reading -> {"none", "ask", "give", "create", "write"}]
    /\ wasSet \subseteq AdminText

\* What a field may be: its default, and what an administrator gave it.
Known(f) == {Default[f]} \cup {t[f] : t \in {u \in wasSet : f \in DOMAIN u}}

\* No field of a configuration, of the file or of the service's value is one that
\* nobody gave, whatever crashes and writers of one file leave in it: a field that
\* a text does not have, because an administrator left it out or because omitempty
\* did, is never taken for zero. (A configuration as a whole may well be one that
\* nobody set: it is merged from several texts.)
FieldsGiven ==
    \A f \in ConfField :
        /\ \A h \in Holder : value[h][f] \in Known(f)
        /\ \A text \in {file.text, cdb.text} :
               f \in DOMAIN text => text[f] \in Known(f)
==============================================================================
