-------------------------------- MODULE Users --------------------------------
(***************************************************************************)
(* The users service (services/teousers), which the key-value service runs *)
(* as its command CheckUser (teonet/app/teocdb/main.go): a client that     *)
(* logs in at an l0 server gives an access token or nothing, and is        *)
(* answered with a user id and the token of that user. A token that is not *)
(* found, and a look-up that fails, both create a user whose id is the     *)
(* token of the request.                                                   *)
(*                                                                         *)
(* Ids and tokens are numbers, drawn from one counter as time UUIDs are    *)
(* all different. Queries use consistency QUORUM. The check for an         *)
(* existing user in ComCreateUser hands the query library a struct where   *)
(* it wants a pointer, so it always fails and nothing ever exists.         *)
(***************************************************************************)
EXTENDS Naturals, FiniteSets

CONSTANTS
    User,           \* people who log in with a client
    UserWorker,     \* the workers of the service
    MaxUuid,        \* bound: UUIDs that are drawn
    MaxLogins       \* bound: requests

VARIABLES
    users,      \* the table of users: rows [id, token]
    drawn,      \* the UUIDs drawn so far
    requests,   \* requests on their way or being served, with their place
    login,      \* the client: its user id, token and open request; 0 is none
    responses,  \* answers on their way
    logins,     \* counts the requests
    troubled    \* history: users whose request failed in part or was sent again

userVars == <<users, drawn, requests, login, responses, logins, troubled>>

UserRequest == [n : 1 .. MaxLogins, by : User, id : 0 .. MaxUuid,
                at : {"queue", "access", "create"}]
UserResponce == [n : 1 .. MaxLogins, by : User, id : 0 .. MaxUuid,
                 token : 0 .. MaxUuid]

UserInit ==
    /\ users = {}
    /\ drawn = 0
    /\ requests = {}
    /\ login = [u \in User |-> [id |-> 0, token |-> 0, req |-> 0]]
    /\ responses = {}
    /\ logins = 0
    /\ troubled = {}

-----------------------------------------------------------------------------
\* A client sends its token, if it has one; without one the l0 server or the
\* service draws an id. A request that is open still was lost or is late: this
\* is a retry.
Login(u) ==
    /\ logins < MaxLogins
    /\ logins' = logins + 1
    /\ requests' = requests \cup {[n |-> logins', by |-> u,
                                   id |-> login[u].token, at |-> "queue"]}
    /\ login' = [login EXCEPT ![u].req = logins']
    /\ troubled' = IF login[u].req = 0 THEN troubled ELSE troubled \cup {u}
    /\ UNCHANGED <<users, drawn, responses>>

\* The answer to the open request; others are not looked at.
LoggedIn(u) == \E a \in responses :
    /\ a.by = u
    /\ responses' = responses \ {a}
    /\ login' = IF a.n = login[u].req
                THEN [login EXCEPT ![u] = [id |-> a.id, token |-> a.token, req |-> 0]]
                ELSE login
    /\ UNCHANGED <<users, drawn, requests, logins, troubled>>

\* A worker takes any of the requests that wait.
CheckUser(q) ==
    /\ q.at = "queue"
    /\ Cardinality({p \in requests : p.at # "queue"}) < Cardinality(UserWorker)
    /\ requests' = (requests \ {q}) \cup {[q EXCEPT !.at = "access"]}
    /\ UNCHANGED <<users, drawn, login, responses, logins, troubled>>

\* Fault: the user is looked up by its id.
getAccessById(q) == {r \in users : r.id = q.id}

\* The row with the token of the request.
getAccess(q) == {r \in users : r.token = q.id}

\* A known token is answered with its user; without one, or when the query or the
\* sending of the answer fails, a user is created.
ComCheckAccess(q) ==
    /\ q.at = "access"
    /\ \/ \E r \in getAccess(q) :
            /\ responses' = responses \cup {[n |-> q.n, by |-> q.by,
                                             id |-> r.id, token |-> r.token]}
            /\ requests' = requests \ {q}
            /\ UNCHANGED troubled
       \/ /\ requests' = (requests \ {q}) \cup {[q EXCEPT !.at = "create"]}
          /\ troubled' = IF getAccess(q) = {} THEN troubled
                         ELSE troubled \cup {q.by}
          /\ UNCHANGED responses
    /\ UNCHANGED <<users, drawn, login, logins>>

\* The user with the id of the request, or with a new one, gets a new token; a
\* user with this id that exists is overwritten.
ComCreateUser(q) ==
    LET id == IF q.id = 0 THEN drawn + 1 ELSE q.id IN
    /\ q.at = "create"
    /\ drawn + 2 <= MaxUuid
    /\ drawn' = drawn + 2
    /\ users' = {r \in users : r.id # id} \cup {[id |-> id, token |-> drawn + 2]}
    /\ responses' = responses \cup {[n |-> q.n, by |-> q.by, id |-> id,
                                     token |-> drawn + 2]}
    /\ requests' = requests \ {q}
    /\ UNCHANGED <<login, logins, troubled>>

\* The request is lost, or its query fails, and there is no answer.
LoseRequest(q) ==
    /\ requests' = requests \ {q}
    /\ UNCHANGED <<users, drawn, login, responses, logins, troubled>>

UserNext ==
    \/ \E u \in User : Login(u) \/ LoggedIn(u)
    \/ \E q \in requests :
         CheckUser(q) \/ ComCheckAccess(q) \/ ComCreateUser(q) \/ LoseRequest(q)

UserSpec == UserInit /\ [][UserNext]_userVars

-----------------------------------------------------------------------------
(* Properties *)

\* Every variable has its type.
UserTypeOK ==
    /\ users \subseteq [id : 1 .. MaxUuid, token : 1 .. MaxUuid]
    /\ drawn \in 0 .. MaxUuid
    /\ requests \subseteq UserRequest
    /\ login \in [User -> [id : 0 .. MaxUuid, token : 0 .. MaxUuid,
                           req : 0 .. MaxLogins]]
    /\ responses \subseteq UserResponce
    /\ troubled \subseteq User

\* Whoever logs in again is the same user as before, and no other has its id, as
\* long as no query failed on the way and no request was repeated: the token of
\* an answer is the one the table has for this user.
SameUser ==
    \A u \in User \ troubled : login[u].id # 0 =>
        /\ [id |-> login[u].id, token |-> login[u].token] \in users
        /\ \A a \in responses : a.by = u => a.id = login[u].id
        /\ \A v \in User \ (troubled \cup {u}) : login[v].id # login[u].id
==============================================================================
