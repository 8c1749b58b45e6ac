----------------------------- MODULE WaitCommand -----------------------------
(***************************************************************************)
(* Waiting for a command of a peer (teonet/teonet/command_wait.go).        *)
(* WaitFrom returns a channel and starts a goroutine, the waiter's task,   *)
(* which asks the kernel to register the request, sleeps, and asks the     *)
(* kernel to send "timeout" if the request is still registered. The kernel *)
(* is the teonet reader: it runs one function or processes one received    *)
(* command at a time, and a command is offered to the requests that wait   *)
(* for it (check). The channel of a request is unbuffered and its caller   *)
(* receives from it once, so a second send blocks the kernel for ever, and *)
(* a send after close() panics.                                            *)
(*                                                                         *)
(* A request is identified with its waiter. The answer to the request of w *)
(* is the value w; a checkDataFunc accepts the answer to its own request,  *)
(* as those of teocdbcli and l0 do (they compare request ids).             *)
(***************************************************************************)
EXTENDS Naturals, Sequences, SequencesExt

CONSTANTS
    Waiter,     \* calls of WaitFrom
    Key,        \* (peer, command) pairs
    KeyOf,      \* KeyOf[w]: what waiter w waits for
    Checking,   \* the waiters that pass a checkDataFunc
    MaxAnswers, \* bound: received commands of each waiter's request
    MayClose    \* may Close be called?

ASSUME WaitAssumption ==
    /\ KeyOf \in [Waiter -> Key]
    /\ Checking \subseteq Waiter
    /\ MaxAnswers \in Nat
    /\ MayClose \in BOOLEAN
    /\ {"none", "timeout"} \cap Waiter = {}

VARIABLES
    m,          \* wcom.m: the requests by key; <<>> is an absent key
    task,       \* the goroutine of a call of WaitFrom
    result,     \* what the caller received: "none", "timeout" or an answer
    closed,     \* the channels that were closed
    kernel,     \* the reader: "running", "blocked" or "panicked" in check(),
                \* "stopped" by Close, or "crashed" by a race with Close
    answers,    \* counts received commands (bound)
    shared      \* history: did two callers wait for a key at the same time?

vars == <<m, task, result, closed, kernel, answers, shared>>

Result == {"none", "timeout"} \cup Waiter

-----------------------------------------------------------------------------
(* The map of requests *)

add(s, w) == Append(s, w)

exists(s, w) == Contains(s, w)

\* The place of request w in slice s.
indexOf(s, w) ==
    CHOOSE i \in DOMAIN s : s[i] = w /\ \A j \in 1 .. i - 1 : s[j] # w

\* Fault: a slice that becomes empty is not deleted from the map either.
removeNever(s, w) == s

\* The slice that the map holds after remove. append shifts the requests after
\* w one place down in the array that the map's slice shares, but the slice in
\* the map keeps its length: its last element is there twice, or is w itself.
\* Only a slice that becomes empty is deleted from the map.
remove(s, w) ==
    LET kept == RemoveAt(s, indexOf(s, w))
    IN  IF kept = <<>> THEN <<>> ELSE Append(kept, Last(s))

\* Does the request of w take answer a?
accepts(w, a) == w \notin Checking \/ w = a

\* check() skips the n-th request of s or can send to it: it was not answered
\* and is not one of those served just before.
Passes(s, a, n) ==
    accepts(s[n], a) => /\ result[s[n]] = "none"
                        /\ \A i \in 1 .. n - 1 : s[i] # s[n]

-----------------------------------------------------------------------------
Init ==
    /\ m = [k \in Key |-> <<>>]
    /\ task = [w \in Waiter |-> "none"]
    /\ result = [w \in Waiter |-> "none"]
    /\ closed = {}
    /\ kernel = "running"
    /\ answers = [w \in Waiter |-> 0]
    /\ shared = FALSE

\* A caller asks its peer and calls WaitFrom. It shares the key if another call
\* for the same command of the same peer is unanswered.
WaitFrom(w) ==
    /\ task[w] = "none"
    /\ kernel \in {"running", "blocked"}
    /\ task' = [task EXCEPT ![w] = "adding"]
    /\ shared' = (shared \/ \E v \in Waiter \ {w} :
                    KeyOf[v] = KeyOf[w] /\ task[v] # "none" /\ result[v] = "none")
    /\ UNCHANGED <<m, result, closed, kernel, answers>>

\* The kernel takes the function that adds the request of w.
Add(w) ==
    /\ kernel = "running"
    /\ task[w] = "adding"
    /\ m' = [m EXCEPT ![KeyOf[w]] = add(@, w)]
    /\ task' = [task EXCEPT ![w] = "sleeping"]
    /\ UNCHANGED <<result, closed, kernel, answers, shared>>

\* The task wakes up and hands the kernel its second function.
Wake(w) ==
    /\ kernel \in {"running", "blocked"}
    /\ task[w] = "sleeping"
    /\ task' = [task EXCEPT ![w] = "expiring"]
    /\ UNCHANGED <<m, result, closed, kernel, answers, shared>>

\* The task wakes up after Close and ends without a word to the caller.
WakeStopped(w) ==
    /\ kernel = "stopped"
    /\ task[w] = "sleeping"
    /\ task' = [task EXCEPT ![w] = "ended"]
    /\ UNCHANGED <<m, result, closed, kernel, answers, shared>>

\* The kernel takes the second function: a request that is still in the map is
\* answered with "timeout" and removed.
Expire(w) ==
    /\ kernel = "running"
    /\ task[w] = "expiring"
    /\ task' = [task EXCEPT ![w] = "ended"]
    /\ IF ~exists(m[KeyOf[w]], w) THEN UNCHANGED <<m, result, kernel>>
       ELSE IF result[w] # "none"
       THEN kernel' = "blocked" /\ UNCHANGED <<m, result>>
       ELSE /\ result' = [result EXCEPT ![w] = "timeout"]
            /\ m' = [m EXCEPT ![KeyOf[w]] = remove(@, w)]
            /\ UNCHANGED kernel
    /\ UNCHANGED <<closed, answers, shared>>

\* Fault: the requests are not deleted from the map.
checkKeeps(a) ==
    LET s == m[KeyOf[a]] IN
    /\ kernel = "running"
    /\ task[a] # "none"
    /\ answers[a] < MaxAnswers
    /\ answers' = [answers EXCEPT ![a] = @ + 1]
    /\ \A n \in DOMAIN s : Passes(s, a, n)
    /\ result' = [w \in Waiter |-> IF Contains(s, w) /\ accepts(w, a)
                                   THEN a ELSE result[w]]
    /\ closed' = closed \cup {w \in Waiter : Contains(s, w) /\ accepts(w, a)}
    /\ UNCHANGED <<m, task, kernel, shared>>

\* The answer to the request of a is received: every request that accepts it
\* gets it and is closed, and all requests for the command are dropped.
check(a) ==
    LET s == m[KeyOf[a]] IN
    /\ kernel = "running"
    /\ task[a] # "none"
    /\ answers[a] < MaxAnswers
    /\ answers' = [answers EXCEPT ![a] = @ + 1]
    /\ \A n \in DOMAIN s : Passes(s, a, n)
    /\ result' = [w \in Waiter |-> IF Contains(s, w) /\ accepts(w, a)
                                   THEN a ELSE result[w]]
    /\ closed' = closed \cup {w \in Waiter : Contains(s, w) /\ accepts(w, a)}
    /\ m' = [m EXCEPT ![KeyOf[a]] = <<>>]
    /\ UNCHANGED <<task, kernel, shared>>

\* The same, but the n-th request it is sent to was answered already.
checkStuck(a) ==
    LET s == m[KeyOf[a]] IN
    /\ kernel = "running"
    /\ task[a] # "none"
    /\ answers[a] < MaxAnswers
    /\ answers' = [answers EXCEPT ![a] = @ + 1]
    /\ \E n \in DOMAIN s :
         LET before == {w \in Waiter : /\ accepts(w, a)
                                       /\ \E i \in 1 .. n - 1 : s[i] = w} IN
         /\ ~Passes(s, a, n)
         /\ \A i \in 1 .. n - 1 : Passes(s, a, i)
         /\ result' = [w \in Waiter |-> IF w \in before THEN a ELSE result[w]]
         /\ closed' = closed \cup before
         /\ kernel' = IF s[n] \in closed \cup before
                      THEN "panicked" ELSE "blocked"
    /\ UNCHANGED <<m, task, shared>>

\* Close: running is cleared and chanKernel is closed. A task that is blocked
\* in a send to it panics, and the process with it.
Close ==
    /\ MayClose
    /\ kernel = "running"
    /\ kernel' = IF \E w \in Waiter : task[w] \in {"adding", "expiring"}
                 THEN "crashed" ELSE "stopped"
    /\ UNCHANGED <<m, task, result, closed, answers, shared>>

-----------------------------------------------------------------------------
Kernel ==
    \/ \E w \in Waiter : Add(w) \/ Expire(w)
    \/ \E a \in Waiter : check(a) \/ checkStuck(a)

Next ==
    \/ Kernel
    \/ \E w \in Waiter : WaitFrom(w) \/ Wake(w) \/ WakeStopped(w)
    \/ Close

Spec == Init /\ [][Next]_vars

(* A function that was handed to the kernel is run (the select of read() picks
   among its ready channels at random), and a sleep ends. Nothing is assumed of
   the peer: answers may never come. *)
FairSpec ==
    /\ Spec
    /\ \A w \in Waiter : /\ WF_vars(Add(w) \/ Expire(w))
                         /\ WF_vars(Wake(w) \/ WakeStopped(w))

-----------------------------------------------------------------------------
(* Properties *)

\* Every variable has its type.
TypeOK ==
    /\ m \in [Key -> Seq(Waiter)]
    /\ task \in [Waiter -> {"none", "adding", "sleeping", "expiring", "ended"}]
    /\ result \in [Waiter -> Result]
    /\ closed \subseteq Waiter
    /\ kernel \in {"running", "blocked", "panicked", "stopped", "crashed"}
    /\ answers \in [Waiter -> Nat]
    /\ shared \in BOOLEAN

\* The kernel never sends to a request that was answered before: a caller that
\* has left would block it for ever, and with it all of teonet, and a closed
\* channel would panic.
KernelServes == kernel \notin {"blocked", "panicked"}

\* ... which holds as long as no two callers wait for the same command of the
\* same peer at the same time.
UnsharedServes == ~shared => KernelServes

\* As long as no key is shared and the kernel runs, the map holds the requests
\* that are registered and unanswered, each of them once and under its key: what
\* was answered or timed out is gone from it.
RegisteredOnce ==
    ~shared /\ kernel = "running" => \A k \in Key :
        /\ \A i \in DOMAIN m[k] :
             /\ KeyOf[m[k][i]] = k
             /\ task[m[k][i]] \in {"sleeping", "expiring"}
             /\ result[m[k][i]] = "none"
        /\ \A i, j \in DOMAIN m[k] : m[k][i] = m[k][j] => i = j

\* Every call of WaitFrom is answered, by the peer or by the timeout, unless
\* teonet is closed or a key is shared.
Answered ==
    \A w \in Waiter :
        (task[w] = "adding")
            ~> (result[w] # "none" \/ kernel \in {"stopped", "crashed"} \/ shared)
==============================================================================
