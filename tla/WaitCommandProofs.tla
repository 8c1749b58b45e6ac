-------------------------- MODULE WaitCommandProofs --------------------------
(***************************************************************************)
(* As long as no two callers wait for the same command of the same peer at *)
(* the same time, the kernel never sends to a caller that has left, for    *)
(* every set of callers, keys and answers.                                 *)
(***************************************************************************)
EXTENDS WaitCommand, SequenceTheorems, TLAPS

\* Removing the only request of a slice deletes the slice from the map.
LEMMA RemoveOnly ==
    ASSUME NEW s \in Seq(Waiter), NEW w, Len(s) = 1, s[1] = w
    PROVE  remove(s, w) = <<>>
  <1>1. DOMAIN s = {1}
    BY LenProperties
  <1>2. indexOf(s, w) = 1
    BY <1>1 DEF indexOf
  <1>3. SubSeq(s, 1, 0) = <<>> /\ SubSeq(s, 2, 1) = <<>>
    BY SubSeqProperties, EmptySeq
  <1>4. RemoveAt(s, 1) = <<>>
    BY <1>3 DEF RemoveAt
  <1> QED  BY <1>2, <1>4 DEF remove

-----------------------------------------------------------------------------
(* The inductive invariant: at most one call for a key is unanswered, and the
   map holds nothing but that call. *)

Exclusively ==
    /\ kernel \in {"running", "stopped", "crashed"}
    /\ \A w \in Waiter : task[w] \in {"none", "adding"} => result[w] = "none"
    /\ \A v, w \in Waiter :
         (/\ KeyOf[v] = KeyOf[w]
          /\ task[v] # "none" /\ task[w] # "none"
          /\ result[v] = "none" /\ result[w] = "none") => v = w
    /\ kernel = "running" => \A k \in Key :
         /\ Len(m[k]) <= 1
         /\ \A i \in DOMAIN m[k] :
              /\ KeyOf[m[k][i]] = k
              /\ task[m[k][i]] \in {"sleeping", "expiring"}
              /\ result[m[k][i]] = "none"

Inv == TypeOK /\ Exclusively

LEMMA InvInit == Init => Inv
  <1> SUFFICES ASSUME Init
               PROVE  Inv
    OBVIOUS
  <1>1. <<>> \in Seq(Waiter) /\ Len(<<>>) = 0 /\ DOMAIN <<>> = {}
    OBVIOUS
  <1>2. \A k \in Key : m[k] = <<>>
    BY DEF Init
  <1>3. m \in [Key -> Seq(Waiter)]
    BY <1>1 DEF Init
  <1>4. TypeOK
    BY <1>3 DEF Init, TypeOK, Result
  <1>5. \A k \in Key : Len(m[k]) <= 1 /\ DOMAIN m[k] = {}
    BY <1>1, <1>2
  <1>6. Exclusively
    <2>1. /\ kernel = "running"
          /\ \A w \in Waiter : task[w] = "none" /\ result[w] = "none"
      BY DEF Init
    <2> QED  BY <1>5, <2>1 DEF Exclusively
  <1> QED  BY <1>4, <1>6 DEF Inv

\* A slice of type Seq(Waiter) with at most one element.
LEMMA OneRequest ==
    ASSUME NEW s \in Seq(Waiter), Len(s) <= 1
    PROVE  \/ s = <<>>
           \/ Len(s) = 1 /\ DOMAIN s = {1} /\ s[1] \in Waiter
  <1>1. Len(s) \in Nat /\ DOMAIN s = 1 .. Len(s)
    BY LenProperties
  <1>2. CASE Len(s) = 0
    BY <1>2, EmptySeq
  <1>3. CASE Len(s) = 1
    BY <1>1, <1>3, ElementOfSeq
  <1> QED  BY <1>1, <1>2, <1>3

LEMMA InvAdd ==
    ASSUME Inv, NEW w \in Waiter, Add(w)
    PROVE  Inv'
  <1> DEFINE k == KeyOf[w]
  <1>1. k \in Key /\ m[k] \in Seq(Waiter)
    BY WaitAssumption DEF Inv, TypeOK
  <1>2. result[w] = "none" /\ task[w] = "adding" /\ kernel = "running"
    BY DEF Inv, Exclusively, Add
  <1>3. m[k] = <<>>
    <2>1. ASSUME Len(m[k]) = 1, DOMAIN m[k] = {1}, m[k][1] \in Waiter
          PROVE  FALSE
      <3>1. /\ KeyOf[m[k][1]] = k
            /\ task[m[k][1]] \in {"sleeping", "expiring"}
            /\ result[m[k][1]] = "none"
        BY <1>1, <1>2, <2>1 DEF Inv, Exclusively
      <3>2. m[k][1] = w
        BY <1>2, <2>1, <3>1 DEF Inv, Exclusively
      <3> QED  BY <1>2, <3>1, <3>2
    <2>2. Len(m[k]) <= 1
      BY <1>1, <1>2 DEF Inv, Exclusively
    <2> QED  BY <1>1, <2>1, <2>2, OneRequest
  <1>4. m' = [m EXCEPT ![k] = <<w>>]
    BY <1>3 DEF Add, add
  <1>5. <<w>> \in Seq(Waiter) /\ Len(<<w>>) = 1 /\ DOMAIN <<w>> = {1} /\ <<w>>[1] = w
    OBVIOUS
  <1>6. TypeOK'
    BY <1>1, <1>4, <1>5 DEF Inv, TypeOK, Add
  <1>7. task' = [task EXCEPT ![w] = "sleeping"]
        /\ UNCHANGED <<result, closed, kernel, answers, shared>>
    BY DEF Add
  <1>8. \A v \in Waiter : task'[v] = IF v = w THEN "sleeping" ELSE task[v]
    BY <1>7 DEF Inv, TypeOK
  <1>9. ASSUME NEW j \in Key
        PROVE  /\ Len(m'[j]) <= 1
               /\ \A i \in DOMAIN m'[j] :
                     /\ KeyOf[m'[j][i]] = j
                     /\ task'[m'[j][i]] \in {"sleeping", "expiring"}
                     /\ result'[m'[j][i]] = "none"
    <2>1. CASE j = k
      <3>1. m'[j] = <<w>>
        BY <2>1, <1>1, <1>4 DEF Inv, TypeOK
      <3> QED
        BY <2>1, <3>1, <1>5, <1>2, <1>7, <1>8
    <2>2. CASE j # k
      <3>1. m'[j] = m[j] /\ m[j] \in Seq(Waiter)
        BY <2>2, <1>1, <1>4 DEF Inv, TypeOK
      <3>2. \A i \in DOMAIN m[j] : m[j][i] \in Waiter
        BY <3>1, ElementOfSeq, LenProperties
      <3> QED
        BY <3>1, <3>2, <1>2, <1>7, <1>8 DEF Inv, Exclusively
    <2> QED  BY <2>1, <2>2
  <1>10. Exclusively'
    BY <1>2, <1>7, <1>8, <1>9 DEF Inv, Exclusively
  <1> QED  BY <1>6, <1>10 DEF Inv

LEMMA InvExpire ==
    ASSUME Inv, NEW w \in Waiter, Expire(w)
    PROVE  Inv'
  <1> DEFINE k == KeyOf[w]
  <1>1. k \in Key /\ m[k] \in Seq(Waiter)
    BY WaitAssumption DEF Inv, TypeOK
  <1>2. task[w] = "expiring" /\ kernel = "running"
    BY DEF Expire
  <1>3. /\ task' = [task EXCEPT ![w] = "ended"]
        /\ UNCHANGED <<closed, answers, shared>>
    BY DEF Expire
  <1>4. \A v \in Waiter : task'[v] = IF v = w THEN "ended" ELSE task[v]
    BY <1>3 DEF Inv, TypeOK
  <1>5. ASSUME NEW j \in Key, NEW i \in DOMAIN m[j]
        PROVE  m[j][i] \in Waiter
    BY <1>5, ElementOfSeq, LenProperties DEF Inv, TypeOK
  <1>6. CASE ~exists(m[k], w)
    <2>1. UNCHANGED <<m, result, kernel>>
      BY <1>6 DEF Expire
    <2>2. TypeOK'
      BY <1>3, <2>1 DEF Inv, TypeOK
    <2>3. ASSUME NEW j \in Key, NEW i \in DOMAIN m[j]
          PROVE  m[j][i] # w
      <3>1. SUFFICES ASSUME m[j][i] = w
                     PROVE  FALSE
        OBVIOUS
      <3>2. j = k
        BY <1>2, <3>1 DEF Inv, Exclusively
      <3> QED  BY <1>1, <1>6, <3>1, <3>2, LenProperties DEF exists, Contains
    <2>4. Exclusively'
      BY <1>2, <1>4, <1>5, <2>1, <2>3 DEF Inv, Exclusively
    <2> QED  BY <2>2, <2>4 DEF Inv
  <1>7. CASE exists(m[k], w)
    <2>1. Len(m[k]) = 1 /\ DOMAIN m[k] = {1} /\ m[k][1] = w
      <3>1. PICK i \in 1 .. Len(m[k]) : m[k][i] = w
        BY <1>7 DEF exists, Contains
      <3>2. Len(m[k]) <= 1 /\ Len(m[k]) \in Nat /\ DOMAIN m[k] = 1 .. Len(m[k])
        BY <1>1, <1>2, LenProperties DEF Inv, Exclusively
      <3>3. Len(m[k]) = 1
        <4> DEFINE n == Len(m[k])
        <4>1. n \in Nat /\ n <= 1 /\ i \in 1 .. n
          BY <3>1, <3>2
        <4> HIDE DEF n
        <4>2. n = 1
          BY <4>1
        <4> QED  BY <4>2 DEF n
      <3> QED  BY <3>1, <3>2, <3>3
    <2>2. result[w] = "none"
      BY <1>1, <1>2, <2>1 DEF Inv, Exclusively
    <2>3. remove(m[k], w) = <<>>
      BY <1>1, <2>1, RemoveOnly
    <2>4. /\ result' = [result EXCEPT ![w] = "timeout"]
          /\ m' = [m EXCEPT ![k] = <<>>]
          /\ UNCHANGED kernel
      BY <1>7, <2>2, <2>3 DEF Expire
    <2>5. \A v \in Waiter : result'[v] = IF v = w THEN "timeout" ELSE result[v]
      BY <2>4 DEF Inv, TypeOK
    <2>6. TypeOK'
      <3>1. m' \in [Key -> Seq(Waiter)]
        BY <2>4, EmptySeq DEF Inv, TypeOK
      <3>2. result' \in [Waiter -> Result]
        BY <2>4 DEF Inv, TypeOK, Result
      <3> QED  BY <1>3, <2>4, <3>1, <3>2 DEF Inv, TypeOK
    <2>7. ASSUME NEW j \in Key
          PROVE  /\ Len(m'[j]) <= 1
                 /\ \A i \in DOMAIN m'[j] :
                       /\ KeyOf[m'[j][i]] = j
                       /\ task'[m'[j][i]] \in {"sleeping", "expiring"}
                       /\ result'[m'[j][i]] = "none"
      <3>1. CASE j = k
        <4>1. m'[j] = <<>>
          BY <1>1, <2>4, <3>1 DEF Inv, TypeOK
        <4> QED  BY <4>1
      <3>2. CASE j # k
        <4>1. m'[j] = m[j]
          BY <2>4, <3>2 DEF Inv, TypeOK
        <4>2. \A i \in DOMAIN m[j] : m[j][i] # w
          BY <1>2, <3>2 DEF Inv, Exclusively
        <4> QED
          BY <4>1, <4>2, <1>2, <1>4, <1>5, <2>5 DEF Inv, Exclusively
      <3> QED  BY <3>1, <3>2
    <2>8. Exclusively'
      BY <1>2, <1>4, <2>4, <2>5, <2>7 DEF Inv, Exclusively
    <2> QED  BY <2>6, <2>8 DEF Inv
  <1> QED  BY <1>6, <1>7

LEMMA InvCheck ==
    ASSUME Inv, NEW a \in Waiter, check(a)
    PROVE  Inv'
  <1> DEFINE k == KeyOf[a]
             got(w) == Contains(m[k], w) /\ accepts(w, a)
  <1>1. k \in Key /\ m[k] \in Seq(Waiter)
    BY WaitAssumption DEF Inv, TypeOK
  <1>2. /\ kernel = "running"
        /\ answers' = [answers EXCEPT ![a] = @ + 1]
        /\ result' = [w \in Waiter |-> IF got(w) THEN a ELSE result[w]]
        /\ closed' = closed \cup {w \in Waiter : got(w)}
        /\ m' = [m EXCEPT ![k] = <<>>]
        /\ UNCHANGED <<task, kernel, shared>>
    BY DEF check
  <1> HIDE DEF got
  <1>3. \A w \in Waiter : result'[w] = IF got(w) THEN a ELSE result[w]
    BY <1>2
  <1>4. TypeOK'
    <2>1. result' \in [Waiter -> Result]
      BY <1>2 DEF Inv, TypeOK, Result
    <2>2. m' \in [Key -> Seq(Waiter)]
      BY <1>2, EmptySeq DEF Inv, TypeOK
    <2> QED  BY <1>2, <2>1, <2>2 DEF Inv, TypeOK
  <1>5. a # "none"
    BY WaitAssumption
  <1>6. ASSUME NEW w \in Waiter, got(w)
        PROVE  KeyOf[w] = k /\ task[w] \in {"sleeping", "expiring"}
    <2>1. PICK i \in 1 .. Len(m[k]) : m[k][i] = w
      BY <1>6 DEF got, Contains
    <2>2. i \in DOMAIN m[k]
      BY <1>1, LenProperties
    <2> QED  BY <1>1, <1>2, <2>1, <2>2 DEF Inv, Exclusively
  <1>7. ASSUME NEW j \in Key
        PROVE  /\ Len(m'[j]) <= 1
               /\ \A i \in DOMAIN m'[j] :
                     /\ KeyOf[m'[j][i]] = j
                     /\ task'[m'[j][i]] \in {"sleeping", "expiring"}
                     /\ result'[m'[j][i]] = "none"
    <2>1. CASE j = k
      <3>1. m'[j] = <<>>
        BY <1>1, <1>2, <2>1 DEF Inv, TypeOK
      <3> QED  BY <3>1
    <2>2. CASE j # k
      <3>1. m'[j] = m[j] /\ m[j] \in Seq(Waiter)
        BY <1>2, <2>2 DEF Inv, TypeOK
      <3>2. \A i \in DOMAIN m[j] : m[j][i] \in Waiter
        BY <3>1, ElementOfSeq, LenProperties
      <3>3. \A i \in DOMAIN m[j] : KeyOf[m[j][i]] = j
        BY <1>2 DEF Inv, Exclusively
      <3>4. \A i \in DOMAIN m[j] : ~got(m[j][i])
        BY <1>6, <2>2, <3>2, <3>3
      <3> QED
        BY <1>2, <1>3, <3>1, <3>2, <3>3, <3>4 DEF Inv, Exclusively
    <2> QED  BY <2>1, <2>2
  <1>8. \A w \in Waiter : result'[w] = "none" => result[w] = "none"
    BY <1>3, <1>5
  <1>9. \A w \in Waiter : task[w] \in {"none", "adding"} => result'[w] = "none"
    BY <1>3, <1>6 DEF Inv, Exclusively
  <1>10. Exclusively'
    BY <1>2, <1>7, <1>8, <1>9 DEF Inv, Exclusively
  <1> QED  BY <1>4, <1>10 DEF Inv

\* check() passes over the only request that a slice can hold.
LEMMA NeverStuck ==
    ASSUME Inv, NEW a \in Waiter, checkStuck(a)
    PROVE  FALSE
  <1> DEFINE s == m[KeyOf[a]]
  <1>1. s \in Seq(Waiter) /\ KeyOf[a] \in Key /\ kernel = "running"
    BY WaitAssumption DEF Inv, TypeOK, checkStuck
  <1>2. PICK n \in DOMAIN s : ~Passes(s, a, n)
    BY DEF checkStuck
  <1>3. Len(s) <= 1 /\ result[s[n]] = "none"
    BY <1>1, <1>2 DEF Inv, Exclusively
  <1>4. n = 1
    BY <1>1, <1>2, <1>3, OneRequest
  <1> QED  BY <1>2, <1>3, <1>4 DEF Passes

LEMMA InvNext ==
    ASSUME Inv, ~shared', [Next]_vars
    PROVE  Inv'
  <1>1. CASE UNCHANGED vars
    BY <1>1 DEF vars, Inv, TypeOK, Exclusively
  <1>2. ASSUME NEW w \in Waiter, Add(w)
        PROVE  Inv'
    BY <1>2, InvAdd
  <1>3. ASSUME NEW w \in Waiter, Expire(w)
        PROVE  Inv'
    BY <1>3, InvExpire
  <1>4. ASSUME NEW a \in Waiter, check(a)
        PROVE  Inv'
    BY <1>4, InvCheck
  <1>5. ASSUME NEW a \in Waiter, checkStuck(a)
        PROVE  Inv'
    BY <1>5, NeverStuck
  <1>6. ASSUME NEW w \in Waiter, WaitFrom(w)
        PROVE  Inv'
    <2>1. /\ task[w] = "none"
          /\ task' = [task EXCEPT ![w] = "adding"]
          /\ UNCHANGED <<m, result, closed, kernel, answers>>
          /\ \A v \in Waiter \ {w} :
               KeyOf[v] = KeyOf[w] => task[v] = "none" \/ result[v] # "none"
          /\ shared' \in BOOLEAN
      BY <1>6 DEF WaitFrom
    <2>2. \A v \in Waiter : task'[v] = IF v = w THEN "adding" ELSE task[v]
      BY <2>1 DEF Inv, TypeOK
    <2>3. TypeOK'
      BY <2>1 DEF Inv, TypeOK
    <2>4. ASSUME NEW j \in Key, kernel = "running", NEW i \in DOMAIN m[j]
          PROVE  task'[m[j][i]] \in {"sleeping", "expiring"}
      <3>1. m[j][i] \in Waiter
        BY <2>4, ElementOfSeq, LenProperties DEF Inv, TypeOK
      <3> QED  BY <2>1, <2>2, <2>4, <3>1 DEF Inv, Exclusively
    <2>5. Exclusively'
      BY <2>1, <2>2, <2>4 DEF Inv, Exclusively
    <2> QED  BY <2>3, <2>5 DEF Inv
  <1>7. ASSUME NEW w \in Waiter, Wake(w) \/ WakeStopped(w)
        PROVE  Inv'
    <2>1. PICK t \in {"expiring", "ended"} :
             /\ task[w] = "sleeping"
             /\ task' = [task EXCEPT ![w] = t]
             /\ t = "ended" => kernel # "running"
             /\ UNCHANGED <<m, result, closed, kernel, answers, shared>>
      BY <1>7 DEF Wake, WakeStopped
    <2>2. \A v \in Waiter : task'[v] = IF v = w THEN t ELSE task[v]
      BY <2>1 DEF Inv, TypeOK
    <2>3. TypeOK'
      BY <2>1 DEF Inv, TypeOK
    <2>4. ASSUME NEW j \in Key, kernel = "running", NEW i \in DOMAIN m[j]
          PROVE  task'[m[j][i]] \in {"sleeping", "expiring"}
      <3>1. m[j][i] \in Waiter
        BY <2>4, ElementOfSeq, LenProperties DEF Inv, TypeOK
      <3> QED  BY <2>1, <2>2, <2>4, <3>1 DEF Inv, Exclusively
    <2>5. Exclusively'
      BY <2>1, <2>2, <2>4 DEF Inv, Exclusively
    <2> QED  BY <2>3, <2>5 DEF Inv
  <1>8. CASE Close
    BY <1>8 DEF Close, Inv, TypeOK, Exclusively
  <1> QED
    BY <1>1, <1>2, <1>3, <1>4, <1>5, <1>6, <1>7, <1>8 DEF Next, Kernel

-----------------------------------------------------------------------------
UnsharedInv == ~shared => Inv

\* What was shared stays shared.
LEMMA SharedStays ==
    ASSUME [Next]_vars, ~shared'
    PROVE  ~shared
  <1>1. CASE UNCHANGED vars
    BY <1>1 DEF vars
  <1>2. CASE Next
    BY <1>2 DEF Next, Kernel, WaitFrom, Add, Wake, WakeStopped, Expire, check,
                checkStuck, Close
  <1> QED  BY <1>1, <1>2

LEMMA UnsharedInvHolds == Spec => []UnsharedInv
  <1>1. Init => UnsharedInv
    BY InvInit DEF UnsharedInv
  <1>2. UnsharedInv /\ [Next]_vars => UnsharedInv'
    BY InvNext, SharedStays DEF UnsharedInv
  <1> QED  BY <1>1, <1>2, PTL DEF Spec

\* As long as no two callers wait for the same command of the same peer at the
\* same time, check() and the timeout never send to a caller that has left: the
\* kernel neither blocks nor panics in them.
THEOREM UnsharedServesHolds == Spec => []UnsharedServes
  <1>1. UnsharedInv => UnsharedServes
    BY DEF UnsharedInv, Inv, Exclusively, UnsharedServes, KernelServes
  <1> QED  BY <1>1, UnsharedInvHolds, PTL

\* As long as that is so, the map holds exactly once what is registered and
\* unanswered: answers and timeouts leave nothing behind.
THEOREM RegisteredOnceHolds == Spec => []RegisteredOnce
  <1>1. UnsharedInv => RegisteredOnce
    <2> SUFFICES ASSUME Inv, kernel = "running", NEW k \in Key
                 PROVE  \A i, j \in DOMAIN m[k] : m[k][i] = m[k][j] => i = j
      BY DEF UnsharedInv, Inv, Exclusively, RegisteredOnce
    <2>1. m[k] \in Seq(Waiter) /\ Len(m[k]) <= 1
      BY DEF Inv, TypeOK, Exclusively
    <2> QED  BY <2>1, OneRequest
  <1> QED  BY <1>1, UnsharedInvHolds, PTL
==============================================================================
