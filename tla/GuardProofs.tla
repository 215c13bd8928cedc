----------------------------- MODULE GuardProofs -----------------------------
(***************************************************************************)
(* Proofs about the guard's two components.                                *)
(*                                                                         *)
(* DriverGate: for every set of accesses and files, whatever the files     *)
(* are, and every number of service starts and driver loads.               *)
(*                                                                         *)
(* GuardLaunch, with the rules of GuardPolicy: for every set of contents,  *)
(* lists, requests and trusted names, wherever the mode is configured, and *)
(* every number of events.                                                 *)
(***************************************************************************)
EXTENDS DriverGate, GuardLaunch, TLAPS, FiniteSetTheorems, WellFoundedInduction

(***************************************************************************)
(* Part one: the driver, its port and the worker (DriverGate)              *)
(***************************************************************************)

\* The worker's steps about an access, and those at which it waits for itself.
Working == {"hash", "hashWait", "scan", "scanWait"}
WaitsForItself == {"hashWait", "scanWait"}

\* What the worker knows of the access at hand.
WorkInv ==
    /\ pc \in Working \cup {"reply"} =>
         handling \in Ios /\ io[handling] \in {"waiting", "allowed"}
    /\ pc \notin Working \cup {"reply"} => handling = None
    /\ pc \in Working => target[handling] \in Files \ FailOpen
    /\ pc = "reply" /\ verdict = "block" =>
         /\ target[handling] \notin FailOpen
         /\ Class[target[handling]] \in {"known", "confirmed", "probable"}

\* The driver asks only about paths that are not excluded, and the access at hand
\* is held by the guard's own port or not at all.
HeldInv ==
    /\ \A o \in Ios : io[o] = "waiting" => /\ path[o] \notin Excluded
                                           /\ target[o] \in Files
    /\ port # "guard" => handling \notin ToSet(waiting)

\* As long as an access is held for whose sake the guard waits for itself, the
\* guard still waits, and its own access stands behind that one.
Behind(s, o) == \E i, j \in 1..Len(s) : i < j /\ s[i] = o /\ s[j] = Own
OrderInv ==
    \A o \in selfAsked :
      /\ io[o] # "idle"
      /\ io[o] = "waiting" =>
           o = handling /\ pc \in WaitsForItself /\ Behind(waiting, o)

IInv == /\ TypeOK /\ WorkInv /\ HeldInv /\ OrderInv
        /\ DeniedHasCause /\ PortIsServed /\ SelfAskedIsAllowed

-----------------------------------------------------------------------------
(* The queue *)

Queue(s) == s \in Seq(Ios \cup {Own}) /\ IsInjective(s)

\* Membership in a queue, and what it means that each access is there once.
LEMMA QueueElements ==
    ASSUME NEW s, Queue(s)
    PROVE  /\ \A o : o \in ToSet(s) <=> \E i \in 1..Len(s) : s[i] = o
           /\ ToSet(s) \subseteq Ios \cup {Own}
           /\ \A i, j \in 1..Len(s) : s[i] = s[j] => i = j
           /\ Len(s) \in Nat
<1>1. s \in Seq(Ios \cup {Own}) /\ DOMAIN s = 1..Len(s) /\ Len(s) \in Nat
  BY DEF Queue
<1>2. QED
  BY <1>1 DEF Queue, IsInjective, ToSet

\* A sequence is a queue if it is one by its elements.
LEMMA QueueByElements ==
    ASSUME NEW s \in Seq(Ios \cup {Own}),
           \A i, j \in 1..Len(s) : s[i] = s[j] => i = j
    PROVE  Queue(s)
<1>1. DOMAIN s = 1..Len(s)
  OBVIOUS
<1>2. QED
  BY <1>1 DEF Queue, IsInjective

LEMMA EmptyQueue == Queue(<<>>) /\ ToSet(<<>>) = {}
<1>1. <<>> \in Seq(Ios \cup {Own}) /\ Len(<<>>) = 0
  OBVIOUS
<1>2. Queue(<<>>)
  <2>1. \A i, j \in 1..Len(<<>>) : <<>>[i] = <<>>[j] => i = j
    BY <1>1
  <2>2. QED
    BY <1>1, <2>1, QueueByElements
<1>3. QED
  BY <1>1, <1>2, QueueElements

\* A new access stands behind all others.
LEMMA QueueAppend ==
    ASSUME NEW s, Queue(s), NEW o \in Ios \cup {Own}, o \notin ToSet(s)
    PROVE  /\ Queue(Append(s, o))
           /\ ToSet(Append(s, o)) = ToSet(s) \cup {o}
           /\ \A p : Behind(s, p) => Behind(Append(s, o), p)
           /\ o = Own => \A p \in ToSet(s) : Behind(Append(s, o), p)
<1>1. s \in Seq(Ios \cup {Own}) /\ Len(s) \in Nat
  BY DEF Queue
<1> DEFINE t == Append(s, o)
<1>2. /\ t \in Seq(Ios \cup {Own}) /\ Len(t) = Len(s) + 1
      /\ \A i \in 1..Len(s) : t[i] = s[i]
      /\ t[Len(s) + 1] = o
  BY <1>1
<1> HIDE DEF t
<1>3. /\ \A p : p \in ToSet(s) <=> \E i \in 1..Len(s) : s[i] = p
      /\ \A i, j \in 1..Len(s) : s[i] = s[j] => i = j
  BY QueueElements
<1>4. \A i \in 1..Len(t) : i \in 1..Len(s) \/ i = Len(s) + 1
  BY <1>1, <1>2
<1>5. \A i \in 1..Len(s) : i \in 1..Len(t)
  BY <1>1, <1>2
<1>6. Len(s) + 1 \in 1..Len(t) /\ \A i \in 1..Len(s) : i < Len(s) + 1
  BY <1>1, <1>2
<1>7. \A i, j \in 1..Len(t) : t[i] = t[j] => i = j
  BY <1>2, <1>3, <1>4
<1>8. Queue(t)
  BY <1>2, <1>7, QueueByElements
<1>9. \A p : p \in ToSet(t) <=> \E i \in 1..Len(t) : t[i] = p
  BY <1>8, QueueElements
<1>10. \A p : p \in ToSet(t) <=> p \in ToSet(s) \/ p = o
  BY <1>2, <1>3, <1>4, <1>5, <1>6, <1>9
<1>11. \A p : Behind(s, p) => Behind(t, p)
  BY <1>2, <1>5 DEF Behind
<1>12. o = Own => \A p \in ToSet(s) : Behind(t, p)
  BY <1>2, <1>3, <1>5, <1>6 DEF Behind
<1>13. QED
  BY <1>8, <1>10, <1>11, <1>12 DEF t

\* When the oldest access is gone, the others keep their order.
LEMMA QueueTail ==
    ASSUME NEW s, Queue(s), s # <<>>
    PROVE  /\ Queue(Tail(s))
           /\ Head(s) \in ToSet(s)
           /\ ToSet(Tail(s)) = ToSet(s) \ {Head(s)}
           /\ \A p : Behind(s, p) => Head(s) # Own
           /\ \A p : Behind(s, p) /\ p # Head(s) => Behind(Tail(s), p)
<1>1. s \in Seq(Ios \cup {Own}) /\ Len(s) \in Nat /\ Len(s) # 0
  BY DEF Queue
<1> DEFINE t == Tail(s)
<1>2. /\ t \in Seq(Ios \cup {Own}) /\ Len(t) = Len(s) - 1
      /\ \A i \in 1..Len(t) : t[i] = s[i + 1]
      /\ Head(s) = s[1]
  BY <1>1
<1> HIDE DEF t
<1>3. /\ \A p : p \in ToSet(s) <=> \E i \in 1..Len(s) : s[i] = p
      /\ \A i, j \in 1..Len(s) : s[i] = s[j] => i = j
  BY QueueElements
<1>4. /\ 1 \in 1..Len(s)
      /\ \A i \in 1..Len(t) : i + 1 \in 1..Len(s) /\ i + 1 # 1
  BY <1>1, <1>2
<1>5. \A i \in 1..Len(s) : i = 1 \/ (i - 1 \in 1..Len(t) /\ (i - 1) + 1 = i)
  BY <1>1, <1>2
<1>6. \A i, j \in 1..Len(t) : t[i] = t[j] => i = j
  <2>1. SUFFICES ASSUME NEW i \in 1..Len(t), NEW j \in 1..Len(t), t[i] = t[j]
                 PROVE  i = j
    OBVIOUS
  <2>2. i + 1 = j + 1
    BY <1>2, <1>3, <1>4, <2>1
  <2>3. QED
    BY <2>2
<1>7. Queue(t)
  BY <1>2, <1>6, QueueByElements
<1>8. \A p : p \in ToSet(t) <=> \E i \in 1..Len(t) : t[i] = p
  BY <1>7, QueueElements
<1>9. \A p : p \in ToSet(t) <=> p \in ToSet(s) /\ p # Head(s)
  <2>1. ASSUME NEW p, p \in ToSet(t) PROVE p \in ToSet(s) /\ p # Head(s)
    BY <1>2, <1>3, <1>4, <1>8, <2>1
  <2>2. ASSUME NEW p, p \in ToSet(s), p # Head(s) PROVE p \in ToSet(t)
    <3>1. PICK i \in 1..Len(s) : s[i] = p
      BY <1>3, <2>2
    <3>2. i - 1 \in 1..Len(t) /\ (i - 1) + 1 = i
      BY <1>2, <1>5, <2>2, <3>1
    <3>3. QED
      BY <1>2, <1>8, <3>1, <3>2
  <2>3. QED
    BY <2>1, <2>2
<1>10. \A p : Behind(s, p) => Head(s) # Own
  <2>1. SUFFICES ASSUME NEW p, NEW i \in 1..Len(s), NEW j \in 1..Len(s),
                        i < j, s[j] = Own, s[1] = Own
                 PROVE  FALSE
    BY <1>2 DEF Behind
  <2>2. j = 1
    BY <1>3, <1>4, <2>1
  <2>3. QED
    BY <2>1, <2>2
<1>11. ASSUME NEW p, Behind(s, p), p # Head(s) PROVE Behind(t, p)
  <2>1. PICK i, j \in 1..Len(s) : i < j /\ s[i] = p /\ s[j] = Own
    BY <1>11 DEF Behind
  <2>2. i # 1 /\ j # 1
    BY <1>2, <1>11, <2>1
  <2>3. i - 1 \in 1..Len(t) /\ j - 1 \in 1..Len(t) /\ i - 1 < j - 1
    BY <1>5, <2>1, <2>2
  <2>4. t[i - 1] = p /\ t[j - 1] = Own
    BY <1>2, <1>5, <2>1, <2>2, <2>3
  <2>5. QED
    BY <2>3, <2>4 DEF Behind
<1>12. QED
  BY <1>2, <1>3, <1>4, <1>7, <1>9, <1>10, <1>11 DEF t

\* When the question about an access is over, the others keep their order.
LEMMA QueueWithout ==
    ASSUME Queue(waiting), NEW o
    PROVE  /\ Queue(Without(o))
           /\ ToSet(Without(o)) = ToSet(waiting) \ {o}
<1>1. /\ waiting \in Seq(Ios \cup {Own}) /\ Len(waiting) \in Nat
      /\ \A p : p \in ToSet(waiting) <=> \E i \in 1..Len(waiting) : waiting[i] = p
      /\ \A i, j \in 1..Len(waiting) : waiting[i] = waiting[j] => i = j
  BY QueueElements DEF Queue
<1>2. CASE o \notin ToSet(waiting)
  BY <1>2 DEF Without
<1>3. CASE o \in ToSet(waiting)
  <2> DEFINE k == CHOOSE i \in 1..Len(waiting) : waiting[i] = o
             left == SubSeq(waiting, 1, k - 1)
             right == SubSeq(waiting, k + 1, Len(waiting))
             w == left \o right
  <2>1. k \in 1..Len(waiting) /\ waiting[k] = o
    BY <1>1, <1>3
  <2>2. Without(o) = w
    BY <1>3 DEF Without, RemoveAt
  <2> HIDE DEF k
  <2>3. /\ left \in Seq(Ios \cup {Own}) /\ Len(left) = k - 1
        /\ \A i \in 1..(k - 1) : left[i] = waiting[i]
    BY <1>1, <2>1
  <2>4. /\ right \in Seq(Ios \cup {Own}) /\ Len(right) = Len(waiting) - k
        /\ \A i \in 1..(Len(waiting) - k) : right[i] = waiting[i + k]
    BY <1>1, <2>1
  <2> HIDE DEF left, right
  <2>5. w \in Seq(Ios \cup {Own}) /\ Len(w) = Len(left) + Len(right)
    BY <2>3, <2>4
  <2>6. Len(w) = Len(waiting) - 1
    BY <1>1, <2>1, <2>3, <2>4, <2>5
  <2>7. ASSUME NEW i \in 1..(Len(waiting) - 1)
        PROVE  w[i] = IF i < k THEN waiting[i] ELSE waiting[i + 1]
    <3>1. CASE i < k
      BY <1>1, <2>1, <2>3, <2>4, <3>1
    <3>2. CASE ~(i < k)
      <4>1. w[i] = right[i - (k - 1)]
        BY <1>1, <2>1, <2>3, <2>4, <3>2
      <4>2. i - (k - 1) \in 1..(Len(waiting) - k) /\ i - (k - 1) + k = i + 1
        BY <1>1, <2>1, <3>2
      <4>3. right[i - (k - 1)] = waiting[i + 1]
        BY <2>4, <4>2
      <4>4. QED
        BY <3>2, <4>1, <4>3
    <3>3. QED
      BY <3>1, <3>2
  <2> HIDE DEF w
  <2>8. \A i, j \in 1..Len(w) : w[i] = w[j] => i = j
    BY <1>1, <2>1, <2>6, <2>7
  <2>9. Queue(w)
    BY <2>5, <2>8, QueueByElements
  <2>10. \A p : p \in ToSet(w) <=> \E i \in 1..Len(w) : w[i] = p
    BY <2>9, QueueElements
  <2>11. ASSUME NEW p, p \in ToSet(w) PROVE p \in ToSet(waiting) /\ p # o
    BY <1>1, <2>1, <2>6, <2>7, <2>10, <2>11
  <2>12. ASSUME NEW p, p \in ToSet(waiting), p # o PROVE p \in ToSet(w)
    <3>1. PICK i \in 1..Len(waiting) : waiting[i] = p
      BY <1>1, <2>12
    <3>2. CASE i < k
      <4>1. i \in 1..(Len(waiting) - 1)
        BY <1>1, <2>1, <3>2
      <4>2. QED
        BY <2>6, <2>7, <2>10, <3>1, <3>2, <4>1
    <3>3. CASE i > k
      <4>1. i - 1 \in 1..(Len(waiting) - 1) /\ ~(i - 1 < k) /\ (i - 1) + 1 = i
        BY <1>1, <2>1, <3>3
      <4>2. QED
        BY <2>6, <2>7, <2>10, <3>1, <4>1
    <3>4. QED
      BY <1>1, <2>1, <2>12, <3>1, <3>2, <3>3
  <2>13. QED
    BY <2>2, <2>9, <2>11, <2>12
<1>4. QED
  BY <1>2, <1>3

-----------------------------------------------------------------------------
(* The steps *)

\* What TypeOK says of the queue.
LEMMA WaitingQueue ==
    ASSUME TypeOK
    PROVE  /\ Queue(waiting)
           /\ ToSet(waiting) \subseteq Ios \cup {Own}
           /\ \A o \in Ios : o \in ToSet(waiting) <=> io[o] = "waiting"
           /\ Own \notin Ios /\ None \notin ToSet(waiting)
           /\ \A p : Behind(waiting, p) => Own \in ToSet(waiting)
<1>1. Queue(waiting)
  BY DEF TypeOK, Queue
<1>2. \A o \in Ios : o \in ToSet(waiting) <=> io[o] = "waiting"
  BY DEF TypeOK
<1>3. QED
  BY <1>1, <1>2, QueueElements, GateAssumption DEF Behind

\* The port's client goes: no access is held any more. The worker goes on, or it
\* stops.
LEMMA PortClosesInv ==
    ASSUME IInv, PortCloses, loaded' \in BOOLEAN,
           UNCHANGED <<path, target, restarts, selfAsked>>,
           \/ UNCHANGED workerVars
           \/ pc' \in {"off", "ended"} /\ handling' = None /\ verdict' = "allow"
    PROVE  IInv'
<1>1. TypeOK /\ WorkInv /\ None \notin Ios
  BY GateAssumption DEF IInv
<1>2. io' = [o \in Ios |-> IF o \in ToSet(waiting) THEN "allowed" ELSE io[o]]
  BY DEF PortCloses, Granted
<1>3. /\ waiting' = <<>> /\ port' = None
      /\ UNCHANGED <<path, target, restarts, selfAsked>>
  BY DEF PortCloses
<1>4. /\ io' \in [Ios -> {"idle", "waiting", "allowed", "denied"}]
      /\ Queue(waiting') /\ ToSet(waiting') = {}
      /\ \A o \in Ios : /\ io'[o] # "waiting"
                        /\ io[o] = "denied" <=> io'[o] = "denied"
                        /\ io[o] = "idle" <=> io'[o] = "idle"
                        /\ io[o] \in {"waiting", "allowed"} =>
                             io'[o] \in {"waiting", "allowed"}
  BY <1>1, <1>2, <1>3, WaitingQueue, EmptyQueue DEF TypeOK
<1>5. /\ pc' \in {"off", "connect", "get", "hash", "hashWait", "scan", "scanWait",
                  "reply", "ended"}
      /\ handling' \in Ios \cup {None} /\ verdict' \in Verdicts
      /\ WorkInv'
  <2>1. CASE UNCHANGED workerVars
    BY <1>1, <1>3, <1>4, <2>1 DEF TypeOK, WorkInv, workerVars
  <2>2. CASE pc' \in {"off", "ended"} /\ handling' = None /\ verdict' = "allow"
    BY <2>2 DEF WorkInv, Working, Verdicts
  <2>3. QED
    BY <2>1, <2>2
<1>6. TypeOK'
  <2>1. ToSet(waiting') \cap Ios = {o \in Ios : io'[o] = "waiting"}
    BY <1>4
  <2>2. QED
    BY <1>1, <1>3, <1>4, <1>5, <2>1 DEF TypeOK, Queue
<1>7. HeldInv' /\ OrderInv' /\ PortIsServed'
  BY <1>1, <1>3, <1>4, GateAssumption DEF HeldInv, OrderInv, PortIsServed, TypeOK,
                                          IInv
<1>8. DeniedHasCause' /\ SelfAskedIsAllowed'
  BY <1>1, <1>3, <1>4 DEF DeniedHasCause, SelfAskedIsAllowed, TypeOK, IInv
<1>9. QED
  BY <1>5, <1>6, <1>7, <1>8 DEF IInv

LEMMA LoadDriverInv ==
    ASSUME IInv, LoadDriver PROVE IInv'
<1>1. /\ restarts < MaxRestarts /\ loaded' = TRUE /\ restarts' = restarts + 1
      /\ UNCHANGED <<port, io, path, target, waiting, pc, handling, verdict, selfAsked>>
  BY DEF LoadDriver, workerVars
<1>2. restarts' \in 0 .. MaxRestarts
  BY <1>1, GateAssumption DEF IInv, TypeOK
<1>3. TypeOK'
  BY <1>1, <1>2 DEF IInv, TypeOK
<1>4. QED
  BY <1>1, <1>3 DEF IInv, WorkInv, HeldInv, OrderInv, DeniedHasCause,
                    PortIsServed, SelfAskedIsAllowed

LEMMA UnloadDriverInv ==
    ASSUME IInv, UnloadDriver PROVE IInv'
BY PortClosesInv DEF UnloadDriver

LEMMA StartServiceInv ==
    ASSUME IInv, StartService PROVE IInv'
<1>1. /\ pc = "off" /\ pc' = "connect" /\ restarts < MaxRestarts /\ restarts' = restarts + 1
      /\ UNCHANGED <<loaded, port, io, path, target, waiting, handling, verdict,
                     selfAsked>>
  BY DEF StartService, gateVars
<1>2. restarts' \in 0 .. MaxRestarts
  BY <1>1, GateAssumption DEF IInv, TypeOK
<1>3. TypeOK'
  BY <1>1, <1>2 DEF IInv, TypeOK
<1>4. WorkInv' /\ HeldInv' /\ OrderInv' /\ PortIsServed'
  BY <1>1 DEF IInv, WorkInv, Working, WaitsForItself, HeldInv, OrderInv, PortIsServed
<1>5. DeniedHasCause' /\ SelfAskedIsAllowed'
  BY <1>1 DEF IInv, DeniedHasCause, SelfAskedIsAllowed
<1>6. QED
  BY <1>3, <1>4, <1>5 DEF IInv

LEMMA ProbeConnectsInv ==
    ASSUME IInv, ProbeConnects PROVE IInv'
<1>1. /\ port = None /\ port' = "probe"
      /\ UNCHANGED <<loaded, io, path, target, waiting, pc, handling, verdict, restarts,
                     selfAsked>>
  BY DEF ProbeConnects, workerVars
<1>2. TypeOK'
  BY <1>1 DEF IInv, TypeOK
<1>3. HeldInv' /\ PortIsServed'
  BY <1>1, WaitingQueue, GateAssumption DEF IInv, HeldInv, PortIsServed
<1>4. QED
  BY <1>1, <1>2, <1>3 DEF IInv, WorkInv, OrderInv, DeniedHasCause,
                          SelfAskedIsAllowed

LEMMA ProbeClosesInv ==
    ASSUME IInv, ProbeCloses PROVE IInv'
BY PortClosesInv DEF ProbeCloses, IInv, TypeOK

\* Without the guard's port the worker holds no access of an application.
LEMMA StopServiceInv ==
    ASSUME IInv, StopService PROVE IInv'
<1>1. /\ pc' = "off" /\ handling' = None /\ verdict' = "allow"
      /\ UNCHANGED <<loaded, path, target, restarts, selfAsked>>
  BY DEF StopService
<1>2. CASE port = "guard"
  BY <1>1, <1>2, PortClosesInv DEF StopService, IInv, TypeOK
<1>3. CASE port # "guard"
  <2>1. waiting' = Without(Own) /\ UNCHANGED <<port, io>>
    BY <1>3 DEF StopService
  <2>2. TypeOK /\ HeldInv /\ OrderInv
    BY DEF IInv
  <2>3. /\ Queue(waiting') /\ ToSet(waiting') = ToSet(waiting) \ {Own}
        /\ Own \notin Ios /\ None \notin Ios
    BY <2>1, <2>2, WaitingQueue, QueueWithout, GateAssumption
  <2>4. TypeOK'
    BY <1>1, <2>1, <2>2, <2>3 DEF TypeOK, Queue, Verdicts
  <2>5. \A o \in selfAsked : io[o] # "waiting"
    BY <1>3, <2>2 DEF TypeOK, HeldInv, OrderInv
  <2>6. WorkInv' /\ OrderInv' /\ PortIsServed'
    BY <1>1, <1>3, <2>1, <2>2, <2>5 DEF WorkInv, Working, OrderInv, PortIsServed
  <2>7. HeldInv'
    BY <1>1, <2>1, <2>2, <2>3, WaitingQueue DEF HeldInv
  <2>8. DeniedHasCause' /\ SelfAskedIsAllowed'
    BY <1>1, <2>1 DEF IInv, DeniedHasCause, SelfAskedIsAllowed
  <2>9. QED
    BY <2>4, <2>6, <2>7, <2>8 DEF IInv
<1>4. QED
  BY <1>2, <1>3

LEMMA ConnectInv ==
    ASSUME IInv, Connect PROVE IInv'
<1>1. /\ pc = "connect"
      /\ \/ port = None /\ pc' = "get" /\ port' = "guard"
         \/ pc' = "ended" /\ port' = port
      /\ UNCHANGED <<loaded, io, path, target, waiting, handling, verdict, restarts,
                     selfAsked>>
  BY DEF Connect
<1>2. TypeOK'
  BY <1>1 DEF IInv, TypeOK
<1>3. WorkInv' /\ HeldInv' /\ OrderInv' /\ PortIsServed'
  BY <1>1 DEF IInv, WorkInv, Working, WaitsForItself, HeldInv, OrderInv, PortIsServed
<1>4. DeniedHasCause' /\ SelfAskedIsAllowed'
  BY <1>1 DEF IInv, DeniedHasCause, SelfAskedIsAllowed
<1>5. QED
  BY <1>2, <1>3, <1>4 DEF IInv

LEMMA AskGuardInv ==
    ASSUME IInv, NEW o \in Ios, NEW f \in Files, NEW g \in Files, AskGuard(o, f, g)
    PROVE  IInv'
<1>1. /\ io[o] = "idle" /\ f \notin Excluded
      /\ io' = [io EXCEPT ![o] = "waiting"]
      /\ path' = [path EXCEPT ![o] = f] /\ target' = [target EXCEPT ![o] = g]
      /\ waiting' = Append(waiting, o)
      /\ UNCHANGED <<loaded, port, pc, handling, verdict, restarts, selfAsked>>
  BY DEF AskGuard, Asks, workerVars
<1>2. TypeOK /\ WorkInv /\ HeldInv /\ OrderInv
  BY DEF IInv
<1>3. Queue(waiting) /\ o \notin ToSet(waiting) /\ o # Own /\ None \notin Ios
  BY <1>1, <1>2, WaitingQueue, GateAssumption
<1>4. /\ Queue(waiting') /\ ToSet(waiting') = ToSet(waiting) \cup {o}
      /\ \A p : Behind(waiting, p) => Behind(waiting', p)
  BY <1>1, <1>3, QueueAppend
<1>5. /\ io' \in [Ios -> {"idle", "waiting", "allowed", "denied"}]
      /\ path' \in [Ios -> Files \cup {None}] /\ target' \in [Ios -> Files \cup {None}]
      /\ io'[o] = "waiting" /\ path'[o] = f /\ target'[o] = g
      /\ \A p \in Ios \ {o} : io'[p] = io[p] /\ path'[p] = path[p] /\ target'[p] = target[p]
  BY <1>1, <1>2 DEF TypeOK
<1>6. TypeOK'
  <2>1. ToSet(waiting') \cap Ios = {p \in Ios : io'[p] = "waiting"}
    BY <1>2, <1>4, <1>5, WaitingQueue
  <2>2. QED
    BY <1>1, <1>2, <1>3, <1>4, <1>5, <2>1 DEF TypeOK, Queue
<1>7. handling # o
  BY <1>1, <1>2, <1>3 DEF WorkInv, Working
<1>8. WorkInv'
  BY <1>1, <1>2, <1>5, <1>7 DEF WorkInv, Working
<1>9. HeldInv'
  BY <1>1, <1>2, <1>4, <1>5, <1>7 DEF HeldInv
<1>10. o \notin selfAsked
  BY <1>1, <1>2 DEF OrderInv
<1>11. DeniedHasCause' /\ SelfAskedIsAllowed' /\ PortIsServed'
  BY <1>1, <1>2, <1>5 DEF IInv, DeniedHasCause, SelfAskedIsAllowed, PortIsServed,
                          TypeOK
<1>12. OrderInv'
  BY <1>1, <1>2, <1>4, <1>5, <1>10 DEF OrderInv, TypeOK
<1>13. QED
  BY <1>6, <1>8, <1>9, <1>11, <1>12 DEF IInv

LEMMA PassThroughInv ==
    ASSUME IInv, NEW o \in Ios, NEW f \in Files, PassThrough(o, f)
    PROVE  IInv'
<1>1. /\ io[o] = "idle"
      /\ io' = [io EXCEPT ![o] = "allowed"]
      /\ path' = [path EXCEPT ![o] = f]
      /\ UNCHANGED <<loaded, port, target, waiting, pc, handling, verdict, restarts,
                     selfAsked>>
  BY DEF PassThrough, workerVars
<1>2. TypeOK /\ WorkInv /\ HeldInv /\ OrderInv /\ None \notin Ios
  BY GateAssumption DEF IInv
<1>3. /\ io' \in [Ios -> {"idle", "waiting", "allowed", "denied"}]
      /\ path' \in [Ios -> Files \cup {None}]
      /\ io'[o] = "allowed"
      /\ \A p \in Ios \ {o} : io'[p] = io[p] /\ path'[p] = path[p]
  BY <1>1, <1>2 DEF TypeOK
<1>4. {p \in Ios : io'[p] = "waiting"} = {p \in Ios : io[p] = "waiting"}
  BY <1>1, <1>3
<1>5. TypeOK'
  BY <1>1, <1>2, <1>3, <1>4 DEF TypeOK
<1>6. o # handling /\ o \notin selfAsked
  BY <1>1, <1>2 DEF WorkInv, OrderInv
<1>7. WorkInv' /\ HeldInv' /\ OrderInv'
  BY <1>1, <1>2, <1>3, <1>6 DEF WorkInv, HeldInv, OrderInv, TypeOK
<1>8. DeniedHasCause' /\ SelfAskedIsAllowed' /\ PortIsServed'
  BY <1>1, <1>2, <1>3 DEF IInv, DeniedHasCause, SelfAskedIsAllowed, PortIsServed,
                          TypeOK
<1>9. QED
  BY <1>5, <1>7, <1>8 DEF IInv

\* The worker's open has returned: what it has found out about the access at hand.
LEMMA AfterOpenWork ==
    ASSUME IInv, NEW found \in BOOLEAN, AfterOpen(found), UNCHANGED <<target, handling>>
    PROVE  /\ pc \in Working /\ pc' \in {"scan", "reply"}
           /\ handling \in Ios /\ io[handling] \in {"waiting", "allowed"}
           /\ verdict' \in Verdicts
           /\ pc' = "scan" => target[handling] \in Files \ FailOpen
           /\ pc' = "reply" /\ verdict' = "block" =>
                /\ target[handling] \notin FailOpen
                /\ Class[target[handling]] \in {"known", "confirmed", "probable"}
<1>1. /\ \/ pc \in {"hash", "hashWait"} /\ AfterHash(found)
         \/ pc \in {"scan", "scanWait"} /\ AfterScan(found)
      /\ TypeOK /\ WorkInv
  BY DEF AfterOpen, IInv
<1>2. CASE pc \in {"hash", "hashWait"} /\ AfterHash(found)
  BY <1>1, <1>2 DEF AfterHash, WorkInv, Working, TypeOK, Verdicts
<1>3. CASE pc \in {"scan", "scanWait"} /\ AfterScan(found)
  <2>1. /\ pc' = "reply" /\ verdict' \in {"block", "timeoutAllow", "monitor"}
        /\ verdict' = "block" =>
             Class[target[handling]] \in {"confirmed", "probable"}
    BY <1>3 DEF AfterScan
  <2>2. QED
    BY <1>1, <1>3, <2>1 DEF WorkInv, Working, TypeOK, Verdicts
<1>4. QED
  BY <1>1, <1>2, <1>3

\* A question times out. If it is the guard's own, no access waits before it any
\* more for whose sake the guard waits for itself.
LEMMA TimeoutInv ==
    ASSUME IInv, Timeout PROVE IInv'
<1> DEFINE o == Head(waiting)
<1>1. /\ waiting # <<>> /\ waiting' = Tail(waiting)
      /\ io' = [p \in Ios |-> IF p \in {o} THEN "allowed" ELSE io[p]]
      /\ UNCHANGED <<loaded, port, path, target, handling, restarts, selfAsked>>
  BY DEF Timeout, Granted
<1>2. \/ o = Own /\ \E found \in BOOLEAN : AfterOpen(found)
      \/ o # Own /\ UNCHANGED <<pc, verdict>>
  BY DEF Timeout
<1>3. TypeOK /\ WorkInv /\ HeldInv /\ OrderInv /\ Queue(waiting) /\ None \notin Ios
  BY WaitingQueue, GateAssumption DEF IInv
<1>4. /\ Queue(waiting') /\ ToSet(waiting') = ToSet(waiting) \ {o}
      /\ o \in ToSet(waiting) /\ o \in Ios \cup {Own}
      /\ \A p : Behind(waiting, p) => o # Own
      /\ \A p : Behind(waiting, p) /\ p # o => Behind(waiting', p)
  BY <1>1, <1>3, QueueTail, QueueElements
<1> HIDE DEF o
<1>5. /\ io' \in [Ios -> {"idle", "waiting", "allowed", "denied"}]
      /\ \A p \in Ios : \/ io'[p] = io[p] /\ p # o
                        \/ io'[p] = "allowed" /\ p = o /\ io[p] = "waiting"
  BY <1>1, <1>3, <1>4, WaitingQueue DEF TypeOK
<1>6. /\ pc' \in {"off", "connect", "get", "hash", "hashWait", "scan", "scanWait",
                  "reply", "ended"}
      /\ verdict' \in Verdicts /\ WorkInv'
      /\ port = "guard" => pc' \notin {"off", "connect", "ended"}
  <2>1. CASE o # Own /\ UNCHANGED <<pc, verdict>>
    BY <1>1, <1>3, <1>5, <2>1 DEF WorkInv, TypeOK, IInv, PortIsServed
  <2>2. ASSUME NEW found \in BOOLEAN, AfterOpen(found), o = Own
        PROVE  /\ pc' \in {"scan", "reply"} /\ verdict' \in Verdicts /\ WorkInv'
    BY <1>1, <1>5, <2>2, AfterOpenWork DEF WorkInv, Working
  <2>3. QED
    BY <1>2, <2>1, <2>2
<1>7. TypeOK'
  <2>1. ToSet(waiting') \cap Ios = {p \in Ios : io'[p] = "waiting"}
    BY <1>3, <1>4, <1>5, WaitingQueue
  <2>2. Own \in ToSet(waiting') => pc' \in {"hashWait", "scanWait"}
    BY <1>2, <1>3, <1>4 DEF TypeOK
  <2>3. QED
    BY <1>1, <1>3, <1>4, <1>5, <1>6, <2>1, <2>2 DEF TypeOK, Queue
<1>8. HeldInv'
  BY <1>1, <1>3, <1>4, <1>5 DEF HeldInv
<1>9. OrderInv'
  BY <1>1, <1>2, <1>3, <1>4, <1>5 DEF OrderInv, TypeOK
<1>10. DeniedHasCause' /\ SelfAskedIsAllowed'
  BY <1>1, <1>3, <1>5 DEF IInv, DeniedHasCause, SelfAskedIsAllowed, TypeOK
<1>11. PortIsServed'
  BY <1>1, <1>6 DEF PortIsServed
<1>12. QED
  BY <1>6, <1>7, <1>8, <1>9, <1>10, <1>11 DEF IInv

LEMMA GetMessageInv ==
    ASSUME IInv, GetMessage PROVE IInv'
<1>1. /\ pc = "get" /\ port = "guard" /\ waiting # <<>>
      /\ handling' = Head(waiting)
      /\ UNCHANGED <<loaded, port, io, path, target, waiting, restarts, selfAsked>>
      /\ \/ pc' = "reply" /\ verdict' = "allow"
         \/ /\ target[Head(waiting)] \notin FailOpen
            /\ pc' = "hash" /\ verdict' = verdict
  BY DEF GetMessage, gateVars
<1>2. TypeOK /\ HeldInv /\ OrderInv
  BY DEF IInv
<1>3. Head(waiting) \in Ios /\ io[Head(waiting)] = "waiting"
  <2>1. Head(waiting) \in ToSet(waiting) /\ Own \notin ToSet(waiting)
    BY <1>1, <1>2, WaitingQueue, QueueTail DEF TypeOK
  <2>2. QED
    BY <1>2, <2>1, WaitingQueue
<1>4. TypeOK'
  BY <1>1, <1>2, <1>3 DEF TypeOK, Verdicts
<1>5. WorkInv' /\ HeldInv' /\ PortIsServed'
  BY <1>1, <1>2, <1>3 DEF WorkInv, Working, HeldInv, PortIsServed
<1>6. OrderInv'
  BY <1>1, <1>2 DEF OrderInv, WaitsForItself
<1>7. DeniedHasCause' /\ SelfAskedIsAllowed'
  BY <1>1 DEF IInv, DeniedHasCause, SelfAskedIsAllowed
<1>8. QED
  BY <1>4, <1>5, <1>6, <1>7 DEF IInv

\* The guard asks itself: its own access stands behind the one at hand.
LEMMA OpenAsksInv ==
    ASSUME IInv, OpenAsks PROVE IInv'
<1>1. /\ pc \in {"hash", "scan"} /\ pc' \in WaitsForItself
      /\ waiting' = Append(waiting, Own)
      /\ selfAsked' = selfAsked \cup {handling}
      /\ UNCHANGED <<loaded, port, io, path, target, handling, verdict, restarts>>
  BY DEF OpenAsks, WaitsForItself
<1>2. TypeOK /\ WorkInv /\ HeldInv /\ OrderInv /\ Queue(waiting)
  BY WaitingQueue DEF IInv
<1>3. /\ handling \in Ios /\ io[handling] \in {"waiting", "allowed"}
      /\ target[handling] \in Files \ FailOpen
  BY <1>1, <1>2 DEF WorkInv, Working
<1>4. Own \notin ToSet(waiting) /\ Own \notin Ios
  BY <1>1, <1>2, GateAssumption DEF TypeOK
<1>5. /\ Queue(waiting') /\ ToSet(waiting') = ToSet(waiting) \cup {Own}
      /\ \A p \in ToSet(waiting) : Behind(waiting', p)
  BY <1>1, <1>2, <1>4, QueueAppend
<1>6. TypeOK'
  BY <1>1, <1>2, <1>3, <1>4, <1>5 DEF TypeOK, Queue, WaitsForItself
<1>7. WorkInv' /\ PortIsServed'
  BY <1>1, <1>3 DEF WorkInv, Working, WaitsForItself, PortIsServed, IInv
<1>8. HeldInv'
  BY <1>1, <1>2, <1>3, <1>4, <1>5 DEF HeldInv
<1>9. \A o \in selfAsked : io[o] # "waiting"
  BY <1>1, <1>2 DEF OrderInv, WaitsForItself
<1>10. OrderInv'
  BY <1>1, <1>2, <1>3, <1>5, <1>9, WaitingQueue DEF OrderInv
<1>11. DeniedHasCause' /\ SelfAskedIsAllowed'
  BY <1>1, <1>3 DEF IInv, DeniedHasCause, SelfAskedIsAllowed
<1>12. QED
  BY <1>6, <1>7, <1>8, <1>10, <1>11 DEF IInv

\* The worker's open has returned and its own access is not held (any more).
LEMMA OpenReturnsInv ==
    ASSUME IInv, NEW found \in BOOLEAN, AfterOpen(found), Own \notin ToSet(waiting),
           UNCHANGED <<loaded, port, io, path, target, waiting, handling, restarts,
                       selfAsked>>
    PROVE  IInv'
<1>1. /\ pc' \in {"scan", "reply"} /\ verdict' \in Verdicts /\ WorkInv'
  BY AfterOpenWork DEF WorkInv, Working
<1>2. TypeOK'
  BY <1>1 DEF IInv, TypeOK
<1>3. \A o \in selfAsked : io[o] \notin {"idle", "waiting"}
  BY WaitingQueue DEF IInv, OrderInv
<1>4. OrderInv' /\ HeldInv' /\ PortIsServed'
  BY <1>1, <1>3 DEF OrderInv, HeldInv, PortIsServed, IInv
<1>5. DeniedHasCause' /\ SelfAskedIsAllowed'
  BY DEF IInv, DeniedHasCause, SelfAskedIsAllowed
<1>6. QED
  BY <1>1, <1>2, <1>4, <1>5 DEF IInv

LEMMA OpenPassesInv ==
    ASSUME IInv, OpenPasses PROVE IInv'
BY OpenReturnsInv DEF OpenPasses, IInv, TypeOK, gateVars

LEMMA OpenReleasedInv ==
    ASSUME IInv, OpenReleased PROVE IInv'
BY OpenReturnsInv DEF OpenReleased, gateVars

\* The worker answers: the access is held still, so it is not one for whose sake
\* the guard waited for itself.
LEMMA ReplyInv ==
    ASSUME IInv, Reply PROVE IInv'
<1>1. /\ pc = "reply" /\ handling \in ToSet(waiting)
      /\ io' = [io EXCEPT ![handling] =
                    IF verdict = "block" THEN "denied" ELSE "allowed"]
      /\ waiting' = Without(handling)
      /\ pc' = "get" /\ handling' = None /\ verdict' = "allow"
      /\ UNCHANGED <<loaded, port, path, target, restarts, selfAsked>>
  BY DEF Reply, ShouldBlock
<1>2. TypeOK /\ WorkInv /\ HeldInv /\ OrderInv /\ Queue(waiting)
  BY WaitingQueue DEF IInv
<1>3. handling \in Ios /\ io[handling] = "waiting" /\ None \notin Ios
  BY <1>1, <1>2, WaitingQueue, GateAssumption DEF WorkInv
<1>4. Queue(waiting') /\ ToSet(waiting') = ToSet(waiting) \ {handling}
  BY <1>1, <1>2, QueueWithout
<1>5. /\ io' \in [Ios -> {"idle", "waiting", "allowed", "denied"}]
      /\ io'[handling] \in {"denied", "allowed"}
      /\ io'[handling] = "denied" <=> verdict = "block"
      /\ \A o \in Ios \ {handling} : io'[o] = io[o]
  BY <1>1, <1>2, <1>3 DEF TypeOK
<1>6. handling \notin selfAsked /\ \A o \in selfAsked : io[o] # "waiting"
  BY <1>1, <1>2, <1>3 DEF OrderInv, WaitsForItself
<1>7. TypeOK'
  <2>1. ToSet(waiting') \cap Ios = {o \in Ios : io'[o] = "waiting"}
    BY <1>2, <1>3, <1>4, <1>5, WaitingQueue
  <2>2. Own \notin ToSet(waiting')
    BY <1>1, <1>2, <1>4 DEF TypeOK
  <2>3. QED
    BY <1>1, <1>2, <1>4, <1>5, <2>1, <2>2 DEF TypeOK, Queue, Verdicts
<1>8. WorkInv' /\ PortIsServed'
  BY <1>1 DEF WorkInv, Working, PortIsServed
<1>9. HeldInv'
  BY <1>1, <1>2, <1>4, <1>5, WaitingQueue DEF HeldInv
<1>10. OrderInv'
  BY <1>1, <1>2, <1>5, <1>6 DEF OrderInv, TypeOK
<1>11. DeniedHasCause'
  <2>1. SUFFICES ASSUME NEW o \in Ios, io'[o] = "denied"
                 PROVE  /\ Class[target[o]] \in {"known", "confirmed", "probable"}
                        /\ target[o] \notin FailOpen
                        /\ path[o] \notin Excluded
    BY <1>1 DEF DeniedHasCause
  <2>2. CASE o = handling
    BY <1>1, <1>2, <1>3, <1>5, <2>1, <2>2 DEF WorkInv, HeldInv
  <2>3. CASE o # handling
    BY <1>5, <2>1, <2>3 DEF IInv, DeniedHasCause
  <2>4. QED
    BY <2>2, <2>3
<1>12. SelfAskedIsAllowed'
  BY <1>1, <1>2, <1>5, <1>6 DEF SelfAskedIsAllowed, TypeOK, IInv
<1>13. QED
  BY <1>7, <1>8, <1>9, <1>10, <1>11, <1>12 DEF IInv

LEMMA WorkerEndsInv ==
    ASSUME IInv, WorkerEnds PROVE IInv'
<1>1. /\ pc \in {"reply", "get"}
      /\ pc' = "ended" /\ handling' = None /\ verdict' = "allow"
      /\ UNCHANGED <<loaded, path, target, restarts, selfAsked>>
  BY DEF WorkerEnds
<1>2. CASE port = "guard"
  BY <1>1, <1>2, PortClosesInv DEF WorkerEnds, IInv, TypeOK
<1>3. CASE port # "guard"
  <2>1. UNCHANGED <<port, io, waiting>>
    BY <1>3 DEF WorkerEnds
  <2>2. TypeOK'
    BY <1>1, <2>1 DEF IInv, TypeOK, Verdicts
  <2>3. WorkInv' /\ HeldInv' /\ PortIsServed'
    BY <1>1, <1>3, <2>1, WaitingQueue DEF IInv, WorkInv, Working, HeldInv,
                                          PortIsServed
  <2>4. OrderInv'
    BY <1>1, <2>1 DEF IInv, OrderInv, WaitsForItself
  <2>5. DeniedHasCause' /\ SelfAskedIsAllowed'
    BY <1>1, <2>1 DEF IInv, DeniedHasCause, SelfAskedIsAllowed
  <2>6. QED
    BY <2>2, <2>3, <2>4, <2>5 DEF IInv
<1>4. QED
  BY <1>2, <1>3

-----------------------------------------------------------------------------
(* The theorems *)

LEMMA InitInv == Init => IInv
<1>1. SUFFICES ASSUME Init PROVE IInv
  OBVIOUS
<1>2. /\ loaded \in BOOLEAN /\ port = None /\ io = [o \in Ios |-> "idle"]
      /\ path = [o \in Ios |-> None] /\ target = [o \in Ios |-> None]
      /\ waiting = <<>> /\ pc = "off" /\ handling = None /\ verdict = "allow"
      /\ restarts = 0 /\ selfAsked = {}
  BY <1>1 DEF Init, Idle
<1>3. TypeOK
  BY <1>2, EmptyQueue, GateAssumption DEF TypeOK, Queue, Verdicts
<1>4. WorkInv /\ HeldInv /\ OrderInv
  BY <1>2, EmptyQueue DEF WorkInv, Working, HeldInv, OrderInv
<1>5. DeniedHasCause /\ PortIsServed /\ SelfAskedIsAllowed
  BY <1>2, GateAssumption DEF DeniedHasCause, PortIsServed, SelfAskedIsAllowed
<1>6. QED
  BY <1>3, <1>4, <1>5 DEF IInv

LEMMA NextInv == IInv /\ [Next]_vars => IInv'
<1>1. SUFFICES ASSUME IInv, [Next]_vars PROVE IInv'
  OBVIOUS
<1>2. CASE LoadDriver \/ UnloadDriver \/ StartService \/ StopService
  BY <1>1, <1>2, LoadDriverInv, UnloadDriverInv, StartServiceInv, StopServiceInv
<1>3. CASE ProbeConnects \/ ProbeCloses
  BY <1>1, <1>3, ProbeConnectsInv, ProbeClosesInv
<1>4. CASE \E o \in Ios, f, g \in Files : AskGuard(o, f, g)
  BY <1>1, <1>4, AskGuardInv
<1>5. CASE \E o \in Ios, f \in Files : PassThrough(o, f)
  BY <1>1, <1>5, PassThroughInv
<1>6. CASE Timeout
  BY <1>1, <1>6, TimeoutInv
<1>7. CASE Worker
  BY <1>1, <1>7, ConnectInv, GetMessageInv, OpenAsksInv, OpenPassesInv,
     OpenReleasedInv, ReplyInv, WorkerEndsInv DEF Worker
<1>8. CASE UNCHANGED vars
  <2>1. UNCHANGED <<loaded, port, io, path, target, waiting, pc, handling, verdict,
                    restarts, selfAsked>>
    BY <1>8 DEF vars, gateVars, workerVars
  <2>2. TypeOK'
    BY <1>1, <2>1 DEF IInv, TypeOK
  <2>3. QED
    BY <1>1, <2>1, <2>2 DEF IInv, WorkInv, HeldInv, OrderInv, DeniedHasCause,
                            PortIsServed, SelfAskedIsAllowed
<1>9. QED
  BY <1>1, <1>2, <1>3, <1>4, <1>5, <1>6, <1>7, <1>8 DEF Next

\* Whatever the accesses and files are, the inductive invariant holds of the
\* driver and its port with any interleaving of the worker, the timeouts, the
\* probe and the comings and goings of driver and service (Filter.c,
\* Communication.c, driver_port.rs).
THEOREM Invariance == Spec => []IInv
<1>1. Init => IInv
  BY InitInv
<1>2. IInv /\ [Next]_vars => IInv'
  BY NextInv
<1>3. QED
  BY <1>1, <1>2, PTL DEF Spec

\* Every variable has its type, and the queue of held accesses is exactly the
\* accesses that wait, each once (Communication.c, Filter.c).
THEOREM TypeCorrect == Spec => []TypeOK
<1>1. IInv => TypeOK
  BY DEF IInv
<1>2. QED
  BY <1>1, Invariance, PTL

\* No late answer, timeout or lost port denies an access, and no access gets the
\* answer meant for another one: what is denied is listed, confirmed or probable, on
\* a path that neither side exempts (Filter.c ZentorEvaluateRequest, driver_port.rs
\* run_message_loop).
THEOREM DenialHasCause == Spec => []DeniedHasCause
<1>1. IInv => DeniedHasCause
  BY DEF IInv
<1>2. QED
  BY <1>1, Invariance, PTL

\* The guard never keeps the driver's port while nobody serves it
\* (driver_port.rs PortHandle).
THEOREM ThePortIsServed == Spec => []PortIsServed
<1>1. IInv => PortIsServed
  BY DEF IInv
<1>2. QED
  BY <1>1, Invariance, PTL

\* When the guard's own open of a file is held, the access it judges has timed
\* out before that open returns: it is never denied, whatever the verdict
\* (Filter.c:61, driver_ipc.rs:176).
THEOREM WaitingForItselfAllows == Spec => []SelfAskedIsAllowed
<1>1. IInv => SelfAskedIsAllowed
  BY DEF IInv
<1>2. QED
  BY <1>1, Invariance, PTL

(***************************************************************************)
(* Part two: one executable past the guard (GuardLaunch)                   *)
(***************************************************************************)

-----------------------------------------------------------------------------
(* Decision lists *)

\* Some places in a list have a first one.
LEMMA HasLeast ==
    ASSUME NEW N \in Nat, NEW S, S \subseteq 1..N, S # {}
    PROVE  \E n \in S : \A m \in S : n <= m
<1> DEFINE U == 1..N
           R == StrictSubsetOrdering(U)
           Below(n) == {m \in S : m <= n}
           T == {Below(n) : n \in S}
<1>1. IsWellFoundedOn(R, SUBSET U)
  <2>1. IsFiniteSet(U)
    BY FS_Interval
  <2> HIDE DEF U
  <2>2. FiniteSubsetsOf(U) = SUBSET U
    BY <2>1, FS_FiniteSubsetsOfFinite
  <2>3. QED
    BY <2>2, FS_StrictSubsetOrderingWellFounded
<1>2. T \subseteq SUBSET U /\ T # {}
  OBVIOUS
<1> HIDE DEF T, R
<1>3. \E A \in T : \A B \in T : ~(<<B, A>> \in R)
  BY <1>1, <1>2, WFMin
<1>4. PICK n \in S : \A m \in S : <<Below(m), Below(n)>> \notin R
  BY <1>3 DEF T
<1>5. ASSUME NEW m \in S, m < n PROVE FALSE
  <2>1. Below(m) \subseteq Below(n) /\ n \notin Below(m) /\ n \in Below(n)
    <3>1. m \in Nat /\ n \in Nat /\ \A x \in S : x \in Nat
      OBVIOUS
    <3>2. \A x \in S : x <= m => x <= n
      BY <1>5, <3>1
    <3>3. ~(n <= m) /\ n <= n
      BY <1>5, <3>1
    <3>4. QED
      BY <3>2, <3>3
  <2>2. Below(m) \subseteq U /\ Below(n) \subseteq U
    OBVIOUS
  <2> HIDE DEF Below, U
  <2>3. <<Below(m), Below(n)>> \in R
    BY <2>1, <2>2 DEF R, StrictSubsetOrdering
  <2>4. QED
    BY <1>4, <2>3
<1>6. QED
  BY <1>5

\* A decision list has the value of its first row that holds.
LEMMA FirstRow ==
    ASSUME NEW n \in Nat, NEW rows, DOMAIN rows = 1..n, NEW k \in 1..n,
           rows[k][1], \A i \in 1..(k - 1) : ~rows[i][1]
    PROVE  FirstOf(rows) = rows[k][2]
<1> DEFINE S == {i \in DOMAIN rows : rows[i][1]}
<1>1. k \in S /\ \A j \in S : k <= j
  OBVIOUS
<1>2. Min(S) = k
  <2>1. S \subseteq Int
    OBVIOUS
  <2> HIDE DEF S
  <2>2. \A x \in S : (\A j \in S : x <= j) => x = k
    BY <1>1, <2>1
  <2>3. QED
    BY <1>1, <2>2 DEF Min
<1>3. QED
  BY <1>2 DEF FirstOf


\* A decision list whose last row always holds has a first row that holds.
LEMMA SomeRow ==
    ASSUME NEW n \in Nat, NEW rows, DOMAIN rows = 1..n, n > 0, rows[n][1]
    PROVE  \E k \in 1..n : /\ rows[k][1] /\ \A i \in 1..(k - 1) : ~rows[i][1]
                           /\ FirstOf(rows) = rows[k][2]
<1> DEFINE S == {i \in 1..n : rows[i][1]}
<1>1. n \in S /\ S \subseteq 1..n
  OBVIOUS
<1> HIDE DEF S
<1>2. PICK k \in S : \A m \in S : k <= m
  BY <1>1, HasLeast
<1>3. k \in 1..n /\ rows[k][1]
  BY <1>2 DEF S
<1>4. \A i \in 1..(k - 1) : ~rows[i][1]
  <2> SUFFICES ASSUME NEW i \in 1..(k - 1), rows[i][1] PROVE FALSE
    OBVIOUS
  <2>1. i \in 1..n /\ i < k /\ i \in Nat /\ k \in Nat
    BY <1>3
  <2>2. i \in S
    BY <2>1 DEF S
  <2>3. QED
    BY <1>2, <2>1, <2>2
<1>5. QED
  BY <1>3, <1>4, FirstRow

-----------------------------------------------------------------------------
(* Modes *)

LEMMA ModeFileType ==
    \A env : ModeFileOfGuard(env) \in ModeFiles
<1> TAKE env
<1>1. ConfigBase(env) \in ModeFiles
  <2> DEFINE rows == << <<"CONFIG_DIR" \in env, "config_dir">>,
                        <<"DATA_DIR" \in env, "data_dir/config">>,
                        <<"HOME" \in env, "home">>,
                        <<TRUE, "cwd">> >>
  <2>1. DOMAIN rows = 1..4 /\ rows[4][1]
    OBVIOUS
  <2>2. \A k \in 1..4 : rows[k][2] \in ModeFiles
    BY DEF ModeFiles
  <2>3. ConfigBase(env) = FirstOf(rows)
    BY DEF ConfigBase
  <2> HIDE DEF rows
  <2>4. PICK k \in 1..4 : FirstOf(rows) = rows[k][2]
    BY <2>1, SomeRow, 4 \in Nat, 4 > 0
  <2>5. QED
    BY <2>2, <2>3, <2>4
<1>2. ModeFileOfGuard(env) \in ModeFiles
  <2> DEFINE rows == << <<"MODE_CONFIG" \in env, "mode_config">>,
                        <<"ZENTOR_MODE_CONFIG" \in env, "zentor_mode_config">>,
                        <<TRUE, ConfigBase(env)>> >>
  <2>1. DOMAIN rows = 1..3 /\ rows[3][1]
    OBVIOUS
  <2>2. \A k \in 1..3 : rows[k][2] \in ModeFiles
    BY <1>1 DEF ModeFiles
  <2>3. ModeFileOfGuard(env) = FirstOf(rows)
    BY DEF ModeFileOfGuard
  <2> HIDE DEF rows
  <2>4. PICK k \in 1..3 : FirstOf(rows) = rows[k][2]
    BY <2>1, SomeRow, 3 \in Nat, 3 > 0
  <2>5. QED
    BY <2>2, <2>3, <2>4
<1>3. QED
  BY <1>2

\* The variable counts, else the file, else the default.
LEMMA ConfiguredModeIs ==
    ASSUME NEW variable, NEW file
    PROVE  ConfiguredMode(variable, file) =
             IF ParseMode(variable) # "none" THEN ParseMode(variable)
             ELSE IF ParseMode(file) # "none" THEN ParseMode(file)
             ELSE DefaultMode
<1> DEFINE v == ParseMode(variable)
           f == ParseMode(file)
           byVariable == v # "none"
           byFile == f # "none"
           rows == << <<byVariable, v>>, <<byFile, f>>, <<TRUE, DefaultMode>> >>
<1>0. /\ v = ParseMode(variable) /\ f = ParseMode(file)
      /\ ConfiguredMode(variable, file) = FirstOf(rows)
  BY DEF ConfiguredMode
<1> HIDE DEF v, f, byVariable, byFile
<1>1. /\ DOMAIN rows = 1..3
      /\ rows[1][1] <=> byVariable
      /\ rows[2][1] <=> byFile
      /\ rows[3][1]
  OBVIOUS
<1>2. /\ rows[1][2] = v /\ rows[2][2] = f /\ rows[3][2] = DefaultMode
  OBVIOUS
<1> HIDE DEF rows
<1>3. PICK k \in 1..3 : /\ rows[k][1] /\ \A i \in 1..(k - 1) : ~rows[i][1]
                        /\ FirstOf(rows) = rows[k][2]
  BY <1>1, SomeRow, 3 \in Nat, 3 > 0
<1>4. CASE k = 1
  BY <1>0, <1>1, <1>2, <1>3, <1>4 DEF byVariable, byFile
<1>5. CASE k = 2
  BY <1>0, <1>1, <1>2, <1>3, <1>5 DEF byVariable, byFile
<1>6. CASE k = 3
  BY <1>0, <1>1, <1>2, <1>3, <1>6 DEF byVariable, byFile
<1>7. QED
  BY <1>4, <1>5, <1>6

LEMMA ParseType == \A raw : ParseMode(raw) \in Modes \cup {"none"}
  BY DEF ParseMode, Modes

\* What the core writes for a name means to the guard what the name means.
LEMMA SameMode ==
    ASSUME NEW raw, NormalMode(raw) # "none"
    PROVE  ParseMode(NormalMode(raw)) = ParseMode(raw) /\ ParseMode(raw) # "none"
  BY DEF NormalMode, ParseMode, Modes

-----------------------------------------------------------------------------
(* The guard's rules *)

\* The rules up to the engine, in their order.
LEMMA ByListIs ==
    ASSUME NEW place, NEW req, NEW config, NEW hash
    PROVE  ByList(place, req, config, hash) =
             IF FailsOpen(place) THEN Allow("likely_clean", "system")
             ELSE IF Listed(hash, config.bad) THEN Block
             ELSE IF Listed(hash, config.good)
                  THEN Allow("likely_clean", "known_good")
             ELSE IF Listed(hash, config.approved)
                  THEN Allow("likely_clean", "user_approved")
             ELSE IF TrustedPublisher(req, config)
                  THEN Allow("likely_clean", "publisher")
             ELSE Undecided
<1> DEFINE open     == FailsOpen(place)
           bad      == Listed(hash, config.bad)
           good     == Listed(hash, config.good)
           approved == Listed(hash, config.approved)
           signed   == TrustedPublisher(req, config)
           A(trust) == Allow("likely_clean", trust)
           rows == << <<open, A("system")>>, <<bad, Block>>,
                      <<good, A("known_good")>>, <<approved, A("user_approved")>>,
                      <<signed, A("publisher")>>, <<TRUE, Undecided>> >>
<1>1. ByList(place, req, config, hash) = FirstOf(rows)
  BY DEF ByList
<1> HIDE DEF open, bad, good, approved, signed, A
<1>2. /\ DOMAIN rows = 1..6
      /\ rows[1][1] <=> open
      /\ rows[2][1] <=> bad
      /\ rows[3][1] <=> good
      /\ rows[4][1] <=> approved
      /\ rows[5][1] <=> signed
      /\ rows[6][1]
  OBVIOUS
<1>3. /\ rows[1][2] = A("system") /\ rows[2][2] = Block
      /\ rows[3][2] = A("known_good") /\ rows[4][2] = A("user_approved")
      /\ rows[5][2] = A("publisher") /\ rows[6][2] = Undecided
  OBVIOUS
<1> HIDE DEF rows
<1>4. PICK k \in 1..6 : /\ rows[k][1] /\ \A i \in 1..(k - 1) : ~rows[i][1]
                        /\ FirstOf(rows) = rows[k][2]
  BY <1>2, SomeRow, 6 \in Nat, 6 > 0
<1>5. FirstOf(rows) = IF open THEN A("system") ELSE IF bad THEN Block
                      ELSE IF good THEN A("known_good")
                      ELSE IF approved THEN A("user_approved")
                      ELSE IF signed THEN A("publisher") ELSE Undecided
  <2>1. CASE k = 1
    BY <1>2, <1>3, <1>4, <2>1
  <2>2. CASE k = 2
    BY <1>2, <1>3, <1>4, <2>2
  <2>3. CASE k = 3
    BY <1>2, <1>3, <1>4, <2>3
  <2>4. CASE k = 4
    BY <1>2, <1>3, <1>4, <2>4
  <2>5. CASE k = 5
    BY <1>2, <1>3, <1>4, <2>5
  <2>6. CASE k = 6
    BY <1>2, <1>3, <1>4, <2>6
  <2>7. QED
    BY <2>1, <2>2, <2>3, <2>4, <2>5, <2>6
<1>6. QED
  BY <1>1, <1>5 DEF open, bad, good, approved, signed, A

\* The rules from the engine on, for a file that is there.
Found(c) == c.says \in {"test", "confirmed", "probable"}
LEMMA ByScanIs ==
    ASSUME NEW features, NEW mode, NEW c, c # NoFile, NEW ready \in BOOLEAN
    PROVE  ByScan(features, mode, c, ready) =
             IF ~ready \/ c.says = "error" THEN Failed
             ELSE IF Found(c) THEN Block
             ELSE IF c.says = "suspicious" THEN Review
             ELSE IF YaraDecides(features, c)
                  THEN IF Head(c.yara) \in {"confirmed", "high"}
                       THEN Block ELSE Review
             ELSE ByMode(mode)
<1> DEFINE fails == ~ready \/ c.says = "error"
           found == c.says \in {"test", "confirmed", "probable"}
           odd   == c.says = "suspicious"
           yara  == YaraDecides(features, c)
           match == IF YaraDecides(features, c)
                       /\ Head(c.yara) \in {"confirmed", "high"}
                    THEN Block ELSE Review
           rest  == ByMode(mode)
           rows == << <<fails, Failed>>, <<found, Block>>, <<odd, Review>>,
                      <<yara, match>>, <<TRUE, rest>> >>
<1>1. ByScan(features, mode, c, ready) = FirstOf(rows)
  BY DEF ByScan
<1> HIDE DEF fails, found, odd, yara, match, rest
<1>2. /\ DOMAIN rows = 1..5
      /\ rows[1][1] <=> fails
      /\ rows[2][1] <=> found
      /\ rows[3][1] <=> odd
      /\ rows[4][1] <=> yara
      /\ rows[5][1]
  OBVIOUS
<1>3. /\ rows[1][2] = Failed /\ rows[2][2] = Block /\ rows[3][2] = Review
      /\ rows[4][2] = match /\ rows[5][2] = rest
  OBVIOUS
<1> HIDE DEF rows
<1>4. PICK k \in 1..5 : /\ rows[k][1] /\ \A i \in 1..(k - 1) : ~rows[i][1]
                        /\ FirstOf(rows) = rows[k][2]
  BY <1>2, SomeRow, 5 \in Nat, 5 > 0
<1>5. FirstOf(rows) = IF fails THEN Failed ELSE IF found THEN Block
                      ELSE IF odd THEN Review ELSE IF yara THEN match ELSE rest
  <2>1. CASE k = 1
    BY <1>2, <1>3, <1>4, <2>1
  <2>2. CASE k = 2
    BY <1>2, <1>3, <1>4, <2>2
  <2>3. CASE k = 3
    BY <1>2, <1>3, <1>4, <2>3
  <2>4. CASE k = 4
    BY <1>2, <1>3, <1>4, <2>4
  <2>5. CASE k = 5
    BY <1>2, <1>3, <1>4, <2>5
  <2>6. QED
    BY <2>1, <2>2, <2>3, <2>4, <2>5
<1>6. yara => match = IF Head(c.yara) \in {"confirmed", "high"}
                      THEN Block ELSE Review
  BY DEF yara, match
<1>7. QED
  BY <1>1, <1>5, <1>6 DEF fails, found, odd, yara, rest, Found

\* What the answers say.
LEMMA AnswerFields ==
    /\ \A v, t : /\ Allow(v, t).action = "allow" /\ Allow(v, t).trust = t
                 /\ ~Allow(v, t).label /\ ~Allow(v, t).quarantine
                 /\ Allow(v, t) # Undecided
    /\ Monitor.action = "allow_and_monitor" /\ Monitor.trust = "unknown"
    /\ ~Monitor.label /\ ~Monitor.quarantine
    /\ Review.action = "allow_and_monitor" /\ Review.trust = "suspicious"
    /\ ~Review.label /\ ~Review.quarantine
    /\ Block.action = "block" /\ Block.trust = "confirmed"
    /\ Block.label /\ Block.quarantine /\ ~Block.approval /\ Block # Undecided
    /\ BlockUnknown.action = "block" /\ BlockUnknown.trust = "unknown"
    /\ ~BlockUnknown.label /\ ~BlockUnknown.quarantine /\ BlockUnknown.approval
    /\ Failed.action = "error" /\ ~Failed.label /\ ~Failed.quarantine
<1>1. \A a, v, t : /\ Answer(a, v, t).action = a /\ Answer(a, v, t).trust = t
                  /\ ~Answer(a, v, t).label /\ ~Answer(a, v, t).quarantine
                  /\ ~Answer(a, v, t).approval
                  /\ DOMAIN Answer(a, v, t) =
                       {"action", "verdict", "trust", "monitor", "label",
                        "quarantine", "approval"}
  BY DEF Answer
<1>2. /\ Block.action = Answer("block", "confirmed", "confirmed").action
      /\ Block.trust = Answer("block", "confirmed", "confirmed").trust
      /\ Block.approval = Answer("block", "confirmed", "confirmed").approval
      /\ Block.label /\ Block.quarantine
  BY <1>1 DEF Block
<1>3. /\ BlockUnknown.action = Answer("block", "unknown", "unknown").action
      /\ BlockUnknown.trust = Answer("block", "unknown", "unknown").trust
      /\ BlockUnknown.label = Answer("block", "unknown", "unknown").label
      /\ BlockUnknown.quarantine = Answer("block", "unknown", "unknown").quarantine
      /\ BlockUnknown.approval
  BY <1>1 DEF BlockUnknown
<1>4. QED
  BY <1>1, <1>2, <1>3 DEF Allow, Monitor, Review, Undecided, Failed

\* Every answer is well formed.
LEMMA AnswersType ==
    /\ \A v \in {"likely_clean", "unknown"},
          t \in {"system", "known_good", "user_approved", "publisher", "unknown"} :
         Allow(v, t) \in Answers
    /\ Monitor \in Answers /\ Review \in Answers /\ Failed \in Answers
    /\ Block \in Answers /\ BlockUnknown \in Answers
  BY DEF Allow, Monitor, Review, Failed, Block, BlockUnknown, Answer, Answers

LEMMA ByModeIs ==
    ASSUME NEW mode \in Modes
    PROVE  ByMode(mode) = IF mode = "disabled" THEN Allow("unknown", "unknown")
                          ELSE IF mode = "lockdown" THEN BlockUnknown
                          ELSE Monitor
  BY DEF ByMode, Modes

\* An answer the rules up to the engine give is well formed, and it labels exactly
\* what is listed; if they give none, the file is not listed.
LEMMA ByListSays ==
    ASSUME NEW place, NEW req, NEW config, NEW hash,
           NEW a, a = ByList(place, req, config, hash)
    PROVE  /\ a # Undecided => /\ a \in Answers
                               /\ a.action = "block" <=> a.label
                               /\ a.quarantine <=> a.label
                               /\ a.label => Listed(hash, config.bad)
           /\ a = Undecided => ~Listed(hash, config.bad)
  BY ByListIs, AnswerFields, AnswersType

\* An answer of the rules from the engine on is well formed; it labels exactly what
\* the engine or YARA suspects, and blocks the rest in lockdown only.
LEMMA ByScanSays ==
    ASSUME NEW features, NEW mode \in Modes, NEW c, NEW ready \in BOOLEAN,
           NEW a, a = ByScan(features, mode, c, ready)
    PROVE  /\ a \in Answers
           /\ a.quarantine <=> a.label
           /\ a.label => /\ a.action = "block" /\ c # NoFile
                         /\ \/ Found(c)
                            \/ /\ YaraDecides(features, c)
                               /\ Head(c.yara) \in {"confirmed", "high"}
           /\ a.action = "block" /\ ~a.label =>
                /\ a.approval /\ mode = "lockdown"
                /\ c # NoFile => ~Found(c) /\ ~YaraDecides(features, c)
<1>1. /\ ByMode(mode) \in Answers
      /\ ~ByMode(mode).label /\ ~ByMode(mode).quarantine
      /\ ByMode(mode).action = "block" =>
           ByMode(mode).approval /\ mode = "lockdown"
  BY ByModeIs, AnswerFields, AnswersType
<1>2. CASE c = NoFile
  BY <1>1, <1>2, AnswerFields, AnswersType DEF ByScan
<1>3. CASE c # NoFile
  <2> DEFINE match == Head(c.yara) \in {"confirmed", "high"}
             yara == YaraDecides(features, c)
             found == Found(c)
             fails == ~ready \/ c.says = "error"
             odd   == c.says = "suspicious"
             rest  == ByMode(mode)
  <2>5. a = IF fails THEN Failed ELSE IF found THEN Block
            ELSE IF odd THEN Review
            ELSE IF yara THEN IF match THEN Block ELSE Review
            ELSE rest
    BY <1>3, ByScanIs
  <2>0. rest = ByMode(mode)
    OBVIOUS
  <2> HIDE DEF match, yara, found, fails, odd, rest
  <2>1. a \in {Failed, Block, Review, ByMode(mode)}
    BY <2>0, <2>5
  <2>2. a = Block \/ a.action # "block" \/ a = ByMode(mode)
    BY <2>1, AnswerFields
  <2>3. a \in Answers /\ (a.quarantine <=> a.label)
    BY <1>1, <2>1, AnswerFields, AnswersType
  <2>4. a.label => a = Block
    BY <1>1, <2>1, AnswerFields
  <2>6. Failed # Block /\ Review # Block /\ ByMode(mode) # Block
    BY <1>1, AnswerFields
  <2>7. a = Block => found \/ (yara /\ match)
    BY <2>0, <2>5, <2>6
  <2>8. a.action = "block" /\ ~a.label => a = ByMode(mode) /\ ~found /\ ~yara
    BY <2>0, <2>5, AnswerFields
  <2>9. /\ a.label => found \/ (yara /\ match)
        /\ a.label => a.action = "block"
    BY <2>4, <2>7, AnswerFields
  <2>10. a.action = "block" /\ ~a.label => a.approval /\ mode = "lockdown"
    BY <1>1, <2>8
  <2>11. QED
    BY <1>3, <2>3, <2>8, <2>9, <2>10 DEF match, yara, found
<1>4. QED
  BY <1>2, <1>3

-----------------------------------------------------------------------------
(* What an evaluation is made of *)

\* A text without its prefix names the same content.
LEMMA NormalIs ==
    ASSUME NEW t \in Texts
    PROVE  /\ Normal(t) = [of |-> t.of, prefixed |-> FALSE]
           /\ Normal(t) \in Bare
           /\ ~t.prefixed => Normal(t) = t
<1>1. t = [of |-> t.of, prefixed |-> t.prefixed] /\ t.of \in Contents \cup {NoFile}
  BY DEF Texts
<1> DEFINE n == [t EXCEPT !.prefixed = FALSE]
           m == [of |-> t.of, prefixed |-> FALSE]
<1>2. DOMAIN t = {"of", "prefixed"}
  BY <1>1
<1>3. n.of = t.of /\ n.prefixed = FALSE /\ DOMAIN n = {"of", "prefixed"}
  BY <1>2
<1>4. n = [x \in {"of", "prefixed"} |-> n[x]]
  BY <1>2
<1>5. m = [x \in {"of", "prefixed"} |-> m[x]] /\ m.of = t.of /\ m.prefixed = FALSE
  OBVIOUS
<1> HIDE DEF n, m
<1>6. n = m
  BY <1>3, <1>4, <1>5
<1>7. m \in Bare
  BY <1>1 DEF m, Bare, Texts
<1>8. ~t.prefixed => m = t
  <2>1. t.prefixed \in BOOLEAN
    BY DEF Texts
  <2>2. QED
    BY <1>1, <2>1 DEF m
<1>9. QED
  BY <1>6, <1>7, <1>8 DEF Normal, n, m

LEMMA KnownBadType ==
    ASSUME NEW badFile \in [torn : BOOLEAN, hashes : SUBSET Texts]
    PROVE  KnownBad(badFile) \subseteq Bare
  BY NormalIs DEF KnownBad

LEMMA PortConfigType ==
    ASSUME NEW badFile \in [torn : BOOLEAN, hashes : SUBSET Texts]
    PROVE  PortConfig(badFile) \in Configs
<1>1. KnownBad(badFile) \in SUBSET Texts
  BY KnownBadType DEF Bare
<1>2. {} \in SUBSET Bare /\ "balanced" \in Modes
  BY DEF Modes
<1>3. QED
  BY <1>1, <1>2 DEF PortConfig, Configs

LEMMA CommandConfigType ==
    ASSUME NEW badFile \in [torn : BOOLEAN, hashes : SUBSET Texts],
           NEW lists \in Lists, NEW mode \in CommandModes
    PROVE  CommandConfig(badFile, lists, mode) \in Configs
<1>1. lists \in [bad : SUBSET Texts, good : SUBSET Texts, approved : SUBSET Texts]
  BY LaunchAssumption
<1>2. KnownBad(badFile) \cup lists.bad \in SUBSET Texts
  BY <1>1, KnownBadType DEF Bare
<1>3. /\ {Normal(t) : t \in lists.good} \in SUBSET Bare
      /\ {Normal(t) : t \in lists.approved} \in SUBSET Bare
  BY <1>1, NormalIs
<1>4. (IF mode = "none" THEN DefaultMode ELSE mode) \in Modes
  BY LaunchAssumption DEF DefaultMode, Modes
<1>5. QED
  BY <1>2, <1>3, <1>4 DEF CommandConfig, Configs

LEMMA ConfiguredModeType ==
    ASSUME NEW variable, NEW file
    PROVE  ConfiguredMode(variable, file) \in Modes
<1>1. DefaultMode \in Modes
  BY DEF DefaultMode, Modes
<1>2. QED
  BY <1>1, ConfiguredModeIs, ParseType

LEMMA HashForType ==
    ASSUME NEW req \in Requests \cup {BareRequest}, NEW c \in Contents \cup {NoFile}
    PROVE  HashFor(req, c) \in Texts
<1>1. NoText \in Texts /\ (c # NoFile => FileHash(c) \in Texts)
  BY DEF NoText, FileHash, Spelled, Texts
<1>2. req.hash \in Texts
  BY <1>1, LaunchAssumption DEF BareRequest
<1>3. QED
  BY <1>1, <1>2 DEF HashFor, RequestHash

\* What the guard does about a start comes from a list of four.
LEMMA StartedActionType ==
    ASSUME NEW features, NEW mode, NEW known, NEW c, NEW complete
    PROVE  StartedAction(features, mode, known, c, complete) \in StartedActions
<1> DEFINE gone  == c = NoFile
           clear == ~ThreatMatch(features, known, c, complete)
           only  == ReviewOnly(mode)
           rows == << <<gone, "error">>, <<clear, "monitored">>,
                      <<only, "reviewOnly">>, <<TRUE, "stoppedAndQuarantined">> >>
<1>1. StartedAction(features, mode, known, c, complete) = FirstOf(rows)
  BY DEF StartedAction
<1> HIDE DEF gone, clear, only
<1>2. DOMAIN rows = 1..4 /\ rows[4][1]
  OBVIOUS
<1>3. \A k \in 1..4 : rows[k][2] \in StartedActions
  BY DEF StartedActions
<1> HIDE DEF rows
<1>4. PICK k \in 1..4 : FirstOf(rows) = rows[k][2]
  BY <1>2, SomeRow, 4 \in Nat, 4 > 0
<1>5. QED
  BY <1>1, <1>3, <1>4

\* What a self-test says.
LEMMA SelfTestSays ==
    ASSUME NEW features, NEW bad, NEW d, NEW ready,
           NEW r, r = SelfTest(features, bad, d, ready)
    PROVE  /\ r.available \in BOOLEAN /\ r.passed \in BOOLEAN
  BY DEF SelfTest

-----------------------------------------------------------------------------
(* The invariant *)

\* What is being written and what was saved are modes the core knows; every text the
\* guard may read its mode from is one that was asked for, or no mode at all.
ModeInv ==
    /\ writing # "none" => NormalMode(writing) # "none"
    /\ \A f \in ModeFiles : ParseMode(modeFile[f]) \in asked \cup {"none"}
    /\ ParseMode(setup.variable) \in asked \cup {"none"}
    /\ saved # "none" =>
         /\ NormalMode(saved) # "none"
         /\ modeFile[ModeFileOfCore(setup.env)] = NormalMode(saved)

\* What has passed the lists is not on the list of the bad.
AskInv == ask # Nothing /\ ask.hashed => ~Listed(ask.hash, ask.config.bad)

LaunchIInv ==
    /\ LaunchTypeOK /\ ModeInv /\ AskInv
    /\ LabelHasCause /\ WeakOnlyOnRequest

\* What LabelHasCause counts as a cause, without the list.
Suspected(c) == Confirmed(c) \/ Likely(c)

LEMMA LaunchInitInv == LaunchInit => LaunchIInv
<1> SUFFICES ASSUME LaunchInit PROVE LaunchIInv
  OBVIOUS
<1> USE DEF LaunchInit
<1>1. LaunchTypeOK
  <2>1. setup \in Settings
    <3>1. \A l \in Lists : l.bad \in SUBSET Texts
      BY LaunchAssumption
    <3>2. QED
      BY <3>1 DEF Settings
  <2>2. modeFile \in [ModeFiles -> {"missing", "torn"}
                                   \cup {NormalMode(raw) : raw \in RawModes}]
    OBVIOUS
  <2>3. driver \in Drivers
    BY DEF Drivers
  <2>4. svc \in [on : BOOLEAN, mode : Modes, port : BOOLEAN]
    BY DEF DefaultMode, Modes
  <2>5. engine \in [service : EngineStates, console : EngineStates]
    BY DEF EngineStates
  <2>6. asked \subseteq Modes \cup {"none"}
    BY ParseType
  <2>7. events \in 0 .. MaxEvents
    BY LaunchAssumption
  <2>8. QED
    BY <2>1, <2>2, <2>3, <2>4, <2>5, <2>6, <2>7 DEF LaunchTypeOK
<1>2. ModeInv
  <2>1. ParseMode("missing") = "none" /\ ParseMode("none") = "none"
    BY DEF ParseMode, Modes
  <2>2. QED
    BY <2>1 DEF ModeInv
<1>3. AskInv /\ WeakOnlyOnRequest
  BY DEF AskInv, WeakOnlyOnRequest
<1>4. LabelHasCause
  BY DEF LabelHasCause, Evaluated, Nothing, Processes
<1>5. QED
  BY <1>1, <1>2, <1>3, <1>4 DEF LaunchIInv

\* What a step that leaves a variable alone cannot disturb.
LEMMA Frame ==
    ASSUME LaunchIInv, UNCHANGED setup
    PROVE  /\ UNCHANGED modes => ModeInv'
           /\ UNCHANGED ask => AskInv'
           /\ UNCHANGED answer => LabelHasCause'
           /\ UNCHANGED <<svc, asked>> => WeakOnlyOnRequest'
  BY DEF LaunchIInv, modes, ModeInv, AskInv, LabelHasCause, Evaluated,
     Confirmed, Likely, FirstYara, WeakOnlyOnRequest

LEMMA LaunchUnchanged ==
    ASSUME LaunchIInv, UNCHANGED launchVars
    PROVE  LaunchIInv'
<1>1. LaunchTypeOK'
  BY DEF LaunchIInv, LaunchTypeOK, launchVars, world, modes
<1>2. QED
  BY <1>1, Frame DEF LaunchIInv, launchVars, world, modes

-----------------------------------------------------------------------------
(* The steps of the core *)

LEMMA BeginModeWriteInv ==
    ASSUME LaunchIInv, BeginModeWrite PROVE LaunchIInv'
<1> USE DEF BeginModeWrite, Event, world
<1> DEFINE file == ModeFileOfCore(setup.env)
<1>0. file \in ModeFiles
  BY ModeFileType DEF ModeFileOfCore
<1>1. PICK raw \in RawModes : NormalMode(raw) # "none" /\ writing' = raw
  OBVIOUS
<1> HIDE DEF file
<1>2. modeFile' = [modeFile EXCEPT ![file] = "torn"]
  BY DEF file
<1>3. LaunchTypeOK'
  <2>1. modeFile' \in [ModeFiles -> {"missing", "torn"}
                                    \cup {NormalMode(r) : r \in RawModes}]
    BY <1>0, <1>2 DEF LaunchIInv, LaunchTypeOK
  <2>2. events' \in 0 .. MaxEvents
    BY LaunchAssumption DEF LaunchIInv, LaunchTypeOK
  <2>3. QED
    BY <1>1, <2>1, <2>2 DEF LaunchIInv, LaunchTypeOK
<1>4. ModeInv'
  <2>1. \A f \in ModeFiles : ParseMode(modeFile[f]) \in asked \cup {"none"}
    BY DEF LaunchIInv, ModeInv
  <2>2. ParseMode("torn") = "none"
    BY DEF ParseMode, Modes
  <2>3. ASSUME NEW f \in ModeFiles
        PROVE  ParseMode(modeFile[f])' \in asked' \cup {"none"}
    <3>1. modeFile'[f] = modeFile[f] \/ modeFile'[f] = "torn"
      BY <1>2 DEF LaunchIInv, LaunchTypeOK
    <3>2. QED
      BY <2>1, <2>2, <3>1
  <2>4. QED
    BY <1>1, <2>3 DEF LaunchIInv, ModeInv
<1>5. QED
  BY <1>3, <1>4, Frame DEF LaunchIInv

LEMMA EndModeWriteInv ==
    ASSUME LaunchIInv, EndModeWrite PROVE LaunchIInv'
<1> USE DEF EndModeWrite, world
<1> DEFINE file == ModeFileOfCore(setup.env)
           mode == NormalMode(writing)
<1>0. file \in ModeFiles
  BY ModeFileType DEF ModeFileOfCore
<1>1. /\ mode # "none" /\ writing \in RawModes
      /\ ParseMode(mode) = ParseMode(writing)
  BY SameMode DEF LaunchIInv, LaunchTypeOK, ModeInv
<1>2. /\ modeFile' = [modeFile EXCEPT ![file] = mode]
      /\ asked' = asked \cup {ParseMode(writing)}
      /\ saved' = writing /\ writing' = "none"
  OBVIOUS
<1>3. mode \in {NormalMode(r) : r \in RawModes}
  BY <1>1
<1>4. modeFile[file]' = mode /\ file' = file
  BY <1>0, <1>2 DEF LaunchIInv, LaunchTypeOK
<1>5. NormalMode(saved') = mode
  BY <1>2
<1>6. ModeFileOfCore(setup'.env) = file
  OBVIOUS
<1> HIDE DEF file, mode
<1>7. LaunchTypeOK'
  <2>1. modeFile' \in [ModeFiles -> {"missing", "torn"}
                                    \cup {NormalMode(r) : r \in RawModes}]
    BY <1>0, <1>2, <1>3 DEF LaunchIInv, LaunchTypeOK
  <2>2. asked' \subseteq Modes \cup {"none"}
    BY <1>2, ParseType DEF LaunchIInv, LaunchTypeOK
  <2>3. saved' \in {"none"} \cup RawModes /\ writing' \in {"none"} \cup RawModes
    BY <1>1, <1>2
  <2>4. QED
    BY <2>1, <2>2, <2>3 DEF LaunchIInv, LaunchTypeOK
<1>8. ModeInv'
  <2>1. \A f \in ModeFiles : ParseMode(modeFile[f]) \in asked \cup {"none"}
    BY DEF LaunchIInv, ModeInv
  <2>2. ASSUME NEW f \in ModeFiles
        PROVE  ParseMode(modeFile'[f]) \in asked' \cup {"none"}
    <3>1. modeFile'[f] = modeFile[f] \/ modeFile'[f] = mode
      BY <1>2 DEF LaunchIInv, LaunchTypeOK
    <3>2. QED
      BY <1>1, <1>2, <2>1, <3>1
  <2>3. ParseMode(setup'.variable) \in asked' \cup {"none"}
    BY <1>2 DEF LaunchIInv, ModeInv
  <2>4. /\ NormalMode(saved') # "none"
        /\ modeFile'[ModeFileOfCore(setup'.env)] = NormalMode(saved')
    BY <1>0, <1>1, <1>2, <1>5, <1>6 DEF LaunchIInv, LaunchTypeOK
  <2>5. QED
    BY <1>2, <2>2, <2>3, <2>4 DEF ModeInv
<1>9. WeakOnlyOnRequest'
  BY <1>2 DEF LaunchIInv, WeakOnlyOnRequest
<1>10. QED
  BY <1>7, <1>8, <1>9, Frame DEF LaunchIInv

LEMMA CoreCrashInv ==
    ASSUME LaunchIInv, CoreCrash PROVE LaunchIInv'
<1> USE DEF CoreCrash, world
<1>1. LaunchTypeOK'
  BY DEF LaunchIInv, LaunchTypeOK
<1>2. ModeInv'
  BY DEF LaunchIInv, ModeInv
<1>3. QED
  BY <1>1, <1>2, Frame DEF LaunchIInv

-----------------------------------------------------------------------------
(* The steps of the service *)

LEMMA StartGuardInv ==
    ASSUME LaunchIInv, StartGuard PROVE LaunchIInv'
<1> USE DEF StartGuard, Event, world
<1> DEFINE text == modeFile[ModeFileOfGuard(setup.env)]
           mode == ConfiguredMode(setup.variable, text)
<1>1. mode \in Modes
  BY ConfiguredModeType
<1>2. /\ svc'.mode = mode /\ svc'.on = TRUE
      /\ svc' = [on |-> TRUE, mode |-> mode, port |-> driver.running]
  OBVIOUS
<1>3. mode \in asked \cup {"none", DefaultMode}
  <2>1. ParseMode(text) \in asked \cup {"none"}
    BY ModeFileType DEF LaunchIInv, ModeInv
  <2>2. ParseMode(setup.variable) \in asked \cup {"none"}
    BY DEF LaunchIInv, ModeInv
  <2>3. QED
    BY <2>1, <2>2, ConfiguredModeIs
<1> HIDE DEF mode, text
<1>4. LaunchTypeOK'
  <2>1. svc' \in [on : BOOLEAN, mode : Modes, port : BOOLEAN]
    BY <1>1, <1>2 DEF LaunchIInv, LaunchTypeOK, Drivers
  <2>2. engine' \in [service : EngineStates, console : EngineStates]
    BY DEF LaunchIInv, LaunchTypeOK, EngineStates
  <2>3. events' \in 0 .. MaxEvents
    BY LaunchAssumption DEF LaunchIInv, LaunchTypeOK
  <2>4. QED
    BY <2>1, <2>2, <2>3 DEF LaunchIInv, LaunchTypeOK, modes
<1>5. WeakOnlyOnRequest'
  <2>1. ~ReviewOnly(DefaultMode) /\ ~ReviewOnly("none")
    BY DEF ReviewOnly, DefaultMode
  <2>2. asked' = asked
    BY DEF modes
  <2>3. ReviewOnly(mode) => mode \in asked
    BY <1>3, <2>1
  <2>4. QED
    BY <1>2, <2>2, <2>3 DEF WeakOnlyOnRequest
<1>6. QED
  BY <1>4, <1>5, Frame DEF LaunchIInv

LEMMA StopGuardInv ==
    ASSUME LaunchIInv, StopGuard PROVE LaunchIInv'
<1> USE DEF StopGuard, world
<1>1. svc'.on = FALSE /\ svc' \in [on : BOOLEAN, mode : Modes, port : BOOLEAN]
  BY DEF LaunchIInv, LaunchTypeOK
<1>2. LaunchTypeOK'
  BY <1>1 DEF LaunchIInv, LaunchTypeOK, modes
<1>3. WeakOnlyOnRequest'
  BY <1>1 DEF WeakOnlyOnRequest
<1>4. QED
  BY <1>2, <1>3, Frame DEF LaunchIInv

-----------------------------------------------------------------------------
(* The steps of an evaluation *)

\* A question that is asked has its type and has not met the lists.
LEMMA BeginInv ==
    ASSUME LaunchIInv, NEW who \in Processes,
           NEW req \in Requests \cup {BareRequest}, NEW config \in Configs,
           Begin(who, req, config)
    PROVE  ask' \in Questions /\ AskInv'
<1>1. NoText \in Texts
  BY DEF NoText, Spelled, Texts
<1>2. /\ ask' = [who |-> who, req |-> req, config |-> config,
                 hash |-> NoText, hashed |-> FALSE]
      /\ ask'.hashed = FALSE
  BY DEF Begin
<1>3. QED
  BY <1>1, <1>2 DEF Questions, AskInv

LEMMA StartInv ==
    ASSUME LaunchIInv, Start PROVE LaunchIInv'
<1> USE DEF Start, Event, world
<1>1. ask' \in Questions \cup {Nothing} /\ AskInv'
  <2>1. CASE svc.port
    <3>1. setup.badFile \in [torn : BOOLEAN, hashes : SUBSET Texts]
      BY DEF LaunchIInv, LaunchTypeOK, Settings
    <3>2. PortConfig(setup.badFile) \in Configs
      BY <3>1, PortConfigType
    <3>3. "service" \in Processes
      BY DEF Processes
    <3>4. Begin("service", BareRequest, PortConfig(setup.badFile))
      BY <2>1
    <3>5. QED
      BY <3>2, <3>3, <3>4, BeginInv
  <2>2. CASE ~svc.port
    BY <2>2, Frame DEF LaunchIInv, LaunchTypeOK
  <2>3. QED
    BY <2>1, <2>2
<1>2. /\ image' \in Contents \cup {NoFile}
      /\ look' \in {"new", "suspect", "passed"}
  BY DEF Run, LaunchIInv, LaunchTypeOK
<1>3. LaunchTypeOK'
  <2>1. events' \in 0 .. MaxEvents
    BY LaunchAssumption DEF LaunchIInv, LaunchTypeOK
  <2>2. QED
    BY <1>1, <1>2, <2>1 DEF LaunchIInv, LaunchTypeOK, modes
<1>4. QED
  BY <1>1, <1>3, Frame DEF LaunchIInv, modes

LEMMA ScanCommandInv ==
    ASSUME LaunchIInv, ScanCommand PROVE LaunchIInv'
<1> USE DEF ScanCommand, Commanded, Event, world
<1>1. ask' \in Questions /\ AskInv'
  <2>1. PICK lists \in Lists, req \in Requests, mode \in CommandModes :
          Begin("console", req, CommandConfig(setup.badFile, lists, mode))
    OBVIOUS
  <2>2. setup.badFile \in [torn : BOOLEAN, hashes : SUBSET Texts]
    BY DEF LaunchIInv, LaunchTypeOK, Settings
  <2>3. CommandConfig(setup.badFile, lists, mode) \in Configs
    BY <2>2, CommandConfigType
  <2>4. "console" \in Processes
    BY DEF Processes
  <2>5. QED
    BY <2>1, <2>3, <2>4, BeginInv
<1>2. LaunchTypeOK'
  <2>1. events' \in 0 .. MaxEvents
    BY LaunchAssumption DEF LaunchIInv, LaunchTypeOK
  <2>2. QED
    BY <1>1, <2>1 DEF LaunchIInv, LaunchTypeOK, modes
<1>3. QED
  BY <1>1, <1>2, Frame DEF LaunchIInv, modes

\* What an evaluation ends with: no question, and an answer of its type.
LEMMA ConcludeInv ==
    ASSUME LaunchIInv, UNCHANGED setup, ask \in Questions,
           NEW hash, NEW scanned \in Contents \cup {NoFile}, NEW a \in Answers,
           Conclude(hash, scanned, a),
           LET listed == Listed(hash, ask.config.bad)
               cause  == listed \/ Suspected(scanned)
           IN  /\ a.quarantine <=> a.label
               /\ a.label => a.action = "block" /\ cause
               /\ a.action = "block" /\ ~a.label =>
                    /\ a.approval /\ ~cause
                    /\ ask.config.mode = "lockdown"
    PROVE  /\ ask' = Nothing /\ AskInv'
           /\ answer' \in Answered /\ LabelHasCause'
           /\ image' \in Contents \cup {NoFile}
           /\ look' \in {"new", "suspect", "passed"}
<1> DEFINE listed == Listed(hash, ask.config.bad)
<1>1. /\ ask' = Nothing
      /\ answer' = [who |-> ask.who, mode |-> ask.config.mode, listed |-> listed,
                    scanned |-> scanned, gives |-> a]
  BY DEF Conclude
<1>2. listed \in BOOLEAN
  BY DEF Listed
<1>3. /\ answer'.gives = a /\ answer'.scanned = scanned
      /\ answer'.listed = listed /\ answer'.mode = ask.config.mode
  BY <1>1
<1>4. ask.who \in Processes /\ ask.config.mode \in Modes
  BY DEF Questions, Configs
<1>5. Suspected(answer'.scanned) <=> Suspected(scanned)
  BY <1>3
<1>6. Suspected(answer.scanned)' <=> Suspected(scanned)
  BY <1>3 DEF Suspected, Confirmed, Likely, FirstYara
<1> HIDE DEF listed
<1>7. answer' \in Answered
  BY <1>1, <1>2, <1>4 DEF Answered
<1>8. LabelHasCause'
  BY <1>3, <1>6 DEF LabelHasCause, Suspected, listed
<1>9. AskInv'
  BY <1>1 DEF AskInv
<1>10. /\ image' \in Contents \cup {NoFile}
       /\ look' \in {"new", "suspect", "passed"}
  BY DEF Conclude, Run, LaunchIInv, LaunchTypeOK
<1>11. QED
  BY <1>1, <1>7, <1>8, <1>9, <1>10

LEMMA HashStepInv ==
    ASSUME LaunchIInv, HashStep PROVE LaunchIInv'
<1> USE DEF world
<1> DEFINE hash == HashFor(ask.req, disk)
           a    == ByList(setup.place, ask.req, ask.config, hash)
<1>1. /\ ask # Nothing /\ ~ask.hashed
      /\ IF a # Undecided
         THEN Conclude(hash, disk, a)
         ELSE /\ ask' = [ask EXCEPT !.hash = hash, !.hashed = TRUE,
                                    !.req = BareRequest]
              /\ UNCHANGED <<answer, image, look>>
      /\ UNCHANGED <<world, modes, driver, svc, engine, report, events>>
  BY DEF HashStep
<1>2. /\ ask \in Questions /\ disk \in Contents \cup {NoFile}
      /\ ask.req \in Requests \cup {BareRequest}
      /\ ask.who \in Processes /\ ask.config \in Configs
  BY <1>1 DEF LaunchIInv, LaunchTypeOK, Questions
<1>3. hash \in Texts
  BY <1>2, HashForType
<1>4. /\ a # Undecided => /\ a \in Answers
                          /\ a.action = "block" <=> a.label
                          /\ a.quarantine <=> a.label
                          /\ a.label => Listed(hash, ask.config.bad)
      /\ a = Undecided => ~Listed(hash, ask.config.bad)
  BY ByListSays
<1> HIDE DEF hash, a
<1>5. /\ ask' \in Questions \cup {Nothing} /\ AskInv'
      /\ answer' \in Answered \cup {Nothing} /\ LabelHasCause'
      /\ image' \in Contents \cup {NoFile}
      /\ look' \in {"new", "suspect", "passed"}
  <2>1. CASE a # Undecided
    <3>1. Conclude(hash, disk, a) /\ UNCHANGED setup
      BY <1>1, <2>1
    <3>2. /\ a \in Answers /\ (a.quarantine <=> a.label)
          /\ a.label => a.action = "block" /\ Listed(hash, ask.config.bad)
          /\ ~(a.action = "block" /\ ~a.label)
      BY <1>4, <2>1
    <3>3. /\ ask' = Nothing /\ AskInv'
          /\ answer' \in Answered /\ LabelHasCause'
          /\ image' \in Contents \cup {NoFile}
          /\ look' \in {"new", "suspect", "passed"}
      BY <1>2, <3>1, <3>2, ConcludeInv
    <3>4. QED
      BY <3>3
  <2>2. CASE a = Undecided
    <3>1. ask' = [ask EXCEPT !.hash = hash, !.hashed = TRUE, !.req = BareRequest]
      BY <1>1, <2>2
    <3>2. /\ ask'.hash = hash /\ ask'.config = ask.config /\ ask'.hashed = TRUE
          /\ ask' \in Questions
      BY <1>2, <1>3, <3>1 DEF Questions
    <3>3. AskInv'
      BY <1>4, <2>2, <3>2 DEF AskInv
    <3>4. LabelHasCause'
      BY <1>1, <2>2, Frame
    <3>5. QED
      BY <1>1, <2>2, <3>2, <3>3, <3>4 DEF LaunchIInv, LaunchTypeOK
  <2>3. QED
    BY <2>1, <2>2
<1>6. LaunchTypeOK'
  BY <1>1, <1>5 DEF LaunchIInv, LaunchTypeOK, modes
<1>7. QED
  BY <1>1, <1>5, <1>6, Frame DEF LaunchIInv, modes

LEMMA LoadingType ==
    ASSUME NEW who \in Processes, LaunchTypeOK
    PROVE  Loading(who) \in EngineStates
<1>1. engine[who] \in EngineStates
  BY DEF LaunchTypeOK, Processes
<1>2. QED
  BY <1>1 DEF Loading, EngineStates

LEMMA ScanStepInv ==
    ASSUME LaunchIInv, ScanStep PROVE LaunchIInv'
<1> USE DEF world
<1> DEFINE ready == Loading(ask.who) = "ready"
           a == ByScan(setup.features, ask.config.mode, disk, ready)
<1>1. /\ ask # Nothing /\ ask.hashed
      /\ engine' = IF disk = NoFile THEN engine
                   ELSE [engine EXCEPT ![ask.who] = Loading(ask.who)]
      /\ Conclude(ask.hash, disk, a)
      /\ UNCHANGED <<world, modes, driver, svc, report, events>>
  BY DEF ScanStep
<1>2. /\ ask \in Questions /\ disk \in Contents \cup {NoFile}
      /\ ask.who \in Processes /\ ask.config.mode \in Modes
      /\ ready \in BOOLEAN
  BY <1>1 DEF LaunchIInv, LaunchTypeOK, Questions, Configs
<1>3. ~Listed(ask.hash, ask.config.bad)
  BY <1>1 DEF LaunchIInv, AskInv
<1> HIDE DEF ready
<1>4. /\ a \in Answers
      /\ a.quarantine <=> a.label
      /\ a.label => /\ a.action = "block" /\ disk # NoFile
                    /\ \/ Found(disk)
                       \/ /\ YaraDecides(setup.features, disk)
                          /\ Head(disk.yara) \in {"confirmed", "high"}
      /\ a.action = "block" /\ ~a.label =>
           /\ a.approval /\ ask.config.mode = "lockdown"
           /\ disk # NoFile => ~Found(disk) /\ ~YaraDecides(setup.features, disk)
  BY <1>2, ByScanSays
<1> HIDE DEF a
<1>5. /\ a.label => Suspected(disk)
      /\ a.action = "block" /\ ~a.label => ~Suspected(disk)
  BY <1>4 DEF Suspected, Confirmed, Likely, FirstYara, Found
<1>6. /\ ask' = Nothing /\ AskInv'
      /\ answer' \in Answered /\ LabelHasCause'
      /\ image' \in Contents \cup {NoFile}
      /\ look' \in {"new", "suspect", "passed"}
  BY <1>1, <1>2, <1>3, <1>4, <1>5, ConcludeInv
<1>7. engine' \in [service : EngineStates, console : EngineStates]
  <2>1. Loading(ask.who) \in EngineStates
    BY <1>2, LoadingType DEF LaunchIInv
  <2>2. engine \in [service : EngineStates, console : EngineStates]
    BY DEF LaunchIInv, LaunchTypeOK
  <2>3. QED
    BY <1>1, <1>2, <2>1, <2>2 DEF Processes
<1>8. LaunchTypeOK'
  BY <1>1, <1>6, <1>7 DEF LaunchIInv, LaunchTypeOK, modes
<1>9. QED
  BY <1>1, <1>6, <1>8, Frame DEF LaunchIInv, modes

-----------------------------------------------------------------------------
(* The steps of the watcher, the console and the machine *)

LEMMA WatcherInv ==
    ASSUME LaunchIInv, Watcher \/ Exit PROVE LaunchIInv'
<1> USE DEF world
<1>1. CASE Look
  <2>1. LaunchTypeOK'
    BY <1>1 DEF Look, LaunchIInv, LaunchTypeOK, modes
  <2>2. QED
    BY <1>1, <2>1, Frame DEF Look, LaunchIInv, modes
<1>2. CASE Handle
  <2>1. LaunchTypeOK'
    BY <1>2 DEF Handle, LaunchIInv, LaunchTypeOK, modes
  <2>2. QED
    BY <1>2, <2>1, Frame DEF Handle, LaunchIInv, modes
<1>3. CASE Exit
  <2>1. LaunchTypeOK'
    BY <1>3 DEF Exit, LaunchIInv, LaunchTypeOK, modes
  <2>2. QED
    BY <1>3, <2>1, Frame DEF Exit, LaunchIInv, modes
<1>4. QED
  BY <1>1, <1>2, <1>3 DEF Watcher

LEMMA StartedCommandInv ==
    ASSUME LaunchIInv, StartedCommand PROVE LaunchIInv'
<1> USE DEF Commanded, Event
<1>1. PICK lists \in Lists, mode \in CommandModes \ {"none"}, pid \in BOOLEAN :
        LET action == StartedAction(setup.features, mode, lists.bad, disk, assets)
        IN  /\ answer' = [who |-> "started", mode |-> mode, gives |-> action]
            /\ IF action = "stoppedAndQuarantined"
               THEN /\ disk' = NoFile
                    /\ image' = IF pid THEN NoFile ELSE image
                    /\ look' = IF pid THEN "passed" ELSE look
               ELSE UNCHANGED <<disk, image, look>>
  BY DEF StartedCommand
<1>2. /\ UNCHANGED <<setup, assets, modes, driver, svc, engine, ask, report>>
      /\ events < MaxEvents /\ events' = events + 1
  BY DEF StartedCommand
<1> DEFINE action == StartedAction(setup.features, mode, lists.bad, disk, assets)
<1>3. action \in StartedActions /\ mode \in Modes
  BY StartedActionType, LaunchAssumption
<1>4. answer' = [who |-> "started", mode |-> mode, gives |-> action]
  BY <1>1
<1>5. /\ disk' \in Contents \cup {NoFile}
      /\ image' \in Contents \cup {NoFile}
      /\ look' \in {"new", "suspect", "passed"}
  BY <1>1 DEF LaunchIInv, LaunchTypeOK
<1> HIDE DEF action
<1>6. answer' \in Answered /\ LabelHasCause'
  <2>1. answer'.who = "started"
    BY <1>4
  <2>2. QED
    BY <1>3, <1>4, <2>1 DEF Answered, LabelHasCause, Evaluated, Processes
<1>7. LaunchTypeOK'
  <2>1. events' \in 0 .. MaxEvents
    BY <1>2, LaunchAssumption DEF LaunchIInv, LaunchTypeOK
  <2>2. QED
    BY <1>2, <1>5, <1>6, <2>1 DEF LaunchIInv, LaunchTypeOK, modes
<1>8. QED
  BY <1>2, <1>6, <1>7, Frame DEF LaunchIInv, modes

LEMMA ProbedType ==
    ASSUME NEW d \in Drivers, svc.port \in BOOLEAN,
           NEW loads \in BOOLEAN, NEW alive \in BOOLEAN
    PROVE  Probed(d, loads, alive) \in Drivers
<1> DEFINE running == d.running \/ (Loads(d) /\ loads)
           answers == running /\ alive /\ ~svc.port
<1>1. Probed(d, loads, alive) =
        [d EXCEPT !.running = running, !.answers = answers]
  BY DEF Probed
<1>2. running \in BOOLEAN /\ answers \in BOOLEAN
  BY DEF Loads, Drivers
<1> HIDE DEF running, answers
<1>3. QED
  BY <1>1, <1>2 DEF Drivers

LEMMA DriverSelfTestInv ==
    ASSUME LaunchIInv, DriverSelfTest PROVE LaunchIInv'
<1>1. PICK lists \in Lists, loads \in BOOLEAN, alive \in BOOLEAN :
        LET d == Probed(driver, loads, alive)
            r == SelfTest(setup.features, lists.bad \cup KnownBad(setup.badFile),
                          d, Loading("console") = "ready")
        IN  /\ Commanded
            /\ driver' = d
            /\ report' = IF r.error THEN report
                         ELSE [who |-> "selftest", passed |-> r.passed,
                               available |-> r.available, driver |-> d]
            /\ engine' = [engine EXCEPT !["console"] = Loading("console")]
            /\ UNCHANGED <<world, modes, svc, ask, answer, image, look>>
  BY DEF DriverSelfTest
<1>2. /\ UNCHANGED <<world, modes, svc, ask, answer, image, look>>
      /\ events < MaxEvents /\ events' = events + 1
      /\ engine' = [engine EXCEPT !["console"] = Loading("console")]
  BY <1>1 DEF Commanded, Event
<1> USE DEF world
<1> DEFINE R(l, d) ==
             SelfTest(setup.features, l.bad \cup KnownBad(setup.badFile),
                      d, Loading("console") = "ready")
<1> DEFINE d == Probed(driver, loads, alive)
           r == R(lists, d)
<1>3. /\ driver' = d
      /\ report' = IF r.error THEN report
                   ELSE [who |-> "selftest", passed |-> r.passed,
                         available |-> r.available, driver |-> d]
  BY <1>1
<1>4. driver \in Drivers /\ svc.port \in BOOLEAN
  BY DEF LaunchIInv, LaunchTypeOK
<1>5. d \in Drivers
  BY <1>4, ProbedType
<1>6. r.available \in BOOLEAN /\ r.passed \in BOOLEAN
  <2> DEFINE bad == lists.bad \cup KnownBad(setup.badFile)
             ready == Loading("console") = "ready"
  <2>1. r = SelfTest(setup.features, bad, d, ready)
    OBVIOUS
  <2> HIDE DEF d, r, bad, ready
  <2>2. QED
    BY <2>1, SelfTestSays
<1> HIDE DEF d, r
<1>7. report' \in Reports \cup {Nothing}
  <2>1. CASE r.error
    BY <1>3, <2>1 DEF LaunchIInv, LaunchTypeOK
  <2>2. CASE ~r.error
    BY <1>3, <1>4, <1>5, <1>6, <2>2 DEF Reports
  <2>3. QED
    BY <2>1, <2>2
<1>8. LaunchTypeOK'
  <2>1. engine' \in [service : EngineStates, console : EngineStates]
    <3>1. "console" \in Processes /\ LaunchTypeOK
      BY DEF Processes, LaunchIInv
    <3>2. Loading("console") \in EngineStates
      BY <3>1, LoadingType
    <3>3. QED
      BY <1>2, <3>1, <3>2 DEF LaunchTypeOK
  <2>2. events' \in 0 .. MaxEvents
    BY <1>2, LaunchAssumption DEF LaunchIInv, LaunchTypeOK
  <2>3. QED
    BY <1>2, <1>3, <1>5, <1>7, <2>1, <2>2 DEF LaunchIInv, LaunchTypeOK, modes
<1>9. QED
  BY <1>2, <1>8, Frame DEF LaunchIInv, modes

LEMMA MachineInv ==
    ASSUME LaunchIInv, Replace \/ ChangeAssets PROVE LaunchIInv'
<1>0. events' \in 0 .. MaxEvents
  BY LaunchAssumption DEF Replace, ChangeAssets, Event, LaunchIInv, LaunchTypeOK
<1>1. CASE Replace
  <2>1. LaunchTypeOK'
    BY <1>0, <1>1 DEF Replace, LaunchIInv, LaunchTypeOK, modes
  <2>2. QED
    BY <1>1, <2>1, Frame DEF Replace, LaunchIInv, modes
<1>2. CASE ChangeAssets
  <2>1. LaunchTypeOK'
    BY <1>0, <1>2 DEF ChangeAssets, LaunchIInv, LaunchTypeOK, modes
  <2>2. QED
    BY <1>2, <2>1, Frame DEF ChangeAssets, LaunchIInv, modes
<1>3. QED
  BY <1>1, <1>2

LEMMA LaunchNextInv ==
    LaunchIInv /\ [LaunchNext]_launchVars => LaunchIInv'
<1> SUFFICES ASSUME LaunchIInv, [LaunchNext]_launchVars PROVE LaunchIInv'
  OBVIOUS
<1>1. CASE Core
  BY <1>1, BeginModeWriteInv, EndModeWriteInv, CoreCrashInv DEF Core
<1>2. CASE StartGuard \/ StopGuard
  BY <1>2, StartGuardInv, StopGuardInv
<1>3. CASE Start \/ Evaluation
  BY <1>3, StartInv, HashStepInv, ScanStepInv DEF Evaluation
<1>4. CASE Watcher \/ Exit
  BY <1>4, WatcherInv
<1>5. CASE Console
  BY <1>5, ScanCommandInv, StartedCommandInv, DriverSelfTestInv DEF Console
<1>6. CASE Replace \/ ChangeAssets
  BY <1>6, MachineInv
<1>7. CASE UNCHANGED launchVars
  BY <1>7, LaunchUnchanged
<1>8. QED
  BY <1>1, <1>2, <1>3, <1>4, <1>5, <1>6, <1>7 DEF LaunchNext

\* The step that starts the service is the only one that turns it on.
LEMMA ModeArrivesStep ==
    ASSUME LaunchIInv, [LaunchNext]_launchVars, ~svc.on, svc'.on, saved # "none",
           ParseMode(setup.variable) = "none"
    PROVE  svc'.mode = ParseMode(saved)
<1>1. CASE StartGuard
  <2> DEFINE text == modeFile[ModeFileOfGuard(setup.env)]
  <2>1. svc'.mode = ConfiguredMode(setup.variable, text)
    BY <1>1 DEF StartGuard
  <2>2. NormalMode(saved) # "none" /\ text = NormalMode(saved)
    BY DEF LaunchIInv, ModeInv, ModeFileOfCore
  <2>3. ParseMode(text) = ParseMode(saved) /\ ParseMode(text) # "none"
    BY <2>2, SameMode
  <2> HIDE DEF text
  <2>4. QED
    BY <2>1, <2>3, ConfiguredModeIs
<1>2. CASE StopGuard
  BY <1>2 DEF StopGuard
<1>3. CASE UNCHANGED svc
  BY <1>3
<1>4. StartGuard \/ StopGuard \/ UNCHANGED svc
  BY DEF LaunchNext, launchVars, Core, BeginModeWrite, EndModeWrite, CoreCrash,
     Start, Evaluation, HashStep, ScanStep, Watcher, Look, Handle, Console,
     ScanCommand, StartedCommand, DriverSelfTest, Exit, Replace, ChangeAssets
<1>5. QED
  BY <1>1, <1>2, <1>3, <1>4

-----------------------------------------------------------------------------
(* The theorems *)

\* Every variable keeps its type; what is evaluated is evaluated under complete
\* lists and a mode (evaluate_driver_request, DriverVerdictConfig).
THEOREM LaunchTypeCorrect == LaunchSpec => []LaunchTypeOK
<1>1. LaunchIInv => LaunchTypeOK
  BY DEF LaunchIInv
<1>2. QED
  BY <1>1, LaunchInitInv, LaunchNextInv, PTL DEF LaunchSpec

\* The inductive invariant holds in every reachable state.
THEOREM LaunchInvariance == LaunchSpec => []LaunchIInv
  BY LaunchInitInv, LaunchNextInv, PTL DEF LaunchSpec

\* Whatever file is swapped under an evaluation, what is labelled malware is what is
\* listed or what the engine or YARA confirms or finds likely in the content that
\* was scanned (evaluate_driver_request).
THEOREM LabelsHaveCause == LaunchSpec => []LabelHasCause
<1>1. LaunchIInv => LabelHasCause
  BY DEF LaunchIInv
<1>2. QED
  BY <1>1, LaunchInvariance, PTL

\* The service only looks on in a mode that somebody asked for, whenever the core
\* dies while it writes the mode (configured_guard_mode, write_guard_mode_config).
THEOREM WeakIsRequested == LaunchSpec => []WeakOnlyOnRequest
<1>1. LaunchIInv => WeakOnlyOnRequest
  BY DEF LaunchIInv
<1>2. QED
  BY <1>1, LaunchInvariance, PTL

\* A service started after a mode was saved runs in that mode
\* (write_guard_mode_config, read_guard_mode_config).
THEOREM SavedModeArrives == LaunchSpec => ModeArrives
<1>1. LaunchIInv /\ [LaunchNext]_launchVars =>
        [~svc.on /\ svc'.on /\ saved # "none" /\ ParseMode(setup.variable) = "none" =>
            svc'.mode = ParseMode(saved)]_launchVars
  BY ModeArrivesStep
<1>2. QED
  BY <1>1, LaunchInvariance, PTL DEF LaunchSpec, ModeArrives
==============================================================================
