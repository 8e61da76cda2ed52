-------------------------- MODULE MCQueries_proof --------------------------
(* Theorems of what is asked of Govee's cloud and held of it: the MQTT      *)
(* status queries, the tank's alert, the scene catalogs and the leak        *)
(* sensor, for any devices, requests, kinds, askers and timings; and of the *)
(* sum, whose behaviours are one of one part.                               *)
EXTENDS MCQueries, FiniteSetTheorems, TLAPS

-----------------------------------------------------------------------------
(* The queries: no device is asked too often, and none is blamed wrongly.   *)

\* The waiters are in the queue, once each, and every query has its device.
QueueInv ==
    /\ \A i \in DOMAIN queue : at[queue[i]] = "wait"
    /\ \A i, j \in DOMAIN queue : queue[i] = queue[j] => i = j
    /\ \A a \in Askers : at[a] = "wait" => want[a] \in Devices /\ \E i \in DOMAIN queue : queue[i] = a

\* A query the broker has is on the session that is up, with the marker set.
OpenInv ==
    \A a \in Askers : Open(a) => want[a] \in Devices /\ (live[a] => up /\ marker = want[a])

Barred(d) == d \in quarantine \/ accountRefused

BarredInv ==
    /\ \A d \in Devices : strikes[d] >= Strikes => Barred(d)
    /\ \A r \in Requests : Open(r) /\ live[r] => ~Barred(want[r])

\* The sweep in progress is over before the loop connects again.
SweepEndsFirst ==
    /\ at[Sweep] = "next" => wait > 0
    /\ at[Sweep] = "open" => wait > left[Sweep]
    /\ at[Sweep] = "wait" => wait > Spacing /\ \A a \in Askers : Open(a) => wait > Spacing + left[a]

\* The sweep in progress may still query the device.
AtRisk(d) ==
    \/ at[Sweep] # "idle" /\ d \in todo
    \/ at[Sweep] \in {"wait", "open"} /\ want[Sweep] = d

StaleInv ==
    \A d \in Devices : Barred(d) /\ AtRisk(d) =>
        caused[d] < Strikes + restarts \/ (~up /\ SweepEndsFirst)

LockInv == TypeOK /\ QueueInv /\ OpenInv /\ MarkerNamesOpenQuery
IInv    == LockInv /\ ChargesAreRight /\ BarredInv /\ StaleInv /\ RefusalsAreRationed
-----------------------------------------------------------------------------
LEMMA Enqueued ==
    ASSUME NEW S, NEW q \in Seq(S), NEW x \in S
    PROVE  /\ Append(q, x) \in Seq(S) /\ DOMAIN Append(q, x) = 1..Len(q) + 1 /\ DOMAIN q = 1..Len(q)
           /\ Len(q) \in Nat /\ Append(q, x)[Len(q) + 1] = x
           /\ \A i \in DOMAIN q : Append(q, x)[i] = q[i]
    OBVIOUS

LEMMA Dequeued ==
    ASSUME NEW S, NEW q \in Seq(S), q # <<>>
    PROVE  /\ Head(q) \in S /\ Head(q) = q[1] /\ Tail(q) \in Seq(S)
           /\ Len(q) \in Nat \ {0} /\ DOMAIN q = 1..Len(q) /\ DOMAIN Tail(q) = 1..Len(q) - 1
           /\ \A i \in DOMAIN Tail(q) : Tail(q)[i] = q[i + 1]
    OBVIOUS

LEMMA OneMoreType ==
    ASSUME QueryAssumption, NEW n \in 0..MaxCount
    PROVE  OneMore(n) \in 0..MaxCount /\ n <= OneMore(n) /\ OneMore(n) <= n + 1
    BY DEF QueryAssumption, OneMore

LEMMA BlameType ==
    ASSUME QueryAssumption, TypeOK, Blame
    PROVE  /\ marker' = NoDevice /\ strikes' \in [Devices -> 0..MaxCount] /\ quarantine' \subseteq Devices
           /\ unanswered' \subseteq Models(Devices) /\ accountRefused' \in BOOLEAN
    <1>1. CASE marker = NoDevice
        BY <1>1 DEF TypeOK, Blame, blame
    <1>2. CASE marker # NoDevice
        <2>1. marker \in Devices /\ Sku[marker] \in Models(Devices)
            BY <1>2 DEF TypeOK, Models
        <2>2. strikes' = [strikes EXCEPT ![marker] = OneMore(@)] /\ OneMore(strikes[marker]) \in 0..MaxCount
            BY <1>2, <2>1, OneMoreType DEF TypeOK, Blame
        <2>3. quarantine' \in {quarantine, quarantine \cup {marker}} /\ accountRefused' \in {accountRefused, TRUE}
              /\ unanswered' = unanswered \cup {Sku[marker]} /\ marker' = NoDevice
            BY <1>2 DEF Blame
        <2> QED
            BY <2>1, <2>2, <2>3 DEF TypeOK
    <1> QED
        BY <1>1, <1>2

LEMMA SessionDown ==
    ASSUME QueryAssumption, up' = FALSE, wait' \in {0, Reconnect}, live' = [a \in Askers |-> FALSE]
    PROVE  up' \in BOOLEAN /\ wait' \in 0..Reconnect /\ live' \in [Askers -> BOOLEAN]
    <1>1. up' \in BOOLEAN
        BY Zenon
    <1>2. wait' \in 0..Reconnect
        BY DEF QueryAssumption
    <1>3. live' \in [Askers -> BOOLEAN]
        BY Zenon
    <1> QED
        BY <1>1, <1>2, <1>3

LEMMA TypeStep ==
    ASSUME QueryAssumption, TypeOK, QueueInv, OpenInv, [Next]_vars
    PROVE  TypeOK'
    <1> USE DEF TypeOK, QueryAssumption, session, locks, blame, hist
    <1> Requests \subseteq Askers /\ Sweep \in Askers
        BY DEF Askers
    <1>1. ASSUME NEW a \in Askers, NEW d \in Devices, Query(a, d)
          PROVE  /\ at' \in [Askers -> {"idle", "next", "wait", "open"}]
                 /\ want' \in [Askers -> Devices \cup {NoDevice}] /\ left' \in [Askers -> 0..Spacing]
                 /\ live' \in [Askers -> BOOLEAN] /\ marker' \in Devices \cup {NoDevice}
        BY <1>1 DEF Query
    <1>2. ASSUME NEW a \in Askers, NEW d \in Devices, Enqueue(a, d)
          PROVE  /\ at' \in [Askers -> {"idle", "next", "wait", "open"}] /\ queue' \in Seq(Askers)
                 /\ want' \in [Askers -> Devices \cup {NoDevice}] /\ UNCHANGED <<left, live, marker>>
        BY <1>2, Enqueued DEF Enqueue
    <1>3. ASSUME NEW d \in Devices, SweepNext(d) PROVE TypeOK'
        BY <1>1, <1>2, <1>3 DEF SweepNext
    <1>4. ASSUME NEW r \in Requests, NEW d \in Devices, Request(r, d) PROVE TypeOK'
        BY <1>1, <1>2, <1>4 DEF Request
    <1>5. CASE Acquire
        <2>1. Head(queue) \in Askers /\ want[Head(queue)] \in Devices /\ queue' \in Seq(Askers)
            BY <1>5, Dequeued DEF Acquire, QueueInv
        <2> QED
            BY <1>1, <1>5, <2>1 DEF Acquire
    <1>6. CASE SweepEnd
        BY <1>6 DEF SweepEnd
    <1>7. ASSUME NEW a \in Askers, Close(a) PROVE TypeOK'
        BY <1>7 DEF Close
    <1>8. ASSUME Drop PROVE up' \in BOOLEAN /\ wait' \in 0..Reconnect /\ live' \in [Askers -> BOOLEAN]
        BY ONLY <1>8, SessionDown, QueryAssumption DEF Drop
    <1>16. ASSUME Drop, drops' \in 0..MaxDrops, caused' \in [Devices -> 0..MaxCount] PROVE TypeOK'
        BY <1>8, <1>16, BlameType DEF Drop
    <1>9. ASSUME NEW a \in Askers, Refuse(a) PROVE TypeOK'
        <2>1. want[a] \in Devices
            BY <1>9 DEF Refuse, Refused
        <2>2. caused' \in [Devices -> 0..MaxCount]
            BY <1>9, <2>1, OneMoreType DEF Refuse
        <2> QED
            <3>1. drops' \in 0..MaxDrops /\ Drop
                BY <1>9 DEF Refuse
            <3> QED
                BY ONLY <1>16, <2>2, <3>1
    <1>10. CASE NetworkDrop
        <2>1. drops' \in 0..MaxDrops /\ caused' \in [Devices -> 0..MaxCount] /\ Drop
            BY <1>10 DEF NetworkDrop
        <2> QED
            BY ONLY <1>16, <2>1
    <1>11. CASE Restart
        <2>2. up' \in BOOLEAN /\ wait' \in 0..Reconnect /\ live' \in [Askers -> BOOLEAN]
            BY ONLY <1>11, SessionDown, QueryAssumption DEF Restart
        <2> QED
            BY <1>11, <2>2 DEF Restart
    <1>12. CASE Connect
        BY <1>12 DEF Connect
    <1>13. CASE Tick
        BY <1>13 DEF Tick, Open
    <1>14. ASSUME NEW ds \in {Devices, Outlets}, StartSweep(ds) PROVE TypeOK'
        BY <1>14 DEF StartSweep, CanSweep
    <1>15. CASE UNCHANGED vars
        BY <1>15 DEF vars
    <1> QED
        BY <1>3, <1>4, <1>5, <1>6, <1>7, <1>9, <1>10, <1>11, <1>12, <1>13, <1>14, <1>15
        DEF Next, Sweeping, Answers
-----------------------------------------------------------------------------
\* A query goes out only when none is open, and it is then the only one.
LEMMA QueryStep ==
    ASSUME TypeOK, OpenInv, MarkerNamesOpenQuery, ~Held, NEW a \in Askers, NEW d \in Devices, Query(a, d),
           UNCHANGED up
    PROVE  OpenInv' /\ MarkerNamesOpenQuery' /\ at'[a] = "open" /\ \A c \in Askers \ {a} : at'[c] = at[c] /\ want'[c] = want[c]
    <1>1. /\ at'[a] = "open" /\ want'[a] = d /\ live'[a] = up /\ marker' = d
          /\ \A c \in Askers \ {a} : at'[c] = at[c] /\ want'[c] = want[c] /\ at[c] # "open"
        BY DEF Query, TypeOK, Held, Open
    <1> QED
        BY <1>1 DEF OpenInv, MarkerNamesOpenQuery, Held, Open, TypeOK

\* A caller that waits leaves the open query alone.
LEMMA EnqueueStep ==
    ASSUME TypeOK, QueueInv, OpenInv, MarkerNamesOpenQuery, NEW a \in Askers, NEW d \in Devices,
           at[a] \notin {"open", "wait"}, Enqueue(a, d), UNCHANGED up
    PROVE  QueueInv' /\ OpenInv' /\ MarkerNamesOpenQuery'
    <1>1. /\ at'[a] = "wait" /\ want'[a] = d
          /\ \A c \in Askers \ {a} : at'[c] = at[c] /\ want'[c] = want[c]
          /\ live' = live /\ marker' = marker
        BY DEF Enqueue, TypeOK
    <1>2. OpenInv' /\ MarkerNamesOpenQuery'
        BY <1>1 DEF OpenInv, MarkerNamesOpenQuery, Held, Open
    <1>3. /\ DOMAIN queue' = 1..Len(queue) + 1 /\ queue'[Len(queue) + 1] = a /\ Len(queue) \in Nat
          /\ DOMAIN queue = 1..Len(queue) /\ \A i \in DOMAIN queue : queue'[i] = queue[i] /\ queue[i] \in Askers
        BY Enqueued DEF Enqueue, TypeOK
    <1>4. \A i \in DOMAIN queue : queue[i] # a
        BY DEF QueueInv
    <1>5. \A i \in DOMAIN queue' : at'[queue'[i]] = "wait"
        BY <1>1, <1>3, <1>4 DEF QueueInv
    <1>6. \A i, j \in DOMAIN queue' : queue'[i] = queue'[j] => i = j
        BY <1>3, <1>4 DEF QueueInv
    <1>7. \A c \in Askers : at'[c] = "wait" => want'[c] \in Devices /\ \E i \in DOMAIN queue' : queue'[i] = c
        BY <1>1, <1>3 DEF QueueInv
    <1> QED
        BY <1>2, <1>5, <1>6, <1>7 DEF QueueInv

\* The queue is kept by a step of askers that do not wait.
LEMMA QueueKept ==
    ASSUME TypeOK, QueueInv, UNCHANGED queue,
           \A c \in Askers : (at[c] = "wait") = (at'[c] = "wait") /\ (at[c] = "wait" => want'[c] = want[c])
    PROVE  QueueInv'
    <1>1. \A i \in DOMAIN queue : queue[i] \in Askers
        BY DEF TypeOK
    <1> QED
        BY <1>1 DEF QueueInv

LEMMA AcquireStep ==
    ASSUME LockInv, Acquire
    PROVE  QueueInv' /\ OpenInv' /\ MarkerNamesOpenQuery'
    <1> DEFINE a == Head(queue)
    <1> USE DEF LockInv
    <1>1. /\ a \in Askers /\ a = queue[1] /\ Len(queue) \in Nat \ {0} /\ DOMAIN queue = 1..Len(queue)
          /\ DOMAIN queue' = 1..Len(queue) - 1 /\ \A i \in DOMAIN queue' : queue'[i] = queue[i + 1]
        BY Dequeued DEF Acquire, TypeOK
    <1>2. at[a] = "wait" /\ want[a] \in Devices /\ \A i \in DOMAIN queue \ {1} : queue[i] # a
        BY <1>1 DEF QueueInv
    <1>3. OpenInv' /\ MarkerNamesOpenQuery' /\ at'[a] # "wait" /\ \A c \in Askers \ {a} : at'[c] = at[c] /\ want'[c] = want[c]
        <2>1. CASE Query(a, want[a])
            BY <1>1, <1>2, <2>1, QueryStep DEF Acquire
        <2>2. CASE at' = [at EXCEPT ![a] = "idle"] /\ want' = [want EXCEPT ![a] = NoDevice]
                   /\ UNCHANGED <<left, live, marker, up>>
            <3>1. at'[a] = "idle" /\ \A c \in Askers \ {a} : at'[c] = at[c] /\ want'[c] = want[c]
                BY <1>1, <2>2 DEF TypeOK
            <3>2. at[a] = "wait"
                BY <1>2
            <3> HIDE DEF a
            <3> QED
                BY <1>1, <2>2, <3>1, <3>2 DEF OpenInv, MarkerNamesOpenQuery, Held, Open
        <2> QED
            BY <2>1, <2>2 DEF Acquire
    <1> HIDE DEF a
    <1>4. \A i \in DOMAIN queue' : i + 1 \in DOMAIN queue \ {1} /\ queue[i + 1] \in Askers
        BY <1>1 DEF TypeOK
    <1>5. \A i \in DOMAIN queue' : at'[queue'[i]] = "wait"
        BY <1>1, <1>2, <1>3, <1>4 DEF QueueInv
    <1>6. \A i, j \in DOMAIN queue' : queue'[i] = queue'[j] => i = j
        BY <1>1, <1>4 DEF QueueInv
    <1>7. ASSUME NEW c \in Askers, at'[c] = "wait"
          PROVE  want'[c] \in Devices /\ \E i \in DOMAIN queue' : queue'[i] = c
        <2>1. c # a /\ at[c] = "wait" /\ want'[c] = want[c]
            BY <1>3, <1>7
        <2>2. PICK i \in DOMAIN queue : queue[i] = c
            BY <2>1 DEF QueueInv
        <2>3. i # 1 /\ i - 1 \in DOMAIN queue' /\ queue'[i - 1] = c
            BY <1>1, <2>1, <2>2
        <2> QED
            BY <2>1, <2>3 DEF QueueInv
    <1> QED
        BY <1>3, <1>5, <1>6, <1>7 DEF QueueInv

\* Each step keeps the lock, the queue and the marker.
LEMMA LockStep ==
    ASSUME QueryAssumption, LockInv, [Next]_vars
    PROVE  QueueInv' /\ OpenInv' /\ MarkerNamesOpenQuery'
    <1> USE DEF LockInv
    <1> Requests \subseteq Askers /\ Sweep \in Askers
        BY DEF Askers
    <1>1. ASSUME NEW a \in Askers, NEW d \in Devices, at[a] \in {"idle", "next"}, UNCHANGED up,
                 IF Free THEN Query(a, d) /\ UNCHANGED queue ELSE Enqueue(a, d)
          PROVE  QueueInv' /\ OpenInv' /\ MarkerNamesOpenQuery'
        <2>1. CASE Free
            BY <1>1, <2>1, QueryStep, QueueKept DEF Free
        <2>2. CASE ~Free
            BY <1>1, <2>2, EnqueueStep
        <2> QED
            BY <2>1, <2>2
    <1>2. ASSUME NEW d \in Devices, SweepNext(d) PROVE QueueInv' /\ OpenInv' /\ MarkerNamesOpenQuery'
        BY <1>1, <1>2 DEF SweepNext
    <1>3. ASSUME NEW r \in Requests, NEW d \in Devices, Request(r, d)
          PROVE  QueueInv' /\ OpenInv' /\ MarkerNamesOpenQuery'
        BY <1>1, <1>3 DEF Request
    <1>4. CASE UNCHANGED <<want, live, queue, marker>> /\ at[Sweep] \in {"idle", "next"}
               /\ (up => up') /\ (UNCHANGED at \/ \E p \in {"idle", "next"} : at' = [at EXCEPT ![Sweep] = p])
        <2>1. \A c \in Askers : (at[c] \in {"wait", "open"} \/ at'[c] \in {"wait", "open"}) => at'[c] = at[c]
            BY <1>4 DEF TypeOK
        <2>2. QueueInv'
            BY <1>4, <2>1, QueueKept
        <2> QED
            BY <1>4, <2>1, <2>2 DEF OpenInv, MarkerNamesOpenQuery, Held, Open, TypeOK
    <1>5. CASE SweepEnd
        BY <1>4, <1>5 DEF SweepEnd, session
    <1>6. ASSUME NEW ds, StartSweep(ds) PROVE QueueInv' /\ OpenInv' /\ MarkerNamesOpenQuery'
        BY <1>4, <1>6 DEF StartSweep, CanSweep, session
    <1>7. ASSUME UNCHANGED <<at, want, queue>>
          PROVE  QueueInv' /\ \A a \in Askers : Open(a) <=> Open(a)'
        BY <1>7 DEF QueueInv, Open
    <1>8. CASE Connect
        <2>1. CASE at[Sweep] = "idle"
            BY <1>4, <1>8, <2>1 DEF Connect
        <2>2. CASE at[Sweep] # "idle"
            BY <1>7, <1>8, <2>2 DEF Connect, OpenInv, MarkerNamesOpenQuery, Held, Open
        <2> QED
            BY <2>1, <2>2
    <1>9. CASE UNCHANGED <<at, want, queue>> /\ live' = [a \in Askers |-> FALSE] /\ marker' \in {marker, NoDevice}
        BY <1>7, <1>9 DEF OpenInv, MarkerNamesOpenQuery, Held, Open
    <1>10. CASE Drop
        BY <1>9, <1>10, BlameType DEF Drop, locks
    <1>11. CASE Restart
        BY <1>9, <1>11 DEF Restart, locks
    <1>12. CASE Tick \/ UNCHANGED vars
        BY <1>7, <1>12 DEF Tick, vars, session, locks, OpenInv, MarkerNamesOpenQuery, Held, Open
    <1>13. ASSUME NEW a \in Askers, Close(a) PROVE QueueInv' /\ OpenInv' /\ MarkerNamesOpenQuery'
        <2>1. /\ at[a] = "open" /\ at'[a] \in {"idle", "next"} /\ queue' = queue /\ marker' = NoDevice
              /\ \A c \in Askers \ {a} : at[c] # "open" /\ at'[c] = at[c] /\ want'[c] = want[c]
            BY <1>13 DEF Close, MarkerNamesOpenQuery, Open, TypeOK
        <2>2. QueueInv'
            BY <2>1, QueueKept
        <2> QED
            BY <2>1, <2>2 DEF OpenInv, MarkerNamesOpenQuery, Held, Open
    <1> QED
        BY <1>2, <1>3, <1>5, <1>6, <1>8, <1>10, <1>11, <1>12, <1>13, AcquireStep
        DEF Next, Sweeping, Answers, Refuse, NetworkDrop
-----------------------------------------------------------------------------
\* What a drop charges: the marker's device, once.
LEMMA Charged ==
    ASSUME QueryAssumption, TypeOK, Blame
    PROVE  /\ \A d \in Devices : strikes'[d] = IF d = marker THEN OneMore(strikes[d]) ELSE strikes[d]
           /\ \A d \in Devices : Barred(d) => Barred(d)'
           /\ \A d \in Devices : strikes'[d] >= Strikes => Barred(d)' \/ (strikes'[d] = strikes[d])
    <1> USE DEF Barred, blame
    <1>1. CASE marker = NoDevice
        BY <1>1 DEF Blame, QueryAssumption
    <1>2. CASE marker # NoDevice
        <2>1. marker \in Devices
            BY <1>2 DEF TypeOK
        <2>2. strikes' = [strikes EXCEPT ![marker] = OneMore(@)]
            BY <1>2 DEF Blame
        <2>3. \A d \in Devices : strikes'[d] = IF d = marker THEN OneMore(strikes[d]) ELSE strikes[d]
            BY <2>1, <2>2 DEF TypeOK
        <2>4. \/ accountRefused'
              \/ /\ accountRefused' = accountRefused
                 /\ quarantine' = IF strikes'[marker] >= Strikes THEN quarantine \cup {marker} ELSE quarantine
            BY <1>2 DEF Blame
        <2> QED
            BY <2>1, <2>3, <2>4
    <1> QED
        BY <1>1, <1>2

\* Steps that are no drop leave the charges.
LEMMA DropOrNot ==
    ASSUME [Next]_vars
    PROVE  \/ NetworkDrop
           \/ \E a \in Askers : Refuse(a)
           \/ UNCHANGED <<strikes, quarantine, accountRefused, caused, drops>>
    BY DEF Next, Sweeping, Answers, vars, blame, hist, SweepNext, SweepEnd, StartSweep, Request, Acquire, Close,
           Restart, Connect, Tick

LEMMA ChargeStep ==
    ASSUME QueryAssumption, LockInv, ChargesAreRight, [Next]_vars
    PROVE  ChargesAreRight'
    <1> USE DEF LockInv, ChargesAreRight
    <1>1. CASE UNCHANGED <<strikes, quarantine, accountRefused, caused, drops>>
        BY <1>1
    <1>2. ASSUME NEW a \in Askers, Refuse(a) PROVE ChargesAreRight'
        <2>1. marker = want[a] /\ want[a] \in Devices /\ Blame /\ drops' = drops
            BY <1>2 DEF Refuse, Refused, Drop, OpenInv
        <2>2. \A d \in Devices : caused'[d] = IF d = marker THEN OneMore(caused[d]) ELSE caused[d]
            BY <1>2, <2>1 DEF Refuse, TypeOK
        <2>3. \A d \in Devices : strikes'[d] = IF d = marker THEN OneMore(strikes[d]) ELSE strikes[d]
            BY <2>1, Charged
        <2>4. \A d \in Devices : strikes[d] \in 0..MaxCount /\ caused[d] \in 0..MaxCount /\ drops \in Nat
            BY DEF TypeOK, QueryAssumption
        <2> QED
            BY <2>1, <2>2, <2>3, <2>4 DEF OneMore, QueryAssumption
    <1>3. CASE NetworkDrop
        <2>1. Blame /\ drops' = drops + 1 /\ caused' = caused
            BY <1>3 DEF NetworkDrop, Drop
        <2>2. \A d \in Devices : strikes[d] \in 0..MaxCount /\ caused[d] \in 0..MaxCount /\ drops \in Nat
            BY DEF TypeOK, QueryAssumption
        <2>3. \A d \in Devices : strikes'[d] <= strikes[d] + 1 /\ strikes[d] <= strikes'[d] /\ strikes'[d] \in 0..MaxCount
            BY <2>1, <2>2, Charged, OneMoreType
        <2> QED
            BY <2>1, <2>2, <2>3 DEF QueryAssumption
    <1> QED
        BY <1>1, <1>2, <1>3, DropOrNot
-----------------------------------------------------------------------------
\* A request's query reaches the broker only for a device that is not barred.
LEMMA RecheckStep ==
    ASSUME QueryAssumption, LockInv, BarredInv, [Next]_vars, NEW r \in Requests, Open(r)', live'[r]
    PROVE  ~Barred(want[r])'
    <1> USE DEF LockInv, Barred, Open
    <1>0. r \in Askers /\ Sweep \in Askers /\ r # Sweep /\ Requests \subseteq Askers
        BY DEF Askers, QueryAssumption
    <1>1. ASSUME NEW a \in Askers, NEW d \in Devices, Query(a, d), a = r => Possible(d),
                 UNCHANGED <<up, quarantine, accountRefused>>
          PROVE  ~Barred(want[r])'
        <2>1. CASE a = r
            BY <1>0, <1>1, <2>1 DEF Query, Possible, TypeOK
        <2>2. CASE a # r
            BY <1>0, <1>1, <2>2 DEF Query, BarredInv, TypeOK
        <2> QED
            BY <2>1, <2>2
    <1>2. ASSUME NEW a \in Askers, NEW d \in Devices, Enqueue(a, d), UNCHANGED <<quarantine, accountRefused>>
          PROVE  ~Barred(want[r])'
        BY <1>0, <1>2 DEF Enqueue, BarredInv, TypeOK
    <1>3. ASSUME NEW d \in Devices, SweepNext(d) PROVE ~Barred(want[r])'
        BY <1>0, <1>1, <1>2, <1>3 DEF SweepNext, blame
    <1>4. ASSUME NEW q \in Requests, NEW d \in Devices, Request(q, d) PROVE ~Barred(want[r])'
        BY <1>0, <1>1, <1>2, <1>4 DEF Request, blame
    <1>5. CASE Acquire
        <2>1. Head(queue) \in Askers /\ want[Head(queue)] \in Devices
            BY <1>5, Dequeued DEF Acquire, QueueInv, TypeOK
        <2>2. CASE Head(queue) = Sweep \/ Possible(want[Head(queue)])
            BY <1>0, <1>1, <1>5, <2>1, <2>2 DEF Acquire, blame
        <2>3. CASE ~(Head(queue) = Sweep \/ Possible(want[Head(queue)]))
            <3>1. at' = [at EXCEPT ![Head(queue)] = "idle"] /\ want' = [want EXCEPT ![Head(queue)] = NoDevice]
                  /\ UNCHANGED <<live, quarantine, accountRefused>>
                BY <1>5, <2>3 DEF Acquire, blame
            <3> QED
                BY <1>0, <2>1, <3>1 DEF BarredInv, TypeOK
        <2> QED
            BY <1>5, <2>2, <2>3 DEF Acquire
    <1>6. ASSUME live' = [a \in Askers |-> FALSE] PROVE FALSE
        BY <1>0, <1>6
    <1>7. CASE Drop \/ Restart
        BY <1>6, <1>7 DEF Drop, Restart
    <1>8. ASSUME NEW a \in Askers, Close(a) PROVE ~Barred(want[r])'
        BY <1>0, <1>8 DEF Close, BarredInv, TypeOK
    <1>9. CASE UNCHANGED <<want, live, quarantine, accountRefused>>
               /\ \A q \in Requests : at'[q] = at[q]
        BY <1>9 DEF BarredInv
    <1>10. SweepEnd \/ Connect \/ Tick \/ UNCHANGED vars \/ (\E ds \in {Devices, Outlets} : StartSweep(ds))
           => UNCHANGED <<want, live, quarantine, accountRefused>> /\ \A q \in Requests : at'[q] = at[q]
        BY <1>0 DEF SweepEnd, Connect, Tick, StartSweep, CanSweep, vars, session, locks, blame, QueryAssumption, TypeOK
    <1> QED
        BY <1>3, <1>4, <1>5, <1>7, <1>8, <1>9, <1>10 DEF Next, Sweeping, Answers, Refuse, NetworkDrop

LEMMA BarredStep ==
    ASSUME QueryAssumption, LockInv, BarredInv, [Next]_vars
    PROVE  BarredInv'
    <1>1. \A d \in Devices : strikes'[d] >= Strikes => Barred(d)'
        <2>1. CASE Blame
            BY <2>1, Charged DEF BarredInv, LockInv
        <2>2. CASE UNCHANGED <<strikes, quarantine, accountRefused>>
            BY <2>2 DEF BarredInv, Barred
        <2> QED
            BY <2>1, <2>2, DropOrNot DEF Refuse, NetworkDrop, Drop
    <1>2. \A r \in Requests : Open(r)' /\ live'[r] => ~Barred(want[r])'
        BY RecheckStep
    <1> QED
        BY <1>1, <1>2 DEF BarredInv
-----------------------------------------------------------------------------
\* The rationing, device by device: how each step moves what is at risk.

\* A drop under any sweep: the loop waits longer than the sweep can last.
LEMMA DropLeavesTime ==
    ASSUME QueryAssumption, TypeOK, Drop
    PROVE  ~up' /\ SweepEndsFirst'
    <1>1. wait' = Reconnect /\ at' = at /\ left' = left /\ ~up'
        BY DEF Drop, locks
    <1>2. Sweep \in Askers /\ \A a \in Askers : left[a] \in 0..Spacing
        BY DEF TypeOK, Askers
    <1>3. \A a \in Askers : Reconnect > Spacing + left[a] /\ Reconnect > left[a] /\ Reconnect > Spacing
        BY <1>2 DEF QueryAssumption
    <1> QED
        BY <1>1, <1>2, <1>3 DEF SweepEndsFirst, Open, QueryAssumption

\* A device is refused only while it is to spare.
LEMMA RefusedSpares ==
    ASSUME QueryAssumption, IInv, NEW a \in Askers, Refuse(a)
    PROVE  caused[want[a]] < Strikes + restarts /\ want[a] \in Devices
    <1> USE DEF IInv, LockInv
    <1>1. want[a] \in Devices /\ Open(a) /\ live[a] /\ up
        BY DEF Refuse, Refused, Drop, OpenInv
    <1>2. caused[want[a]] \in Nat /\ strikes[want[a]] \in Nat /\ restarts \in Nat /\ Strikes \in Nat
        BY <1>1 DEF TypeOK, QueryAssumption
    <1>3. CASE Barred(want[a])
        <2>1. a = Sweep
            BY <1>1, <1>3 DEF BarredInv, Askers
        <2> QED
            BY <1>1, <1>3, <2>1 DEF StaleInv, AtRisk, Open
    <1>4. CASE ~Barred(want[a])
        <2>1. strikes[want[a]] < Strikes
            BY <1>1, <1>2, <1>4 DEF BarredInv
        <2>2. caused[want[a]] <= strikes[want[a]]
            BY <1>1 DEF ChargesAreRight
        <2> QED
            BY <1>1, <1>2, <2>1, <2>2
    <1> QED
        BY <1>3, <1>4

LEMMA RationStep ==
    ASSUME QueryAssumption, IInv, [Next]_vars
    PROVE  RefusalsAreRationed'
    <1> USE DEF IInv, LockInv, RefusalsAreRationed
    <1>1. restarts' >= restarts /\ restarts \in Nat /\ restarts' \in Nat /\ Strikes \in Nat
        BY DEF Next, Sweeping, Answers, vars, hist, SweepNext, SweepEnd, StartSweep, Request, Acquire, Close, Refuse,
               NetworkDrop, Drop, Restart, Connect, Tick, TypeOK, QueryAssumption
    <1>2. \A d \in Devices : caused[d] \in 0..MaxCount
        BY DEF TypeOK
    <1>3. ASSUME NEW a \in Askers, Refuse(a) PROVE RefusalsAreRationed'
        <2>1. \A d \in Devices : caused'[d] = IF d = want[a] THEN OneMore(caused[d]) ELSE caused[d]
            BY <1>3, RefusedSpares DEF Refuse, TypeOK
        <2> QED
            BY <1>1, <1>2, <1>3, <2>1, RefusedSpares, OneMoreType DEF QueryAssumption
    <1>4. CASE caused' = caused
        BY <1>1, <1>2, <1>4 DEF QueryAssumption
    <1> QED
        BY <1>3, <1>4, DropOrNot DEF NetworkDrop

\* Without a session the time left to the sweep only shrinks with the wait.
LEMMA TimeStep ==
    ASSUME QueryAssumption, LockInv, ~up, SweepEndsFirst, at[Sweep] # "idle", Next, ~Restart
    PROVE  ~up' /\ SweepEndsFirst'
    <1> USE DEF LockInv, Open
    <1>0. /\ Sweep \in Askers /\ Requests \subseteq Askers /\ Sweep \notin Requests
          /\ Spacing \in Nat \ {0} /\ wait \in Nat /\ \A a \in Askers : left[a] \in Nat
        BY DEF Askers, QueryAssumption, TypeOK
    <1>1. \A d \in Devices : ~Possible(d) /\ ~SweepNext(d)
        BY DEF Possible, SweepNext
    <1>2. ~Drop /\ \A ds \in {Devices, Outlets} : ~StartSweep(ds)
        BY DEF Drop, StartSweep, CanSweep
    <1>3. ASSUME NEW a \in Askers, UNCHANGED <<up, wait, left>>,
                 \A c \in Askers \ {a} : at'[c] = at[c],
                 at'[a] # "open", a = Sweep => at'[a] = "idle"
          PROVE  ~up' /\ SweepEndsFirst'
        BY <1>0, <1>3 DEF SweepEndsFirst
    <1>4. CASE SweepEnd
        BY <1>0, <1>3, <1>4 DEF SweepEnd, session, TypeOK
    <1>5. ASSUME NEW r \in Requests, NEW d \in Devices, Request(r, d) PROVE ~up' /\ SweepEndsFirst'
        <2>1. Enqueue(r, d) /\ UNCHANGED <<up, wait, left>>
            BY <1>1, <1>5 DEF Request, Enqueue
        <2>2. at'[r] = "wait" /\ \A c \in Askers \ {r} : at'[c] = at[c]
            BY <1>0, <2>1 DEF Enqueue, TypeOK
        <2> QED
            BY <1>0, <1>3, <2>1, <2>2
    <1>6. CASE Acquire
        <2>1. Head(queue) \in Askers /\ want[Head(queue)] \in Devices
            BY <1>6, Dequeued DEF Acquire, QueueInv, TypeOK
        <2>2. CASE Head(queue) = Sweep
            <3>1. Query(Sweep, want[Sweep]) /\ UNCHANGED <<up, wait>> /\ at[Sweep] = "wait"
                BY <1>6, <2>2, Dequeued DEF Acquire, QueueInv, TypeOK
            <3>2. at'[Sweep] = "open" /\ left'[Sweep] = Spacing
                BY <1>0, <3>1 DEF Query, TypeOK
            <3> QED
                BY <1>0, <3>1, <3>2 DEF SweepEndsFirst
        <2>3. CASE Head(queue) # Sweep
            <3>1. at' = [at EXCEPT ![Head(queue)] = "idle"] /\ UNCHANGED <<up, wait, left>>
                BY <1>1, <1>6, <2>1, <2>3 DEF Acquire
            <3>2. at'[Head(queue)] = "idle" /\ \A c \in Askers \ {Head(queue)} : at'[c] = at[c]
                BY <2>1, <3>1 DEF TypeOK
            <3> QED
                BY <1>3, <2>1, <2>3, <3>1, <3>2
        <2> QED
            BY <2>2, <2>3
    <1>7. ASSUME NEW a \in Askers, Close(a) PROVE ~up' /\ SweepEndsFirst'
        <2>1. UNCHANGED <<up, wait, left>> /\ left[a] = 0 /\ \A c \in Askers \ {a} : at'[c] = at[c]
            BY <1>7 DEF Close, TypeOK
        <2>2. CASE a = Sweep
            <3>1. at[Sweep] = "open" /\ at'[Sweep] = "next"
                BY <1>7, <2>2 DEF Close, TypeOK
            <3> QED
                BY <1>0, <2>1, <2>2, <3>1 DEF SweepEndsFirst
        <2>3. CASE a # Sweep
            <3>1. at'[a] = "idle"
                BY <1>7, <2>3 DEF Close, TypeOK
            <3> QED
                BY <1>3, <2>1, <2>3, <3>1
        <2> QED
            BY <2>2, <2>3
    <1>8. ~Connect
        BY <1>0 DEF Connect, SweepEndsFirst, TypeOK
    <1>9. CASE Tick
        <2>1. /\ at' = at /\ ~up' /\ at[Sweep] # "next" /\ (Held \/ queue = <<>>)
              /\ \A a \in Askers : at[a] = "open" => left[a] > 0 /\ left'[a] = left[a] - 1
            BY <1>9 DEF Tick
        <2>2. CASE at[Sweep] = "open"
            BY <1>0, <1>9, <2>1, <2>2 DEF Tick, SweepEndsFirst
        <2>3. CASE at[Sweep] = "wait"
            <3>1. PICK a \in Askers : at[a] = "open"
                BY <1>0, <2>1, <2>3 DEF QueueInv, Held
            <3>2. wait > Spacing + left[a] /\ left[a] > 0 /\ wait' = wait - 1
                BY <1>0, <1>9, <2>1, <2>3, <3>1 DEF SweepEndsFirst, Tick
            <3>3. wait' > Spacing
                BY <1>0, <3>1, <3>2
            <3>4. \A c \in Askers : at[c] = "open" => wait' > Spacing + left'[c]
                BY <1>0, <2>1, <2>3, <3>2 DEF SweepEndsFirst
            <3> QED
                BY <2>1, <2>3, <3>3, <3>4 DEF SweepEndsFirst
        <2>4. at[Sweep] \in {"open", "wait"}
            BY <1>0, <2>1 DEF TypeOK
        <2> QED
            BY <2>2, <2>3, <2>4
    <1> QED
        BY <1>1, <1>2, <1>4, <1>5, <1>6, <1>7, <1>8, <1>9 DEF Next, Sweeping, Answers, Refuse, NetworkDrop

\* Nothing barred comes newly at risk, but for what a drop bars.
LEMMA RiskStep ==
    ASSUME QueryAssumption, LockInv, Next, ~Drop, NEW d \in Devices, Barred(d), AtRisk(d)'
    PROVE  AtRisk(d)
    <1> USE DEF LockInv, AtRisk
    <1>0. Sweep \in Askers /\ Requests \subseteq Askers /\ Sweep \notin Requests
        BY DEF Askers, QueryAssumption
    <1>1. ASSUME NEW e \in Devices, SweepNext(e) PROVE AtRisk(d)
        BY <1>0, <1>1 DEF SweepNext, Query, Enqueue, TypeOK
    <1>2. ASSUME NEW r \in Requests, NEW e \in Devices, Request(r, e) PROVE AtRisk(d)
        BY <1>0, <1>2 DEF Request, Query, Enqueue, TypeOK
    <1>3. CASE Acquire
        <2>1. Head(queue) \in Askers /\ at[Head(queue)] = "wait"
            BY <1>3, Dequeued DEF Acquire, QueueInv, TypeOK
        <2>2. CASE Query(Head(queue), want[Head(queue)])
            BY <1>0, <1>3, <2>1, <2>2 DEF Acquire, Query, TypeOK
        <2>3. CASE at' = [at EXCEPT ![Head(queue)] = "idle"] /\ want' = [want EXCEPT ![Head(queue)] = NoDevice]
            BY <1>0, <1>3, <2>1, <2>3 DEF Acquire, TypeOK
        <2> QED
            BY <1>3, <2>2, <2>3 DEF Acquire
    <1>4. ASSUME NEW a \in Askers, Close(a) PROVE AtRisk(d)
        BY <1>0, <1>4 DEF Close, Open, TypeOK
    <1>5. CASE SweepEnd
        BY <1>0, <1>5 DEF SweepEnd, TypeOK
    <1>6. ASSUME NEW ds, StartSweep(ds) PROVE FALSE
        BY <1>0, <1>6 DEF StartSweep, CanSweep, Barred, TypeOK
    <1>7. CASE Connect
        BY <1>0, <1>7 DEF Connect, Barred, TypeOK
    <1>8. CASE Tick \/ Restart
        BY <1>8 DEF Tick, Restart, locks
    <1> QED
        BY <1>1, <1>2, <1>3, <1>4, <1>5, <1>6, <1>7, <1>8 DEF Next, Sweeping, Answers, Refuse, NetworkDrop

LEMMA StaleStep ==
    ASSUME QueryAssumption, IInv, [Next]_vars
    PROVE  StaleInv'
    <1> USE DEF IInv, LockInv
    <1>1. CASE Drop
        BY <1>1, DropLeavesTime DEF StaleInv
    <1>2. CASE Next /\ ~Drop
        <2>1. UNCHANGED <<quarantine, accountRefused, caused>>
            BY <1>2, DropOrNot DEF Refuse, NetworkDrop
        <2> SUFFICES ASSUME NEW d \in Devices, Barred(d)', AtRisk(d)'
                     PROVE  caused'[d] < Strikes + restarts' \/ (~up' /\ SweepEndsFirst')
            BY DEF StaleInv
        <2>2. Barred(d) /\ AtRisk(d)
            BY <1>2, <2>1, RiskStep DEF Barred
        <2>3. caused[d] \in Nat /\ restarts \in Nat /\ Strikes \in Nat /\ caused[d] <= Strikes + restarts
            BY DEF TypeOK, QueryAssumption, RefusalsAreRationed
        <2>4. CASE Restart
            BY <2>1, <2>3, <2>4 DEF Restart
        <2>5. CASE ~Restart
            <3>1. restarts' = restarts
                BY <1>2, <2>5 DEF Next, Sweeping, Answers, hist, SweepNext, SweepEnd, StartSweep, Request, Acquire, Close,
                   Refuse, NetworkDrop, Connect, Tick
            <3>2. CASE caused[d] < Strikes + restarts
                BY <2>1, <3>1, <3>2
            <3>3. CASE ~up /\ SweepEndsFirst
                BY <1>2, <2>2, <2>5, <3>3, TimeStep DEF AtRisk
            <3> QED
                BY <2>2, <3>2, <3>3 DEF StaleInv
        <2> QED
            BY <2>4, <2>5
    <1>3. CASE UNCHANGED vars
        BY <1>3 DEF vars, session, locks, blame, hist, StaleInv, Barred, AtRisk, SweepEndsFirst, Open
    <1> QED
        BY <1>1, <1>2, <1>3
-----------------------------------------------------------------------------
LEMMA InitInv ==
    ASSUME QueryAssumption, Init
    PROVE  IInv
    <1> USE DEF Init, QueryAssumption
    <1>1. TypeOK
        <2>1. /\ at \in [Askers -> {"idle", "next", "wait", "open"}] /\ want \in [Askers -> Devices \cup {NoDevice}]
              /\ left \in [Askers -> 0..Spacing] /\ strikes \in [Devices -> 0..MaxCount]
              /\ caused \in [Devices -> 0..MaxCount] /\ queue \in Seq(Askers)
            OBVIOUS
        <2>2. up \in BOOLEAN /\ accountRefused \in BOOLEAN
            BY Zenon
        <2>3. live \in [Askers -> BOOLEAN]
            BY Zenon
        <2> QED
            BY <2>1, <2>2, <2>3 DEF TypeOK
    <1>2. QueueInv /\ OpenInv /\ MarkerNamesOpenQuery
        BY DEF QueueInv, OpenInv, MarkerNamesOpenQuery, Open, Held
    <1>3. ChargesAreRight /\ BarredInv /\ RefusalsAreRationed
        BY DEF ChargesAreRight, BarredInv, RefusalsAreRationed, Open, Barred, Askers
    <1>4. StaleInv
        BY DEF StaleInv, Barred
    <1> QED
        BY <1>1, <1>2, <1>3, <1>4 DEF IInv, LockInv

\* The inductive invariant.  The marker names the one open query, what it
\* charges is right, and no device takes the session down more often than its
\* strikes and the restarts allow, in whatever order the sweep, the requests and
\* the drops come: because the connection loop waits longer than a sweep caught
\* by a drop can still last.
THEOREM QueriesAreRationed ==
    Spec => [](TypeOK /\ QueriesAreFair)
    <1>1. Init => IInv
        BY InitInv, QueryAssumption
    <1>2. IInv /\ [Next]_vars => IInv'
        <2> SUFFICES ASSUME IInv, [Next]_vars PROVE IInv'
            OBVIOUS
        <2>1. LockInv'
            BY QueryAssumption, TypeStep, LockStep DEF IInv, LockInv
        <2>2. ChargesAreRight' /\ BarredInv'
            BY QueryAssumption, ChargeStep, BarredStep DEF IInv
        <2>3. StaleInv' /\ RefusalsAreRationed'
            BY QueryAssumption, StaleStep, RationStep
        <2> QED
            BY <2>1, <2>2, <2>3 DEF IInv
    <1>3. IInv => TypeOK /\ QueriesAreFair
        BY DEF IInv, LockInv, QueriesAreFair
    <1> QED
        BY <1>1, <1>2, <1>3, PTL DEF Spec
-----------------------------------------------------------------------------
(* What makes the account refuse.                                           *)

\* Models without a device that is refused: each took a drop of the network.
Unlucky == unanswered \ Models(refuses)

BlameInv ==
    /\ Cardinality(Unlucky) <= drops
    /\ accountRefused => Cardinality(Models(refuses)) + drops >= RefusalSkus

\* There are finitely many models.
LEMMA ModelsFinite ==
    ASSUME NEW ds \in SUBSET Devices
    PROVE  IsFiniteSet(Models(ds)) /\ Cardinality(Models(ds)) \in Nat
<1> DEFINE f == [d \in ds |-> Sku[d]]
<1>1. IsFiniteSet(ds)
  BY FS_Subset, QueryAssumption
<1>2. f \in Surjection(ds, Models(ds))
  BY DEF Surjection, Models
<1>3. IsFiniteSet(Models(ds))
  BY <1>1, <1>2, FS_Surjection
<1> QED BY <1>3, FS_CardinalityType

\* The models that did not answer are those of refused devices, and the unlucky.
LEMMA UnansweredBound ==
    ASSUME NEW lacking \in SUBSET Models(Devices), NEW known \in SUBSET Devices
    PROVE  /\ IsFiniteSet(lacking \ Models(known))
           /\ Cardinality(lacking) \in Nat
           /\ Cardinality(lacking) <= Cardinality(Models(known)) + Cardinality(lacking \ Models(known))
<1> DEFINE shared == lacking \cap Models(known)
           rest == lacking \ Models(known)
<1>1. IsFiniteSet(lacking) /\ IsFiniteSet(Models(known))
  BY ModelsFinite, FS_Subset
<1>2. IsFiniteSet(shared) /\ IsFiniteSet(rest) /\ Cardinality(shared) <= Cardinality(Models(known))
  BY <1>1, FS_Subset
<1>3. Cardinality(shared \cap rest) = 0 /\ shared \cup rest = lacking
  BY FS_EmptySet
<1>4. Cardinality(lacking) = Cardinality(shared) + Cardinality(rest) - Cardinality(shared \cap rest)
  BY <1>2, <1>3, FS_Union
<1>5. /\ Cardinality(shared) \in Nat /\ Cardinality(rest) \in Nat /\ Cardinality(lacking) \in Nat
      /\ Cardinality(Models(known)) \in Nat
  BY <1>1, <1>2, FS_CardinalityType
<1> QED BY <1>2, <1>3, <1>4, <1>5

\* A drop charges the marker's model; the account refuses for models enough.
LEMMA BlameCounts ==
    ASSUME TypeOK, BlameInv, Blame, refuses' = refuses,
           \/ drops' = drops /\ (marker # NoDevice => marker \in refuses)
           \/ drops' = drops + 1
    PROVE  BlameInv'
<1>1. refuses \subseteq Devices /\ unanswered \subseteq Models(Devices) /\ drops \in Nat /\ RefusalSkus \in Nat
  BY QueryAssumption DEF TypeOK
<1>2. CASE marker = NoDevice
  <2>1. UNCHANGED <<unanswered, accountRefused>>
    BY <1>2 DEF Blame, blame
  <2>2. Unlucky' = Unlucky /\ Models(refuses)' = Models(refuses)
    BY <2>1 DEF Unlucky, Models
  <2>3. Cardinality(Unlucky) \in Nat /\ Cardinality(Models(refuses)) \in Nat
    BY <1>1, UnansweredBound, ModelsFinite, FS_CardinalityType DEF Unlucky
  <2>4. drops' >= drops /\ drops' \in Nat
    BY <1>1
  <2> QED BY <1>1, <2>1, <2>2, <2>3, <2>4 DEF BlameInv
<1>3. CASE marker # NoDevice
  <2>1. marker \in Devices /\ unanswered' = unanswered \cup {Sku[marker]}
    BY <1>3 DEF TypeOK, Blame
  <2>2. unanswered' \subseteq Models(Devices)
    BY <1>1, <2>1 DEF Models
  <2>3. Cardinality(unanswered' \ Models(refuses)) <= drops'
    <3>1. IsFiniteSet(Unlucky) /\ Cardinality(Unlucky) \in Nat
      BY <1>1, UnansweredBound, FS_CardinalityType DEF Unlucky
    <3>2. CASE drops' = drops /\ marker \in refuses
      <4>1. unanswered' \ Models(refuses) = Unlucky
        BY <2>1, <3>2 DEF Models, Unlucky
      <4> QED BY <3>2, <4>1 DEF BlameInv, Unlucky
    <3>3. CASE drops' = drops + 1
      <4>1. unanswered' \ Models(refuses) \in {Unlucky, Unlucky \cup {Sku[marker]}}
        <5>1. CASE Sku[marker] \in Models(refuses)
          BY <2>1, <5>1 DEF Unlucky
        <5>2. CASE Sku[marker] \notin Models(refuses)
          <6>1. unanswered' \ Models(refuses) = Unlucky \cup {Sku[marker]}
            BY <2>1, <5>2 DEF Unlucky
          <6> QED BY <6>1
        <5> QED BY <5>1, <5>2
      <4>2. /\ Cardinality(Unlucky \cup {Sku[marker]}) <= Cardinality(Unlucky) + 1
            /\ Cardinality(Unlucky \cup {Sku[marker]}) \in Nat
        <5>1. /\ IsFiniteSet(Unlucky \cup {Sku[marker]})
              /\ Cardinality(Unlucky \cup {Sku[marker]}) \in {Cardinality(Unlucky), Cardinality(Unlucky) + 1}
          BY <3>1, FS_AddElement
        <5> QED BY <3>1, <5>1
      <4>3. Cardinality(Unlucky) <= drops
        BY DEF BlameInv
      <4>4. Cardinality(unanswered' \ Models(refuses)) \in {Cardinality(Unlucky), Cardinality(Unlucky \cup {Sku[marker]})}
        BY <4>1
      <4> QED BY <1>1, <3>1, <3>3, <4>2, <4>3, <4>4
    <3> QED BY <1>3, <3>2, <3>3
  <2>4. Cardinality(unanswered') <= Cardinality(Models(refuses)) + drops'
    <3>1. /\ Cardinality(unanswered') \in Nat
          /\ Cardinality(unanswered') <= Cardinality(Models(refuses)) + Cardinality(unanswered' \ Models(refuses))
      BY <1>1, <2>2, UnansweredBound
    <3>2. Cardinality(Models(refuses)) \in Nat /\ Cardinality(unanswered' \ Models(refuses)) \in Nat
      BY <1>1, <2>2, UnansweredBound, ModelsFinite, FS_CardinalityType
    <3> QED BY <1>1, <2>3, <3>1, <3>2
  <2>5. accountRefused' => accountRefused \/ Cardinality(unanswered') >= RefusalSkus
    BY <1>3 DEF Blame
  <2>6. Cardinality(Models(refuses)) \in Nat /\ Cardinality(unanswered') \in Nat
    BY <1>1, <2>2, ModelsFinite, UnansweredBound
  <2> QED BY <1>1, <2>3, <2>4, <2>5, <2>6 DEF BlameInv, Unlucky
<1> QED BY <1>2, <1>3

LEMMA BlameStep ==
    ASSUME LockInv, BlameInv, [Next]_vars
    PROVE  BlameInv'
<1>1. TypeOK
  BY DEF LockInv
<1>2. ASSUME NEW a \in Askers, Refuse(a) PROVE BlameInv'
  <2>1. Blame /\ drops' = drops /\ refuses' = refuses /\ marker \in refuses
    BY <1>2 DEF Refuse, Refused, Drop, LockInv, OpenInv, MarkerNamesOpenQuery
  <2> QED BY <1>1, <2>1, BlameCounts
<1>3. CASE NetworkDrop
  BY <1>1, <1>3, BlameCounts DEF NetworkDrop, Drop
<1>4. ASSUME UNCHANGED <<refuses, accountRefused, drops>>, unanswered' \in {{}, unanswered} PROVE BlameInv'
  <2>1. Cardinality({}) = 0 /\ drops \in Nat
    BY <1>1, FS_EmptySet, QueryAssumption DEF TypeOK
  <2>2. {} \ Models(refuses) = {}
    OBVIOUS
  <2> QED BY <1>4, <2>1, <2>2 DEF BlameInv, Unlucky
<1> QED
  BY <1>2, <1>3, <1>4
     DEF Next, Sweeping, Answers, vars, blame, hist, SweepNext, SweepEnd, StartSweep, Request, Acquire, Close,
         Restart, Connect, Tick

\* For any devices and models: units of too few models, and too few drops of the
\* network, never make the account seem to refuse every query.
THEOREM AccountNotBlamed == Spec => []AccountIsNotBlamed
<1>1. Init => LockInv /\ BlameInv
  <2> SUFFICES ASSUME Init PROVE LockInv /\ BlameInv
    OBVIOUS
  <2>1. unanswered = {} /\ drops = 0 /\ accountRefused = FALSE
    BY DEF Init
  <2>2. Unlucky = {}
    BY <2>1 DEF Unlucky
  <2> QED BY <2>1, <2>2, InitInv, QueryAssumption, FS_EmptySet DEF IInv, BlameInv
<1>2. LockInv /\ BlameInv /\ [Next]_vars => LockInv' /\ BlameInv'
  <2> SUFFICES ASSUME LockInv, BlameInv, [Next]_vars PROVE LockInv' /\ BlameInv'
    OBVIOUS
  <2>1. LockInv'
    BY QueryAssumption, TypeStep, LockStep DEF LockInv
  <2> QED BY <2>1, BlameStep
<1>3. LockInv /\ BlameInv => AccountIsNotBlamed
  <2> SUFFICES ASSUME LockInv, BlameInv, Cardinality(Models(refuses)) + drops < RefusalSkus, accountRefused
               PROVE  FALSE
    BY DEF AccountIsNotBlamed
  <2>1. Cardinality(Models(refuses)) \in Nat /\ drops \in Nat /\ RefusalSkus \in Nat
    BY ModelsFinite, QueryAssumption DEF LockInv, TypeOK
  <2> QED BY <2>1 DEF BlameInv
<1> QED BY <1>1, <1>2, <1>3, PTL DEF Spec
-----------------------------------------------------------------------------
(* The alert of the tank.                                                   *)

\* What is held is the last event heard, once the entity is there, and may
\* before that only lack what is stored.
TankInv ==
    /\ Tank!TypeOK
    /\ alertEntry = "loaded" => alertTank = alertLast
    /\ alertEntry = "stopped" => alertTank = NoAlert /\ alertLast = alertStored /\ alertClient = "stopped"
    /\ alertEntry = "setup" => alertLast = IF alertTank = NoAlert THEN alertStored ELSE alertTank

LEMMA TankStarts == Tank!Init => TankInv
<1> SUFFICES ASSUME Tank!Init PROVE TankInv
  OBVIOUS
<1>1. alertReachable \in BOOLEAN
  BY Zenon DEF Tank!Init
<1> QED
  BY <1>1, TankAssumption DEF Tank!Init, TankInv, Tank!TypeOK, Tank!NoPoll, Tank!Alert

LEMMA TankGoesOn == TankInv /\ [Tank!Next]_(Tank!vars) => TankInv'
<1> SUFFICES ASSUME TankInv, [Tank!Next]_(Tank!vars) PROVE TankInv'
  OBVIOUS
<1> USE TankAssumption DEF TankInv, Tank!TypeOK, Tank!NoPoll, Tank!Alert, Tank!counts, Tank!channel
<1>1. CASE Tank!Subscribes \/ Tank!Breaks \/ Tank!WaitEnds
  BY <1>1 DEF Tank!Subscribes, Tank!Breaks, Tank!WaitEnds
<1>2. CASE Tank!BrokerChanges
  <2>1. alertReachable' \in BOOLEAN
    BY <1>2, Zenon DEF Tank!BrokerChanges
  <2> QED BY <1>2, <2>1 DEF Tank!BrokerChanges
<1>3. CASE Tank!DeviceChanges
  BY <1>3 DEF Tank!DeviceChanges
<1>4. ASSUME NEW full \in BOOLEAN, Tank!TankEvent(full) PROVE TankInv'
  BY <1>4 DEF Tank!TankEvent
<1>5. CASE Tank!Clear
  <2>1. /\ alertEntry = "loaded" /\ alertClears' \in 0..MaxClears
        /\ UNCHANGED <<alertEntry, alertClient, alertReachable, alertDevice, alertPoll, alertStored, alertEvents,
                      alertOutages, alertBoots>>
    BY <1>5 DEF Tank!Clear
  <2>2. alertTank' \in Tank!Alert /\ alertLast' \in Tank!Alert /\ alertTank' = alertLast'
    BY ONLY <1>5, Zenon DEF Tank!Clear, Tank!Alert
  <2> QED BY <2>1, <2>2
<1>6. CASE Tank!PollAsks
  <2>1. [asked |-> TRUE, under |-> alertTank] \in [asked : BOOLEAN, under : Tank!Alert]
    OBVIOUS
  <2> QED BY <1>6, <2>1 DEF Tank!PollAsks
<1>7. CASE Tank!PollAnswers
  BY <1>7 DEF Tank!PollAnswers, Tank!Merged
<1>8. CASE Tank!Setup
  BY <1>8 DEF Tank!Setup
<1>9. CASE Tank!EntityAdded
  BY <1>9 DEF Tank!EntityAdded, Tank!Restored
<1>10. CASE Tank!Save
  BY <1>10 DEF Tank!Save, Tank!StateShown
<1>11. CASE Tank!Stop \/ Tank!Crash
  <2>1. /\ alertEntry' = "stopped" /\ alertClient' = "stopped" /\ alertTank' = NoAlert
        /\ alertPoll' = Tank!NoPoll /\ alertBoots' \in 0..MaxTankBoots
        /\ UNCHANGED <<alertReachable, alertDevice, alertEvents, alertClears, alertOutages>>
    BY <1>11 DEF Tank!Stop, Tank!Crash, Tank!Gone
  <2>2. alertStored' \in Tank!Alert /\ alertLast' = alertStored'
    BY <1>11 DEF Tank!Stop, Tank!Crash, Tank!StateShown
  <2> QED BY <2>1, <2>2
<1>12. CASE UNCHANGED Tank!vars
  BY <1>12 DEF Tank!vars
<1> QED
  BY <1>1, <1>2, <1>3, <1>4, <1>5, <1>6, <1>7, <1>8, <1>9, <1>10, <1>11, <1>12 DEF Tank!Next

\* Whatever the polls, the outages and the restarts: the alert is the last one
\* heard, or the clear after it.
THEOREM AlertKept == Tank!Spec => []Tank!AlertIsKept
<1>1. TankInv => Tank!AlertIsKept
  BY DEF TankInv, Tank!AlertIsKept
<1> QED BY <1>1, TankStarts, TankGoesOn, PTL DEF Tank!Spec

-----------------------------------------------------------------------------
(* The scene catalogs.                                                      *)

UnderWay(n) == sceneFetch[n].at \in {"asked", "read"}

FetchesTyped ==
    \A n \in 1..MaxFetches :
      /\ n > sceneFetches => sceneFetch[n] = Scene!NoFetch
      /\ n <= sceneFetches => sceneFetch[n].kind \in SceneKinds

\* The cache knows the one fetch of its kind that is under way.
OneFetchOfAKind ==
    /\ \A n \in 1..MaxFetches : UnderWay(n) =>
         /\ sceneInflight[sceneFetch[n].kind] = n
         /\ sceneFetch[n].began <= sceneCatalog[sceneFetch[n].kind]
         /\ sceneFetch[n].at = "read" => sceneFetch[n].got \in Scene!Answer /\ sceneFetch[n].got >= sceneFetch[n].began
    /\ \A k \in SceneKinds : sceneInflight[k] # 0 =>
         /\ sceneInflight[k] <= sceneFetches /\ UnderWay(sceneInflight[k]) /\ sceneFetch[sceneInflight[k]].kind = k

\* What an asker waits for, or got, is no older than it may be.
AskersServed ==
    \A s \in SceneAskers :
      /\ sceneAsker[s].at = "waits" =>
           /\ sceneAsker[s].task \in 1..sceneFetches
           /\ UnderWay(sceneAsker[s].task) => sceneFloor[s] <= sceneFetch[sceneAsker[s].task].began
           /\ sceneFetch[sceneAsker[s].task].at = "done" /\ sceneFetch[sceneAsker[s].task].got # NoCatalog
                => sceneFetch[sceneAsker[s].task].got >= sceneFloor[s]
      /\ sceneAsker[s].at = "answered" /\ sceneAsker[s].task # 0 /\ sceneAsker[s].got # NoCatalog
           => sceneAsker[s].got >= sceneFloor[s]

SceneInv == Scene!TypeOK /\ FetchesTyped /\ OneFetchOfAKind /\ AskersServed

LEMMA SceneStarts == Scene!Init => SceneInv
<1> SUFFICES ASSUME Scene!Init PROVE SceneInv
  OBVIOUS
<1> USE SceneAssumption DEF Scene!Init, Scene!NoFetch, Scene!NoAsk, Scene!Answer
<1>1. Scene!TypeOK
  BY DEF Scene!TypeOK
<1>2. FetchesTyped /\ OneFetchOfAKind /\ AskersServed
  BY DEF FetchesTyped, OneFetchOfAKind, AskersServed, UnderWay
<1> QED BY <1>1, <1>2 DEF SceneInv

FetchRecord == [at : {"unused", "asked", "read", "done"}, kind : SceneKinds \cup {NoCatalog},
                began : Scene!Answer, got : Scene!Answer \cup {NoCatalog}]
AskerRecord == [at : {"idle", "waits", "answered", "cancelled"}, kind : SceneKinds \cup {NoCatalog},
                task : 0..MaxFetches, got : Scene!Answer \cup {NoCatalog}]

LEMMA NewAsk ==
    ASSUME NEW s \in SceneAskers, NEW k, NEW n, Scene!Waits(s, k, n)
    PROVE  sceneAsker' = [sceneAsker EXCEPT ![s] = [at |-> "waits", kind |-> k, task |-> n, got |-> NoCatalog]]
<1> DEFINE new == [Scene!NoAsk EXCEPT !.at = "waits", !.kind = k, !.task = n]
<1>1. new \in [at : {"waits"}, kind : {k}, task : {n}, got : {NoCatalog}]
  BY DEF Scene!NoAsk
<1>2. sceneAsker' = [sceneAsker EXCEPT ![s] = new]
  BY DEF Scene!Waits
<1> HIDE DEF new
<1>3. new = [at |-> "waits", kind |-> k, task |-> n, got |-> NoCatalog]
  BY <1>1
<1> QED BY <1>2, <1>3

\* A step that leaves the askers as they are, or moves one.
LEMMA AskerMoves ==
    ASSUME SceneInv, NEW s \in SceneAskers, UNCHANGED <<sceneCatalog, sceneCache, sceneFresh>>,
           \/ \E k \in SceneKinds : Scene!FromCache(s, k) \/ Scene!Joins(s, k) \/ Scene!Fetches(s, k)
           \/ Scene!Cancelled(s) \/ Scene!Receives(s)
    PROVE  SceneInv'
<1> USE SceneAssumption DEF Scene!Answer, Scene!NoAsk
<1>1. sceneAsker \in [SceneAskers -> AskerRecord] /\ sceneFetch \in [1..MaxFetches -> FetchRecord]
  BY DEF SceneInv, Scene!TypeOK, AskerRecord, FetchRecord
<1>2. ASSUME NEW k \in SceneKinds, Scene!FromCache(s, k) PROVE SceneInv'
  <2>1. sceneCache[k] \in Scene!Answer \cup {NoCatalog}
    BY DEF SceneInv, Scene!TypeOK
  <2>2. /\ sceneAsker' = [sceneAsker EXCEPT ![s] = [at |-> "answered", kind |-> k, task |-> 0, got |-> sceneCache[k]]]
        /\ UNCHANGED <<sceneInflight, sceneFetch, sceneFloor, sceneFetches>>
    <3> DEFINE new == [Scene!NoAsk EXCEPT !.at = "answered", !.kind = k, !.got = sceneCache[k]]
    <3>1. new \in [at : {"answered"}, kind : {k}, task : {0}, got : {sceneCache[k]}]
      OBVIOUS
    <3>2. /\ sceneAsker' = [sceneAsker EXCEPT ![s] = new]
          /\ UNCHANGED <<sceneInflight, sceneFetch, sceneFloor, sceneFetches>>
      BY <1>2 DEF Scene!FromCache
    <3> HIDE DEF new
    <3>3. new = [at |-> "answered", kind |-> k, task |-> 0, got |-> sceneCache[k]]
      BY <3>1
    <3> QED BY <3>2, <3>3
  <2>3. Scene!TypeOK'
    <3>1. sceneAsker' \in [SceneAskers -> AskerRecord]
      BY <1>1, <2>1, <2>2 DEF AskerRecord
    <3> QED BY <2>2, <3>1 DEF SceneInv, Scene!TypeOK, AskerRecord
  <2>4. FetchesTyped' /\ OneFetchOfAKind'
    BY <2>2 DEF SceneInv, FetchesTyped, OneFetchOfAKind, UnderWay
  <2>5. AskersServed'
    BY <1>1, <2>2 DEF SceneInv, AskersServed, UnderWay
  <2> QED BY <2>3, <2>4, <2>5 DEF SceneInv
<1>3. ASSUME NEW k \in SceneKinds, Scene!Joins(s, k) PROVE SceneInv'
  <2> DEFINE n == sceneInflight[k]
  <2>0. n \in 0..MaxFetches /\ n # 0 /\ sceneFetches \in 0..MaxFetches
    BY <1>3 DEF SceneInv, Scene!TypeOK, Scene!Joins
  <2>1. /\ n \in 1..sceneFetches /\ n \in 1..MaxFetches /\ UnderWay(n) /\ sceneFetch[n].began \in Scene!Answer
    BY <1>1, <2>0 DEF SceneInv, OneFetchOfAKind, FetchRecord
  <2>2. /\ sceneAsker' = [sceneAsker EXCEPT ![s] = [at |-> "waits", kind |-> k, task |-> n, got |-> NoCatalog]]
        /\ sceneFloor' = [sceneFloor EXCEPT ![s] = sceneFetch[n].began]
        /\ UNCHANGED <<sceneInflight, sceneFetch, sceneFetches>>
    BY <1>3, <2>1, NewAsk DEF Scene!Joins, UnderWay
  <2> HIDE DEF n
  <2>3. Scene!TypeOK'
    <3>1. sceneAsker' \in [SceneAskers -> AskerRecord]
      BY <1>1, <2>1, <2>2 DEF AskerRecord
    <3> QED BY <2>1, <2>2, <3>1 DEF SceneInv, Scene!TypeOK, AskerRecord
  <2>4. FetchesTyped' /\ OneFetchOfAKind'
    BY <2>2 DEF SceneInv, FetchesTyped, OneFetchOfAKind, UnderWay
  <2>5. sceneAsker'[s] = [at |-> "waits", kind |-> k, task |-> n, got |-> NoCatalog] /\ sceneFloor'[s] = sceneFetch[n].began
    BY <1>1, <2>2 DEF SceneInv, Scene!TypeOK
  <2>6. \A t \in SceneAskers \ {s} : sceneAsker'[t] = sceneAsker[t] /\ sceneFloor'[t] = sceneFloor[t]
    BY <2>2
  <2>7. AskersServed'
    BY <1>1, <2>1, <2>2, <2>5, <2>6 DEF SceneInv, AskersServed, UnderWay
  <2> QED BY <2>3, <2>4, <2>7 DEF SceneInv
<1>4. ASSUME NEW k \in SceneKinds, Scene!Fetches(s, k) PROVE SceneInv'
  <2> DEFINE n == sceneFetches + 1
             new == [at |-> "asked", kind |-> k, began |-> sceneCatalog[k], got |-> NoCatalog]
  <2>1. /\ n \in 1..MaxFetches /\ sceneFetches' = n /\ sceneFetch[n] = Scene!NoFetch /\ sceneInflight[k] = 0
        /\ sceneCatalog[k] \in Scene!Answer /\ sceneFetches \in Nat
    <3>1. sceneFetches \in 0..MaxFetches /\ sceneFetches < MaxFetches /\ n \in 1..MaxFetches /\ n > sceneFetches
      BY <1>4 DEF SceneInv, Scene!TypeOK, Scene!Fetches
    <3>2. sceneFetch[n] = Scene!NoFetch
      BY <3>1 DEF SceneInv, FetchesTyped
    <3> QED BY <1>4, <3>1, <3>2 DEF SceneInv, Scene!TypeOK, Scene!Fetches
  <2>2. /\ sceneAsker' = [sceneAsker EXCEPT ![s] = [at |-> "waits", kind |-> k, task |-> n, got |-> NoCatalog]]
        /\ sceneFloor' = [sceneFloor EXCEPT ![s] = sceneCatalog[k]]
        /\ sceneFetch' = [sceneFetch EXCEPT ![n] = new]
        /\ sceneInflight' = [sceneInflight EXCEPT ![k] = n]
    BY <1>4, <2>1, NewAsk DEF Scene!Fetches
  <2>3. new \in FetchRecord /\ new.at = "asked" /\ new.kind = k /\ new.began = sceneCatalog[k]
    BY <2>1 DEF FetchRecord
  <2> HIDE DEF n, new
  <2>4. /\ sceneFetch'[n] = new /\ \A m \in 1..MaxFetches \ {n} : sceneFetch'[m] = sceneFetch[m]
        /\ sceneInflight'[k] = n /\ \A j \in SceneKinds \ {k} : sceneInflight'[j] = sceneInflight[j]
        /\ sceneFetch' \in [1..MaxFetches -> FetchRecord]
    BY <1>1, <2>1, <2>2, <2>3 DEF SceneInv, Scene!TypeOK
  <2>5. Scene!TypeOK'
    BY <2>1, <2>2, <2>4 DEF SceneInv, Scene!TypeOK, FetchRecord
  <2>6. \A m \in 1..MaxFetches : m > n => m > sceneFetches
    BY <2>1 DEF n
  <2>7. FetchesTyped'
    BY <1>1, <2>1, <2>3, <2>4, <2>6 DEF SceneInv, FetchesTyped, n
  <2>8. \A m \in 1..MaxFetches : UnderWay(m) => m # n /\ sceneFetch[m].kind # k /\ sceneFetch[m].kind \in SceneKinds
    BY <2>1 DEF SceneInv, OneFetchOfAKind, UnderWay, Scene!NoFetch, FetchesTyped, Scene!TypeOK
  <2>9. OneFetchOfAKind'
    <3>1. \A j \in SceneKinds \ {k} : sceneInflight[j] \in 0..MaxFetches
      BY DEF SceneInv, Scene!TypeOK
    <3>2. \A j \in SceneKinds \ {k} : sceneInflight[j] # 0 => sceneInflight[j] # n /\ sceneInflight[j] <= sceneFetches'
      BY <2>1, <2>8, <3>1 DEF SceneInv, OneFetchOfAKind, n
    <3>3. sceneFetch'[n].began <= sceneCatalog[k] /\ n <= sceneFetches' /\ n # 0
      BY <2>1, <2>3, <2>4 DEF n
    <3> QED BY <2>3, <2>4, <2>8, <3>1, <3>2, <3>3 DEF SceneInv, OneFetchOfAKind, UnderWay
  <2>10. sceneAsker'[s] = [at |-> "waits", kind |-> k, task |-> n, got |-> NoCatalog] /\ sceneFloor'[s] = sceneCatalog[k]
    BY <1>1, <2>2 DEF SceneInv, Scene!TypeOK
  <2>11. \A t \in SceneAskers \ {s} : sceneAsker'[t] = sceneAsker[t] /\ sceneFloor'[t] = sceneFloor[t]
    BY <2>2
  <2>12. \A t \in SceneAskers : sceneAsker[t].at = "waits" => sceneAsker[t].task \in 1..MaxFetches \ {n} /\ sceneAsker[t].task \in 1..n
    BY <2>1 DEF SceneInv, AskersServed, n
  <2>13. AskersServed'
    BY <1>1, <2>1, <2>3, <2>4, <2>10, <2>11, <2>12 DEF SceneInv, AskersServed, UnderWay
  <2> QED BY <2>5, <2>7, <2>9, <2>13 DEF SceneInv
<1>5. CASE Scene!Cancelled(s)
  <2>1. /\ sceneAsker' = [sceneAsker EXCEPT ![s].at = "cancelled"]
        /\ UNCHANGED <<sceneInflight, sceneFetch, sceneFloor, sceneFetches>>
    BY <1>5 DEF Scene!Cancelled
  <2>2. Scene!TypeOK'
    BY <2>1 DEF SceneInv, Scene!TypeOK
  <2>3. FetchesTyped' /\ OneFetchOfAKind'
    BY <2>1 DEF SceneInv, FetchesTyped, OneFetchOfAKind, UnderWay
  <2>4. AskersServed'
    BY <1>1, <2>1 DEF SceneInv, AskersServed, UnderWay, AskerRecord
  <2> QED BY <2>2, <2>3, <2>4 DEF SceneInv
<1>6. CASE Scene!Receives(s)
  <2> DEFINE n == sceneAsker[s].task
  <2>1. /\ n \in 1..MaxFetches /\ sceneAsker[s].at = "waits" /\ sceneFetch[n].at = "done"
        /\ sceneFetch[n].got \in Scene!Answer \cup {NoCatalog}
        /\ sceneFetch[n].got # NoCatalog => sceneFetch[n].got >= sceneFloor[s]
    BY <1>1, <1>6 DEF SceneInv, AskersServed, Scene!Receives, Scene!TypeOK, FetchRecord
  <2>2. /\ sceneAsker' = [sceneAsker EXCEPT ![s].at = "answered", ![s].got = sceneFetch[n].got]
        /\ UNCHANGED <<sceneInflight, sceneFetch, sceneFloor, sceneFetches>>
    BY <1>6 DEF Scene!Receives
  <2>3. /\ sceneAsker'[s].at = "answered" /\ sceneAsker'[s].got = sceneFetch[n].got
        /\ sceneAsker'[s].task = n
        /\ \A t \in SceneAskers \ {s} : sceneAsker'[t] = sceneAsker[t]
        /\ sceneAsker' \in [SceneAskers -> AskerRecord]
    BY <1>1, <2>1, <2>2 DEF AskerRecord
  <2>4. Scene!TypeOK'
    <3>1. sceneAsker' \in [SceneAskers -> AskerRecord]
      BY <2>3
    <3> QED BY <2>2, <3>1 DEF SceneInv, Scene!TypeOK, AskerRecord
  <2>5. FetchesTyped' /\ OneFetchOfAKind'
    BY <2>2 DEF SceneInv, FetchesTyped, OneFetchOfAKind, UnderWay
  <2> HIDE DEF n
  <2>6. AskersServed'
    BY <1>1, <2>1, <2>2, <2>3 DEF SceneInv, AskersServed, UnderWay
  <2> QED BY <2>4, <2>5, <2>6 DEF SceneInv
<1> QED BY <1>2, <1>3, <1>4, <1>5, <1>6

LEMMA FetchMoves ==
    ASSUME SceneInv, NEW n \in 1..sceneFetches, UNCHANGED <<sceneCatalog, sceneAsker, sceneFetches>>,
           Scene!CatalogRead(n) \/ Scene!Answered(n) \/ Scene!Fails(n)
    PROVE  SceneInv'
<1> USE SceneAssumption DEF Scene!Answer
<1> DEFINE k == sceneFetch[n].kind
<1>1. sceneAsker \in [SceneAskers -> AskerRecord] /\ sceneFetch \in [1..MaxFetches -> FetchRecord]
  BY DEF SceneInv, Scene!TypeOK, AskerRecord, FetchRecord
<1>2. /\ n \in 1..MaxFetches /\ UnderWay(n) /\ k \in SceneKinds /\ sceneInflight[k] = n
      /\ sceneFetch[n].began \in Nat /\ sceneFetch[n].began <= sceneCatalog[k]
      /\ sceneCatalog[k] \in Scene!Answer /\ sceneCache[k] \in Scene!Answer \cup {NoCatalog}
      /\ sceneFetch[n].at = "read" => sceneFetch[n].got \in Scene!Answer /\ sceneFetch[n].got >= sceneFetch[n].began
  BY <1>1 DEF SceneInv, OneFetchOfAKind, FetchesTyped, Scene!TypeOK, UnderWay, Scene!CatalogRead, Scene!Answered,
     Scene!Fails, FetchRecord
<1> HIDE DEF k
<1>3. CASE Scene!CatalogRead(n)
  <2>1. /\ sceneFetch' = [sceneFetch EXCEPT ![n].at = "read", ![n].got = sceneCatalog[k]]
        /\ UNCHANGED <<sceneCache, sceneFresh, sceneInflight, sceneFloor>>
    BY <1>3 DEF Scene!CatalogRead, k
  <2>2. /\ sceneFetch'[n].at = "read" /\ sceneFetch'[n].got = sceneCatalog[k] /\ sceneFetch'[n].kind = k
        /\ sceneFetch'[n].began = sceneFetch[n].began
        /\ \A m \in 1..MaxFetches \ {n} : sceneFetch'[m] = sceneFetch[m]
        /\ sceneFetch' \in [1..MaxFetches -> FetchRecord]
    <3>1. /\ sceneFetch'[n] = [sceneFetch[n] EXCEPT !.at = "read", !.got = sceneCatalog[k]]
          /\ \A m \in 1..MaxFetches \ {n} : sceneFetch'[m] = sceneFetch[m]
      BY <1>1, <1>2, <2>1
    <3> DEFINE got == sceneCatalog[k]
    <3>2. sceneFetch[n] \in FetchRecord /\ sceneFetch'[n] \in FetchRecord
      <4>1. sceneFetch[n] \in FetchRecord /\ got \in Scene!Answer \cup {NoCatalog}
        BY <1>1, <1>2
      <4>2. sceneFetch'[n] = [sceneFetch[n] EXCEPT !.at = "read", !.got = got]
        BY <3>1
      <4> HIDE DEF got
      <4>3. [sceneFetch[n] EXCEPT !.at = "read", !.got = got] \in FetchRecord
        BY <4>1 DEF FetchRecord
      <4> QED BY <4>1, <4>2, <4>3
    <3>3. sceneFetch' \in [1..MaxFetches -> FetchRecord]
      BY <1>1, <1>2, <2>1, <3>1, <3>2
    <3> QED BY <3>1, <3>2, <3>3 DEF FetchRecord, k
  <2>3. Scene!TypeOK'
    BY <2>1, <2>2 DEF SceneInv, Scene!TypeOK, FetchRecord
  <2>4. FetchesTyped'
    <3>1. n <= sceneFetches /\ sceneFetches \in Nat
      BY DEF SceneInv, Scene!TypeOK
    <3> QED BY <1>2, <2>2, <3>1 DEF SceneInv, FetchesTyped
  <2>5. OneFetchOfAKind'
    BY <1>2, <2>1, <2>2 DEF SceneInv, OneFetchOfAKind, UnderWay, Scene!TypeOK
  <2>6. AskersServed'
    BY <1>1, <1>2, <2>1, <2>2 DEF SceneInv, AskersServed, UnderWay, Scene!TypeOK
  <2> QED BY <2>3, <2>4, <2>5, <2>6 DEF SceneInv
<1>4. ASSUME sceneFetch' = [sceneFetch EXCEPT ![n].at = "done", ![n].got = sceneFetch'[n].got],
             sceneFetch'[n].got \in Scene!Answer \cup {NoCatalog},
             sceneInflight' = [sceneInflight EXCEPT ![k] = 0],
             sceneCache' \in [SceneKinds -> Scene!Answer \cup {NoCatalog}], sceneFresh' \in [SceneKinds -> BOOLEAN],
             sceneFloor' \in [SceneAskers -> Scene!Answer],
             \A s \in SceneAskers : sceneFloor'[s] <= sceneFloor[s],
             \A s \in SceneAskers : sceneAsker[s].task = n =>
               (sceneFetch'[n].got # NoCatalog /\ sceneFloor[s] <= sceneFetch[n].began => sceneFloor'[s] <= sceneFetch'[n].got)
      PROVE  SceneInv'
  <2>2. /\ sceneFetch'[n].at = "done" /\ sceneFetch'[n].kind = k
        /\ \A m \in 1..MaxFetches \ {n} : sceneFetch'[m] = sceneFetch[m]
        /\ sceneFetch' \in [1..MaxFetches -> FetchRecord]
        /\ sceneInflight'[k] = 0 /\ \A j \in SceneKinds \ {k} : sceneInflight'[j] = sceneInflight[j]
        /\ sceneInflight' \in [SceneKinds -> 0..MaxFetches]
    <3>1. /\ sceneFetch'[n] = [sceneFetch[n] EXCEPT !.at = "done", !.got = sceneFetch'[n].got]
          /\ \A m \in 1..MaxFetches \ {n} : sceneFetch'[m] = sceneFetch[m]
      BY <1>1, <1>2, <1>4
    <3> DEFINE got == sceneFetch'[n].got
    <3>2. sceneFetch[n] \in FetchRecord /\ sceneFetch'[n] \in FetchRecord
      <4>1. sceneFetch[n] \in FetchRecord /\ got \in Scene!Answer \cup {NoCatalog}
        BY <1>1, <1>2, <1>4
      <4>2. sceneFetch'[n] = [sceneFetch[n] EXCEPT !.at = "done", !.got = got]
        BY <3>1
      <4> HIDE DEF got
      <4>3. [sceneFetch[n] EXCEPT !.at = "done", !.got = got] \in FetchRecord
        BY <4>1 DEF FetchRecord
      <4> QED BY <4>1, <4>2, <4>3
    <3>3. sceneFetch' \in [1..MaxFetches -> FetchRecord]
      BY <1>1, <1>2, <1>4, <3>1, <3>2
    <3>4. sceneInflight \in [SceneKinds -> 0..MaxFetches] /\ 0 \in 0..MaxFetches
      BY DEF SceneInv, Scene!TypeOK
    <3> QED BY <1>2, <1>4, <3>1, <3>2, <3>3, <3>4 DEF FetchRecord, k
  <2>3. Scene!TypeOK'
    BY <1>4, <2>2 DEF SceneInv, Scene!TypeOK, FetchRecord
  <2>4. FetchesTyped'
    <3>1. n <= sceneFetches /\ sceneFetches \in Nat
      BY DEF SceneInv, Scene!TypeOK
    <3> QED BY <1>2, <2>2, <3>1 DEF SceneInv, FetchesTyped
  <2>5. OneFetchOfAKind'
    <3>1. \A m \in 1..MaxFetches \ {n} : UnderWay(m) => sceneFetch[m].kind \in SceneKinds \ {k}
      BY <1>2 DEF SceneInv, OneFetchOfAKind, FetchesTyped, UnderWay, Scene!NoFetch, Scene!TypeOK
    <3>2. \A j \in SceneKinds \ {k} : sceneInflight[j] # 0 => sceneInflight[j] \in 1..MaxFetches \ {n}
      BY <1>2 DEF SceneInv, OneFetchOfAKind, Scene!TypeOK
    <3>3. ASSUME NEW m \in 1..MaxFetches, sceneFetch'[m].at \in {"asked", "read"}
          PROVE  /\ sceneInflight'[sceneFetch'[m].kind] = m
                 /\ sceneFetch'[m].began <= sceneCatalog[sceneFetch'[m].kind]
                 /\ sceneFetch'[m].at = "read"
                      => sceneFetch'[m].got \in Scene!Answer /\ sceneFetch'[m].got >= sceneFetch'[m].began
      <4>1. m # n /\ UnderWay(m) /\ sceneFetch'[m] = sceneFetch[m] /\ sceneFetch[m].kind \in SceneKinds \ {k}
        BY <2>2, <3>1, <3>3 DEF UnderWay
      <4> QED BY <2>2, <4>1 DEF SceneInv, OneFetchOfAKind
    <3>4. ASSUME NEW j \in SceneKinds, sceneInflight'[j] # 0
          PROVE  /\ sceneInflight'[j] <= sceneFetches /\ sceneFetch'[sceneInflight'[j]].at \in {"asked", "read"}
                 /\ sceneFetch'[sceneInflight'[j]].kind = j
      <4>1. j # k /\ sceneInflight'[j] = sceneInflight[j] /\ sceneInflight[j] \in 1..MaxFetches \ {n}
        BY <2>2, <3>2, <3>4
      <4>2. sceneFetch'[sceneInflight'[j]] = sceneFetch[sceneInflight[j]]
        BY <2>2, <4>1
      <4>3. sceneInflight[j] <= sceneFetches /\ UnderWay(sceneInflight[j]) /\ sceneFetch[sceneInflight[j]].kind = j
        BY <4>1 DEF SceneInv, OneFetchOfAKind
      <4> QED BY <4>1, <4>2, <4>3 DEF UnderWay
    <3> QED BY <3>3, <3>4 DEF OneFetchOfAKind, UnderWay
  <2>6. \A s \in SceneAskers : sceneFloor[s] \in Nat /\ sceneFloor'[s] \in Nat
    BY <1>4 DEF SceneInv, Scene!TypeOK
  <2>7. AskersServed'
    <3> SUFFICES ASSUME NEW s \in SceneAskers
                 PROVE  /\ sceneAsker[s].at = "waits" =>
                             /\ sceneAsker[s].task \in 1..sceneFetches
                             /\ UnderWay(sceneAsker[s].task)' => sceneFloor'[s] <= sceneFetch'[sceneAsker[s].task].began
                             /\ sceneFetch'[sceneAsker[s].task].at = "done" /\ sceneFetch'[sceneAsker[s].task].got # NoCatalog
                                  => sceneFetch'[sceneAsker[s].task].got >= sceneFloor'[s]
                        /\ sceneAsker[s].at = "answered" /\ sceneAsker[s].task # 0 /\ sceneAsker[s].got # NoCatalog
                             => sceneAsker[s].got >= sceneFloor'[s]
      BY DEF AskersServed, UnderWay
    <3>1. sceneAsker[s].got # NoCatalog => sceneAsker[s].got \in Nat
      BY <1>1 DEF AskerRecord
    <3>2. sceneAsker[s].at = "answered" /\ sceneAsker[s].task # 0 /\ sceneAsker[s].got # NoCatalog
             => sceneAsker[s].got >= sceneFloor'[s]
      BY <1>4, <2>6, <3>1 DEF SceneInv, AskersServed
    <3>3. CASE sceneAsker[s].at = "waits" /\ sceneAsker[s].task = n
      <4>1. sceneFloor[s] <= sceneFetch[n].began
        BY <1>2, <3>3 DEF SceneInv, AskersServed
      <4>2. sceneFetch'[n].got # NoCatalog => sceneFetch'[n].got \in Nat /\ sceneFloor'[s] <= sceneFetch'[n].got
        BY <1>4, <3>3, <4>1
      <4> QED BY <2>2, <2>6, <3>2, <3>3, <4>2 DEF UnderWay
    <3>4. CASE sceneAsker[s].at = "waits" /\ sceneAsker[s].task # n
      <4>1. sceneAsker[s].task \in 1..sceneFetches /\ sceneAsker[s].task \in 1..MaxFetches \ {n}
        BY <1>1, <3>4 DEF SceneInv, AskersServed, AskerRecord
      <4>2. /\ sceneFetch'[sceneAsker[s].task] = sceneFetch[sceneAsker[s].task]
            /\ sceneFetch[sceneAsker[s].task].began \in Nat
            /\ sceneFetch[sceneAsker[s].task].got # NoCatalog => sceneFetch[sceneAsker[s].task].got \in Nat
        BY <1>1, <2>2, <4>1 DEF FetchRecord
      <4>3. sceneFloor'[s] <= sceneFloor[s]
        BY <1>4
      <4> QED BY <2>6, <3>2, <3>4, <4>1, <4>2, <4>3 DEF SceneInv, AskersServed, UnderWay
    <3> QED BY <3>2, <3>3, <3>4
  <2> QED BY <2>3, <2>4, <2>5, <2>7 DEF SceneInv
<1>5. CASE Scene!Answered(n)
  <2>1. /\ sceneFetch' = [sceneFetch EXCEPT ![n].at = "done"] /\ sceneFetch[n].at = "read"
        /\ sceneCache' = [sceneCache EXCEPT ![k] = sceneFetch[n].got] /\ sceneFresh' = [sceneFresh EXCEPT ![k] = TRUE]
        /\ sceneInflight' = [sceneInflight EXCEPT ![k] = 0] /\ sceneFloor' = sceneFloor
    BY <1>2, <1>5 DEF Scene!Answered, Scene!Forgotten, k
  <2>2. sceneFetch'[n].got = sceneFetch[n].got /\ sceneFetch[n].got \in Scene!Answer /\ sceneFetch[n].got >= sceneFetch[n].began
    BY <1>1, <1>2, <2>1 DEF FetchRecord
  <2>3. sceneFetch' = [sceneFetch EXCEPT ![n].at = "done", ![n].got = sceneFetch'[n].got]
    BY <1>1, <1>2, <2>1, <2>2 DEF FetchRecord
  <2>4. sceneFloor \in [SceneAskers -> Scene!Answer]
    BY DEF SceneInv, Scene!TypeOK
  <2>5. sceneCache' \in [SceneKinds -> Scene!Answer \cup {NoCatalog}] /\ sceneFresh' \in [SceneKinds -> BOOLEAN]
    BY <1>2, <2>1, <2>2 DEF SceneInv, Scene!TypeOK
  <2>6. \A s \in SceneAskers : sceneFloor[s] \in Nat
    BY <2>4
  <2> QED BY <1>2, <1>4, <2>1, <2>2, <2>3, <2>4, <2>5, <2>6
<1>6. CASE Scene!Fails(n)
  <2>1. /\ sceneFetch' = [sceneFetch EXCEPT ![n].at = "done", ![n].got = sceneCache[k]]
        /\ sceneInflight' = [sceneInflight EXCEPT ![k] = 0]
        /\ sceneFloor' = [s \in SceneAskers |-> IF sceneAsker[s].task = n THEN 0 ELSE sceneFloor[s]]
        /\ UNCHANGED <<sceneCache, sceneFresh>>
    BY <1>2, <1>6 DEF Scene!Fails, Scene!Forgotten, k
  <2>2. sceneFetch'[n].got = sceneCache[k]
    BY <1>1, <1>2, <2>1 DEF FetchRecord
  <2>3. /\ sceneFloor' \in [SceneAskers -> Scene!Answer]
        /\ sceneCache \in [SceneKinds -> Scene!Answer \cup {NoCatalog}] /\ sceneFresh \in [SceneKinds -> BOOLEAN]
        /\ \A s \in SceneAskers : sceneFloor'[s] <= sceneFloor[s]
    BY <2>1 DEF SceneInv, Scene!TypeOK
  <2>4. \A s \in SceneAskers : sceneAsker[s].task = n => sceneFloor'[s] = 0
    BY <2>1
  <2>5. sceneFetch' = [sceneFetch EXCEPT ![n].at = "done", ![n].got = sceneFetch'[n].got]
    BY <2>1, <2>2
  <2>6. \A s \in SceneAskers : sceneAsker[s].task = n =>
          (sceneFetch'[n].got # NoCatalog /\ sceneFloor[s] <= sceneFetch[n].began => sceneFloor'[s] <= sceneFetch'[n].got)
    BY <1>2, <2>2, <2>4
  <2> QED BY <1>2, <1>4, <2>1, <2>2, <2>3, <2>5, <2>6
<1> QED BY <1>3, <1>5, <1>6

LEMMA SceneGoesOn == SceneInv /\ [Scene!Next]_(Scene!vars) => SceneInv'
<1> SUFFICES ASSUME SceneInv, [Scene!Next]_(Scene!vars) PROVE SceneInv'
  OBVIOUS
<1> USE SceneAssumption DEF Scene!Answer
<1>1. ASSUME NEW k \in SceneKinds, Scene!UserAddsScene(k) PROVE SceneInv'
  <2>1. /\ sceneCatalog' = [sceneCatalog EXCEPT ![k] = @ + 1] /\ sceneCatalog[k] < MaxScenes
        /\ UNCHANGED <<sceneCache, sceneFresh, sceneInflight, sceneFetch, sceneAsker, sceneFloor, sceneFetches>>
    BY <1>1 DEF Scene!UserAddsScene
  <2>2. sceneCatalog' \in [SceneKinds -> 0..MaxScenes] /\ \A j \in SceneKinds : sceneCatalog'[j] >= sceneCatalog[j]
    BY <2>1 DEF SceneInv, Scene!TypeOK
  <2>3. Scene!TypeOK'
    BY <2>1, <2>2 DEF SceneInv, Scene!TypeOK
  <2>4. \A n \in 1..MaxFetches : /\ sceneFetch[n].began \in Nat
                                 /\ UnderWay(n) => sceneFetch[n].kind \in SceneKinds
    BY DEF SceneInv, Scene!TypeOK, FetchesTyped, UnderWay, Scene!NoFetch
  <2>5. \A j \in SceneKinds : sceneCatalog[j] \in Nat /\ sceneCatalog'[j] \in Nat
    BY <2>2 DEF SceneInv, Scene!TypeOK
  <2>6. FetchesTyped' /\ AskersServed'
    BY <2>1 DEF SceneInv, FetchesTyped, AskersServed, UnderWay
  <2>7. OneFetchOfAKind'
    BY <2>1, <2>2, <2>4, <2>5 DEF SceneInv, OneFetchOfAKind, UnderWay
  <2> QED BY <2>3, <2>6, <2>7 DEF SceneInv
<1>2. ASSUME UNCHANGED <<sceneCatalog, sceneCache, sceneInflight, sceneFetch, sceneAsker, sceneFloor, sceneFetches>>,
             sceneFresh' \in [SceneKinds -> BOOLEAN]
      PROVE  SceneInv'
  BY <1>2 DEF SceneInv, Scene!TypeOK, FetchesTyped, OneFetchOfAKind, AskersServed, UnderWay
<1>3. ASSUME NEW k \in SceneKinds, Scene!Expires(k) PROVE SceneInv'
  BY <1>2, <1>3 DEF Scene!Expires, SceneInv, Scene!TypeOK
<1>4. CASE UNCHANGED Scene!vars
  BY <1>2, <1>4 DEF Scene!vars, SceneInv, Scene!TypeOK
<1>5. ASSUME NEW s \in SceneAskers,
             (\E k \in SceneKinds : Scene!FromCache(s, k) \/ Scene!Joins(s, k) \/ Scene!Fetches(s, k))
               \/ Scene!Cancelled(s) \/ Scene!Receives(s)
      PROVE  SceneInv'
  <2>1. UNCHANGED <<sceneCatalog, sceneCache, sceneFresh>>
    BY <1>5 DEF Scene!FromCache, Scene!Joins, Scene!Fetches, Scene!Cancelled, Scene!Receives
  <2> QED BY <1>5, <2>1, AskerMoves
<1>6. ASSUME NEW n \in 1..sceneFetches, Scene!CatalogRead(n) \/ Scene!Answered(n) \/ Scene!Fails(n) PROVE SceneInv'
  <2>1. UNCHANGED <<sceneCatalog, sceneAsker, sceneFetches>>
    BY <1>6 DEF Scene!CatalogRead, Scene!Answered, Scene!Fails
  <2> QED BY <1>6, <2>1, FetchMoves
<1> QED BY <1>1, <1>3, <1>4, <1>5, <1>6 DEF Scene!Next


LEMMA SceneInvGives == SceneInv => Scene!CatalogsAreCurrent
<1> SUFFICES ASSUME SceneInv PROVE Scene!CatalogsAreCurrent
  OBVIOUS
<1>1. \A n \in 1..sceneFetches : n \in 1..MaxFetches /\ sceneFetch[n].at \in {"unused", "asked", "read", "done"}
  BY SceneAssumption DEF SceneInv, Scene!TypeOK
<1>2. ASSUME NEW n \in 1..sceneFetches, NEW o \in 1..sceneFetches,
             {sceneFetch[n].at, sceneFetch[o].at} \cap {"unused", "done"} = {}
      PROVE  UnderWay(n) /\ UnderWay(o)
  BY <1>1, <1>2 DEF UnderWay
<1>3. \A n, o \in 1..sceneFetches : UnderWay(n) /\ UnderWay(o) /\ sceneFetch[n].kind = sceneFetch[o].kind => n = o
  BY <1>1 DEF SceneInv, OneFetchOfAKind
<1>4. \A s \in SceneAskers : sceneAsker[s].at = "answered" /\ sceneAsker[s].task # 0 /\ sceneAsker[s].got # NoCatalog
           => sceneAsker[s].got >= sceneFloor[s]
  BY DEF SceneInv, AskersServed
<1> QED BY <1>2, <1>3, <1>4 DEF Scene!CatalogsAreCurrent

\* For any kinds and askers: an asker that waited gets a catalog no older than
\* the fetch it met, and a kind has one fetch under way.
THEOREM CatalogsCurrent == Scene!Spec => []Scene!CatalogsAreCurrent
BY SceneStarts, SceneGoesOn, SceneInvGives, PTL DEF Scene!Spec

-----------------------------------------------------------------------------
(* The leak sensor.                                                         *)

\* The leaks come one after the other, and what an answer or a frame tells of is
\* the last of them or one before.
LeaksNumbered ==
    /\ shown <= leak.no /\ ended <= leak.no
    /\ leak.no = 0 => leak = Leak!NoLeak
    /\ leaking => leak.no # 0
    /\ \A who \in Leak!Pollers : /\ answer[who].no <= leak.no
                                 /\ answer[who].no = leak.no => answer[who] = leak

\* No stamp is of the future, and the sensor's last wet frame is the one stamped.
StampsPast ==
    /\ stamps.wet <= leakNow /\ stamps.dry <= leakNow /\ onDisk.wet <= leakNow /\ onDisk.dry <= leakNow
    /\ mqttWetAt = Leak!Never \/ mqttWetAt = stamps.wet

\* A leak that is on began after the last dry frame, here and on disk.
DryBefore == leaking => stamps.dry <= leak.at /\ onDisk.dry <= leak.at

\* The stamps, while none was lost, tell of the last leak shown, and of its end.
ToldOf(told) ==
    /\ told.no # 0 /\ told.no = shown => stamps.wet >= told.at - Margin
    /\ told.no # 0 /\ told.no = shown /\ shown = ended => stamps.dry > stamps.wet /\ stamps.dry > told.at

StampsTell ==
    ~lostStamps =>
      /\ ToldOf(leak) /\ \A who \in Leak!Pollers : ToldOf(answer[who])
      /\ leak.no # 0 /\ leak.no = shown => stamps.wet <= leak.at

LeakInv == Leak!TypeOK /\ LeaksNumbered /\ StampsPast /\ DryBefore /\ StampsTell /\ Leak!ProbesAgree

\* What a step that applies an answer does.
LeakStep ==
    \A who \in Leak!Pollers : Leak!Answers(who) =>
      /\ ~isWet /\ isWet' => lostStamps \/ ~(shown = answer[who].no /\ ended = answer[who].no)
      /\ Leak!Silent(who) /\ leakNow - stamps.wet > Window => isWet'

LEMMA LeakStarts == Leak!Init => LeakInv
<1> SUFFICES ASSUME Leak!Init PROVE LeakInv
  OBVIOUS
<1> USE LeakAssumption DEF Leak!Init, Leak!NoLeak, Leak!NoStamps, Leak!Never, Leak!NoPolls, Leak!NoAnswers
<1>1. /\ leaking \in BOOLEAN /\ isWet \in BOOLEAN /\ upper \in BOOLEAN /\ lower \in BOOLEAN /\ lostStamps \in BOOLEAN
  BY Zenon
<1>2. Leak!TypeOK
  BY <1>1 DEF Leak!TypeOK, Leak!Times, Leak!Leaks
<1>3. LeaksNumbered /\ StampsPast /\ DryBefore /\ StampsTell /\ Leak!ProbesAgree
  BY DEF LeaksNumbered, StampsPast, DryBefore, StampsTell, ToldOf, Leak!ProbesAgree
<1> QED BY <1>2, <1>3 DEF LeakInv

\* The types that the comparisons need.
LEMMA LeakNumbers ==
    ASSUME LeakInv
    PROVE  /\ leakNow \in 1..MaxTime /\ ahead \in 0..Margin /\ leak \in [no : Nat, at : Nat] /\ shown \in Nat /\ ended \in Nat
           /\ leak.no \in 0..MaxLeaks /\ leak.at \in Leak!Times
           /\ \A who \in Leak!Pollers : answer[who] \in [no : Nat, at : Nat]
           /\ stamps \in [wet : Nat, dry : Nat] /\ onDisk \in [wet : Nat, dry : Nat] /\ mqttWetAt \in Nat
  BY LeakAssumption DEF LeakInv, Leak!TypeOK, Leak!Leaks, Leak!Times

LEMMA HandleTyped ==
    ASSUME LeakInv, NEW f \in Leak!Frames, Leak!Handle(f)
    PROVE  /\ isWet' \in BOOLEAN /\ upper' \in BOOLEAN /\ lower' \in BOOLEAN /\ Leak!ProbesAgree'
           /\ mqttWetAt' \in Leak!Times /\ mqttWetAt' = IF Leak!WetFrame(f) THEN leakNow ELSE mqttWetAt
           /\ stamps' \in [wet : Leak!Times, dry : Leak!Times]
           /\ stamps'.wet = IF Leak!WetFrame(f) THEN leakNow ELSE stamps.wet
           /\ stamps'.dry = IF Leak!WetFrame(f) THEN stamps.dry ELSE leakNow
           /\ saveDue' \in 0..(MaxTime + SaveDelay)
           /\ poll' \in [Leak!Pollers -> {"idle", "asked", "answered"}]
           /\ \A who \in Leak!Pollers : poll[who] = "answered" => poll'[who] = "answered"
           /\ UNCHANGED <<onDisk, nextPoll, answer>>
<1> USE LeakAssumption
<1>1. isWet' \in BOOLEAN /\ upper' \in BOOLEAN /\ lower' \in BOOLEAN /\ Leak!ProbesAgree'
  <2>1. f.upper \in BOOLEAN /\ f.lower \in BOOLEAN /\ f.aggregate \in BOOLEAN
    BY DEF Leak!Frames
  <2> HIDE LeakAssumption
  <2>2. isWet' = (f.lower \/ f.aggregate) /\ upper' = ((f.lower \/ f.aggregate) /\ f.upper)
        /\ lower' = ((f.lower \/ f.aggregate) /\ f.lower)
    BY ONLY Leak!Handle(f), Zenon DEF Leak!Handle, Leak!ShowProbes, Leak!WetFrame
  <2> QED BY ONLY <2>1, <2>2, Zenon DEF Leak!ProbesAgree
<1>2. leakNow \in Leak!Times /\ leakNow \in 1..MaxTime
  BY DEF LeakInv, Leak!TypeOK, Leak!Times
<1>3. stamps \in [wet : Leak!Times, dry : Leak!Times] /\ mqttWetAt \in Leak!Times
  BY DEF LeakInv, Leak!TypeOK
<1>4. /\ stamps' = IF Leak!WetFrame(f) THEN [stamps EXCEPT !.wet = leakNow] ELSE [stamps EXCEPT !.dry = leakNow]
      /\ mqttWetAt' = IF Leak!WetFrame(f) THEN leakNow ELSE mqttWetAt
      /\ saveDue' = leakNow + SaveDelay
      /\ poll' = IF poll["frame"] = "idle" THEN [poll EXCEPT !["frame"] = "asked"] ELSE poll
      /\ UNCHANGED <<onDisk, nextPoll, answer>>
  BY DEF Leak!Handle, Leak!Stamp, Leak!PollSoon
<1>5. /\ poll' \in [Leak!Pollers -> {"idle", "asked", "answered"}]
      /\ \A who \in Leak!Pollers : poll[who] = "answered" => poll'[who] = "answered"
  BY <1>4 DEF LeakInv, Leak!TypeOK, Leak!Pollers
<1>6. CASE Leak!WetFrame(f)
  BY <1>1, <1>2, <1>3, <1>4, <1>5, <1>6
<1>7. CASE ~Leak!WetFrame(f)
  BY <1>1, <1>2, <1>3, <1>4, <1>5, <1>7
<1> QED BY <1>6, <1>7

LEMMA FramesKeep ==
    ASSUME LeakInv, Leak!GetsWet \/ Leak!GetsDry
    PROVE  LeakInv' /\ LeakStep
<1> USE LeakAssumption
<1>1. /\ leakNow \in 1..MaxTime /\ ahead \in 0..Margin /\ leak \in [no : Nat, at : Nat] /\ shown \in Nat /\ ended \in Nat
      /\ leak.no \in 0..MaxLeaks /\ leak.at \in Leak!Times
      /\ \A who \in Leak!Pollers : answer[who] \in [no : Nat, at : Nat]
      /\ stamps \in [wet : Nat, dry : Nat] /\ onDisk \in [wet : Nat, dry : Nat] /\ mqttWetAt \in Nat
  BY LeakNumbers
<1>2. CASE Leak!GetsWet
  <2>1. /\ ~leaking /\ leak.no + 1 \in 0..MaxLeaks /\ leaking' = TRUE
        /\ leak' = [no |-> leak.no + 1, at |-> leakNow + ahead]
        /\ UNCHANGED <<leakNow, ahead, ended, lostStamps, leakReloads>>
    BY <1>1, <1>2 DEF Leak!GetsWet
  <2>2. leak' \in Leak!Leaks /\ leak'.no = leak.no + 1 /\ leak'.at = leakNow + ahead
    BY <1>1, <2>1 DEF Leak!Leaks, Leak!Times
  <2>3. shown' \in {shown, leak'.no} /\ answer' = answer => LeaksNumbered' /\ shown' \in 0..MaxLeaks
    BY <1>1, <2>1, <2>2 DEF LeakInv, LeaksNumbered, Leak!NoLeak, Leak!Pollers
  <2>4. ASSUME NEW f \in Leak!Frames, Leak!WetFrame(f), Leak!Handle(f), shown' = leak'.no
        PROVE  LeakInv' /\ LeakStep
    <3>1. /\ isWet' \in BOOLEAN /\ upper' \in BOOLEAN /\ lower' \in BOOLEAN /\ Leak!ProbesAgree'
          /\ mqttWetAt' \in Leak!Times /\ mqttWetAt' = leakNow
          /\ stamps' \in [wet : Leak!Times, dry : Leak!Times]
          /\ stamps'.wet = leakNow /\ stamps'.dry = stamps.dry
          /\ saveDue' \in 0..(MaxTime + SaveDelay)
          /\ poll' \in [Leak!Pollers -> {"idle", "asked", "answered"}]
          /\ \A who \in Leak!Pollers : poll[who] = "answered" => poll'[who] = "answered"
          /\ UNCHANGED <<onDisk, nextPoll, answer>>
      BY <2>4, HandleTyped
    <3>2. LeaksNumbered' /\ shown' \in 0..MaxLeaks
      BY <2>3, <2>4, <3>1
    <3>3. Leak!TypeOK'
      BY <2>1, <2>2, <3>1, <3>2 DEF LeakInv, Leak!TypeOK
    <3>4. StampsPast' /\ DryBefore'
      BY <1>1, <2>1, <2>2, <3>1 DEF LeakInv, StampsPast, DryBefore
    <3>5. \A who \in Leak!Pollers : answer[who].no # shown'
      BY <1>1, <2>2, <2>4 DEF LeakInv, LeaksNumbered
    <3>6. ended # shown'
      BY <1>1, <2>2, <2>4 DEF LeakInv, LeaksNumbered
    <3>7. StampsTell'
      BY <1>1, <2>1, <2>2, <2>4, <3>1, <3>5, <3>6 DEF LeakInv, StampsTell, ToldOf
    <3>8. LeakStep
      BY <3>1 DEF LeakStep, Leak!Answers
    <3> QED BY <3>1, <3>2, <3>3, <3>4, <3>7, <3>8 DEF LeakInv
  <2>5. ASSUME Leak!FrameLost, shown' = shown PROVE LeakInv' /\ LeakStep
    <3>1. UNCHANGED <<isWet, upper, lower, mqttWetAt, stamps, onDisk, saveDue, poll, answer, nextPoll, shown>>
      BY <2>5 DEF Leak!FrameLost, Leak!state, Leak!store, Leak!bff
    <3>2. LeaksNumbered' /\ shown' \in 0..MaxLeaks
      BY <2>3, <3>1
    <3>3. Leak!TypeOK'
      BY <2>1, <2>2, <3>1, <3>2 DEF LeakInv, Leak!TypeOK
    <3>4. StampsPast' /\ DryBefore' /\ Leak!ProbesAgree'
      BY <1>1, <2>1, <2>2, <3>1 DEF LeakInv, StampsPast, DryBefore, Leak!ProbesAgree
    <3>5. leak'.no # shown' /\ leak'.no # ended'
      BY <1>1, <2>1, <2>2, <3>1 DEF LeakInv, LeaksNumbered
    <3>6. StampsTell'
      BY <2>1, <3>1, <3>5 DEF LeakInv, StampsTell, ToldOf
    <3>7. LeakStep
      BY <3>1 DEF LeakStep, Leak!Answers
    <3> QED BY <3>2, <3>3, <3>4, <3>6, <3>7 DEF LeakInv
  <2> QED BY <1>2, <2>4, <2>5 DEF Leak!GetsWet
<1>3. CASE Leak!GetsDry
  <2>1. /\ leaking /\ leakNow > leak.at /\ leaking' = FALSE /\ leak.no # 0
        /\ UNCHANGED <<leakNow, ahead, leak, shown, lostStamps, leakReloads>>
    BY <1>3 DEF Leak!GetsDry, LeakInv, LeaksNumbered
  <2>2. ASSUME NEW f \in Leak!Frames, ~Leak!WetFrame(f), Leak!Handle(f), ended' = leak.no
        PROVE  LeakInv' /\ LeakStep
    <3>1. /\ isWet' \in BOOLEAN /\ upper' \in BOOLEAN /\ lower' \in BOOLEAN /\ Leak!ProbesAgree'
          /\ mqttWetAt' = mqttWetAt
          /\ stamps' \in [wet : Leak!Times, dry : Leak!Times]
          /\ stamps'.wet = stamps.wet /\ stamps'.dry = leakNow
          /\ saveDue' \in 0..(MaxTime + SaveDelay)
          /\ poll' \in [Leak!Pollers -> {"idle", "asked", "answered"}]
          /\ \A who \in Leak!Pollers : poll[who] = "answered" => poll'[who] = "answered"
          /\ UNCHANGED <<onDisk, nextPoll, answer>>
      BY <2>2, HandleTyped
    <3>2. LeaksNumbered'
      BY <1>1, <2>1, <2>2, <3>1 DEF LeakInv, LeaksNumbered
    <3>3. Leak!TypeOK'
      BY <1>1, <2>1, <2>2, <3>1 DEF LeakInv, Leak!TypeOK
    <3>4. StampsPast' /\ DryBefore'
      BY <1>1, <2>1, <3>1 DEF LeakInv, StampsPast, DryBefore
    <3>5. \A who \in Leak!Pollers : answer[who].no = ended' => answer[who] = leak
      BY <2>2 DEF LeakInv, LeaksNumbered
    <3>6. StampsTell'
      <4> SUFFICES ASSUME ~lostStamps
                   PROVE  /\ ToldOf(leak)' /\ \A who \in Leak!Pollers : ToldOf(answer[who])'
                          /\ leak.no # 0 /\ leak.no = shown => stamps'.wet <= leak.at
        BY <2>1 DEF StampsTell
      <4>1. ToldOf(leak)'
        BY <1>1, <2>1, <2>2, <3>1 DEF LeakInv, StampsTell, ToldOf
      <4>2. ASSUME NEW who \in Leak!Pollers PROVE ToldOf(answer[who])'
        <5>1. CASE answer[who].no = leak.no
          BY <2>1, <2>2, <3>1, <3>5, <4>1, <5>1 DEF ToldOf
        <5>2. CASE answer[who].no # leak.no
          BY <2>1, <2>2, <3>1, <5>2 DEF LeakInv, StampsTell, ToldOf
        <5> QED BY <5>1, <5>2
      <4> QED BY <3>1, <4>1, <4>2 DEF LeakInv, StampsTell
    <3>7. LeakStep
      BY <3>1 DEF LeakStep, Leak!Answers
    <3> QED BY <3>1, <3>2, <3>3, <3>4, <3>6, <3>7 DEF LeakInv
  <2>3. ASSUME Leak!FrameLost, ended' = ended PROVE LeakInv' /\ LeakStep
    <3>1. UNCHANGED <<isWet, upper, lower, mqttWetAt, stamps, onDisk, saveDue, poll, answer, nextPoll, ended>>
      BY <2>3 DEF Leak!FrameLost, Leak!state, Leak!store, Leak!bff
    <3>2. Leak!TypeOK'
      BY <2>1, <3>1 DEF LeakInv, Leak!TypeOK
    <3>3. LeaksNumbered' /\ StampsPast' /\ DryBefore' /\ StampsTell' /\ Leak!ProbesAgree'
      BY <2>1, <3>1 DEF LeakInv, LeaksNumbered, StampsPast, DryBefore, StampsTell, ToldOf, Leak!ProbesAgree
    <3>4. LeakStep
      BY <3>1 DEF LeakStep, Leak!Answers
    <3> QED BY <3>2, <3>3, <3>4 DEF LeakInv
  <2> QED BY <1>3, <2>2, <2>3 DEF Leak!GetsDry
<1> QED BY <1>2, <1>3

LEMMA PollsKeep ==
    ASSUME LeakInv, NEW who \in Leak!Pollers,
           Leak!PollDue \/ Leak!Answered(who) \/ Leak!PollFails(who) \/ Leak!Applied(who)
    PROVE  LeakInv' /\ LeakStep
<1> USE LeakAssumption
<1>1. /\ leakNow \in 1..MaxTime /\ leak \in [no : Nat, at : Nat] /\ shown \in Nat /\ ended \in Nat
      /\ \A p \in Leak!Pollers : answer[p] \in [no : Nat, at : Nat]
      /\ stamps \in [wet : Nat, dry : Nat] /\ mqttWetAt \in Nat
  BY LeakNumbers
<1>2. /\ UNCHANGED <<leakNow, ahead, leaking, leak, upper, lower, mqttWetAt, stamps, onDisk, saveDue, shown, ended,
                     lostStamps, leakReloads>>
      /\ poll' \in [Leak!Pollers -> {"idle", "asked", "answered"}]
      /\ nextPoll' \in 0..(MaxTime + Window)
  <2>1. UNCHANGED <<leakNow, ahead, leaking, leak, upper, lower, mqttWetAt, stamps, onDisk, saveDue, shown, ended,
                     lostStamps, leakReloads>>
    BY DEF Leak!PollDue, Leak!Answered, Leak!PollFails, Leak!Applied, Leak!state, Leak!store, Leak!hist
  <2>2. poll' \in [Leak!Pollers -> {"idle", "asked", "answered"}]
    BY DEF Leak!PollDue, Leak!Answered, Leak!PollFails, Leak!Applied, Leak!Ends, LeakInv, Leak!TypeOK, Leak!Pollers
  <2>3. nextPoll' \in 0..(MaxTime + Window)
    <3>1. nextPoll' \in {nextPoll, leakNow + Window}
      BY DEF Leak!PollDue, Leak!Answered, Leak!PollFails, Leak!Applied, Leak!Ends
    <3>2. nextPoll \in 0..(MaxTime + Window) /\ leakNow \in 1..MaxTime
      BY DEF LeakInv, Leak!TypeOK
    <3> QED BY <3>1, <3>2
  <2> QED BY <2>1, <2>2, <2>3
<1>3. /\ answer' \in [Leak!Pollers -> Leak!Leaks]
      /\ \A p \in Leak!Pollers : answer'[p] \in {answer[p], leak, Leak!NoLeak}
  <2>1. leak \in Leak!Leaks /\ Leak!NoLeak \in Leak!Leaks /\ answer \in [Leak!Pollers -> Leak!Leaks]
    BY DEF LeakInv, Leak!TypeOK, Leak!NoLeak, Leak!Leaks, Leak!Times, Leak!Never
  <2>2. answer' \in {answer, [answer EXCEPT ![who] = leak], [answer EXCEPT ![who] = Leak!NoLeak]}
    BY DEF Leak!PollDue, Leak!Answered, Leak!PollFails, Leak!Applied
  <2> QED BY <2>1, <2>2
<1>4. isWet' \in BOOLEAN /\ (isWet => isWet')
  <2>1. isWet \in BOOLEAN
    BY DEF LeakInv, Leak!TypeOK
  <2> QED
    BY ONLY <2>1, Leak!PollDue \/ Leak!Answered(who) \/ Leak!PollFails(who) \/ Leak!Applied(who), Zenon
       DEF Leak!PollDue, Leak!Answered, Leak!PollFails, Leak!Applied, Leak!state
<1>5. LeakInv'
  <2>1. Leak!TypeOK'
    BY <1>2, <1>3, <1>4 DEF LeakInv, Leak!TypeOK
  <2>2. LeaksNumbered'
    BY <1>1, <1>2, <1>3 DEF LeakInv, LeaksNumbered, Leak!NoLeak
  <2>3. StampsPast' /\ DryBefore' /\ Leak!ProbesAgree'
    BY <1>2, <1>4 DEF LeakInv, StampsPast, DryBefore, Leak!ProbesAgree
  <2>4. StampsTell'
    BY <1>2, <1>3 DEF LeakInv, StampsTell, ToldOf, Leak!NoLeak
  <2> QED BY <2>1, <2>2, <2>3, <2>4 DEF LeakInv
<1>6. LeakStep
  <2> SUFFICES ASSUME NEW p \in Leak!Pollers, Leak!Answers(p)
               PROVE  /\ ~isWet /\ isWet' => lostStamps \/ ~(shown = answer[p].no /\ ended = answer[p].no)
                      /\ Leak!Silent(p) /\ leakNow - stamps.wet > Window => isWet'
    BY DEF LeakStep
  <2>1. p = who /\ Leak!Applied(who)
    <3>1. poll \in [Leak!Pollers -> {"idle", "asked", "answered"}]
      BY DEF LeakInv, Leak!TypeOK
    <3> QED
      BY <3>1 DEF Leak!Answers, Leak!PollDue, Leak!Answered, Leak!PollFails, Leak!Applied, Leak!Ends, Leak!Pollers
  <2>2. isWet' <=> isWet \/ Leak!Forces(answer[p])
    BY <2>1 DEF Leak!Applied
  <2>3. ASSUME ~isWet, isWet', ~lostStamps, shown = answer[p].no, ended = answer[p].no PROVE FALSE
    <3>1. answer[p].no # 0 /\ ~Leak!MqttSawItEnd(answer[p])
      BY <2>2, <2>3 DEF Leak!Forces
    <3> QED BY <1>1, <2>3, <3>1 DEF LeakInv, StampsTell, ToldOf, Leak!MqttSawItEnd
  <2>4. ASSUME Leak!Silent(p), leakNow - stamps.wet > Window PROVE isWet'
    <3>1. answer[p] = leak /\ leaking /\ leak.no # 0 /\ leakNow - leak.at < Window
      BY <1>1, <2>4 DEF Leak!Silent
    <3>2. stamps.dry <= leak.at
      BY <3>1 DEF LeakInv, DryBefore
    <3>3. leakNow - mqttWetAt > Window \/ mqttWetAt = Leak!Never
      BY <2>4 DEF LeakInv, StampsPast
    <3>4. ~Leak!MqttSawItEnd(leak)
      BY <1>1, <3>2 DEF Leak!MqttSawItEnd
    <3> QED BY <2>2, <3>1, <3>3, <3>4 DEF Leak!Forces
  <2> QED BY <2>3, <2>4
<1> QED BY <1>5, <1>6

LEMMA ReloadsKeep ==
    ASSUME LeakInv, Leak!Reload \/ Leak!Restart
    PROVE  LeakInv' /\ LeakStep
<1> USE LeakAssumption
<1>1. /\ isWet' = FALSE /\ upper' = FALSE /\ lower' = FALSE /\ mqttWetAt' = Leak!Never
      /\ Leak!NoPolls(poll') /\ Leak!NoAnswers(answer') /\ nextPoll' = leakNow + Window
      /\ leakReloads < MaxLeakReloads /\ leakReloads' = leakReloads + 1
      /\ UNCHANGED <<leakNow, ahead, leaking, leak, onDisk, shown, ended>>
  BY DEF Leak!Reload, Leak!Restart, Leak!Rediscover, Leak!ReloadKeeps, Leak!hist
<1>2. /\ stamps' \in {stamps, onDisk} /\ saveDue' \in {saveDue, Leak!Never}
      /\ ~lostStamps' => ~lostStamps /\ stamps' = stamps
  <2>1. CASE Leak!Reload
    BY <2>1 DEF Leak!Reload, Leak!ReloadKeeps
  <2>2. CASE Leak!Restart
    <3>1. ~lostStamps' => ~lostStamps /\ stamps = onDisk
      BY ONLY <2>2, Zenon DEF Leak!Restart
    <3> QED BY <2>2, <3>1 DEF Leak!Restart
  <2> QED BY <2>1, <2>2
<1>3. lostStamps' \in BOOLEAN /\ isWet' \in BOOLEAN /\ upper' \in BOOLEAN /\ lower' \in BOOLEAN
  <2>1. lostStamps \in BOOLEAN
    BY DEF LeakInv, Leak!TypeOK
  <2> QED BY ONLY <1>1, <2>1, Leak!Reload \/ Leak!Restart, Zenon DEF Leak!Reload, Leak!Restart
<1>4. leakNow + Window \in 0..(MaxTime + Window) /\ leakReloads + 1 \in 0..MaxLeakReloads /\ leakReloads' # leakReloads
  BY <1>1 DEF LeakInv, Leak!TypeOK
<1>5. Leak!TypeOK'
  <2>1. Leak!NoLeak \in Leak!Leaks /\ Leak!Never \in Leak!Times /\ Leak!Never \in 0..(MaxTime + SaveDelay)
    BY DEF Leak!NoLeak, Leak!Leaks, Leak!Times, Leak!Never
  <2>2. answer' \in [Leak!Pollers -> Leak!Leaks] /\ poll' \in [Leak!Pollers -> {"idle", "asked", "answered"}]
    BY <1>1, <2>1 DEF Leak!NoPolls, Leak!NoAnswers
  <2>3. stamps' \in [wet : Leak!Times, dry : Leak!Times]
    BY <1>2 DEF LeakInv, Leak!TypeOK
  <2> QED BY <1>1, <1>2, <1>3, <1>4, <2>1, <2>2, <2>3 DEF LeakInv, Leak!TypeOK
<1>6. \A who \in Leak!Pollers : answer'[who] = Leak!NoLeak
  BY <1>1 DEF Leak!NoAnswers
<1>7. LeaksNumbered'
  BY <1>1, <1>6, LeakNumbers DEF LeakInv, LeaksNumbered, Leak!NoLeak
<1>8. StampsPast' /\ DryBefore' /\ Leak!ProbesAgree'
  BY <1>1, <1>2 DEF LeakInv, StampsPast, DryBefore, Leak!ProbesAgree
<1>9. StampsTell'
  BY <1>1, <1>2, <1>6 DEF LeakInv, StampsTell, ToldOf, Leak!NoLeak
<1>10. LeakStep
  BY <1>4 DEF LeakStep, Leak!Answers
<1> QED BY <1>5, <1>7, <1>8, <1>9, <1>10 DEF LeakInv

LEMMA LeakGoesOn == LeakInv /\ [Leak!Next]_(Leak!vars) => LeakInv' /\ LeakStep
<1> SUFFICES ASSUME LeakInv, [Leak!Next]_(Leak!vars) PROVE LeakInv' /\ LeakStep
  OBVIOUS
<1> USE LeakAssumption
<1>1. CASE Leak!Save
  <2>1. /\ onDisk' = stamps /\ saveDue' = Leak!Never
        /\ UNCHANGED <<leakNow, ahead, leaking, leak, isWet, upper, lower, mqttWetAt, stamps, poll, answer, nextPoll,
                       shown, ended, lostStamps, leakReloads>>
    BY <1>1 DEF Leak!Save, Leak!state, Leak!bff, Leak!hist
  <2>2. Leak!TypeOK'
    BY <2>1 DEF LeakInv, Leak!TypeOK, Leak!Never
  <2>3. LeaksNumbered' /\ StampsPast' /\ DryBefore' /\ StampsTell' /\ Leak!ProbesAgree'
    BY <2>1 DEF LeakInv, LeaksNumbered, StampsPast, DryBefore, StampsTell, ToldOf, Leak!ProbesAgree
  <2> QED BY <2>1, <2>2, <2>3 DEF LeakInv, LeakStep, Leak!Answers
<1>2. CASE Leak!Tick
  <2>1. /\ leakNow < MaxTime /\ leakNow' = leakNow + 1
        /\ UNCHANGED <<ahead, leaking, leak, isWet, upper, lower, mqttWetAt, stamps, onDisk, saveDue, poll, answer,
                       nextPoll, shown, ended, lostStamps, leakReloads>>
    BY <1>2 DEF Leak!Tick, Leak!state, Leak!store, Leak!bff, Leak!hist
  <2>2. Leak!TypeOK'
    BY <2>1 DEF LeakInv, Leak!TypeOK
  <2>3. LeaksNumbered' /\ StampsPast' /\ DryBefore' /\ StampsTell' /\ Leak!ProbesAgree'
    BY <2>1, LeakNumbers DEF LeakInv, LeaksNumbered, StampsPast, DryBefore, StampsTell, ToldOf, Leak!ProbesAgree
  <2> QED BY <2>1, <2>2, <2>3 DEF LeakInv, LeakStep, Leak!Answers
<1>3. CASE UNCHANGED Leak!vars
  <2>1. UNCHANGED <<leakNow, ahead, leaking, leak, isWet, upper, lower, mqttWetAt, stamps, onDisk, saveDue, poll, answer,
                    nextPoll, shown, ended, lostStamps, leakReloads>>
    BY <1>3 DEF Leak!vars, Leak!state, Leak!store, Leak!bff, Leak!hist
  <2>2. Leak!TypeOK'
    BY <2>1 DEF LeakInv, Leak!TypeOK
  <2>3. LeaksNumbered' /\ StampsPast' /\ DryBefore' /\ StampsTell' /\ Leak!ProbesAgree'
    BY <2>1 DEF LeakInv, LeaksNumbered, StampsPast, DryBefore, StampsTell, ToldOf, Leak!ProbesAgree
  <2> QED BY <2>1, <2>2, <2>3 DEF LeakInv, LeakStep, Leak!Answers
<1>4. CASE Leak!PollDue
  BY <1>4, PollsKeep, "timer" \in Leak!Pollers DEF Leak!Pollers
<1> QED BY <1>1, <1>2, <1>3, <1>4, FramesKeep, PollsKeep, ReloadsKeep DEF Leak!Next

\* For any interval, margin and delay: a poll raises no leak whose wet and dry
\* frames were handled, and raises the one whose wet frame was lost.
THEOREM LeaksTold == Leak!Spec => LeaksAreTold
<1>1. LeakInv /\ [Leak!Next]_(Leak!vars)
        => [\A who \in Leak!Pollers : ~isWet /\ isWet' /\ Leak!Answers(who) =>
              lostStamps \/ ~(shown = answer[who].no /\ ended = answer[who].no)]_(Leak!vars)
  BY LeakGoesOn DEF LeakStep
<1>2. LeakInv /\ [Leak!Next]_(Leak!vars)
        => [\A who \in Leak!Pollers :
              Leak!Answers(who) /\ Leak!Silent(who) /\ leakNow - stamps.wet > Window => isWet']_(Leak!vars)
  BY LeakGoesOn DEF LeakStep
<1>3. LeakInv => Leak!ProbesAgree
  BY DEF LeakInv
<1> QED BY <1>1, <1>2, <1>3, LeakStarts, LeakGoesOn, PTL
        DEF Leak!Spec, LeaksAreTold, Leak!LeaksAreTold, Leak!ShownEndStays, Leak!SilentLeakIsForced
-----------------------------------------------------------------------------
(* The sum: a step of one part leaves the variables of the others alone.    *)

LEMMA QueryParts ==
    ASSUME [PartsNext]_partsVars
    PROVE  /\ [Next]_vars /\ [Tank!Next]_(Tank!vars) /\ [Scene!Next]_(Scene!vars) /\ [Leak!Next]_(Leak!vars)
  BY DEF PartsNext, partsVars, queryVars, tankVars, sceneVars, leakVars, Tank!vars, Tank!channel, Tank!counts,
     Scene!vars, Leak!vars, Leak!state, Leak!store, Leak!bff, Leak!hist

\* Every part behaves as its own specification says, so what is proved of the
\* queries, the tank, the catalogs and the leaks holds in the sum.
THEOREM QueryPartsAreWhole == PartsSpec => Spec /\ Tank!Spec /\ Scene!Spec /\ Leak!Spec
<1>1. PartsInit => Init /\ Tank!Init /\ Scene!Init /\ Leak!Init
  BY DEF PartsInit
<1> QED BY <1>1, QueryParts, PTL DEF PartsSpec, Spec, Tank!Spec, Scene!Spec, Leak!Spec

\* The alert and the catalogs, in the sum.
THEOREM AnswersHeld == PartsSpec => []AnswersAreHeld
<1>1. Tank!AlertIsKept /\ Scene!CatalogsAreCurrent => AnswersAreHeld
  BY DEF AnswersAreHeld
<1> QED BY <1>1, QueryPartsAreWhole, AlertKept, CatalogsCurrent, PTL

\* The leaks, in the sum.
THEOREM LeaksToldInTheSum == PartsSpec => LeaksAreTold
BY QueryPartsAreWhole, LeaksTold

\* The part that runs has the types of its module.
THEOREM QueriesTyped == PartsSpec => []AllTypeOK
<1> DEFINE Inv == LockInv /\ TankInv /\ SceneInv /\ LeakInv
<1>1. PartsInit => Inv
  BY InitInv, QueryAssumption, TankStarts, SceneStarts, LeakStarts DEF PartsInit, IInv
<1>2. Inv /\ [PartsNext]_partsVars => Inv'
  BY QueryParts, QueryAssumption, TypeStep, LockStep, TankGoesOn, SceneGoesOn, LeakGoesOn DEF LockInv
<1>3. Inv => AllTypeOK
  BY DEF AllTypeOK, LockInv, TankInv, SceneInv, LeakInv
<1> QED BY <1>1, <1>2, <1>3, PTL DEF PartsSpec
=============================================================================
