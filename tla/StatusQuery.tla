---------------------------- MODULE StatusQuery ----------------------------
(***************************************************************************)
(* Status queries over one AWS IoT session.  The broker does not answer a  *)
(* publish it refuses, it closes the session, so queries go out one at a   *)
(* time under a lock, each with a window, and a drop inside a window is    *)
(* charged to that device: twice, and it is quarantined; three models in a *)
(* row, and the account is taken to refuse every query.                    *)
(* External: the broker and the network.  A refusal is assumed to arrive   *)
(* within its query's window (const.py 448).                               *)
(***************************************************************************)
EXTENDS Naturals, FiniteSets, Sequences

CONSTANTS
    Devices,        \* with a topic, not a group, SKU not excluded
    Outlets,        \* those with power monitoring
    Sku,            \* [Devices -> model]
    Requests,       \* concurrent async_request_status(user=True) calls
    Sweep,          \* the sweep, as a taker of the lock
    Strikes,        \* MQTT_STATUS_QUERY_QUARANTINE_STRIKES
    RefusalSkus,    \* MQTT_STATUS_QUERY_ACCOUNT_REFUSAL_SKUS
    Spacing,        \* MQTT_STATUS_QUERY_SPACING, in ticks
    Reconnect,      \* RECONNECT_BASE, in ticks
    MaxDrops,       \* bound: drops that no query caused
    MaxCount,       \* bound: where the strikes and the history stop counting
    MaxRestarts,    \* bound: silence reconnects and credential changes
    NoDevice

Askers == Requests \cup {Sweep}

ASSUME QueryAssumption ==
    /\ IsFiniteSet(Devices) /\ Outlets \subseteq Devices /\ NoDevice \notin Devices
    /\ Sweep \notin Requests
    /\ Strikes \in Nat \ {0} /\ RefusalSkus \in Nat \ {0}
    /\ Spacing \in Nat \ {0} /\ Reconnect \in Nat /\ 2 * Spacing < Reconnect
    /\ MaxDrops \in Nat /\ MaxRestarts \in Nat
    /\ MaxCount \in Nat /\ MaxCount > Strikes + MaxRestarts

VARIABLES
    up, wait,       \* the session, and the ticks until the loop tries again
    refuses,        \* external: the devices whose query the broker refuses
    at,             \* of each asker: idle, next (the sweep, between two), wait, open
    want, left,     \* the device it asks, and what is left of its window
    live,           \* its query reached the broker on this session
    queue,          \* askers waiting for _status_query_lock
    todo,           \* targets the sweep has yet to query
    marker,         \* _status_query_in_flight
    strikes, quarantine, unanswered, accountRefused,
    caused,         \* history: sessions the broker closed on the device's query
    drops, restarts

session == <<up, wait, live>>
locks   == <<at, want, left, queue, todo>>
blame   == <<strikes, quarantine, unanswered, accountRefused>>
hist    == <<caused, drops, restarts>>
vars    == <<session, refuses, locks, marker, blame, hist>>

Models(ds) == {Sku[d] : d \in ds}

TypeOK ==
    /\ up \in BOOLEAN /\ wait \in 0..Reconnect /\ refuses \subseteq Devices
    /\ at \in [Askers -> {"idle", "next", "wait", "open"}]
    /\ want \in [Askers -> Devices \cup {NoDevice}] /\ left \in [Askers -> 0..Spacing]
    /\ live \in [Askers -> BOOLEAN] /\ queue \in Seq(Askers) /\ todo \subseteq Devices
    /\ marker \in Devices \cup {NoDevice}
    /\ strikes \in [Devices -> 0..MaxCount] /\ quarantine \subseteq Devices
    /\ unanswered \subseteq Models(Devices) /\ accountRefused \in BOOLEAN
    /\ caused \in [Devices -> 0..MaxCount] /\ drops \in 0..MaxDrops /\ restarts \in 0..MaxRestarts

Init ==
    /\ up = FALSE /\ wait = 0 /\ refuses \in SUBSET Devices
    /\ at = [a \in Askers |-> "idle"] /\ want = [a \in Askers |-> NoDevice]
    /\ left = [a \in Askers |-> 0] /\ live = [a \in Askers |-> FALSE]
    /\ queue = <<>> /\ todo = {} /\ marker = NoDevice
    /\ strikes = [d \in Devices |-> 0] /\ quarantine = {}
    /\ unanswered = {} /\ accountRefused = FALSE
    /\ caused = [d \in Devices |-> 0] /\ drops = 0 /\ restarts = 0
-----------------------------------------------------------------------------
Open(a)     == at[a] = "open"
Held        == \E a \in Askers : Open(a)
\* Bug: queries are not serialised.
FreeForAll  == queue = <<>>
Free        == ~Held /\ queue = <<>>
Possible(d) == up /\ d \notin quarantine /\ ~accountRefused

\* Bug: the query goes out before the marker is set.
QueryUnmarked(a, d) ==
    /\ at' = [at EXCEPT ![a] = "open"] /\ want' = [want EXCEPT ![a] = d]
    /\ left' = [left EXCEPT ![a] = Spacing] /\ live' = [live EXCEPT ![a] = up]
    /\ UNCHANGED marker

\* Publish under the lock.  On a dead client nothing is sent, and the window
\* is held all the same.
Query(a, d) ==
    /\ at' = [at EXCEPT ![a] = "open"] /\ want' = [want EXCEPT ![a] = d]
    /\ left' = [left EXCEPT ![a] = Spacing] /\ live' = [live EXCEPT ![a] = up]
    /\ marker' = d

Enqueue(a, d) ==
    /\ at' = [at EXCEPT ![a] = "wait"] /\ want' = [want EXCEPT ![a] = d]
    /\ queue' = Append(queue, a)
    /\ UNCHANGED <<left, live, marker>>

\* The timer's callback: every device, or the outlets between two full sweeps.
CanSweep == at[Sweep] = "idle" /\ up /\ ~accountRefused
\* Bug: no sweep after the connect-time one is ever a full one.
StartShortSweep(ds) ==
    /\ CanSweep
    /\ at' = [at EXCEPT ![Sweep] = "next"] /\ todo' = (ds \cap Outlets) \ quarantine
    /\ UNCHANGED <<session, refuses, want, left, queue, marker, blame, hist>>

StartSweep(ds) ==
    /\ CanSweep
    /\ at' = [at EXCEPT ![Sweep] = "next"] /\ todo' = ds \ quarantine
    /\ UNCHANGED <<session, refuses, want, left, queue, marker, blame, hist>>

\* Bug: the sweep goes on without a session.
SweepNextBlind(d) ==
    /\ at[Sweep] = "next" /\ d \in todo
    /\ todo' = todo \ {d}
    /\ IF Free THEN Query(Sweep, d) /\ UNCHANGED queue ELSE Enqueue(Sweep, d)
    /\ UNCHANGED <<up, wait, refuses, blame, hist>>

SweepNext(d) ==
    /\ at[Sweep] = "next" /\ up /\ d \in todo
    /\ todo' = todo \ {d}
    /\ IF Free THEN Query(Sweep, d) /\ UNCHANGED queue ELSE Enqueue(Sweep, d)
    /\ UNCHANGED <<up, wait, refuses, blame, hist>>

SweepEnd ==
    /\ at[Sweep] = "next" /\ (~up \/ todo = {})
    /\ at' = [at EXCEPT ![Sweep] = "idle"] /\ todo' = {}
    /\ UNCHANGED <<session, refuses, want, left, queue, marker, blame, hist>>

\* The service and its bursts.  A call that is throttled, or finds the lock
\* free and its query impossible, changes nothing.  Calls that will not wait for
\* a held lock (kettle, confirmer) are among these.
Request(r, d) ==
    /\ at[r] = "idle"
    /\ IF Free THEN Possible(d) /\ Query(r, d) /\ UNCHANGED queue ELSE Enqueue(r, d)
    /\ UNCHANGED <<up, wait, refuses, todo, blame, hist>>

\* The lock passes to the longest waiting.  A request checks again that its
\* query may go out; the sweep does not.
Acquire ==
    /\ ~Held /\ queue # <<>>
    /\ LET a == Head(queue) IN
         IF a = Sweep \/ Possible(want[a])
         THEN Query(a, want[a])
         ELSE at' = [at EXCEPT ![a] = "idle"] /\ want' = [want EXCEPT ![a] = NoDevice]
              /\ UNCHANGED <<left, live, marker>>
    /\ queue' = Tail(queue)
    /\ UNCHANGED <<up, wait, refuses, todo, blame, hist>>

\* The window ends.  A session that outlived it clears the unanswered models.
Close(a) ==
    /\ Open(a) /\ left[a] = 0
    /\ at' = [at EXCEPT ![a] = IF a = Sweep THEN "next" ELSE "idle"]
    /\ want' = [want EXCEPT ![a] = NoDevice] /\ live' = [live EXCEPT ![a] = FALSE]
    /\ unanswered' = IF up THEN {} ELSE unanswered
    /\ marker' = IF a = Sweep \/ marker = want[a] THEN NoDevice ELSE marker
    /\ UNCHANGED <<up, wait, refuses, left, queue, todo, strikes, quarantine, accountRefused, hist>>
-----------------------------------------------------------------------------
OneMore(n) == IF n < MaxCount THEN n + 1 ELSE n

\* Bug: devices are counted, not models.
BlameDevices ==
    /\ marker' = NoDevice
    /\ IF marker = NoDevice THEN UNCHANGED blame
       ELSE /\ strikes' = [strikes EXCEPT ![marker] = OneMore(@)]
            /\ unanswered' = unanswered \cup {Sku[marker]}
            /\ IF Cardinality({d \in Devices : strikes'[d] > 0}) >= RefusalSkus
               THEN accountRefused' = TRUE /\ UNCHANGED quarantine
               ELSE /\ quarantine' = IF strikes'[marker] >= Strikes
                                     THEN quarantine \cup {marker} ELSE quarantine
                    /\ UNCHANGED accountRefused

\* _blame_status_query_for_drop
Blame ==
    /\ marker' = NoDevice
    /\ IF marker = NoDevice THEN UNCHANGED blame
       ELSE /\ strikes' = [strikes EXCEPT ![marker] = OneMore(@)]
            /\ unanswered' = unanswered \cup {Sku[marker]}
            /\ IF Cardinality(unanswered') >= RefusalSkus
               THEN accountRefused' = TRUE /\ UNCHANGED quarantine
               ELSE /\ quarantine' = IF strikes'[marker] >= Strikes
                                     THEN quarantine \cup {marker} ELSE quarantine
                    /\ UNCHANGED accountRefused

\* The session drops; the connection loop backs off before it tries again.
Drop ==
    /\ up /\ up' = FALSE /\ wait' = Reconnect /\ live' = [a \in Askers |-> FALSE]
    /\ Blame
    /\ UNCHANGED <<refuses, locks, restarts>>

Refused(a) == Open(a) /\ live[a] /\ want[a] \in refuses

Refuse(a) ==
    /\ Refused(a) /\ Drop
    /\ caused' = [caused EXCEPT ![want[a]] = OneMore(@)] /\ UNCHANGED drops

NetworkDrop ==
    /\ drops < MaxDrops /\ drops' = drops + 1
    /\ Drop /\ UNCHANGED caused

\* async_stop and async_start, for a silent session or changed credentials: the
\* loop's cancellation is no disconnect to blame, and it connects at once.
Restart ==
    /\ restarts < MaxRestarts /\ restarts' = restarts + 1
    /\ up' = FALSE /\ wait' = 0 /\ live' = [a \in Askers |-> FALSE]
    /\ UNCHANGED <<refuses, locks, marker, blame, caused, drops>>

\* _on_mqtt_connected sweeps, unless a sweep of the last session still runs.
Connect ==
    /\ ~up /\ wait = 0 /\ up' = TRUE
    /\ IF at[Sweep] = "idle" /\ ~accountRefused
       THEN at' = [at EXCEPT ![Sweep] = "next"] /\ todo' = Devices \ quarantine
       ELSE UNCHANGED <<at, todo>>
    /\ UNCHANGED <<wait, live, refuses, want, left, queue, marker, blame, hist>>

\* Bug: the clock moves whether a window is open or not.
TickAll ==
    /\ Held \/ wait > 0
    /\ at[Sweep] # "next" /\ (Held \/ queue = <<>>)
    /\ \A a \in Askers : Open(a) => left[a] > 0 /\ ~Refused(a)
    /\ left' = [a \in Askers |-> left[a] - 1]
    /\ wait' = IF wait > 0 THEN wait - 1 ELSE 0
    /\ UNCHANGED <<up, live, refuses, at, want, queue, todo, marker, blame, hist>>

\* Timers fire in order, and what is ready runs before the clock moves.
Tick ==
    /\ Held \/ wait > 0
    /\ at[Sweep] # "next" /\ (Held \/ queue = <<>>)
    /\ \A a \in Askers : Open(a) => left[a] > 0 /\ ~Refused(a)
    /\ left' = [a \in Askers |-> IF Open(a) THEN left[a] - 1 ELSE left[a]]
    /\ wait' = IF wait > 0 THEN wait - 1 ELSE 0
    /\ UNCHANGED <<up, live, refuses, at, want, queue, todo, marker, blame, hist>>

Sweeping == SweepEnd \/ Acquire \/ \E d \in Devices : SweepNext(d)
Answers  == \E a \in Askers : Refuse(a) \/ Close(a)

Next ==
    \/ Sweeping \/ Answers \/ Connect \/ Tick
    \/ \E ds \in {Devices, Outlets} : StartSweep(ds)
    \/ \E r \in Requests, d \in Devices : Request(r, d)
    \/ NetworkDrop \/ Restart

Spec == Init /\ [][Next]_vars

\* The loop's retries, the sweep's next step, the lock and the timers all run;
\* once a full sweep is due the next timer tick makes it one.
FairSpec ==
    /\ Spec /\ WF_vars(Sweeping) /\ WF_vars(Answers) /\ WF_vars(Connect) /\ WF_vars(Tick)
    /\ SF_vars(StartSweep(Devices))
-----------------------------------------------------------------------------
\* At most one query is open, and a drop now would be charged to its device or
\* to none: the lock keeps the sweep and the requests apart.
MarkerNamesOpenQuery ==
    /\ \A a, b \in Askers : Open(a) /\ Open(b) => a = b
    /\ \A a \in Askers : Open(a) => marker \in {NoDevice, want[a]}
    /\ ~Held => marker = NoDevice

\* Every session the broker closed is charged to the device that was queried,
\* and a device is charged with nothing else but drops of the network.
ChargesAreRight ==
    \A d \in Devices : caused[d] <= strikes[d] /\ strikes[d] <= caused[d] + drops

\* A device takes the session down no more often than its strikes allow: the
\* sweep of a later session leaves it out, and one that is waiting for the lock
\* with a target quarantined since finds the session gone.  Only a restart can
\* bring the session back under such a sweep.
RefusalsAreRationed ==
    \A d \in Devices : caused[d] <= Strikes + restarts

\* Together: the queries are told apart, charged and rationed.
QueriesAreFair == MarkerNamesOpenQuery /\ ChargesAreRight /\ RefusalsAreRationed

\* Units of too few models do not make the account refuse.
AccountIsNotBlamed ==
    Cardinality(Models(refuses)) + drops < RefusalSkus => ~accountRefused

\* Reconnect churn ends (const.py 453-458).
SessionSettles == <>[]up

\* A device is asked again and again until it is quarantined or the account is
\* given up, whatever the service's callers do with the lock.
DevicesStayAsked ==
    \A d \in Devices : []<>(marker = d) \/ <>[](d \in quarantine \/ accountRefused)

\* Together: refusals neither churn the session nor silence the other devices.
QueriesGoOn == SessionSettles /\ DevicesStayAsked
=============================================================================
