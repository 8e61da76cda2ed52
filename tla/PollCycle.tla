------------------------------ MODULE PollCycle ------------------------------
(***************************************************************************)
(* The whole-house cloud poll: which devices a cycle asks, the reads it    *)
(* gathers, the 429 and header back-offs that own the interval, and the    *)
(* reads of one device beside it (a kettle's follow-ups).  What the poll   *)
(* reads from elsewhere is chosen anew each cycle: the devices a local     *)
(* transport has just reported on, those off and unchanged, the pacing     *)
(* (BudgetDay) and the API's rate-limit headers.                           *)
(***************************************************************************)
EXTENDS RequestBudget, FiniteSets

CONSTANTS
    Devices,
    Held,           \* groups, H5054s, BFF thermometers: never a cloud read
    Missing,        \* other devices the API answers "not exist" for
    Kettles,        \* devices read outside the poll
    CanDisable,     \* devices the user may disable
    BaseInterval, PacedTo,          \* the intervals pacing may ask for
    MaxSkips,       \* MAX_LOCAL_FRESH_SKIPS
    Divisor,        \* IDLE_DEVICE_POLL_DIVISOR
    DefaultBackoff, RetryAfters,    \* seconds of a 429
    Allowances, Resets,             \* the headers' values
    MinRemaining,   \* KETTLE_FOLLOWUP_MIN_REMAINING
    Outcomes,       \* of a cloud read
    MaxRefusals,    \* bound: 429s
    MaxFailures,    \* bound: reads that fail otherwise
    NoDevice

ASSUME PollAssumption ==
    /\ Held \cup Missing \cup Kettles \cup CanDisable \subseteq Devices /\ NoDevice \notin Devices
    /\ IsFiniteSet(Devices) /\ Held \cap Missing = {}
    /\ BaseInterval \in 1..MaxInterval /\ PacedTo \subseteq BaseInterval..MaxInterval /\ PacedTo # {}
    /\ MaxSkips \in Nat \ {0} /\ Divisor \in Nat \ {0}
    /\ DefaultBackoff \in Nat /\ RetryAfters \subseteq Nat
    /\ Allowances \subseteq Nat /\ Resets \subseteq Nat /\ MinRemaining \in Nat
    /\ Outcomes \subseteq {"ok", "limited", "outage", "error", "auth"}
    /\ MaxRefusals \in Nat /\ MaxFailures \in Nat

VARIABLES
    phase,          \* of the poll: idle, fetch (the gather), tail (LAN reads)
    armed,          \* a poll is scheduled
    disabled,       \* devices with every entity disabled
    known,          \* devices with a state in _states
    readOnce,       \* devices with a successful cloud read behind them
    interval,       \* update_interval
    rateLimited, headerDeferred,
    cycleLimited, cached,           \* _cycle_rate_limited, _cycle_cached_ids
    asked, waiting, result,         \* this cycle's reads
    deferred, readable, outage,     \* locals of _async_poll_all
    extra,          \* the device async_read_device reads
    skips, counts,  \* _local_fresh_skips, _poll_cycle_counts
    remaining, reset,               \* the headers of the last response
    lastOk,         \* last_update_success
    refusals, failures,
    since           \* cycles since the device was asked or a cycle deferred, up to one past LongestWait

cycle   == <<asked, waiting, result, deferred, readable, outage>>
limits  == <<rateLimited, headerDeferred, cycleLimited, cached>>
api     == <<remaining, reset, refusals, failures>>
runs    == <<skips, counts, since>>
vars    == <<phase, armed, disabled, known, readOnce, interval, limits, cycle, extra, runs, api, lastOk>>

\* The run of skips starts over at each beat sat out, and the beats come round.
LongestWait == Divisor * (MaxSkips + 1) - 1

Results == {"none", "state", "outage", "error", "auth"}

TypeOK ==
    /\ phase \in {"idle", "fetch", "tail"}
    /\ armed \in BOOLEAN /\ lastOk \in BOOLEAN
    /\ disabled \subseteq CanDisable /\ known \subseteq Devices /\ readOnce \subseteq known
    /\ interval \in Nat
    /\ rateLimited \in BOOLEAN /\ headerDeferred \in BOOLEAN /\ cycleLimited \in BOOLEAN
    /\ cached \subseteq Devices
    /\ asked \subseteq Devices /\ waiting \subseteq asked
    /\ result \in [Devices -> Results]
    /\ deferred \in BOOLEAN /\ readable \in BOOLEAN /\ outage \in BOOLEAN
    /\ extra \in Kettles \cup {NoDevice}
    /\ skips \in [Devices -> 0..MaxSkips] /\ counts \in [Devices -> 0..(Divisor - 1)]
    /\ remaining \in Nat /\ reset \in Nat
    /\ refusals \in 0..MaxRefusals /\ failures \in 0..MaxFailures
    /\ since \in [Devices -> Nat]

\* Every device starts its runs at an offset of its own.
Init ==
    /\ phase = "idle" /\ armed = TRUE /\ lastOk = TRUE
    /\ disabled = {} /\ known = {} /\ readOnce = {}
    /\ interval = BaseInterval
    /\ rateLimited = FALSE /\ headerDeferred = FALSE /\ cycleLimited = FALSE /\ cached = {}
    /\ asked = {} /\ waiting = {} /\ result = [d \in Devices |-> "none"]
    /\ deferred = FALSE /\ readable = TRUE /\ outage = FALSE
    /\ extra = NoDevice
    /\ skips \in [Devices -> 0..(MaxSkips - 1)] /\ counts \in [Devices -> 0..(Divisor - 1)]
    /\ remaining = 100 /\ reset = 0
    /\ refusals = 0 /\ failures = 0
    /\ since = [d \in Devices |-> 0]
-----------------------------------------------------------------------------
(* The choice of devices.                                                   *)

\* Bug: a device may be skipped for as long as local readings keep coming.
LocallyFreshForEver(pollable, fresh) == pollable \cap fresh \cap known

\* Devices a local reading stands in for, of those with a fresh one.
LocallyFresh(pollable, fresh) ==
    {d \in pollable \cap fresh \cap known : skips[d] < MaxSkips}

\* The full set would overspend the day at the configured interval.
Tight(pollable) == PollExceedsBudget(Cardinality(pollable), BaseInterval)

\* Devices sitting this cycle out, of those off and unchanged.
HeldBack(candidates, idle) ==
    {d \in candidates \cap idle \cap known : counts[d] # 0}

\* A "poll one cycle in N" beat; every candidate's advances.
Advance(candidates) ==
    counts' = [d \in Devices |-> IF d \in candidates THEN (counts[d] + 1) % Divisor ELSE counts[d]]

\* Bug: the cycle after a deferral reads the same headers and defers again.
DefersAgain(pollable, resetIn) ==
    pollable # {} /\ ~rateLimited /\ Defers(remaining, resetIn, Cardinality(pollable))

\* The headers say the allowance does not cover the cycle.  One deferral at a
\* time; a 429 back-off owns the interval while it lasts.
DefersCycle(pollable, resetIn) ==
    /\ pollable # {} /\ ~rateLimited /\ ~headerDeferred
    /\ Defers(remaining, resetIn, Cardinality(pollable))

\* _defer_for_rate_limit_headers, then a read for every device left.
Ask(pollable, resetIn) ==
    /\ deferred' = DefersCycle(pollable, resetIn)
    /\ headerDeferred' = (deferred' \/ (headerDeferred /\ (pollable = {} \/ rateLimited)))
    /\ interval' = IF deferred' THEN HeaderBackoffInterval(BaseInterval, resetIn) ELSE interval
    /\ asked' = IF deferred' THEN {} ELSE pollable
    /\ waiting' = asked'
    /\ since' = [d \in Devices |->
         IF deferred' \/ d \in asked' \cup disabled THEN 0 ELSE Least(since[d], LongestWait) + 1]

\* Bug: the devices left are looked at for one that could clear a back-off.
StartPollReadableLeft(fresh, idle, resetIn) ==
    LET enabled  == Devices \ disabled
        local    == LocallyFresh(enabled, fresh)
        pollable == enabled \ local
        left     == pollable \ (IF Tight(enabled) THEN HeldBack(pollable, idle) ELSE {})
    IN  /\ phase = "idle" /\ armed
        /\ phase' = "fetch" /\ armed' = FALSE
        /\ readable' = TRUE
        /\ skips' = [d \in Devices |->
             IF d \notin enabled \cap known THEN skips[d] ELSE IF d \in local THEN skips[d] + 1 ELSE 0]
        /\ IF Tight(enabled) THEN Advance(pollable) ELSE UNCHANGED counts
        /\ Ask(left, resetIn)
        /\ result' = [d \in Devices |-> "none"] /\ outage' = FALSE
        /\ cycleLimited' = FALSE /\ cached' = {}
        /\ UNCHANGED <<disabled, known, readOnce, rateLimited, extra, api, lastOk>>

\* _async_poll_all up to the gather.
StartPoll(fresh, idle, resetIn) ==
    LET enabled  == Devices \ disabled
        local    == LocallyFresh(enabled, fresh)
        pollable == enabled \ local
        left     == pollable \ (IF Tight(enabled) THEN HeldBack(pollable, idle) ELSE {})
    IN  /\ phase = "idle" /\ armed
        /\ phase' = "fetch" /\ armed' = FALSE
        /\ readable' = (enabled \ Held # {})
        /\ skips' = [d \in Devices |->
             IF d \notin enabled \cap known THEN skips[d] ELSE IF d \in local THEN skips[d] + 1 ELSE 0]
        /\ IF Tight(enabled) THEN Advance(pollable) ELSE UNCHANGED counts
        /\ Ask(left, resetIn)
        /\ result' = [d \in Devices |-> "none"] /\ outage' = FALSE
        /\ cycleLimited' = FALSE /\ cached' = {}
        /\ UNCHANGED <<disabled, known, readOnce, rateLimited, extra, api, lastOk>>
-----------------------------------------------------------------------------
(* A read of one device, in the poll or beside it.                          *)

\* Bug: a 429 sets the interval it came with.
BackOffTo(wait) ==
    IF rateLimited THEN UNCHANGED <<rateLimited, interval>>
    ELSE rateLimited' = TRUE /\ interval' = wait

\* The first 429 backs off, never below the interval in force.
BackOff(wait) ==
    IF rateLimited THEN UNCHANGED <<rateLimited, interval>>
    ELSE rateLimited' = TRUE /\ interval' = Greatest(wait, interval)

Headers == remaining' \in Allowances /\ reset' \in Resets

\* _fetch_device_state_bounded: a state it returns is committed at once, be it
\* a fresh one, the one held, or an empty one.
Fetched(d, outcome) ==
    \/ /\ d \in Held
       /\ cached' = cached \cup {d} /\ known' = known \cup {d}
       /\ UNCHANGED <<readOnce, rateLimited, interval, cycleLimited, api>>
    \/ /\ d \in Missing
       /\ cached' = cached \cup {d} /\ known' = known \cup {d}
       /\ Headers
       /\ UNCHANGED <<readOnce, rateLimited, interval, cycleLimited, refusals, failures>>
    \/ /\ d \notin Held \cup Missing /\ outcome = "ok"
       /\ known' = known \cup {d} /\ readOnce' = readOnce \cup {d}
       /\ Headers
       /\ UNCHANGED <<cached, rateLimited, interval, cycleLimited, refusals, failures>>
    \/ /\ d \notin Held \cup Missing /\ outcome = "limited"
       /\ refusals < MaxRefusals /\ refusals' = refusals + 1
       /\ cached' = cached \cup {d} /\ known' = known \cup {d}
       /\ cycleLimited' = TRUE
       /\ \E wait \in RetryAfters \cup {DefaultBackoff} : BackOff(wait)
       /\ Headers
       /\ UNCHANGED <<readOnce, failures>>
    \/ /\ d \notin Held \cup Missing /\ outcome \in {"outage", "error", "auth"}
       /\ failures < MaxFailures /\ failures' = failures + 1
       /\ IF outcome = "outage" THEN UNCHANGED <<remaining, reset>> ELSE Headers
       /\ UNCHANGED <<cached, known, readOnce, rateLimited, interval, cycleLimited, refusals>>

ReadEnds(d, outcome) ==
    /\ phase = "fetch" /\ d \in waiting
    /\ Fetched(d, outcome)
    /\ waiting' = waiting \ {d}
    /\ result' = [result EXCEPT ![d] =
         IF d \in Held \cup Missing \/ outcome \in {"ok", "limited"} THEN "state" ELSE outcome]
    /\ UNCHANGED <<phase, armed, disabled, headerDeferred, asked, deferred, readable, outage, extra, runs, lastOk>>

\* A kettle's follow-up, when no poll runs and the allowance has room; that the
\* day's budget has room too is left open.
StartExtra(d) ==
    /\ phase = "idle" /\ extra = NoDevice
    /\ ~rateLimited /\ remaining >= MinRemaining
    /\ extra' = d
    /\ UNCHANGED <<phase, armed, disabled, known, readOnce, interval, limits, cycle, runs, api, lastOk>>

ExtraEnds(outcome) ==
    /\ extra # NoDevice
    /\ Fetched(extra, outcome)
    /\ extra' = NoDevice
    /\ UNCHANGED <<phase, armed, disabled, headerDeferred, cycle, runs, lastOk>>
-----------------------------------------------------------------------------
(* The end of a cycle.                                                      *)

Fresh == {d \in asked : result[d] = "state"} \ cached

\* Real reads succeed in a cycle without a 429, or no device is left to read.
Recovers == rateLimited /\ ~cycleLimited /\ (Fresh # {} \/ ~readable)

\* _apply_budget_pacing, unless a back-off owns the interval.
Pace(base) ==
    IF rateLimited' \/ deferred THEN interval' = base ELSE \E paced \in PacedTo : interval' = paced

\* An invalid key ends the cycle: no poll is scheduled until a push.
GatherRefused ==
    /\ phase = "fetch" /\ waiting = {} /\ \E d \in asked : result[d] = "auth"
    /\ phase' = "idle"
    /\ lastOk' = FALSE
    /\ UNCHANGED <<armed, disabled, known, readOnce, interval, limits, cycle, extra, runs, api>>

Gathered ==
    /\ phase = "fetch" /\ waiting = {} /\ ~\E d \in asked : result[d] = "auth"
    /\ phase' = "tail"
    /\ rateLimited' = (rateLimited /\ ~Recovers)
    /\ Pace(IF Recovers THEN BaseInterval ELSE interval)
    /\ outage' = (/\ asked \ cached # {} /\ Fresh = {}
                  /\ Cardinality({d \in asked : result[d] = "outage"}) = Cardinality(asked \ cached))
    /\ UNCHANGED <<armed, disabled, known, readOnce, headerDeferred, cycleLimited, cached,
                   asked, waiting, result, deferred, readable, extra, runs, api, lastOk>>

\* Bug: a 429 of the cycle is not looked at.
CycleEndsDown ==
    /\ phase = "tail"
    /\ phase' = "idle" /\ armed' = TRUE
    /\ lastOk' = ~outage
    /\ UNCHANGED <<disabled, known, readOnce, interval, limits, cycle, extra, runs, api>>

\* After the LAN reads: a total outage is reported, and the next poll is armed.
CycleEnds ==
    /\ phase = "tail"
    /\ phase' = "idle" /\ armed' = TRUE
    /\ lastOk' = ~(outage /\ ~cycleLimited)
    /\ UNCHANGED <<disabled, known, readOnce, interval, limits, cycle, extra, runs, api>>

\* async_set_updated_data: a push arms a poll only when none is.
Pushed ==
    /\ ~lastOk \/ ~armed
    /\ lastOk' = TRUE /\ armed' = TRUE
    /\ UNCHANGED <<phase, disabled, known, readOnce, interval, limits, cycle, extra, runs, api>>

Disable(d) ==
    /\ phase = "idle" /\ d \in CanDisable \ disabled
    /\ disabled' = disabled \cup {d}
    /\ UNCHANGED <<phase, armed, known, readOnce, interval, limits, cycle, extra, runs, api, lastOk>>

Poll ==
    \/ \E fresh, idle \in SUBSET Devices, resetIn \in {0, reset} : StartPoll(fresh, idle, resetIn)
    \/ GatherRefused \/ Gathered \/ CycleEnds

Next ==
    \/ Poll
    \/ \E outcome \in Outcomes : ExtraEnds(outcome) \/ \E d \in Devices : ReadEnds(d, outcome)
    \/ \E d \in Kettles : StartExtra(d)
    \/ \E d \in Devices : Disable(d)
    \/ Pushed

Spec == Init /\ [][Next]_vars

\* The timer fires, and every read has a deadline (STATE_FETCH_TIMEOUT).
FairSpec ==
    /\ Spec /\ WF_vars(Poll)
    /\ \A d \in Devices : WF_vars(\E outcome \in Outcomes : ReadEnds(d, outcome))
-----------------------------------------------------------------------------
\* A 429 never makes the poll faster, and nothing does while it is in force:
\* not the pacing, not the headers, not another read's shorter Retry-After.
RefusalSlowsPoll == [][rateLimited' => interval' >= interval]_vars

\* "A total cloud outage": no device the cycle asked got an answer of its own,
\* not even a refusal, whatever a read beside the poll did to its records.
OutageIsTotal ==
    [][phase = "tail" /\ phase' = "idle" /\ ~lastOk' =>
         \A d \in asked \ (Held \cup Missing) : result[d] = "outage"]_vars

\* Together: what the poll makes of refusals and outages is what happened.
CloudIsReadRight == RefusalSlowsPoll /\ OutageIsTotal

\* Once the API stops refusing, a 429 back-off ends, though the device that
\* drew it be disabled and only devices without a cloud read remain.
RefusalEnds == []<>~rateLimited

\* The headers may say "0 left, resets in 30 s" for as long as nothing is
\* asked: the poll still does not defer for ever.
Asking == asked # {}
PollsGoOn == []<>Asking

\* So the cloud is asked again whatever refused or deferred it.
CloudGoesOn == RefusalEnds /\ PollsGoOn

\* Local readings and idleness excuse a device from cycles, never for long: a
\* transport that reports wrong values is reconciled with the cloud.  A cycle
\* the headers defer starts the count over, as it does the device's runs.
ReconciledInTime == \A d \in Devices : since[d] <= LongestWait
=============================================================================
