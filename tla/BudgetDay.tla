------------------------------ MODULE BudgetDay ------------------------------
(***************************************************************************)
(* Days of polling against the request budget: the client's daily counter, *)
(* its file, the reloads and crashes that rebuild the client, and the      *)
(* pacing that reads it.  Time advances to the next event; the clock and   *)
(* the requests really spent are the world's.                              *)
(***************************************************************************)
EXTENDS RequestBudget

CONSTANTS
    ConfiguredInterval,     \* the configured poll interval
    CycleCost,      \* requests_per_cycle: the number of pollable devices
    Early,          \* how much sooner than its pollInterval a poll may fire
    LastDay,        \* bound: days modelled
    MaxOther,       \* bound: commands, scene fetches, rediscoveries
    MaxReloads      \* bound: reloads and crashes

ASSUME DayAssumption ==
    /\ ConfiguredInterval \in Nat \ {0} /\ CycleCost \in 1..Budget /\ ConfiguredInterval <= MaxInterval
    /\ Early \in Nat /\ Early < ConfiguredInterval /\ Early <= ResetMargin
    /\ LastDay \in Nat /\ MaxOther \in Nat /\ MaxReloads \in Nat

VARIABLES
    now,            \* seconds since the epoch
    pollInterval, due,  \* update_interval, and when the poll fires (not before)
    requestDay, requestsToday,  \* the client's counter
    saved,          \* the counter's file
    spent,          \* what each day really cost
    armedOn,          \* the day the pending poll was armedOn on
    awaited,        \* the pending poll waits for the reset that ends that day
    atCeiling,      \* the days with a poll paced to MaxInterval
    lost,           \* a day whose count a crash lost
    others, reloads

dayVars == <<now, pollInterval, due, requestDay, requestsToday, saved, spent, armedOn, awaited,
             atCeiling, lost, others, reloads>>

Days       == 0..LastDay
Day(t)     == t \div DayLength
Today      == Day(now)
SecondsLeft == DayLength - (now % DayLength)
NoDay      == [day |-> -1, today |-> 0]

\* requests_today: a count of an earlier day reads as zero.
Counted == IF requestDay = Today THEN requestsToday ELSE 0

DayTypeOK ==
    /\ now \in Nat /\ pollInterval \in Nat /\ due \in Nat
    /\ requestDay \in Days \cup {-1} /\ requestsToday \in Nat
    /\ saved \in [day : Days \cup {-1}, today : Nat]
    /\ spent \in [Days -> Nat]
    /\ armedOn \in Days /\ awaited \in BOOLEAN /\ atCeiling \subseteq Days /\ lost \subseteq Days
    /\ others \in 0..MaxOther /\ reloads \in 0..MaxReloads

DayInit ==
    /\ now \in 0..(DayLength - 1)
    /\ pollInterval = ConfiguredInterval /\ due = now
    /\ requestDay = -1 /\ requestsToday = 0
    /\ saved = NoDay
    /\ spent = [d \in Days |-> 0]
    /\ armedOn = Today /\ awaited = FALSE /\ atCeiling = {} /\ lost = {}
    /\ others = 0 /\ reloads = 0

\* Bug: the day is rounded up instead of down.
NoteRequestsRoundsUp(n) ==
    /\ requestsToday' = (IF requestDay = Today THEN requestsToday ELSE 0) + n
    /\ requestDay' = CeilDiv(now, DayLength)
    /\ spent' = [spent EXCEPT ![Today] = @ + n]

\* _note_request, n times in the same second.
NoteRequests(n) ==
    /\ requestsToday' = (IF requestDay = Today THEN requestsToday ELSE 0) + n
    /\ requestDay' = Today
    /\ spent' = [spent EXCEPT ![Today] = @ + n]

\* _apply_budget_pacing; Home Assistant re-arms the timer when the poll ends.
\* The poll fires from `due` on, at the latest after the full interval.
Arm ==
    /\ pollInterval' = BudgetPacedInterval(ConfiguredInterval, requestsToday', CycleCost, SecondsLeft)
    /\ due' = now + pollInterval' - Early
    /\ armedOn' = Today
    /\ awaited' = (Budget - requestsToday' < CycleCost /\ pollInterval' < MaxInterval)
    /\ atCeiling' = IF pollInterval' = MaxInterval THEN atCeiling \cup {Today} ELSE atCeiling

\* A poll of n devices: local readings and idleness may excuse the others.
DayPoll(n) ==
    /\ now >= due
    /\ NoteRequests(n)
    /\ Arm
    /\ UNCHANGED <<now, saved, lost, others, reloads>>

\* A command, a scene fetch, a rediscovery.
Other ==
    /\ others < MaxOther
    /\ others' = others + 1
    /\ NoteRequests(1)
    /\ UNCHANGED <<now, pollInterval, due, saved, armedOn, awaited, atCeiling, lost, reloads>>

\* The delayed save: up to REQUEST_COUNTS_SAVE_DELAY after a request.
Save ==
    /\ requestDay # -1
    /\ saved' = [day |-> requestDay, today |-> requestsToday]
    /\ saved' # saved
    /\ UNCHANGED <<now, pollInterval, due, requestDay, requestsToday, spent, armedOn, awaited,
                   atCeiling, lost, others, reloads>>

\* import_request_counts into a new client; its first refresh is due at once.
Import(file) ==
    /\ IF file.day = Today THEN requestDay' = Today /\ requestsToday' = file.today
       ELSE requestDay' = -1 /\ requestsToday' = 0
    /\ pollInterval' = ConfiguredInterval /\ due' = now /\ armedOn' = Today /\ awaited' = FALSE

\* Bug: the counters are not flushed when the entry unloads.
ReloadUnflushed ==
    /\ reloads < MaxReloads /\ reloads' = reloads + 1
    /\ Import(saved)
    /\ UNCHANGED <<now, saved, spent, atCeiling, lost, others>>

\* The entry unloads, which flushes the counters, and is set up again.
Reload ==
    /\ reloads < MaxReloads /\ reloads' = reloads + 1
    /\ saved' = [day |-> requestDay, today |-> requestsToday]
    /\ Import(saved')
    /\ UNCHANGED <<now, spent, atCeiling, lost, others>>

\* Home Assistant dies: what was counted since the last save is lost.
Crash ==
    /\ reloads < MaxReloads /\ reloads' = reloads + 1
    /\ Import(saved)
    /\ lost' = lost \cup {Today}
    /\ UNCHANGED <<now, saved, spent, atCeiling, others>>

Tick ==
    /\ now < due + Early
    /\ Day(now + 1) <= LastDay
    /\ now' = now + 1
    /\ UNCHANGED <<pollInterval, due, requestDay, requestsToday, saved, spent, armedOn, awaited,
                   atCeiling, lost, others, reloads>>

DayNext == \/ \E n \in 1..CycleCost : DayPoll(n)
        \/ Other \/ Save \/ Reload \/ Crash \/ Tick

DaySpec == DayInit /\ [][DayNext]_dayVars
-----------------------------------------------------------------------------
\* The counter the pacing trusts is what the day has really cost, across
\* reloads and midnights; a crash can only make it too low.
CountIsFloor == Counted <= spent[Today] /\ (Today \in lost \/ Counted = spent[Today])

\* A day's polling stays within the budget: only what is not paced (commands,
\* a refresh after a reload) or a poll held at the ceiling can exceed it.
DayFitsBudget ==
    \A d \in Days \ (atCeiling \cup lost) : spent[d] <= Budget + others + reloads * CycleCost

\* "DAILY_RESET_MARGIN past the reset so the poll counts against the new day":
\* rounding and the early timer never bring it back before midnight.
ResetIsAwaited == awaited /\ now >= due => Today > armedOn

\* No poll of one day is parked far into the next (found with #214).
NeverFarPastReset == due <= (armedOn + 1) * DayLength + Greatest(ConfiguredInterval, ResetMargin)

\* Together: the day's spending, and the poll that waits for its end.
BudgetIsKept == DayFitsBudget /\ CountIsFloor
ResetIsMet   == ResetIsAwaited /\ NeverFarPastReset

\* "spends the rest of today's budget evenly": a day does not use it up early
\* and then sit out the rest; the wait for the reset is about one interval.
SpendIsEven ==
    [][~awaited /\ awaited' /\ spent[Today] > 0 /\ others = 0 /\ reloads = 0
         => pollInterval' <= pollInterval + ResetMargin + Early]_dayVars
=============================================================================
