------------------------- MODULE ProbeThermometer --------------------------
(***************************************************************************)
(* Cooking thermometers (H5192) answer only when asked.  A switch arms the *)
(* polling of a device: one burst at once, then a sweep of every armed     *)
(* device per interval.  Each probe has alarm limits in one register that  *)
(* is written whole, so a write carries the values it does not change over *)
(* from state.  A device stands for one of its probes; its packets go out  *)
(* in one step.  External: the thermometers, the broker, Govee's app.      *)
(***************************************************************************)
EXTENDS Naturals, FiniteSets, Sequences, SequencesExt

CONSTANTS
    Meters,         \* the thermometers
    Limits, Values, \* the limits of a probe, the temperatures they are set to
    Unset,          \* None in state, the sentinel in the register
    ReadEvery,      \* PROBE_LIMITS_READ_EVERY
    MaxPasses,      \* bound: passes under way at once
    MaxReplies,     \* bound: replies of a device on their way
    MaxWrites,      \* bound: limits set here
    MaxChanges,     \* bound: limits set in the app
    MaxDrops,       \* bound: sessions lost
    MaxProbeReloads \* bound

VARIABLES
    armed,          \* _probe_polling_enabled
    timer,          \* _probe_poll_unsub is set
    tick,           \* _probe_poll_tick, modulo ReadEvery
    passes,         \* the sweeps and bursts under way
    up,             \* the MQTT session
    held,           \* external: the limits each device holds
    shown,          \* state.probes: the limits as last told
    replies,        \* external: limits on their way here
    unsure,         \* history: a limit changed after the last reply applied was made
    writes, changes, drops, reloads

polling == <<armed, timer, tick, passes>>
limits  == <<held, shown, replies, unsure>>
counts  == <<writes, changes, drops, reloads>>
vars    == <<polling, up, limits, counts>>

Corridor == [Limits -> Values \cup {Unset}]
NoLimits == [l \in Limits |-> Unset]
Pass     == [sweep : BOOLEAN, left : SUBSET Meters, limits : BOOLEAN, began : BOOLEAN]

TypeOK ==
    /\ armed \subseteq Meters /\ timer \in BOOLEAN /\ tick \in 0..ReadEvery - 1 /\ up \in BOOLEAN
    /\ Len(passes) <= MaxPasses /\ (\A i \in DOMAIN passes : passes[i] \in Pass)
    /\ held \in [Meters -> Corridor] /\ shown \in [Meters -> Corridor]
    /\ (\A m \in Meters : \A i \in DOMAIN replies[m] : replies[m][i] \in [of : Corridor, last : BOOLEAN])
    /\ unsure \in [Meters -> BOOLEAN]
    /\ writes \in 0..MaxWrites /\ changes \in 0..MaxChanges
    /\ drops \in 0..MaxDrops /\ reloads \in 0..MaxProbeReloads

Init ==
    /\ armed = {} /\ timer = FALSE /\ tick = 0 /\ passes = <<>> /\ up = TRUE
    /\ held \in [Meters -> Corridor] /\ shown = [m \in Meters |-> NoLimits]
    /\ replies = [m \in Meters |-> <<>>] /\ unsure = [m \in Meters |-> TRUE]
    /\ writes = 0 /\ changes = 0 /\ drops = 0 /\ reloads = 0
-----------------------------------------------------------------------------
(* The switch: arming starts a burst and replaces the timer; the last       *)
(* device disarmed takes the timer with it.                                 *)

Burst(m) == [sweep |-> FALSE, left |-> {m}, limits |-> TRUE, began |-> FALSE]

Arm(m) ==
    /\ Len(passes) < MaxPasses
    /\ armed' = armed \cup {m} /\ passes' = Append(passes, Burst(m)) /\ timer' = TRUE
    /\ UNCHANGED <<tick, up, limits, counts>>

Disarm(m) ==
    /\ armed' = armed \ {m} /\ timer' = (timer /\ armed' # {})
    /\ UNCHANGED <<tick, passes, up, limits, counts>>
-----------------------------------------------------------------------------
(* The passes.                                                              *)

\* A pass with nobody armed or no session does nothing; a sweep moves the tick on.
Sweep ==
    IF armed = {} \/ ~up THEN [sweep |-> TRUE, left |-> {}, limits |-> FALSE, began |-> FALSE]
    ELSE [sweep |-> TRUE, left |-> armed, limits |-> tick = 0, began |-> FALSE]

TimerFires ==
    /\ timer /\ Len(passes) < MaxPasses /\ timer' = FALSE
    /\ passes' = Append(passes, Sweep)
    /\ tick' = IF armed = {} \/ ~up THEN tick ELSE (tick + 1) % ReadEvery
    /\ UNCHANGED <<armed, up, limits, counts>>

\* The device's answer holds its limits, unless a packet is lost.
Answers(m) ==
    \/ UNCHANGED replies
    \/ Len(replies[m]) < MaxReplies /\ replies' = [replies EXCEPT ![m] = Append(@, [of |-> held[m], last |-> TRUE])]

\* A pass with nobody armed or no session stops; after the first packet a
\* device disarmed meanwhile is skipped.
Read(i, m) ==
    LET p    == passes[i]
        asks == ~p.began \/ m \in armed
    IN  /\ m \in p.left
        /\ IF ~up \/ (~p.began /\ armed = {})
           THEN passes' = [passes EXCEPT ![i].left = {}] /\ UNCHANGED replies
           ELSE /\ passes' = [passes EXCEPT ![i].left = @ \ {m}, ![i].began = TRUE]
                /\ IF asks /\ p.limits THEN Answers(m) ELSE UNCHANGED replies
        /\ UNCHANGED <<armed, timer, tick, up, held, shown, unsure, counts>>

\* Bug: the sweep's end leaves the timer to the switch.
LeavesTimer == timer

\* The sweep's end: the timer runs while a device is armed.
RearmsTimer == timer \/ armed # {}

PassEnds(i) ==
    /\ passes[i].left = {} /\ passes' = RemoveAt(passes, i)
    /\ timer' = IF passes[i].sweep THEN RearmsTimer ELSE timer
    /\ UNCHANGED <<armed, tick, up, limits, counts>>
-----------------------------------------------------------------------------
(* The limits.                                                              *)

\* What the device will say no longer counts as the last word.
NotLast(q) == [j \in DOMAIN q |-> [q[j] EXCEPT !.last = FALSE]]

\* Bug: a frame that arrives after a change is taken for the device's last word.
AnyFrame(m) == [of |-> Head(replies[m]).of, last |-> TRUE]

\* The frame as decoded: all four values of the register.
Frame(m) == Head(replies[m])

Told(m) ==
    /\ replies[m] # <<>> /\ replies' = [replies EXCEPT ![m] = Tail(@)]
    /\ shown' = [shown EXCEPT ![m] = Frame(m).of]
    /\ unsure' = [unsure EXCEPT ![m] = @ /\ ~Frame(m).last]
    /\ UNCHANGED <<polling, up, held, counts>>

\* The register as written: the other limits come from state, unknown ones as unset.
Carried(m, l, v) == [shown[m] EXCEPT ![l] = v]

\* A write is followed by a read of what is now held; either may be lost.
SetLimit(m, l, v) ==
    /\ up /\ writes < MaxWrites /\ writes' = writes + 1
    /\ held' \in {held, [held EXCEPT ![m] = Carried(m, l, v)]}
    /\ \/ replies' = [replies EXCEPT ![m] = NotLast(@)]
       \/ /\ Len(replies[m]) < MaxReplies
          /\ replies' = [replies EXCEPT ![m] = Append(NotLast(@), [of |-> held'[m], last |-> TRUE])]
    /\ unsure' = [unsure EXCEPT ![m] = TRUE]
    /\ UNCHANGED <<polling, up, shown, changes, drops, reloads>>

AppSets(m, l, v) ==
    /\ changes < MaxChanges /\ changes' = changes + 1
    /\ held' = [held EXCEPT ![m][l] = v] /\ replies' = [replies EXCEPT ![m] = NotLast(@)]
    /\ unsure' = [unsure EXCEPT ![m] = TRUE]
    /\ UNCHANGED <<polling, up, shown, writes, drops, reloads>>
-----------------------------------------------------------------------------
(* The session and the entry.                                               *)

Drops ==
    /\ up /\ drops < MaxDrops /\ drops' = drops + 1
    /\ up' = FALSE /\ replies' = [m \in Meters |-> <<>>]
    /\ UNCHANGED <<polling, held, shown, unsure, writes, changes, reloads>>

Connects == ~up /\ up' = TRUE /\ UNCHANGED <<polling, limits, counts>>

\* The switches come back with the state they had, each arming its device anew.
Reload ==
    /\ reloads < MaxProbeReloads /\ reloads' = reloads + 1
    /\ \E on \in SUBSET armed :
         /\ armed' = on /\ timer' = (on # {})
         /\ passes' = IF Cardinality(on) > MaxPasses THEN <<>> ELSE [i \in 1..Cardinality(on) |-> Burst(SetToSeq(on)[i])]
    /\ tick' = 0 /\ shown' = [m \in Meters |-> NoLimits]
    /\ replies' = [m \in Meters |-> <<>>] /\ unsure' = [m \in Meters |-> TRUE]
    /\ UNCHANGED <<up, held, writes, changes, drops>>
-----------------------------------------------------------------------------
Next == \/ \E m \in Meters : \/ Arm(m) \/ Disarm(m) \/ Told(m)
                             \/ \E l \in Limits, v \in Values : SetLimit(m, l, v) \/ AppSets(m, l, v)
                             \/ \E i \in DOMAIN passes : Read(i, m)
        \/ \E i \in DOMAIN passes : PassEnds(i)
        \/ TimerFires \/ Drops \/ Connects \/ Reload

Spec == Init /\ [][Next]_vars
-----------------------------------------------------------------------------
\* While a device is armed its sweeps go on: a timer is set or a sweep is under
\* way, however arming, disarming and slow sweeps overlap (coordinator.py 3436-3489).
SweepsGoOn == armed # {} => timer \/ \E i \in DOMAIN passes : passes[i].sweep

\* The limits shown are those the device holds, unless they changed since the
\* last reply that was applied was made (coordinator.py 3384-3421).
LimitsAreHeld == \A m \in Meters : ~unsure[m] => shown[m] = held[m]

ProbesAreRight == SweepsGoOn /\ LimitsAreHeld
=============================================================================
