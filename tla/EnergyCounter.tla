--------------------------- MODULE EnergyCounter ---------------------------
(***************************************************************************)
(* A metering plug (H5086) counts the energy and the on-time of today.     *)
(* Both go back to zero at midnight, and when it reboots; after a reboot   *)
(* it restores a saved copy.  The counter tells the two apart, as Home     *)
(* Assistant books a whole reading anew whenever last_reset moves.         *)
(* A restart brings the counter back as it was.  Seconds, tenths of a Wh.  *)
(* External: the plug, the push channel, and the statistics that book what *)
(* the sensor shows.                                                       *)
(***************************************************************************)
EXTENDS Integers

CONSTANTS
    EnergyNoise,    \* ENERGY_NOISE_DECIWATT_HOURS
    OnTimeNoise,    \* ON_TIME_NOISE_SECONDS
    RestoreTimeout, \* RESTORE_TIMEOUT
    MaxDelay,       \* external: how late a push may be
    MinCopy,        \* external: on-time of the smallest copy the plug saves
    MaxGap,         \* external: how long a plug that is up goes without a reading
    Steps,          \* bound: how far time moves at once
    MaxTime,        \* bound
    MaxReboots      \* bound

VARIABLES
    now,
    plug,           \* external: power, uptime, on-time and energy, and whether a restore is due
    passed,         \* external: midnight passed
    saved,          \* external: the copy it restores (NoCopy: of another day)
    reading,        \* external: a push under way (NoCopy: none)
    counter,        \* the EnergyCounter
    used, booked,   \* history: energy drawn, and energy the statistics booked
    reboots

external == <<plug, saved, passed>>
history  == <<used, booked>>
vars     == <<now, external, reading, counter, history, reboots>>

NoCopy  == [none |-> TRUE]
Never == -1

TypeOK ==
    /\ now \in 0..MaxTime
    /\ plug.up \in BOOLEAN /\ plug.uptime \in Nat /\ plug.on \in Nat /\ plug.energy \in Nat
    /\ plug.due \in BOOLEAN /\ passed \in BOOLEAN
    /\ saved = NoCopy \/ (saved.on \in Nat /\ saved.energy \in Nat)
    /\ reading = NoCopy \/ reading.at \in 0..MaxTime
    /\ counter.reset \in 0..MaxTime /\ counter.seen \in Never..MaxTime
    /\ used \in Nat /\ booked \in Int
    /\ reboots \in 0..MaxReboots

\* EnergyCounter.new
First == [reset |-> 0, updated |-> 0, energy |-> 1200, on |-> 3600, uptime |-> 3600, seen |-> Never]

Init ==
    /\ now = 0
    /\ plug = [up |-> TRUE, uptime |-> 3600, on |-> 3600, energy |-> 1200, due |-> FALSE]
    /\ passed = FALSE
    /\ saved = [on |-> 3600, energy |-> 1200] /\ reading = NoCopy
    /\ counter = First
    /\ used = 0 /\ booked = 0 /\ reboots = 0
-----------------------------------------------------------------------------
(* External: the plug.  Its uptime runs slow and in steps of ten seconds,   *)
(* and within two minutes of a boot it restores the copy it saved.          *)

Passes(dt) ==
    /\ now + dt <= MaxTime /\ now' = now + dt
    /\ plug.up => now + dt <= counter.updated + MaxGap
    /\ (plug.due => plug.uptime + dt <= 120) /\ (reading # NoCopy => now + dt <= reading.at + MaxDelay)
    /\ IF plug.up
       THEN /\ plug' = [plug EXCEPT !.uptime = @ + ((dt * 94) \div 1000) * 10, !.on = @ + dt, !.energy = @ + dt \div 3]
            /\ used' = used + dt \div 3
       ELSE UNCHANGED <<plug, used>>
    /\ UNCHANGED <<saved, passed, reading, counter, booked, reboots>>

Saves ==
    /\ plug.up /\ ~plug.due /\ plug.on >= MinCopy
    /\ saved' = [on |-> plug.on, energy |-> plug.energy] /\ saved' # saved
    /\ UNCHANGED <<now, plug, passed, reading, counter, history, reboots>>

PowerFails ==
    /\ plug.up /\ reboots < MaxReboots /\ reboots' = reboots + 1
    /\ plug' = [plug EXCEPT !.up = FALSE, !.uptime = 0, !.on = 0, !.energy = 0, !.due = FALSE]
    /\ UNCHANGED <<now, saved, passed, reading, counter, history>>

Boots ==
    /\ ~plug.up /\ plug' = [plug EXCEPT !.up = TRUE, !.due = saved # NoCopy]
    /\ UNCHANGED <<now, saved, passed, reading, counter, history, reboots>>

Restores ==
    /\ plug.due
    /\ plug' = [plug EXCEPT !.on = @ + saved.on, !.energy = @ + saved.energy, !.due = FALSE]
    /\ UNCHANGED <<now, saved, passed, reading, counter, history, reboots>>

Midnight ==
    /\ ~passed /\ passed' = TRUE
    /\ plug' = [plug EXCEPT !.on = 0, !.energy = 0, !.due = FALSE] /\ saved' = NoCopy
    /\ UNCHANGED <<now, reading, counter, history, reboots>>

\* One push is under way at a time, and time moves between two (bounds).
Pushes ==
    /\ plug.up /\ reading = NoCopy /\ (now = 0 \/ now > counter.updated)
    /\ reading' = [of |-> plug, at |-> now]
    /\ UNCHANGED <<now, external, counter, history, reboots>>
-----------------------------------------------------------------------------
(* The counter.                                                             *)

Rebooted == reading.of.uptime + 30 < counter.uptime + ((now - counter.updated) * 9) \div 10

Larger(x, y) == IF x > y THEN x ELSE y

Restored ==
    \/ reading.of.on > (reading.of.uptime * 3) \div 2 + 300
    \/ reading.of.on > counter.on + (Larger(reading.of.uptime - counter.uptime, 0) * 6) \div 5 + 30

Dropped == reading.of.energy + EnergyNoise < counter.energy \/ reading.of.on + OnTimeNoise < counter.on

\* Bug: any drop begins a cycle, as with a total that only increases.
EveryDrop == [reset |-> IF Dropped THEN now ELSE counter.reset, seen |-> Never]

\* The new cycle, if the reading starts one, and when the reboot we wait out was seen.
Cycle ==
    IF counter.seen # Never
    THEN IF Restored THEN [reset |-> counter.reset, seen |-> Never]
         ELSE IF now - counter.seen >= RestoreTimeout THEN [reset |-> counter.seen, seen |-> Never]
         ELSE [reset |-> counter.reset, seen |-> counter.seen]
    ELSE IF Dropped /\ ~Rebooted THEN [reset |-> now, seen |-> Never]
    ELSE [reset |-> counter.reset, seen |-> IF Dropped /\ ~Restored THEN now ELSE Never]

\* What the statistics add for a value shown with this last_reset.
Booked(reset, energy) == IF reset # counter.reset THEN energy ELSE energy - counter.energy

Arrives ==
    /\ reading # NoCopy /\ reading' = NoCopy
    /\ IF reading.of.on = counter.on /\ reading.of.uptime = counter.uptime THEN UNCHANGED <<counter, booked>>
       ELSE LET c == Cycle
                e == IF c.seen = Never THEN reading.of.energy ELSE counter.energy
            IN  /\ counter' = [reset |-> c.reset, updated |-> now, energy |-> e,
                               on |-> reading.of.on, uptime |-> reading.of.uptime, seen |-> c.seen]
                /\ booked' = booked + Booked(c.reset, e)
    /\ UNCHANGED <<now, external, used, reboots>>

Next == \/ \E dt \in Steps : Passes(dt)
        \/ Saves \/ PowerFails \/ Boots \/ Restores \/ Midnight \/ Pushes \/ Arrives

Spec == Init /\ [][Next]_vars
-----------------------------------------------------------------------------
\* Energy is booked once: the statistics never hold more than was drawn, give
\* or take the noise of a reading (models/energy_counter.py 1-24).
BookedOnce == booked <= used + EnergyNoise
=============================================================================
