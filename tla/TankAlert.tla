----------------------------- MODULE TankAlert ------------------------------
(***************************************************************************)
(* The water-tank alert of a dehumidifier.  Govee pushes one event when    *)
(* the tank is full and none when it is empty, so the alert is latched     *)
(* until the user clears it, and restored after a restart; the polls of    *)
(* the Developer API know nothing of it.  The events come over a listener  *)
(* that connects again for ever.  External: the tank, the broker, and      *)
(* Home Assistant's store of entity states.                                *)
(***************************************************************************)
EXTENDS Naturals

CONSTANTS
    Unknown,        \* None in state, "unknown" as the sensor's state
    MaxEvents, MaxClears, MaxOutages, MaxBoots      \* bounds

VARIABLES
    entry,          \* "stopped", "setup" (no entity yet) or "loaded"
    client,         \* _connection_loop: where it is
    reachable,      \* external: the broker
    tank,           \* state.water_full
    device,         \* "on" or "off" line: last_update_success and device_reachable
    poll,           \* a poll of the device: whether one is asked, and the latch it was asked under
    stored,         \* external: the sensor's state as last saved
    last,           \* history: the last event applied or clear, saved or not
    events, clears, outages, boots

channel == <<client, reachable>>
counts  == <<events, clears, outages, boots>>
vars    == <<entry, channel, device, tank, poll, stored, last, counts>>

Alert  == BOOLEAN \cup {Unknown}
NoPoll == [asked |-> FALSE, under |-> Unknown]

TypeOK ==
    /\ entry \in {"stopped", "setup", "loaded"} /\ client \in {"stopped", "connects", "listens", "waits"}
    /\ reachable \in BOOLEAN /\ tank \in Alert /\ stored \in Alert /\ last \in Alert
    /\ poll \in [asked : BOOLEAN, under : Alert] /\ device \in {"on", "off"}
    /\ events \in 0..MaxEvents /\ clears \in 0..MaxClears /\ outages \in 0..MaxOutages /\ boots \in 0..MaxBoots

Init ==
    /\ entry = "stopped" /\ client = "stopped" /\ reachable = TRUE
    /\ tank = Unknown /\ poll = NoPoll /\ stored \in Alert /\ last = stored /\ device = "on"
    /\ events = 0 /\ clears = 0 /\ outages = 0 /\ boots = 0
-----------------------------------------------------------------------------
(* The listener.                                                            *)

Subscribes ==
    /\ client = "connects" /\ reachable /\ client' = "listens"
    /\ UNCHANGED <<entry, reachable, device, tank, poll, stored, last, counts>>

\* Whatever the error, the loop waits and connects again.
Breaks ==
    /\ client \in {"connects", "listens"} /\ ~reachable /\ client' = "waits"
    /\ UNCHANGED <<entry, reachable, device, tank, poll, stored, last, counts>>

WaitEnds ==
    /\ client = "waits" /\ client' = "connects"
    /\ UNCHANGED <<entry, reachable, device, tank, poll, stored, last, counts>>

BrokerChanges ==
    /\ \/ reachable /\ outages < MaxOutages /\ outages' = outages + 1
       \/ ~reachable /\ UNCHANGED outages
    /\ reachable' = ~reachable
    /\ UNCHANGED <<entry, client, device, tank, poll, stored, last, events, clears, boots>>

DeviceChanges ==
    /\ device' = IF device = "on" THEN "off" ELSE "on"
    /\ UNCHANGED <<entry, channel, tank, poll, stored, last, counts>>

\* The tank fills up, or is pulled out; an event nobody listens for is lost.
TankEvent(full) ==
    /\ events < MaxEvents /\ events' = events + 1
    /\ IF client = "listens" THEN tank' = full /\ last' = full ELSE UNCHANGED <<tank, last>>
    /\ UNCHANGED <<entry, channel, device, poll, stored, clears, outages, boots>>
-----------------------------------------------------------------------------
Clear ==
    /\ entry = "loaded" /\ clears < MaxClears /\ clears' = clears + 1
    /\ tank' = FALSE /\ last' = FALSE
    /\ UNCHANGED <<entry, channel, device, poll, stored, events, outages, boots>>

PollAsks ==
    /\ entry # "stopped" /\ ~poll.asked /\ poll' = [asked |-> TRUE, under |-> tank]
    /\ UNCHANGED <<entry, channel, device, tank, stored, last, counts>>

\* Bug: the answer is merged into the state held when it was asked.
MergedAtAsk == poll.under

\* The answer knows no alert: what is held as it arrives is kept.
Merged == tank

PollAnswers ==
    /\ poll.asked /\ poll' = NoPoll /\ tank' = Merged
    /\ UNCHANGED <<entry, channel, device, stored, last, counts>>
-----------------------------------------------------------------------------
(* Setup and restart.                                                       *)

\* The listener starts before the platforms add their entities.
Setup ==
    /\ entry = "stopped" /\ entry' = "setup" /\ client' = "connects"
    /\ UNCHANGED <<reachable, device, tank, poll, stored, last, counts>>

\* Bug: the restored state replaces what came in meanwhile.
RestoredAnyway == IF stored = Unknown THEN tank ELSE stored

\* A live event that landed before the entity was added wins.
Restored == IF tank = Unknown /\ stored # Unknown THEN stored ELSE tank

EntityAdded ==
    /\ entry = "setup" /\ entry' = "loaded" /\ tank' = Restored
    /\ UNCHANGED <<channel, device, poll, stored, last, counts>>

\* What Home Assistant saves of the sensor: nothing of an unavailable one.
StateShown == IF device = "on" THEN tank ELSE Unknown

\* The states of the entities there are, saved from time to time.
Save ==
    /\ entry = "loaded" /\ stored # StateShown /\ stored' = StateShown
    /\ UNCHANGED <<entry, channel, device, tank, poll, last, counts>>

Gone ==
    /\ boots < MaxBoots /\ boots' = boots + 1 /\ entry' = "stopped" /\ client' = "stopped"
    /\ tank' = Unknown /\ poll' = NoPoll
    /\ UNCHANGED <<reachable, device, events, clears, outages>>

\* A restart saves the states; a reload of the entry keeps them as well.  An
\* alert whose sensor is unavailable then is forgotten.
Stop  == entry = "loaded" /\ Gone /\ stored' = StateShown /\ last' = StateShown

\* A crash goes back to the last save.
Crash == entry # "stopped" /\ Gone /\ last' = stored /\ UNCHANGED stored
-----------------------------------------------------------------------------
Next == \/ Subscribes \/ Breaks \/ WaitEnds \/ BrokerChanges \/ DeviceChanges \/ (\E full \in BOOLEAN : TankEvent(full))
        \/ Clear \/ PollAsks \/ PollAnswers \/ Setup \/ EntityAdded \/ Save \/ Stop \/ Crash

Spec == Init /\ [][Next]_vars
-----------------------------------------------------------------------------
\* The sensor shows the last event that was heard or the clear after it, through
\* polls under way, restarts with the device on line, and events that come before
\* the entity does
\* (coordinator.py 2066-2200, binary_sensor.py 179-192).
AlertIsKept == entry = "loaded" => tank = last
=============================================================================
