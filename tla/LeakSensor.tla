----------------------------- MODULE LeakSensor -----------------------------
(***************************************************************************)
(* A leak sensor on a hub.  AWS IoT pushes its wet and dry frames, the     *)
(* account API's device list gives the time of its last wet, and a poll of *)
(* that list every BFF_POLL_INTERVAL (and after each frame) forces wet a   *)
(* leak the frames never told of.  The stamps of the frames outlive a      *)
(* reload in hass.data and a restart on disk.                              *)
(* External: the sensor, its frames (handled at once or lost) and Govee's  *)
(* clock, which may be ahead of ours by up to the margin the code allows.  *)
(***************************************************************************)
EXTENDS Integers

CONSTANTS
    Window,         \* BFF_POLL_INTERVAL, in ticks
    Margin,         \* LEAK_MQTT_SKEW_MARGIN
    SaveDelay,      \* LEAK_MQTT_SAVE_DELAY
    MaxTime,        \* bound
    MaxLeaks,       \* bound
    MaxReloads      \* bound: reloads and restarts

VARIABLES
    now, ahead,     \* our clock, and how far Govee's is ahead of it
    leaking, leak,  \* external: a leak is on; the last one's number and Govee's time of it
    isWet, upper, lower,    \* GoveeLeakSensorState
    mqttWetAt,      \* its last_mqtt_wet_at
    stamps,         \* _leak_mqtt_at of the sensor
    onDisk, saveDue,        \* the store, and when the delayed save runs
    poll, answer,   \* the polls under way, and the leak their answers tell of
    nextPoll,       \* when the periodic poll is due
    shown, ended,   \* history: the last leak whose wet, and whose dry frame was handled
    lostStamps,     \* history: a restart came before the delayed save
    reloads

state == <<isWet, upper, lower, mqttWetAt>>
store == <<stamps, onDisk, saveDue>>
bff   == <<poll, answer, nextPoll>>
hist  == <<shown, ended>>
vars  == <<now, ahead, leaking, leak, state, store, bff, hist, lostStamps, reloads>>

\* The timer's poll, and the one that frames ask for.
Pollers == {"timer", "frame"}

\* Time 0 is before any stamp.
Never    == 0
NoLeak   == [no |-> 0, at |-> Never]
NoStamps == [wet |-> Never, dry |-> Never]
Times    == 0..(MaxTime + Margin)
Leaks    == [no : 0..MaxLeaks, at : Times]

TypeOK ==
    /\ now \in 1..MaxTime /\ ahead \in 0..Margin
    /\ leaking \in BOOLEAN /\ leak \in Leaks /\ answer \in [Pollers -> Leaks]
    /\ isWet \in BOOLEAN /\ upper \in BOOLEAN /\ lower \in BOOLEAN /\ mqttWetAt \in Times
    /\ stamps \in [wet : Times, dry : Times] /\ onDisk \in [wet : Times, dry : Times]
    /\ saveDue \in 0..(MaxTime + SaveDelay) /\ nextPoll \in 0..(MaxTime + Window)
    /\ poll \in [Pollers -> {"idle", "asked", "answered"}]
    /\ shown \in 0..MaxLeaks /\ ended \in 0..MaxLeaks
    /\ lostStamps \in BOOLEAN /\ reloads \in 0..MaxReloads

NoPolls(p) == p = [who \in Pollers |-> "idle"]
NoAnswers(a) == a = [who \in Pollers |-> NoLeak]

Init ==
    /\ now = 1 /\ ahead \in 0..Margin
    /\ leaking = FALSE /\ leak = NoLeak
    /\ isWet = FALSE /\ upper = FALSE /\ lower = FALSE /\ mqttWetAt = Never
    /\ stamps = NoStamps /\ onDisk = NoStamps /\ saveDue = Never
    /\ NoPolls(poll) /\ NoAnswers(answer) /\ nextPoll = now + Window
    /\ shown = 0 /\ ended = 0 /\ lostStamps = FALSE /\ reloads = 0
-----------------------------------------------------------------------------
(* Frames.                                                                  *)

\* The probe bytes of a report: upper, lower and the aggregate (which byte 5
\* of the older models stands for).
Frames == [upper : BOOLEAN, lower : BOOLEAN, aggregate : BOOLEAN]
WetFrame(f) == f.lower \/ f.aggregate

\* Bug: a dry frame is read for its own probe bytes.
ReadsDryProbes(f) == upper' = f.upper /\ lower' = f.lower

\* The probes of a dual-probe model: a dry aggregate clears both.
ShowProbes(f) ==
    /\ upper' = (WetFrame(f) /\ f.upper)
    /\ lower' = (WetFrame(f) /\ f.lower)

\* Bug: the dry report leaves no stamp.
StampsWetOnly(wet) ==
    /\ stamps' = IF wet THEN [stamps EXCEPT !.wet = now] ELSE stamps
    /\ saveDue' = now + SaveDelay

\* _record_leak_mqtt; a report while a save is due puts it off.
Stamp(wet) ==
    /\ stamps' = IF wet THEN [stamps EXCEPT !.wet = now] ELSE [stamps EXCEPT !.dry = now]
    /\ saveDue' = now + SaveDelay

\* _schedule_bff_leak_poll: one pending poll covers the frames of a burst.
PollSoon ==
    /\ poll' = IF poll["frame"] = "idle" THEN [poll EXCEPT !["frame"] = "asked"] ELSE poll
    /\ answer' = answer

\* _handle_leak_event
Handle(f) ==
    /\ isWet' = WetFrame(f) /\ ShowProbes(f)
    /\ mqttWetAt' = IF WetFrame(f) THEN now ELSE mqttWetAt
    /\ Stamp(WetFrame(f)) /\ PollSoon
    /\ UNCHANGED <<onDisk, nextPoll>>

FrameLost == UNCHANGED <<state, store, bff>>

\* Water reaches the sensor; the list tells the time on Govee's clock.
GetsWet ==
    /\ ~leaking /\ leak.no < MaxLeaks
    /\ leaking' = TRUE /\ leak' = [no |-> leak.no + 1, at |-> now + ahead]
    /\ \/ \E f \in Frames : WetFrame(f) /\ Handle(f) /\ shown' = leak'.no
       \/ FrameLost /\ shown' = shown
    /\ UNCHANGED <<now, ahead, ended, lostStamps, reloads>>

\* It dries, later than both clocks have it getting wet.
GetsDry ==
    /\ leaking /\ now > leak.at /\ leaking' = FALSE
    /\ \/ \E f \in Frames : ~WetFrame(f) /\ Handle(f) /\ ended' = leak.no
       \/ FrameLost /\ ended' = ended
    /\ UNCHANGED <<now, ahead, leak, shown, lostStamps, reloads>>
-----------------------------------------------------------------------------
(* The poll.                                                                *)

\* The periodic poll is due, whether or not one that a frame asked for is out.
PollDue ==
    /\ now >= nextPoll /\ poll["timer"] = "idle" /\ poll' = [poll EXCEPT !["timer"] = "asked"]
    /\ UNCHANGED <<now, ahead, leaking, leak, state, store, answer, nextPoll, hist, lostStamps, reloads>>

Answered(who) ==
    /\ poll[who] = "asked" /\ poll' = [poll EXCEPT ![who] = "answered"]
    /\ answer' = [answer EXCEPT ![who] = leak]
    /\ UNCHANGED <<now, ahead, leaking, leak, state, store, nextPoll, hist, lostStamps, reloads>>

\* The timer is armed again after its own poll.
Ends(who) ==
    /\ poll' = [poll EXCEPT ![who] = "idle"]
    /\ nextPoll' = IF who = "timer" THEN now + Window ELSE nextPoll

\* The request failed: the next poll tries again.
PollFails(who) ==
    /\ poll[who] = "asked" /\ Ends(who)
    /\ UNCHANGED <<now, ahead, leaking, leak, state, store, answer, hist, lostStamps, reloads>>

\* Bug: the end of any leak will do.
EndsWithAnyDry(a) == stamps.dry > stamps.wet

\* MQTT told of this leak, and of its end.
MqttSawItEnd(a) ==
    /\ stamps.wet >= a.at - Margin
    /\ stamps.dry > stamps.wet /\ stamps.dry > a.at

\* The fallback: a recent leak, and no wet frame for as long.
Forces(a) ==
    /\ a.no # 0 /\ now - a.at < Window
    /\ now - mqttWetAt > Window \/ mqttWetAt = Never
    /\ ~MqttSawItEnd(a)

Applied(who) ==
    /\ poll[who] = "answered" /\ Ends(who) /\ answer' = [answer EXCEPT ![who] = NoLeak]
    /\ isWet' = (isWet \/ Forces(answer[who]))
    /\ UNCHANGED <<now, ahead, leaking, leak, upper, lower, mqttWetAt, store, hist, lostStamps, reloads>>
-----------------------------------------------------------------------------
(* Reloads and restarts.                                                    *)

\* _discover_leak_sensors: a state that knows of no leak, and a fresh timer.
Rediscover ==
    /\ isWet' = FALSE /\ upper' = FALSE /\ lower' = FALSE /\ mqttWetAt' = Never
    /\ NoPolls(poll') /\ NoAnswers(answer') /\ nextPoll' = now + Window
    /\ reloads < MaxReloads /\ reloads' = reloads + 1

\* Bug: the stamps go with the entry.
ReloadFromDisk == stamps' = NoStamps /\ UNCHANGED <<onDisk, saveDue>>

\* hass.data keeps the live stamps, and their pending save.
ReloadKeeps == UNCHANGED <<stamps, onDisk, saveDue>>

Reload ==
    /\ Rediscover /\ ReloadKeeps
    /\ UNCHANGED <<now, ahead, leaking, leak, hist, lostStamps>>

\* Home Assistant is restarted without notice.
Restart ==
    /\ Rediscover
    /\ stamps' = onDisk /\ saveDue' = Never /\ UNCHANGED onDisk
    /\ lostStamps' = (lostStamps \/ stamps # onDisk)
    /\ UNCHANGED <<now, ahead, leaking, leak, hist>>

Save ==
    /\ saveDue # Never /\ now >= saveDue
    /\ onDisk' = stamps /\ saveDue' = Never
    /\ UNCHANGED <<now, ahead, leaking, leak, state, stamps, bff, hist, lostStamps, reloads>>

\* A request takes less than a tick.
Tick ==
    /\ now < MaxTime /\ NoPolls(poll) /\ now < nextPoll
    /\ saveDue = Never \/ now < saveDue
    /\ now' = now + 1
    /\ UNCHANGED <<ahead, leaking, leak, state, store, bff, hist, lostStamps, reloads>>

Next ==
    \/ GetsWet \/ GetsDry \/ PollDue
    \/ \E who \in Pollers : Answered(who) \/ PollFails(who) \/ Applied(who)
    \/ Reload \/ Restart \/ Save \/ Tick

Spec == Init /\ [][Next]_vars
-----------------------------------------------------------------------------
\* The step that applies a poll's answer.
Answers(who) == poll[who] = "answered" /\ poll'[who] = "idle" /\ reloads' = reloads

\* A probe reads wet only with the sensor, whichever frame or poll came last.
ProbesAgree == upper \/ lower => isWet

\* A leak the frames showed and saw end is not raised again by a poll, across
\* reloads and restarts (unless one lost the stamps).
ShownEndStays ==
    [][\A who \in Pollers : ~isWet /\ isWet' /\ Answers(who) =>
        lostStamps \/ ~(shown = answer[who].no /\ ended = answer[who].no)]_vars

\* A leak still on that an answer tells of, whose own wet frame was lost.
Silent(who) == leaking /\ answer[who] = leak /\ shown < leak.no /\ now - leak.at < Window

\* Such a leak is shown after the poll, when no frame said wet for a window.
SilentLeakIsForced ==
    [][\A who \in Pollers :
        Answers(who) /\ Silent(who) /\ now - stamps.wet > Window => isWet']_vars

\* So what is shown is the frames' word, and the poll adds only the leaks they lost.
LeaksAreTold == []ProbesAgree /\ ShownEndStays /\ SilentLeakIsForced
=============================================================================
