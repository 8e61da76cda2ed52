---------------------------- MODULE MCProgress -----------------------------
(* The components that promise progress, in one run.  The parts share no    *)
(* state: a behaviour is one of one part, and so is its fairness.           *)
EXTENDS PollCycle, MqttSession

CONSTANTS
    Calls, MaxPushes, None, Absent, NoCall,
    EntryDevices, EntryGroups, EntryMeters, EntryDetectors, EntrySensors, EntryHygrometers, MaxEntryChanges, MaxEntryEdits,
    MaxEntryFaults, MaxEntryBoots, MaxAlerts, MaxReports, MaxOnTheWay, MaxListFailures, MaxLifts,
    MaxWaterReloads, a, b, l1, l2, c1, c2, meter, group, detector, leaks, hygro

VARIABLES
    part,
    confirmAt, command, confirmArmed, previous, confirmReported, pendingConfirm, resent, view,
    confirmHeard, lastPush, alive, issued, pushes, wire, actual,
    accountHolds, accountGone, entryOptions, signIn, registry, entryShown, entryStage, snapshot,
    entryFound, batteries, failedSteps, bffPoll, entryListening, entryTold, entryReload,
    unheard, entryRefusals, entryChanges, entryEdits, entryFaults, entryBoots,
    alert, read, report, onTheWay, water, lastReport, gen, tick, lift, lifted, missed, dried, listFailures,
    lifts, reloads

cloudVars == vars
confirmVars == <<confirmAt, command, confirmArmed, previous, confirmReported, pendingConfirm, resent, view,
    confirmHeard, lastPush, alive, issued, pushes, wire, actual>>
entryVars == <<accountHolds, accountGone, entryOptions, signIn, registry, entryShown, entryStage, snapshot,
    entryFound, batteries, failedSteps, bffPoll, entryListening, entryTold, entryReload,
    unheard, entryRefusals, entryChanges, entryEdits, entryFaults, entryBoots>>
waterVars == <<alert, read, report, onTheWay, water, lastReport, gen, tick, lift, lifted, missed,
    dried, listFailures, lifts, reloads>>

ConfirmFields == {"power", "brightness", "color", "color_temp"}
PowerCommands == [field : {"power"}, value : {0, 1}]
Exact      == [f \in ConfirmFields |-> 0]
LampOn     == [f \in ConfirmFields |-> IF f = "power" THEN 1 ELSE 0]
NoReadings == [f \in ConfirmFields |-> {}]
OnlyPower  == {{"power"}}

\* Calls are interchangeable: they are made in a fixed order.
InOrder == \A i \in DOMAIN issued : issued[i] = <<c1, c2>>[i]

Confirm == INSTANCE CommandConfirm WITH
    phase <- confirmAt, cmd <- command, armed <- confirmArmed, pending <- pendingConfirm,
    reported <- confirmReported, heard <- confirmHeard,
    Commands <- PowerCommands, Tolerance <- Exact, Readings <- NoReadings, Initial <- LampOn,
    Carried <- OnlyPower
Entry == INSTANCE EntryLifecycle WITH
    options <- entryOptions, stage <- entryStage, found <- entryFound, shown <- entryShown,
    faults <- entryFaults, boots <- entryBoots, edits <- entryEdits, changes <- entryChanges,
    reload <- entryReload, refusals <- entryRefusals, listening <- entryListening, told <- entryTold,
    account <- accountHolds, gone <- accountGone, Devices <- EntryDevices,
    Groups <- EntryGroups, Thermometers <- EntryMeters, Sensors <- EntrySensors,
    Detectors <- EntryDetectors, Hygrometers <- EntryHygrometers,
    MaxChanges <- MaxEntryChanges, MaxEdits <- MaxEntryEdits, MaxFaults <- MaxEntryFaults,
    MaxBoots <- MaxEntryBoots
Water == INSTANCE WaterDetector WITH
    poll <- tick, known <- lastReport, failures <- listFailures, MaxFailures <- MaxListFailures,
    MaxReloads <- MaxWaterReloads

\* Leak sensors are no devices of the Developer API, and no thermometers.
ASSUME EntryAssumption ==
    /\ EntrySensors \cap (EntryDevices \cup EntryHygrometers) = {} /\ EntryDetectors \subseteq EntryDevices
    /\ EntryGroups \subseteq EntryDevices
    /\ MaxEntryChanges \in Nat /\ MaxEntryEdits \in Nat /\ MaxEntryFaults \in Nat /\ MaxEntryBoots \in Nat

ASSUME WaterAssumption ==
    /\ MaxAlerts \in Nat /\ MaxReports \in Nat /\ MaxOnTheWay \in Nat /\ MaxListFailures \in Nat
    /\ MaxLifts \in Nat /\ MaxWaterReloads \in Nat

Parts == {"cloud", "session", "confirm", "entry", "water"}

PartsInit ==
    /\ part \in Parts
    /\ Init
    /\ SessionInit
    /\ Confirm!Init
    /\ Entry!Init /\ accountHolds \in {{}, EntryDevices \cup EntrySensors \cup EntryHygrometers}
    /\ (part # "entry" => accountHolds = {} /\ ~entryOptions.groups)
    /\ Water!Init

PartsNext ==
    /\ part' = part
    /\ \/ part = "cloud" /\ Next /\ UNCHANGED <<sessionVars, confirmVars, entryVars, waterVars>>
       \/ part = "session" /\ SessionNext /\ UNCHANGED <<cloudVars, confirmVars, entryVars, waterVars>>
       \/ part = "confirm" /\ Confirm!Next /\ UNCHANGED <<cloudVars, sessionVars, entryVars, waterVars>>
       \/ part = "entry" /\ Entry!Next /\ UNCHANGED <<cloudVars, sessionVars, confirmVars, waterVars>>
       \/ part = "water" /\ Water!Next /\ UNCHANGED <<cloudVars, sessionVars, confirmVars, entryVars>>
    /\ InOrder'

partsVars == <<part, cloudVars, sessionVars, confirmVars, entryVars, waterVars>>

PartsSpec ==
    /\ PartsInit /\ [][PartsNext]_partsVars
    /\ WF_cloudVars(part = "cloud" /\ Poll)
    /\ \A d \in Devices : WF_cloudVars(part = "cloud" /\ \E outcome \in Outcomes : ReadEnds(d, outcome))
    /\ \A l \in Loops : WF_sessionVars(part = "session" /\ LoopGoesOn(l))
    /\ WF_sessionVars(part = "session" /\ Resume)
    /\ WF_sessionVars(part = "session" /\ CheckSilence)
    /\ WF_sessionVars(part = "session" /\ (LoginFails \/ LoginRenews \/ LoginStartsClient))
    /\ WF_sessionVars(part = "session" /\ Unloaded)
    /\ \A c \in Calls : WF_confirmVars(part = "confirm" /\ Confirm!Task(c))
    /\ WF_entryVars(part = "entry" /\ Entry!Setup)
    /\ WF_entryVars(part = "entry" /\ Entry!Rediscover)
    /\ WF_entryVars(part = "entry" /\ Entry!BffAnswers)
    /\ WF_waterVars(part = "water" /\ Water!PollGoesOn)
    /\ WF_waterVars(part = "water" /\ Water!LiftGoesOn)

\* The part that runs has the types of its module.
AllTypeOK ==
    /\ part = "cloud" => TypeOK
    /\ part = "session" => SessionTypeOK
    /\ part = "confirm" => Confirm!TypeOK
    /\ part = "entry" => Entry!TypeOK
    /\ part = "water" => Water!TypeOK

\* The poll's back-off ends and polls keep going (PollCycle).
CloudKeepsGoing == RefusalEnds /\ []<>(part = "cloud" => Asking)

\* A session that fell silent is found out, and a broken one comes back, unless
\* the account refuses it (MqttSession).
SessionComesBack == SilenceIsFound /\ []<>(part = "session" => Recovered)

\* Every confirm task ends (CommandConfirm, command_confirm.py).
EveryConfirmEnds == Confirm!EveryConfirmEnds

\* What is withdrawn was over: the repair of an outage by a session that came
\* up, a device that is gone, a leak alert that stays cleared (MqttSession,
\* EntryLifecycle, WaterDetector).
WithdrawalsAreRight == RepairWithdrawnBySession /\ Entry!EntryIsKept /\ Water!ClearSticks

\* The entry ends up loaded with the devices of the account, and the alerts of
\* its water detectors are shown and go away (EntryLifecycle, WaterDetector).
AccountIsFollowed ==
    /\ <>[](part = "entry" => Entry!Followed)
    /\ Water!AlertsAreFollowed
==============================================================================
