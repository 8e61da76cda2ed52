---------------------------- MODULE EntryLifecycle ----------------------------
(* The life of the config entry: setup (sign-in, discovery, the account's     *)
(* steps, the orphan cleanup, the platforms), what the loaded integration     *)
(* does about new devices, options and tokens, reloads and restarts           *)
(* (__init__.py, coordinator.py 1395-2571).  Setup is one coroutine: a step   *)
(* of it is the code between two answers.                                     *)
EXTENDS Naturals

CONSTANTS
    Devices,        \* devices the Developer API lists,
    Groups,         \*   the groups among them
    Thermometers,   \*   and the gateway's thermometers among them
    Detectors,      \*   and the water detectors among them
    Sensors,        \* leak sensors, which only the account (BFF) lists
    Hygrometers,    \* thermometers it lists with their reading: devices, or its alone (H5301)
    MaxChanges,     \* bounds: devices added to and removed from the account,
    MaxEdits,       \*   changes of the options and reconfigurations,
    MaxFaults,      \*   answers that fail, are late or are incomplete,
    MaxBoots        \*   restarts of Home Assistant

VARIABLES
    account,        \* what the account holds; a removed device does not return
    gone,
    options,        \* the entry's options, here: enable_groups and enable_scenes
    signIn,         \* entry.data: "untried", "cached" credentials, or "failed"
    registry,       \* entities in the registry
    shown,          \* entities this session's platforms created
    stage,          \* the answer setup waits for, "up" or "down"
    snapshot,       \* coordinator.options_snapshot, the options it was built with
    found,          \* coordinator._devices (all but the sensors) and _leak_sensors
    batteries,      \* devices whose state has a battery reading
    failedSteps,    \* coordinator._startup_steps_failed
    bffPoll,        \* the BFF poll is armed
    listening,      \* the update listener is registered
    told,           \* _bff_reload_scheduled and _battery_reload_scheduled
    reload,         \* a reload is scheduled, or Home Assistant will retry setup
    unheard,        \* (history) steps of this session that got no whole answer
    refusals,       \* (history) sign-ins that failed since the user configured one
    changes, edits, faults, boots

world == <<account, gone, changes>>
entry == <<options, signIn, refusals, edits>>
session == <<shown, snapshot, found, batteries, failedSteps, bffPoll, listening, told, unheard>>
vars == <<world, entry, registry, session, stage, reload, faults, boots>>

Owners == Devices \cup Sensors \cup Hygrometers
Options == [groups : BOOLEAN, scenes : BOOLEAN]
Entity(o, part) == [owner |-> o, part |-> part]
Entities ==
    {Entity(o, "main") : o \in Owners} \cup {Entity(d, "scene") : d \in Devices}
        \cup {Entity(d, "battery") : d \in Thermometers}

Fault == faults < MaxFaults /\ faults' = faults + 1
Fresh == <<{}, {}, FALSE, FALSE, {}>>

-------------------------------------------------------------------------------
(* The account and the user. *)

Init ==
    /\ account \in SUBSET Owners /\ gone = {} /\ changes = 0
    /\ options \in {[groups |-> g, scenes |-> TRUE] : g \in BOOLEAN}
    /\ signIn = "untried" /\ refusals = 0 /\ edits = 0
    /\ registry = {} /\ shown = {} /\ snapshot = options
    /\ found = {} /\ batteries = {} /\ failedSteps = {} /\ bffPoll = FALSE
    /\ listening = FALSE /\ told = {} /\ unheard = {}
    /\ stage = "down" /\ reload = TRUE /\ faults = 0 /\ boots = 0

AccountChanges(o) ==
    /\ changes < MaxChanges /\ o \notin gone
    /\ account' = IF o \in account THEN account \ {o} ELSE account \cup {o}
    /\ gone' = IF o \in account THEN gone \cup {o} ELSE gone
    /\ changes' = changes + 1
    /\ UNCHANGED <<entry, registry, session, stage, reload, faults, boots>>

\* _async_update_listener: any write of the entry gets here, but only one that
\* changed the options since the coordinator was built reloads.
Notified == reload' = (reload \/ (listening /\ snapshot # options'))

UserEdits(o) ==
    /\ edits < MaxEdits /\ edits' = edits + 1 /\ o # options
    /\ options' = o
    /\ Notified
    /\ UNCHANGED <<world, signIn, refusals, registry, session, stage, faults, boots>>

\* Reconfigure: the flow signed in, stored the credentials and reloads the entry.
Reconfigured ==
    /\ edits < MaxEdits /\ edits' = edits + 1
    /\ signIn' = "cached" /\ refusals' = 0 /\ reload' = TRUE
    /\ UNCHANGED <<world, options, registry, session, stage, faults, boots>>

\* MqttReconnectRepairFlow: the user has a failed sign-in tried again.
Repaired ==
    /\ edits < MaxEdits /\ edits' = edits + 1
    /\ signIn = "failed" /\ stage \in {"up", "down"}
    /\ signIn' = "untried" /\ refusals' = 0 /\ reload' = TRUE
    /\ UNCHANGED <<world, options, registry, session, stage, faults, boots>>

-------------------------------------------------------------------------------
(* Setup. *)

Cleared ==
    /\ shown' = {} /\ found' = {} /\ batteries' = {} /\ failedSteps' = {}
    /\ bffPoll' = FALSE /\ listening' = FALSE /\ told' = {} /\ unheard' = {}

\* The coordinator is built when the sign-in is done with, with the options of then.
Build == snapshot' = options /\ stage' = "devices"

\* Unload (if it was up) and setup to its first answer: a stored refusal is not
\* tried again, stored credentials are used as they are.
Restart ==
    /\ Cleared
    /\ IF signIn = "untried" THEN stage' = "sign-in" /\ UNCHANGED snapshot ELSE Build
    /\ reload' = FALSE
    /\ UNCHANGED <<world, entry, registry>>

Reload ==
    /\ reload /\ stage \in {"up", "down"}
    /\ Restart /\ UNCHANGED <<faults, boots>>

\* Home Assistant stops or crashes, in whatever stage, and starts again.
Boot ==
    /\ boots < MaxBoots /\ boots' = boots + 1
    /\ Restart /\ UNCHANGED faults

SignsIn ==
    /\ stage = "sign-in"
    /\ signIn' = "cached" /\ Build
    /\ UNCHANGED <<world, options, refusals, edits, registry, shown, found, batteries, failedSteps,
                   bffPoll, listening, told, unheard, reload, faults, boots>>

\* Refused, asked for a code, or not reached at all: it is stored the same way.
SignInFails ==
    /\ stage = "sign-in" /\ Fault
    /\ signIn' = "failed" /\ refusals' = refusals + 1 /\ Build
    /\ UNCHANGED <<world, options, edits, registry, shown, found, batteries, failedSteps,
                   bffPoll, listening, told, unheard, reload, boots>>

\* _discover_devices; the group filter is by the options of the coordinator.
Listed(ids) == {d \in ids \cap Devices : d \in Groups => snapshot.groups}
AfterDevices == IF signIn = "cached" THEN "topics" ELSE "refresh"

DevicesListed ==
    /\ stage = "devices"
    /\ found' = Listed(account) /\ stage' = AfterDevices
    /\ UNCHANGED <<world, entry, registry, shown, snapshot, batteries, failedSteps, bffPoll,
                   listening, told, unheard, reload, faults, boots>>

\* A glitch: the list comes back empty.
NothingListed ==
    /\ stage = "devices" /\ Fault
    /\ found' = {} /\ stage' = AfterDevices /\ unheard' = unheard \cup {"devices"}
    /\ UNCHANGED <<world, entry, registry, shown, snapshot, batteries, failedSteps, bffPoll,
                   listening, told, reload, boots>>

\* No list, or no first refresh: ConfigEntryNotReady, and Home Assistant retries.
SetupFails ==
    /\ stage \in {"devices", "refresh"} /\ Fault
    /\ stage' = "down" /\ reload' = TRUE
    /\ UNCHANGED <<world, entry, registry, session, boots>>

\* The account's steps follow one another; the last is for water detectors only.
NextStep(ids) ==
    \/ stage = "topics" /\ stage' = "leaks"
    \/ stage = "leaks" /\ stage' = "thermometers"
    \/ stage = "thermometers" /\ stage' = IF ids \cap Detectors = {} THEN "refresh" ELSE "water"
    \/ stage = "water" /\ stage' = "refresh"

\* _fetch_device_topics and _poll_water_detectors: what they read matters elsewhere.
StepEnds ==
    /\ stage \in {"topics", "water"} /\ NextStep(found)
    /\ UNCHANGED <<world, entry, registry, session, reload, faults, boots>>

\* _battery_candidate_devices
Candidates(have) == (found \cap Thermometers) \ have
Reported(ids, whole) == IF whole THEN ids \cap Thermometers ELSE {}

\* _discover_leak_sensors: the sensors, the batteries that are reported already,
\* and the poll if there is anything to poll for.
LeaksListed(whole) ==
    /\ stage = "leaks"
    /\ IF whole THEN UNCHANGED <<faults, unheard>> ELSE Fault /\ unheard' = unheard \cup {"battery"}
    /\ found' = found \cup (account \cap Sensors)
    /\ batteries' = Reported(account \cap found, whole)
    /\ bffPoll' = (account \cap Sensors # {} \/ Candidates({}) # {})
    /\ NextStep(found)
    /\ UNCHANGED <<world, entry, registry, shown, snapshot, failedSteps, listening, told, reload, boots>>

\* _discover_bff_thermometers: they join the devices, those the Developer API
\* left out too, and are polled for.
ThermometersListed ==
    /\ stage = "thermometers"
    /\ LET listed == account \cap Hygrometers
       IN /\ found' = found \cup listed
          /\ bffPoll' = (bffPoll \/ listed # {})
          /\ NextStep(found \cup listed)
    /\ UNCHANGED <<world, entry, registry, shown, snapshot, batteries, failedSteps, listening, told,
                   unheard, reload, faults, boots>>

\* _run_startup_step: a step that is cut off after STARTUP_STEP_TIMEOUT is recorded.
StepTimesOut ==
    /\ NextStep(found) /\ Fault
    /\ failedSteps' = failedSteps \cup {stage} /\ unheard' = unheard \cup {stage}
    /\ UNCHANGED <<world, entry, registry, shown, snapshot, found, batteries, bffPoll, listening,
                   told, reload, boots>>

\* A refused connection, an HTTP error or a token no sign-in renews: the step
\* itself catches it, so it counts as done.
StepFails ==
    /\ NextStep(found) /\ Fault
    /\ unheard' = unheard \cup {stage}
    /\ UNCHANGED <<world, entry, registry, shown, snapshot, found, batteries, failedSteps, bffPoll,
                   listening, told, reload, boots>>

\* Bug: a step that was cut off does not keep the entities it would have found.
OrphansAfterTimeout ==
    {e \in registry : e.owner \notin found \/ (e.part = "scene" /\ ~options.scenes)}

\* _async_cleanup_orphaned_entities: nothing is removed of what is not known to be
\* gone; the options only concern regular devices.
Orphans ==
    {e \in registry :
        \/ e.owner \notin found /\ failedSteps = {}
        \/ e.owner \in found /\ e.part = "scene" /\ ~options.scenes}

Refreshed ==
    /\ stage = "refresh"
    /\ registry' = IF found \ Sensors = {} THEN registry ELSE registry \ Orphans
    /\ stage' = "platforms"
    /\ UNCHANGED <<world, entry, session, reload, faults, boots>>

\* The platforms create what they find, and only then is the listener registered.
SceneSelects == {e \in Entities : e.part = "scene" /\ options.scenes}
BatterySensors == {e \in Entities : e.part = "battery" /\ e.owner \in batteries}
Wanted ==
    {e \in Entities : e.owner \in found /\ (e.part = "main" \/ e \in SceneSelects \cup BatterySensors)}

PlatformsUp ==
    /\ stage = "platforms"
    /\ shown' = Wanted /\ registry' = registry \cup Wanted
    /\ listening' = TRUE /\ stage' = "up"
    /\ UNCHANGED <<world, entry, snapshot, found, batteries, failedSteps, bffPoll, told, unheard,
                   reload, faults, boots>>

-------------------------------------------------------------------------------
(* The loaded integration. *)

\* Bug: a group that is switched off looks new at every check.
NewDevicesOfAnyKind == (account \cap Devices) \ found

\* _async_maybe_rediscover_devices: only additions reload, by discovery's filter.
NewDevices == Listed(account) \ found

Rediscover ==
    /\ stage = "up"
    /\ NewDevices # {} /\ reload' = TRUE
    /\ UNCHANGED <<world, entry, registry, session, stage, faults, boots>>

\* _poll_bff_leak_state: it asks while there is a sensor or a gateway's thermometer.
\* A sensor that was added reloads; a first battery reading too.
BffAnswers ==
    /\ stage = "up" /\ bffPoll /\ signIn = "cached"
    /\ found \cap (Sensors \cup Thermometers) # {}
    /\ LET added == account \cap Sensors \subseteq found
           first == Reported(account \cap found, TRUE) \ batteries
       IN IF ~added /\ "sensor" \notin told
          THEN told' = told \cup {"sensor"} /\ reload' = TRUE /\ UNCHANGED batteries
          ELSE /\ batteries' = batteries \cup first
               /\ IF first # {} /\ "battery" \notin told
                  THEN told' = told \cup {"battery"} /\ reload' = TRUE
                  ELSE UNCHANGED <<told, reload>>
    /\ UNCHANGED <<world, entry, registry, shown, snapshot, found, failedSteps, bffPoll, listening,
                   unheard, stage, faults, boots>>

\* _persist_refreshed_credentials: a write of the entry's data, not of its options.
TokenRenewed ==
    /\ stage = "up" /\ signIn = "cached"
    /\ UNCHANGED options /\ Notified
    /\ UNCHANGED <<world, signIn, refusals, edits, registry, session, stage, faults, boots>>

Setup ==
    \/ Reload \/ SignsIn \/ DevicesListed \/ StepEnds \/ LeaksListed(TRUE) \/ ThermometersListed
    \/ Refreshed \/ PlatformsUp

Next ==
    \/ \E o \in Owners : AccountChanges(o)
    \/ \E o \in Options : UserEdits(o)
    \/ Reconfigured \/ Repaired \/ Boot
    \/ Setup
    \/ SignInFails \/ NothingListed \/ SetupFails \/ LeaksListed(FALSE) \/ StepTimesOut \/ StepFails
    \/ Rediscover \/ BffAnswers \/ TokenRenewed

Spec == Init /\ [][Next]_vars

\* Setup goes on, and a loaded entry polls.
FairSpec == Spec /\ WF_vars(Setup) /\ WF_vars(Rediscover) /\ WF_vars(BffAnswers)

-------------------------------------------------------------------------------
(* Properties. *)

Steps == {"topics", "leaks", "thermometers", "water"}
Stages == Steps \cup {"down", "sign-in", "devices", "refresh", "platforms", "up"}

TypeOK ==
    /\ account \subseteq Owners /\ gone \subseteq Owners /\ options \in Options
    /\ snapshot \in Options /\ signIn \in {"untried", "cached", "failed"}
    /\ registry \subseteq Entities /\ shown \subseteq Entities /\ stage \in Stages
    /\ found \subseteq Owners /\ batteries \subseteq Thermometers
    /\ failedSteps \subseteq Steps /\ told \subseteq {"sensor", "battery"}
    /\ unheard \subseteq Steps \cup {"devices", "battery"}
    /\ {bffPoll, listening, reload} \subseteq BOOLEAN
    /\ refusals \in Nat /\ changes \in 0..MaxChanges /\ edits \in 0..MaxEdits
    /\ faults \in 0..MaxFaults /\ boots \in 0..MaxBoots

\* The cleanup takes an entity of a device the account still has only because
\* an option turned it off, and never because a step was cut off.  There are two
\* ways around that: a step that failed by itself (FailedStepKeepsEntities), and
\* an empty device list beside a thermometer that the account lists, which makes
\* the list look like any other.
OnlyUnwantedRemoved ==
    \A e \in registry \ registry' :
        \/ e.owner \notin account
        \/ e.owner \in Groups /\ ~snapshot.groups
        \/ e.part = "scene" /\ ~options.scenes
        \/ e.owner \in Sensors \ found /\ "leaks" \in unheard \ failedSteps
        \/ e.owner \in Hygrometers \ found /\ "thermometers" \in unheard \ failedSteps
        \/ /\ e.owner \in Devices \ found /\ failedSteps = {}
           /\ "devices" \in unheard /\ found \cap Hygrometers # {}

\* A loaded entry is reloaded only for something it cannot show as it is: an
\* option, a device or a reading.
ReloadsBringSomething ==
    (stage = "up" /\ reload' /\ ~reload /\ edits' = edits) =>
        \/ snapshot # options
        \/ \E o \in (account \cap (Devices \cup Sensors)) \ found : o \in Groups => snapshot.groups
        \/ batteries' # batteries

\* A sign-in that failed is not tried again until the user configures it anew:
\* repeated logins are what makes Govee ask for codes.
SignInsAreRationed == refusals' <= 1

EntryIsKept == [][OnlyUnwantedRemoved /\ ReloadsBringSomething /\ SignInsAreRationed]_vars

\* The entry ends up loaded and is not reloaded for ever, and a device that
\* stays in the account is shown, unless its kind is switched off.
Settled == stage = "up" /\ ~reload
Shown(d) == d \in account /\ (d \in Groups => snapshot.groups) => Entity(d, "main") \in shown
Followed == Settled /\ \A d \in Devices : Shown(d)
EntrySettles == <>[]Followed

\* "Removal of unknown devices is skipped entirely when a startup discovery step
\* failed (so a BFF timeout cannot delete every leak sensor)" (docstring of
\* _async_cleanup_orphaned_entities).  A step that catches its own error is not
\* recorded as failed, so this fails.
FailedStepKeepsEntities ==
    [][\A e \in registry \ registry' : e.owner \in account \cap Sensors => "leaks" \notin unheard]_vars
===============================================================================
