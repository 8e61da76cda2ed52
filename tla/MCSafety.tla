----------------------------- MODULE MCSafety ------------------------------
(* The components whose promises are safety properties, in one run.  The    *)
(* parts share no state: a behaviour is one of one part.                    *)
EXTENDS BudgetDay, PollCycle, CommandDispatch

CONSTANTS
    Entries, Flows, Keys, Accounts,
    None, MaxFlowLogins, SegmentLights, SlotKettles, SegmentModes, SlotLabels, MaxPollInterval,
    MaxOptionReloads, a, b, lamp, c1, c2, c3, e1, e2, f1, f2, k1, k2, a1, a2, strip, bulb,
    kettle, grouped, single, tea

VARIABLES
    part,
    entryData, flowAt, flowKind, flowTarget, flowKey, flowChoice, flowTyped, flowDraft, ownLogin,
    loginSerial, loginCrossed, keysOverlapped,
    entryOptions, loadedDevices, registeredKettles, dialogAt, dialogForm, dialogWalk,
    dialogEdits, dialogLabels, dialogTouched, optionReloads

budgetVars == dayVars
pollVars == vars
queueVars == dispatchVars
flowVars == <<entryData, flowAt, flowKind, flowTarget, flowKey, flowChoice, flowTyped, flowDraft, ownLogin,
    loginSerial, loginCrossed, keysOverlapped>>
optionsVars == <<entryOptions, loadedDevices, registeredKettles, dialogAt, dialogForm, dialogWalk,
    dialogEdits, dialogLabels, dialogTouched, optionReloads>>

Command(k, v) == [kind |-> k, value |-> v]
OnlyOn  == {Command("power", "on")}
QueueCommands ==
    OnlyOn \cup {Command("segment", "red"), Command("segment", "black")}
LitLamp == [power |-> "on", scene |-> "none", segment |-> "white"]

\* Calls are interchangeable: they are made in a fixed order.
InCallOrder == (pc[c2] # "idle" => pc[c1] # "idle") /\ (pc[c3] # "idle" => pc[c2] # "idle")

Flow == INSTANCE ConfigFlow WITH
    data <- entryData, at <- flowAt, kind <- flowKind, target <- flowTarget, key <- flowKey,
    choice <- flowChoice, typed <- flowTyped, draft <- flowDraft, login <- ownLogin, serial <- loginSerial,
    crossed <- loginCrossed, overlapped <- keysOverlapped, Entries <- Entries, Flows <- Flows,
    Keys <- Keys, Accounts <- Accounts, MaxLogins <- MaxFlowLogins
Options == INSTANCE OptionsFlow WITH
    options <- entryOptions, loaded <- loadedDevices, registered <- registeredKettles,
    at <- dialogAt, form <- dialogForm, walk <- dialogWalk, edits <- dialogEdits,
    labels <- dialogLabels, touched <- dialogTouched, reloads <- optionReloads,
    Dialogs <- Flows, Lights <- SegmentLights, Kettles <- SlotKettles, Modes <- SegmentModes,
    Labels <- SlotLabels, MaxInterval <- MaxPollInterval, MaxReloads <- MaxOptionReloads

\* None is no entry's data, key, account or credentials.
ASSUME FlowAssumption ==
    /\ MaxFlowLogins \in Nat
    /\ None \notin Entries \cup Keys \cup Accounts \cup Flow!Data \cup Flow!Creds

ASSUME OptionsAssumption == MaxPollInterval \in Nat \ {0} /\ MaxOptionReloads \in Nat

Parts == {"budget", "poll", "queue", "flow", "options"}

PartsInit ==
    /\ part \in Parts
    /\ DayInit /\ (part # "budget" => now = 0)
    /\ Init /\ (part # "poll" => \A d \in Devices : skips[d] = 0 /\ counts[d] = 0)
    /\ DispatchInit
    /\ Flow!Init /\ entryData[e1] = [key |-> k1, account |-> a1, creds |-> [of |-> a1, n |-> 0]]
    /\ Options!Init /\ (part # "options" => \A d \in SegmentLights : entryOptions.modes[d] = grouped)

PartsNext ==
    /\ part' = part
    /\ \/ part = "budget" /\ DayNext /\ UNCHANGED <<pollVars, queueVars, flowVars, optionsVars>>
       \/ part = "poll" /\ Next /\ UNCHANGED <<budgetVars, queueVars, flowVars, optionsVars>>
       \/ part = "queue" /\ DispatchNext /\ UNCHANGED <<budgetVars, pollVars, flowVars, optionsVars>>
       \/ part = "flow" /\ Flow!Next /\ UNCHANGED <<budgetVars, pollVars, queueVars, optionsVars>>
       \/ part = "options" /\ Options!Next /\ UNCHANGED <<budgetVars, pollVars, queueVars, flowVars>>
    /\ InCallOrder'

partsVars == <<part, budgetVars, pollVars, queueVars, flowVars, optionsVars>>
PartsSpec == PartsInit /\ [][PartsNext]_partsVars

\* The part that runs has the types of its module.
AllTypeOK ==
    /\ part = "budget" => DayTypeOK
    /\ part = "poll" => TypeOK
    /\ part = "queue" => DispatchTypeOK
    /\ part = "flow" => Flow!TypeOK
    /\ part = "options" => Options!TypeOK

\* The flows never bring back credentials that were replaced, nor mix two
\* accounts, and saving a dialog keeps what others edited meanwhile (ConfigFlow,
\* OptionsFlow, config_flow.py).
EntryDataAreKept == Flow!DataAreSound /\ Options!EditsOfOthersKept
==============================================================================
