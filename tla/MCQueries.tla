----------------------------- MODULE MCQueries -----------------------------
(* What is asked of Govee's cloud and how its answers are held, in one run.  *)
(* The parts share no state: a behaviour is one of one part.                *)
EXTENDS StatusQuery

CONSTANTS
    NoAlert, MaxEvents, MaxClears, MaxOutages, MaxTankBoots, SceneKinds, SceneAskers, NoCatalog,
    MaxScenes, MaxFetches, Window, Margin, SaveDelay, MaxTime, MaxLeaks, MaxLeakReloads, a1, a2,
    b, service, k1, s1, s2, s3

VARIABLES
    part,
    alertEntry, alertClient, alertReachable, alertTank, alertDevice, alertPoll, alertStored,
    alertLast, alertEvents, alertClears, alertOutages, alertBoots,
    sceneCatalog, sceneCache, sceneFresh, sceneInflight, sceneFetch, sceneAsker, sceneFloor,
    sceneFetches,
    leakNow, ahead, leaking, leak, isWet, upper, lower, mqttWetAt, stamps, onDisk, saveDue,
    poll, answer, nextPoll, shown, ended, lostStamps, leakReloads

queryVars == vars
tankVars == <<alertEntry, alertClient, alertReachable, alertTank, alertDevice, alertPoll, alertStored,
    alertLast, alertEvents, alertClears, alertOutages, alertBoots>>
sceneVars == <<sceneCatalog, sceneCache, sceneFresh, sceneInflight, sceneFetch, sceneAsker, sceneFloor,
    sceneFetches>>
leakVars == <<leakNow, ahead, leaking, leak, isWet, upper, lower, mqttWetAt, stamps, onDisk, saveDue,
    poll, answer, nextPoll, shown, ended, lostStamps, leakReloads>>

TwoModels == [d \in {a1, a2, b} |-> IF d = b THEN "B" ELSE "A"]

Tank == INSTANCE TankAlert WITH
    entry <- alertEntry, client <- alertClient, reachable <- alertReachable, tank <- alertTank,
    device <- alertDevice, poll <- alertPoll, stored <- alertStored, last <- alertLast,
    events <- alertEvents, clears <- alertClears, outages <- alertOutages, boots <- alertBoots,
    Unknown <- NoAlert, MaxBoots <- MaxTankBoots
Scene == INSTANCE SceneCache WITH
    catalog <- sceneCatalog, cache <- sceneCache, fresh <- sceneFresh,
    inflight <- sceneInflight, fetch <- sceneFetch, asker <- sceneAsker, floor <- sceneFloor,
    fetches <- sceneFetches, None <- NoCatalog, Askers <- SceneAskers, Kinds <- SceneKinds
Leak == INSTANCE LeakSensor WITH
    now <- leakNow, reloads <- leakReloads, MaxReloads <- MaxLeakReloads

ASSUME TankAssumption ==
    /\ NoAlert \notin BOOLEAN
    /\ MaxEvents \in Nat /\ MaxClears \in Nat /\ MaxOutages \in Nat /\ MaxTankBoots \in Nat

ASSUME SceneAssumption == NoCatalog \notin Nat /\ MaxScenes \in Nat /\ MaxFetches \in Nat

\* The poll's interval, the margin for the clocks and the delay of the save.
ASSUME LeakAssumption ==
    /\ Window \in Nat /\ Margin \in Nat /\ SaveDelay \in Nat
    /\ MaxTime \in Nat \ {0} /\ MaxLeaks \in Nat /\ MaxLeakReloads \in Nat

Parts == {"query", "tank", "scene", "leak"}

PartsInit ==
    /\ part \in Parts
    /\ Init /\ (part # "query" => refuses = {})
    /\ Tank!Init /\ (part # "tank" => alertStored = NoAlert)
    /\ Scene!Init
    /\ Leak!Init /\ (part # "leak" => ahead = 0)

PartsNext ==
    /\ part' = part
    /\ \/ part = "query" /\ Next /\ UNCHANGED <<tankVars, sceneVars, leakVars>>
       \/ part = "tank" /\ Tank!Next /\ UNCHANGED <<queryVars, sceneVars, leakVars>>
       \/ part = "scene" /\ Scene!Next /\ UNCHANGED <<queryVars, tankVars, leakVars>>
       \/ part = "leak" /\ Leak!Next /\ UNCHANGED <<queryVars, tankVars, sceneVars>>

partsVars == <<part, queryVars, tankVars, sceneVars, leakVars>>

PartsSpec ==
    /\ PartsInit /\ [][PartsNext]_partsVars
    /\ WF_queryVars(part = "query" /\ Sweeping)
    /\ WF_queryVars(part = "query" /\ Answers)
    /\ WF_queryVars(part = "query" /\ Connect)
    /\ WF_queryVars(part = "query" /\ Tick)
    /\ SF_queryVars(part = "query" /\ StartSweep(Devices))

\* The part that runs has the types of its module.
AllTypeOK ==
    /\ part = "query" => TypeOK
    /\ part = "tank" => Tank!TypeOK
    /\ part = "scene" => Scene!TypeOK
    /\ part = "leak" => Leak!TypeOK

\* The drops queries cause come to an end, and the devices that answer stay
\* asked (StatusQuery).
QueriesKeepGoing == part = "query" => QueriesGoOn

\* A leak the frames did not show is told by the poll, and one they showed and
\* ended is not told again (LeakSensor, coordinator.py 3084-3170).
LeaksAreTold == Leak!LeaksAreTold

\* The tank's alert outlives polls and restarts, and an asker of a catalog gets
\* one no older than its fetch (TankAlert, SceneCache).
AnswersAreHeld ==
    /\ part = "tank" => Tank!AlertIsKept
    /\ part = "scene" => Scene!CatalogsAreCurrent
==============================================================================
