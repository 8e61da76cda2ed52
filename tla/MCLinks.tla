------------------------------ MODULE MCLinks ------------------------------
(* The links to the devices, and what is read over them, in one run.  The   *)
(* parts share no state: a behaviour is one of one part.                    *)
EXTENDS LanLink

CONSTANTS
    RawPaints, RawCopies, Drop, MaxClients, MaxUnloads, LanStale, BleStale, PushWindow,
    PollEvery, Cap, Meters, Limits, Values, Unset, ReadEvery, MaxPasses, MaxReplies, MaxWrites,
    MaxAppChanges, MaxDrops, MaxProbeReloads, Nothing, Followups, Protect, Lag, MaxKettleMoves,
    MaxKettleBoots, EnergyNoise, OnTimeNoise, RestoreTimeout, MaxDelay, MinCopy, MaxGap, Steps,
    MaxTime, MaxReboots, MaxTaken, MaxMeterReloads, a, b, x, y, z, w1, w2, m1, core

VARIABLES
    part,
    rawGates, rawPaint, rawUsed, rawClient, rawLock, rawTimer, rawOpen, rawFailing, rawStray,
    rawClients, rawUnloads,
    pathThere, pathGone, pathHealth, pathAge, pathKnown, pathOnLan, pathEnrolled, pathSession,
    pathSincePoll,
    probeArmed, probeTimer, probeTick, probePasses, probeUp, probeHeld, probeShown,
    probeReplies, probeUnsure, probeWrites, probeChanges, probeDrops, probeReloads,
    kettleRunning, kettleMode, kettleProtected, kettleGen, kettleChains, kettleHandle,
    kettleReads, kettleKettle, cloudSays, kettleBehind, kettleKept, kettleUnheard,
    kettleReordered, kettleMoves, kettleBoots,
    plugNow, plugPlug, plugPassed, plugSaved, plugReading, plugCounter, plugUsed, plugBooked,
    plugReboots,
    meterTaken, meterEntry, meterDevAt, meterFahrenheit, meterDated, meterFrames, meterOwned, meterShown,
    meterFrameTs, meterAsk, meterRefresh, meterCarried, meterReloads

lanVars == vars
rawVars == <<rawGates, rawPaint, rawUsed, rawClient, rawLock, rawTimer, rawOpen, rawFailing, rawStray,
    rawClients, rawUnloads>>
healthVars == <<pathThere, pathGone, pathHealth, pathAge, pathKnown, pathOnLan, pathEnrolled, pathSession,
    pathSincePoll>>
probeVars == <<probeArmed, probeTimer, probeTick, probePasses, probeUp, probeHeld, probeShown,
    probeReplies, probeUnsure, probeWrites, probeChanges, probeDrops, probeReloads>>
kettleVars == <<kettleRunning, kettleMode, kettleProtected, kettleGen, kettleChains, kettleHandle,
    kettleReads, kettleKettle, cloudSays, kettleBehind, kettleKept, kettleUnheard,
    kettleReordered, kettleMoves, kettleBoots>>
energyVars == <<plugNow, plugPlug, plugPassed, plugSaved, plugReading, plugCounter, plugUsed, plugBooked,
    plugReboots>>
thermoVars == <<meterTaken, meterEntry, meterDevAt, meterFahrenheit, meterDated, meterFrames, meterOwned, meterShown,
    meterFrameTs, meterAsk, meterRefresh, meterCarried, meterReloads>>

AtSetup == {[d \in Devices |-> IF d = a THEN x ELSE y]}
Pins    == {{}, {<<a, x>>}}

Raw == INSTANCE RawFrames WITH
    gates <- rawGates, paint <- rawPaint, used <- rawUsed, client <- rawClient, lock <- rawLock,
    timer <- rawTimer, open <- rawOpen, failing <- rawFailing, stray <- rawStray,
    clients <- rawClients, unloads <- rawUnloads, Copies <- RawCopies, Paints <- RawPaints
Health == INSTANCE TransportHealth WITH
    there <- pathThere, gone <- pathGone, health <- pathHealth, age <- pathAge,
    known <- pathKnown, onLan <- pathOnLan, enrolled <- pathEnrolled, session <- pathSession,
    sincePoll <- pathSincePoll
Probe == INSTANCE ProbeThermometer WITH
    armed <- probeArmed, timer <- probeTimer, tick <- probeTick, passes <- probePasses,
    up <- probeUp, held <- probeHeld, shown <- probeShown, replies <- probeReplies,
    unsure <- probeUnsure, writes <- probeWrites, changes <- probeChanges, drops <- probeDrops,
    reloads <- probeReloads, MaxChanges <- MaxAppChanges
Kettle == INSTANCE KettleState WITH
    running <- kettleRunning, mode <- kettleMode, protected <- kettleProtected,
    gen <- kettleGen, chains <- kettleChains, handle <- kettleHandle, reads <- kettleReads,
    kettle <- kettleKettle, behind <- kettleBehind, kept <- kettleKept,
    unheard <- kettleUnheard, reordered <- kettleReordered, moves <- kettleMoves,
    boots <- kettleBoots
Energy == INSTANCE EnergyCounter WITH
    now <- plugNow, plug <- plugPlug, passed <- plugPassed, saved <- plugSaved,
    reading <- plugReading, counter <- plugCounter, used <- plugUsed, booked <- plugBooked,
    reboots <- plugReboots
Thermo == INSTANCE BridgedThermometer WITH
    taken <- meterTaken, entry <- meterEntry, devAt <- meterDevAt,
    fahrenheit <- meterFahrenheit, dated <- meterDated, frames <- meterFrames, owned <- meterOwned,
    shown <- meterShown, frameTs <- meterFrameTs, ask <- meterAsk, refresh <- meterRefresh,
    carried <- meterCarried, reloads <- meterReloads

\* What waits for the link's lock is a write or the drop.
ASSUME RawAssumption ==
    /\ RawCopies \in Nat \ {0} /\ Drop \notin RawPaints /\ MaxClients \in Nat /\ MaxUnloads \in Nat

\* The windows of const.py and transport_health.py: 90, 120 and 600 s.
ASSUME HealthAssumption ==
    /\ LanStale \in Nat /\ BleStale \in Nat /\ PushWindow \in Nat /\ PollEvery \in Nat /\ Cap \in Nat
    /\ LanStale <= BleStale

\* Nothing is None, no number and no mode; a read that met a lagging cloud is
\* answered while the protection lasts.
ASSUME KettleAssumption ==
    /\ Nothing \notin Nat /\ Nothing \notin {"brew", "custom", "c1", "c2"}
    /\ Followups \in Nat \ {0} /\ Protect \in Nat /\ Lag \in Nat /\ Lag + 1 <= Protect
    /\ MaxKettleMoves \in Nat /\ MaxKettleBoots \in Nat

\* There are so many thermometers; the limits are read every so many sweeps.
ASSUME ProbeAssumption ==
    /\ IsFiniteSet(Meters) /\ ReadEvery \in Nat \ {0}
    /\ MaxPasses \in Nat /\ MaxWrites \in Nat /\ MaxAppChanges \in Nat /\ MaxDrops \in Nat /\ MaxProbeReloads \in Nat

ASSUME EnergyAssumption == Steps \subseteq Nat /\ MaxTime \in Nat /\ MaxReboots \in Nat

\* The thermometer has taken a reading.
ASSUME ThermoAssumption == MaxTaken \in Nat \ {0} /\ MaxMeterReloads \in Nat

Parts == {"lan", "raw", "health", "probe", "kettle", "energy", "thermo"}

PartsInit ==
    /\ part \in Parts
    /\ Init /\ (part # "lan" => pins = {} /\ \A d \in Devices : lan[d] # None)
    /\ Raw!Init
    /\ Health!Init /\ (part # "health" => pathSession = "none")
    /\ Probe!Init /\ (part # "probe" => \A m \in Meters, l \in Limits : probeHeld[m][l] = 60)
    /\ Kettle!Init
    /\ Energy!Init
    /\ Thermo!Init /\ (part # "thermo" => meterEntry.has = "empty" /\ meterDevAt = 0 /\ ~meterFahrenheit /\ ~meterDated)

PartsNext ==
    /\ part' = part
    /\ \/ part = "lan" /\ Next /\ UNCHANGED <<rawVars, healthVars, probeVars, kettleVars, energyVars, thermoVars>>
       \/ part = "raw" /\ Raw!Next /\ UNCHANGED <<lanVars, healthVars, probeVars, kettleVars, energyVars, thermoVars>>
       \/ part = "health" /\ Health!Next /\ UNCHANGED <<lanVars, rawVars, probeVars, kettleVars, energyVars, thermoVars>>
       \/ part = "probe" /\ Probe!Next /\ UNCHANGED <<lanVars, rawVars, healthVars, kettleVars, energyVars, thermoVars>>
       \/ part = "kettle" /\ Kettle!Next /\ UNCHANGED <<lanVars, rawVars, healthVars, probeVars, energyVars, thermoVars>>
       \/ part = "energy" /\ Energy!Next /\ UNCHANGED <<lanVars, rawVars, healthVars, probeVars, kettleVars, thermoVars>>
       \/ part = "thermo" /\ Thermo!Next /\ UNCHANGED <<lanVars, rawVars, healthVars, probeVars, kettleVars, energyVars>>

partsVars == <<part, lanVars, rawVars, healthVars, probeVars, kettleVars, energyVars, thermoVars>>

PartsSpec ==
    /\ PartsInit /\ [][PartsNext]_partsVars
    /\ WF_lanVars(part = "lan" /\ Poll)
    /\ WF_lanVars(part = "lan" /\ RescanFallsDue)
    /\ \A d \in Devices : WF_lanVars(part = "lan" /\ ScanReply(d))
    /\ \A w \in Addresses : WF_lanVars(part = "lan" /\ Deliver(w))

\* The part that runs has the types of its module.
AllTypeOK ==
    /\ part = "lan" => TypeOK
    /\ part = "raw" => Raw!TypeOK
    /\ part = "health" => Health!TypeOK
    /\ part = "probe" => Probe!TypeOK
    /\ part = "kettle" => Kettle!TypeOK
    /\ part = "energy" => Energy!TypeOK
    /\ part = "thermo" => Thermo!TypeOK

\* A device that moved to another address is found there (LanLink).
EveryMoveIsFound == part = "lan" => Relocated

\* The link of raw writes is let go, one pipe carries a paint, a device that is
\* gone is found out in time, and the limits of a probe and the mode of a kettle
\* are the device's own (RawFrames, TransportHealth, ProbeThermometer, KettleState).
LinksAreSound ==
    /\ part = "raw" => Raw!RawWritesAreRight
    /\ part = "health" => Health!GoneIsFoundOut
    /\ part = "probe" => Probe!ProbesAreRight
    /\ part = "kettle" => Kettle!KettleIsRight

\* A plug that reboots and restores what it had counted is booked once
\* (EnergyCounter).
EnergyIsBookedOnce == part = "energy" => Energy!BookedOnce

\* A refused session stays refused until one is accepted, and the reading of a
\* thermometer's frame is not replaced by an older one where the list carries
\* times and the device is the list's (TransportHealth, BridgedThermometer).
NothingGoesBack == Health!RefusalHolds /\ Thermo!ReadingsMoveForward
==============================================================================
