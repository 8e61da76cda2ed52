------------------------ MODULE BridgedThermometer -------------------------
(***************************************************************************)
(* A gateway-bridged thermometer (H5310 behind an H5044) has three         *)
(* writers: the gateway's frames, the account's device list every five     *)
(* minutes, and, until that list holds a reading, the Developer poll.      *)
(* Frames and the list are in degrees C, the poll in the account's unit.   *)
(* External: the gateway, and Govee's two copies of its readings.          *)
(***************************************************************************)
EXTENDS Naturals, Sequences

CONSTANTS
    MaxTaken,       \* bound: readings the thermometer takes
    MaxMeterReloads \* bound

VARIABLES
    taken,          \* external: the number of the last reading
    entry,          \* external: the list's copy, its time and what it carries
    dated,          \* external: whether the account's list carries lastTime
    devAt,          \* external: the Developer API's copy (0: none)
    fahrenheit,     \* resolve_fahrenheit_conversion of this SKU and account
    frames,         \* external: the gateway's frames under way
    owned,          \* in _bff_thermometer_ids; else in _bff_thermo_pending
    shown,          \* sensor_temperature: which reading, its unit and its writer
    frameTs,        \* _thermo_frame_ts (0: none)
    ask,            \* the Developer read under way, and who had the device when it was asked
    refresh,        \* the list refresh under way, with the entry it got
    carried,        \* history: the shown reading was kept, or written, across the take-over
    reloads

govee   == <<taken, entry, devAt>>
account == <<fahrenheit, dated>>
meter   == <<owned, shown, frameTs, carried>>
vars    == <<govee, account, frames, meter, ask, refresh, reloads>>

Kinds   == {"empty", "humidity", "full"}
NoShown == [at |-> 0, unit |-> "C", by |-> "nobody"]
NoCopy  == [at |-> 0, has |-> "empty"]
Idle    == [at |-> "idle", entry |-> NoCopy]

\* The unit the entity takes the stored value to be in.
ReadsAs(own) == IF fahrenheit /\ ~own THEN "F" ELSE "C"

TypeOK ==
    /\ taken \in 1..MaxTaken /\ entry \in [at : 0..taken, has : Kinds] /\ devAt \in 0..taken
    /\ fahrenheit \in BOOLEAN /\ \A i \in DOMAIN frames : frames[i] \in 1..taken
    /\ owned \in BOOLEAN /\ frameTs \in 0..taken /\ carried \in BOOLEAN
    /\ shown \in [at : 0..taken, unit : {"C", "F"}, by : {"nobody", "frame", "list", "poll"}]
    /\ ask \in {"none", "pending", "owned"} /\ dated \in BOOLEAN
    /\ refresh \in [at : {"idle", "asked", "answered"}, entry : [at : 0..taken, has : Kinds]]
    /\ reloads \in 0..MaxMeterReloads

\* Discovery takes the device over only when its entry holds a reading.
Owns(e)    == e.has # "empty"
Listed(e)  == IF e.has = "full" THEN [at |-> e.at, unit |-> "C", by |-> "list"] ELSE NoShown

Init ==
    /\ taken = 1 /\ entry \in [at : {1}, has : Kinds] /\ devAt \in 0..1 /\ fahrenheit \in BOOLEAN /\ dated \in BOOLEAN
    /\ owned = Owns(entry) /\ shown = Listed(entry) /\ frameTs = 0 /\ carried = FALSE
    /\ frames = <<>> /\ ask = "none" /\ refresh = Idle /\ reloads = 0
-----------------------------------------------------------------------------
(* The gateway pushes each reading before a copy reaches the cloud; a push  *)
(* may be lost.                                                             *)

Takes ==
    /\ taken < MaxTaken /\ taken' = taken + 1
    /\ frames' \in {frames, Append(frames, taken')}
    /\ UNCHANGED <<entry, devAt, account, meter, ask, refresh, reloads>>

CopyLands ==
    /\ \/ \E h \in Kinds : entry' = [at |-> taken, has |-> h] /\ UNCHANGED devAt
       \/ devAt' = taken /\ UNCHANGED entry
    /\ UNCHANGED <<taken, account, frames, meter, ask, refresh, reloads>>
-----------------------------------------------------------------------------
(* The frames.                                                              *)

\* Bug: a frame is converted for the SKU, whoever owns the device.
UnitOfSku == ReadsAs(FALSE)

\* The unit a frame's reading is stored in.
FrameUnit == ReadsAs(owned)

FrameArrives ==
    /\ frames # <<>> /\ frames' = Tail(frames)
    /\ shown' = [at |-> Head(frames), unit |-> FrameUnit, by |-> "frame"]
    /\ frameTs' = Head(frames) /\ carried' = FALSE
    /\ UNCHANGED <<govee, account, owned, ask, refresh, reloads>>
-----------------------------------------------------------------------------
(* The Developer poll, in the unit the account displays.                    *)

\* A device the list owns is not asked about.
PollAsks ==
    /\ ask = "none" /\ ~owned /\ ask' = IF owned THEN "owned" ELSE "pending"
    /\ UNCHANGED <<govee, account, frames, meter, refresh, reloads>>

\* The answer is stored whoever owns the device by now, and whatever is newer;
\* an empty one keeps the reading.
PollAnswers ==
    /\ ask # "none" /\ ask' = "none"
    /\ IF devAt = 0 THEN UNCHANGED <<shown, carried>>
       ELSE /\ shown' = [at |-> devAt, unit |-> ReadsAs(FALSE), by |-> "poll"]
            /\ carried' = (owned /\ ask = "pending")
    /\ UNCHANGED <<govee, account, frames, owned, frameTs, refresh, reloads>>
-----------------------------------------------------------------------------
(* The account's list.                                                      *)

RefreshAsks ==
    /\ refresh.at = "idle" /\ refresh' = [refresh EXCEPT !.at = "asked"]
    /\ UNCHANGED <<govee, account, frames, meter, ask, reloads>>

ListAnswers ==
    /\ refresh.at = "asked" /\ refresh' = [at |-> "answered", entry |-> entry]
    /\ UNCHANGED <<govee, account, frames, meter, ask, reloads>>

ListFails ==
    /\ refresh.at = "asked" /\ refresh' = Idle
    /\ UNCHANGED <<govee, account, frames, meter, ask, reloads>>

\* Bug: the age of the entry is not looked at.
NeverStale(e) == FALSE

\* A reading no newer than the last frame is the cloud catching up; without a
\* frame, or a time, the question cannot be answered.
Stale(e) == frameTs # 0 /\ dated /\ e.at <= frameTs

\* A pending device is taken over by its first reading; a reading the entry
\* lacks, or a stale one, leaves the stored value as it is.
Apply(e) ==
    LET fresh == ~Stale(e) /\ e.has = "full"
    IN  /\ owned' = (owned \/ Owns(e))
        /\ shown' = IF fresh THEN Listed(e) ELSE shown
        /\ carried' = (~fresh /\ (carried \/ (~owned /\ Owns(e) /\ shown.by # "nobody")))

Refreshed ==
    /\ refresh.at = "answered" /\ refresh' = Idle
    /\ Apply(refresh.entry)
    /\ UNCHANGED <<govee, account, frames, frameTs, ask, reloads>>
-----------------------------------------------------------------------------
\* The entry is set up anew from the list as it now stands.
Reload ==
    /\ reloads < MaxMeterReloads /\ reloads' = reloads + 1
    /\ owned' = Owns(entry) /\ shown' = Listed(entry) /\ frameTs' = 0 /\ carried' = FALSE
    /\ ask' = "none" /\ refresh' = Idle /\ frames' = <<>>
    /\ UNCHANGED <<govee, account>>
-----------------------------------------------------------------------------
Next == \/ Takes \/ CopyLands \/ FrameArrives \/ PollAsks \/ PollAnswers
        \/ RefreshAsks \/ ListAnswers \/ ListFails \/ Refreshed \/ Reload

Spec == Init /\ [][Next]_vars
-----------------------------------------------------------------------------
\* A reading is stored in the unit the entity reads it in, except one that was
\* kept across the take-over by the list, or written after it by a poll that
\* was under way (coordinator.py 2842, 2876-2884, 5085).
UnitIsRight == shown.by # "nobody" => shown.unit = ReadsAs(owned) \/ carried

\* The reading of a frame is replaced by one taken before it only by a list
\* that carries no times, by the Developer read asked before the list took the
\* device over, or by a reload (coordinator.py 2595-2609, 2864-2889, 4989, 5085);
\* and after every step the unit is right.
ReadingsMoveForward ==
    [][/\ shown.by = "frame" /\ shown'.at < shown.at =>
            ~dated \/ ask = "pending" \/ reloads' # reloads
       /\ UnitIsRight']_vars
=============================================================================
