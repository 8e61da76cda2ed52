-------------------------- MODULE SegmentReadback ---------------------------
(***************************************************************************)
(* The segments of a light bar (H6046): entities paint them on trust, one  *)
(* by one, all together or as a named group, and the bar's status pushes   *)
(* read them back.  A push may still hold what was lit before a paint, so  *)
(* each write opens a window in which the entity takes no reading.         *)
(* External: the bar, its pushes, Govee's app.                             *)
(***************************************************************************)
EXTENDS Naturals, FiniteSets, Sequences

CONSTANTS
    Count,          \* the segments
    PerFrame,       \* the readings of one frame: SEGMENTS_PER_FRAME
    Colours,
    MaxPushes,      \* bound: pushes on their way at once
    MaxEvents       \* bound: calls of the entities, calls lost or raised, changes by the app

VARIABLES
    mode,           \* the option: segments beside one for all, or a group of them
    lamp,           \* external: what each segment shows
    powered,        \* state.power_state
    latched,        \* a power-on was sent within POWER_LATCH_SECONDS
    isOn, rgb,      \* what each entity shows
    grace,          \* within READBACK_WRITE_GRACE_SECONDS of its last write
    call,           \* the call of each entity: where it is, what it asks and what it sends
    pushed,         \* the readings on their way: of which frames, and what changed since they were made
    painter,        \* history: who changed each segment last
    unsure, raced,  \* history: others changed what an entity shows; it was told something during its own call
    events

shown == <<isOn, rgb, grace>>
past  == <<painter, unsure, raced>>
vars  == <<mode, lamp, powered, latched, shown, call, pushed, past, events>>

Segs     == 1..Count
All      == 0               \* the grouped entity
Group    == Count + 1       \* a named group
App      == Count + 2       \* Govee's app
Entities == 0..Group
Black    == "black"
Lights   == Colours \cup {Black}
Members(e) == IF e \in Segs THEN {e} ELSE Segs
Present  == IF mode = "groups" THEN {Group} ELSE Segs \cup {All}
GroupOf(s) == (s - 1) \div PerFrame + 1     \* the frame that carries a segment
Frames   == {GroupOf(s) : s \in Segs}
NoCall   == [at |-> "idle", asks |-> Black, sends |-> Black]

TypeOK ==
    /\ mode \in {"both", "groups"} /\ lamp \in [Segs -> Lights]
    /\ powered \in BOOLEAN /\ latched \in BOOLEAN
    /\ isOn \in [Entities -> BOOLEAN] /\ rgb \in [Entities -> Colours] /\ grace \in [Entities -> BOOLEAN]
    /\ call \in [Entities -> [at : {"idle", "powers", "paints", "landed"}, asks : Lights, sends : Lights]]
    /\ \A i \in DOMAIN pushed : pushed[i] \in [of : [Segs -> Lights], frames : SUBSET Frames, changed : SUBSET Segs]
    /\ Len(pushed) <= MaxPushes /\ painter \in [Segs -> Entities \cup {App}]
    /\ unsure \in [Entities -> BOOLEAN] /\ raced \in [Entities -> BOOLEAN]
    /\ events \in 0..MaxEvents

Init ==
    /\ mode \in {"both", "groups"} /\ powered \in BOOLEAN /\ latched = FALSE
    /\ \E c \in Colours : lamp = [s \in Segs |-> c] /\ rgb = [e \in Entities |-> c]
    /\ isOn = [e \in Entities |-> TRUE] /\ grace = [e \in Entities |-> FALSE]
    /\ call = [e \in Entities |-> NoCall] /\ pushed = <<>> /\ painter = [s \in Segs |-> App]
    /\ unsure = [e \in Entities |-> FALSE] /\ raced = [e \in Entities |-> FALSE]
    /\ events = 0

Touches(e, segs) == Members(e) \cap segs # {}
-----------------------------------------------------------------------------
(* A call: turning on powers the bar first; turning off a dark bar, or one  *)
(* that is going dark, sends nothing.                                       *)

TurnOn(e, c) ==
    /\ call[e].at = "idle" /\ events < MaxEvents /\ events' = events + 1 /\ e \in Present
    /\ rgb' = [rgb EXCEPT ![e] = c] /\ raced' = [raced EXCEPT ![e] = FALSE]
    /\ latched' = (latched \/ ~powered)
    /\ call' = [call EXCEPT ![e] = [at |-> IF powered \/ latched THEN "paints" ELSE "powers",
                                    asks |-> c, sends |-> c]]
    /\ UNCHANGED <<mode, lamp, powered, isOn, grace, pushed, painter, unsure>>

\* Raw frames are built from what the entity shows by now, the cloud's command
\* was built before.
Sends(e) == {rgb[e], call[e].asks}

\* Powered on or not, the call goes on.
PoweredUp(e) ==
    /\ call[e].at = "powers" /\ powered' \in {TRUE, powered}
    /\ \E c \in Sends(e) : call' = [call EXCEPT ![e].at = "paints", ![e].sends = c]
    /\ UNCHANGED <<mode, lamp, latched, shown, pushed, past, events>>

LatchEnds == latched /\ latched' = FALSE
             /\ UNCHANGED <<mode, lamp, powered, shown, call, pushed, past, events>>

TurnOff(e) ==
    /\ call[e].at = "idle" /\ events < MaxEvents /\ events' = events + 1 /\ e \in Present /\ powered
    /\ call' = [call EXCEPT ![e] = [at |-> "paints", asks |-> Black, sends |-> Black]]
    /\ raced' = [raced EXCEPT ![e] = FALSE]
    /\ UNCHANGED <<mode, lamp, powered, latched, shown, pushed, painter, unsure>>

\* A change of the bar, whoever made it: the readings made before do not hold it.
Changes(segs, c, by) ==
    /\ lamp' = [s \in Segs |-> IF s \in segs THEN c ELSE lamp[s]]
    /\ painter' = [s \in Segs |-> IF s \in segs THEN by ELSE painter[s]]
    /\ pushed' = [i \in DOMAIN pushed |-> [pushed[i] EXCEPT !.changed = @ \cup segs]]
    /\ unsure' = [f \in Entities |-> unsure[f] \/ (f # by /\ Touches(f, segs))]

Lands(e) ==
    /\ call[e].at = "paints" /\ call' = [call EXCEPT ![e].at = "landed"]
    /\ Changes(Members(e), call[e].sends, e)
    /\ UNCHANGED <<mode, powered, latched, shown, raced, events>>

PaintLost(e) ==
    /\ call[e].at = "paints" /\ call' = [call EXCEPT ![e].at = "landed"]
    /\ events < MaxEvents /\ events' = events + 1
    /\ painter' = [s \in Segs |-> IF s \in Members(e) THEN App ELSE painter[s]]
    /\ UNCHANGED <<mode, lamp, powered, latched, shown, pushed, unsure, raced>>

\* An account error, a refusal or a lost answer ends a call before it tells
\* anyone; the colour it took stays.
Raises(e) ==
    /\ call[e].at # "idle" /\ call' = [call EXCEPT ![e] = NoCall]
    /\ events < MaxEvents /\ events' = events + 1
    /\ unsure' = [unsure EXCEPT ![e] = TRUE]
    /\ UNCHANGED <<mode, lamp, powered, latched, shown, pushed, painter, raced>>
-----------------------------------------------------------------------------
\* Bug: a write through the grouped entity opens no window in the others.
OpensOwn(e) == {e}

\* The windows a write opens: the entity's own, and those that mirror it.
Opens(e) == IF e = All THEN Segs \cup {All} ELSE {e}

\* Whom the end of a call tells: all segments mirror the grouped entity.
Told(e) == IF e = All THEN Segs \cup {All} ELSE {e}

\* A call's end shows on or off, and the colour the entity holds by then.
Tells(e, on) ==
    /\ isOn' = [f \in Entities |-> IF f \in Told(e) THEN on ELSE isOn[f]]
    /\ rgb' = [f \in Entities |-> IF f \in Told(e) THEN rgb[e] ELSE rgb[f]]
    /\ grace' = [f \in Entities |-> f \in Opens(e) \/ grace[f]]
    /\ raced' = [f \in Entities |-> raced[f] \/ (f \in Told(e) \ {e} /\ call[f].at # "idle")]

Returns(e) ==
    /\ call[e].at = "landed" /\ call' = [call EXCEPT ![e] = NoCall] /\ Tells(e, call[e].asks # Black)
    /\ unsure' = [f \in Entities |-> IF f \notin Told(e) THEN unsure[f]
                                     ELSE raced[e] \/ \E s \in Members(f) : painter[s] # e]
    /\ UNCHANGED <<mode, lamp, powered, latched, pushed, painter, events>>

\* The bar is off, or a power-off is pending: shown off, and nothing is sent.
LeftOut(e) ==
    /\ call[e].at = "idle" /\ events < MaxEvents /\ events' = events + 1 /\ e \in Present /\ Tells(e, FALSE)
    /\ unsure' = [f \in Entities |-> unsure[f] \/ f \in Told(e)]
    /\ UNCHANGED <<mode, lamp, powered, latched, call, pushed, painter>>

\* The bar's echo lag is shorter than the window: no reading made before the
\* entity's paint is still on its way when the window ends.
GraceEnds(e) ==
    /\ grace[e] /\ grace' = [grace EXCEPT ![e] = FALSE]
    /\ \A i \in DOMAIN pushed : ~Touches(e, pushed[i].changed)
    /\ UNCHANGED <<mode, lamp, powered, latched, isOn, rgb, call, pushed, past, events>>
-----------------------------------------------------------------------------
(* The readings.                                                            *)

Pushes(frames) ==
    /\ Len(pushed) < MaxPushes /\ frames # {}
    /\ pushed' = Append(pushed, [of |-> lamp, frames |-> frames, changed |-> {}])
    /\ UNCHANGED <<mode, lamp, powered, latched, shown, call, past, events>>

\* The segments a push has a reading of.
Readings(push) == {s \in Segs : GroupOf(s) \in push.frames}

\* Read outside its window; a member without a reading is ignored.
Reads(e, push) == e \in Present \ {All} /\ ~grace[e] /\ Touches(e, Readings(push))

\* A group is on while a member is lit, in the colour of its first.
Lit(e, of) == {s \in Members(e) : of[s] # Black}
First(segs) == CHOOSE s \in segs : \A t \in segs : s <= t
LitIn(e, push) == Lit(e, push.of) \cap Readings(push)

Readback ==
    LET push == Head(pushed)
    IN  /\ pushed # <<>> /\ pushed' = Tail(pushed)
        /\ isOn' = [e \in Entities |-> IF Reads(e, push) THEN LitIn(e, push) # {} ELSE isOn[e]]
        /\ rgb' = [e \in Entities |-> IF Reads(e, push) /\ LitIn(e, push) # {}
                                      THEN push.of[First(LitIn(e, push))] ELSE rgb[e]]
        /\ raced' = [e \in Entities |-> raced[e] \/ (Reads(e, push) /\ call[e].at # "idle")]
        /\ unsure' = [e \in Entities |->
             IF Reads(e, push)
             THEN ~(Members(e) \subseteq Readings(push)) \/ (unsure[e] /\ Touches(e, push.changed))
             ELSE unsure[e]]
        /\ UNCHANGED <<mode, lamp, powered, latched, grace, call, painter, events>>

AppPaints(s, c) ==
    /\ events < MaxEvents /\ events' = events + 1
    /\ Changes({s}, c, App)
    /\ UNCHANGED <<mode, powered, latched, shown, call, raced>>

AppSwitchesOff ==
    /\ powered /\ events < MaxEvents /\ events' = events + 1 /\ powered' = FALSE
    /\ UNCHANGED <<mode, lamp, latched, shown, call, pushed, past>>
-----------------------------------------------------------------------------
Next == \/ \E e \in Entities : \/ \E c \in Colours : TurnOn(e, c)
                               \/ TurnOff(e) \/ LeftOut(e) \/ PoweredUp(e) \/ Lands(e) \/ PaintLost(e)
                               \/ Raises(e) \/ Returns(e) \/ GraceEnds(e)
        \/ \E s \in Segs, c \in Lights : AppPaints(s, c)
        \/ LatchEnds \/ (\E frames \in SUBSET Frames : Pushes(frames)) \/ Readback \/ AppSwitchesOff

Spec == Init /\ [][Next]_vars
-----------------------------------------------------------------------------
\* An entity that is not being called shows what its segments show, unless
\* someone else changed them since it was last told, or it was told
\* something during its own call (segment.py 41-50, 244-318).
ReadbackIsTrue ==
    \A e \in Present \ {All} : call[e].at = "idle" /\ ~unsure[e] =>
        /\ isOn[e] <=> Lit(e, lamp) # {}
        /\ isOn[e] => rgb[e] = lamp[First(Lit(e, lamp))]
=============================================================================
