----------------------------- MODULE StateMerge -----------------------------
(***************************************************************************)
(* One light's GoveeDeviceState and everything that writes it: optimistic  *)
(* updates of commands, AWS IoT pushes, LAN reads, and the cloud poll,     *)
(* which builds a new state object and merges into it what the poll does   *)
(* not report.  The poll's answer may be as old as it likes when it is     *)
(* committed, and so may a push: reports here are arbitrary.  The merge    *)
(* and the commit run without an await, on the object held at that moment. *)
(***************************************************************************)
EXTENDS Naturals, FiniteSets

CONSTANTS
    Colors,         \* other than {0,0,0}
    White,          \* restored when nothing better is known
    Kelvins,
    Readings,       \* fields that are None until something reports them
    Polled,         \* ... those a cloud poll may carry
    WriteOnly,      \* ... those only a command sets, and no reader reports
    Window,         \* the optimistic grace, in ticks
    MaxCommands,    \* bound: commands
    None, Black, Absent

ASSUME StateAssumption ==
    /\ White \in Colors /\ Window \in Nat \ {0} /\ MaxCommands \in Nat
    /\ Polled \subseteq Readings /\ WriteOnly \subseteq Readings \ Polled
    /\ Black \notin Colors \cup Kelvins \cup {None, Absent}
    /\ None \notin Colors \cup Kelvins \cup {Absent}
    /\ Absent \notin BOOLEAN /\ None \notin BOOLEAN \cup Nat

VARIABLES
    power, color, kelvin,    \* what Home Assistant shows
    effects,        \* active_scene, active_diy_scene, music_mode_enabled, dreamview_enabled
    lastColor, lastKelvin,          \* what clearing a scene restores
    source, stamp,  \* stamp: ticks since last_optimistic_update, None without one
    known,          \* Readings that are not None
    dreamOff,       \* async_send_dreamview(False): none, or its object is held or replaced
    commands,
    sent, sentAge,  \* history: the power last commanded and not yet answered for
    seen            \* history: a static look was set or reported since the scene began

look   == <<color, kelvin>>
target == <<lastColor, lastKelvin>>
grace  == <<source, stamp>>
hist   == <<sent, sentAge, seen>>
vars   == <<power, look, effects, target, grace, known, dreamOff, commands, hist>>

Effects == {"scene", "diy", "music", "dream"}
InScene == effects \cap {"scene", "diy"} # {}

\* A device reports a colour, a white, or neither (an effect: {0,0,0} and 0 K).
Looks == {[color |-> c, kelvin |-> None] : c \in Colors \cup {Black, None}}
         \cup {[color |-> Black, kelvin |-> k] : k \in Kelvins}
Static(l) == l.color \in Colors \/ l.kelvin # None

TypeOK ==
    /\ power \in BOOLEAN
    /\ color \in Colors \cup {Black, None} /\ kelvin \in Kelvins \cup {None}
    /\ effects \subseteq Effects
    /\ lastColor \in Colors \cup {None} /\ lastKelvin \in Kelvins \cup {None}
    /\ source \in {"api", "mqtt", "lan", "optimistic"} /\ stamp \in 0..Window \cup {None}
    /\ known \subseteq Readings /\ dreamOff \in {"none", "held", "replaced"}
    /\ commands \in 0..MaxCommands
    /\ sent \in BOOLEAN \cup {None} /\ sentAge \in 0..Window /\ seen \in BOOLEAN

\* The state after the first poll.
Init ==
    /\ power \in BOOLEAN
    /\ \E l \in Looks : color = l.color /\ kelvin = l.kelvin
    /\ effects = {} /\ lastColor = None /\ lastKelvin = None
    /\ source = "api" /\ stamp = None
    /\ known = {} /\ dreamOff = "none" /\ commands = 0
    /\ sent = None /\ sentAge = 0 /\ seen = FALSE
-----------------------------------------------------------------------------
\* _in_optimistic_grace: both the marker and the stamp.
InGrace == source = "optimistic" /\ stamp # None /\ stamp < Window

Tick ==
    /\ stamp # None /\ stamp < Window
    /\ stamp' = stamp + 1 /\ sentAge' = IF sent # None /\ sentAge < Window THEN sentAge + 1 ELSE sentAge
    /\ UNCHANGED <<power, look, effects, target, source, known, dreamOff, commands, sent, seen>>

\* A command that stamps.  A power already commanded stays protected.
Stamp ==
    /\ source' = "optimistic" /\ stamp' = 0 /\ sentAge' = 0

Counted == commands < MaxCommands /\ commands' = commands + 1

CommandPower(on) ==
    /\ Counted /\ Stamp
    /\ power' = on /\ sent' = on
    /\ UNCHANGED <<look, effects, target, known, dreamOff, seen>>

\* Brightness, and the commands of other fields that stamp.
CommandOther ==
    /\ Counted /\ Stamp
    /\ UNCHANGED <<power, look, effects, target, known, dreamOff, sent, seen>>

\* A colour or a white ends a scene, and the other of the two; it leaves a DIY
\* scene, music mode and DreamView marked as they were.
SetLook(c, k) ==
    /\ color' = c /\ kelvin' = k
    /\ seen' = TRUE

CommandLook(c, k) ==
    /\ Counted /\ Stamp
    /\ SetLook(c, k)
    /\ effects' = effects \ {"scene"}
    /\ UNCHANGED <<power, target, known, dreamOff, sent>>

\* Bug: {0,0,0} is remembered too.
SaveAnyLook ==
    IF color # None THEN lastColor' = color /\ lastKelvin' = None
    ELSE IF kelvin # None THEN lastKelvin' = kelvin /\ lastColor' = None
    ELSE UNCHANGED target

\* Remember what to restore when the scene ends.
SaveLook ==
    IF color \in Colors THEN lastColor' = color /\ lastKelvin' = None
    ELSE IF kelvin # None THEN lastKelvin' = kelvin /\ lastColor' = None
    ELSE UNCHANGED target

CommandScene ==
    /\ Counted /\ Stamp
    /\ SaveLook
    /\ color' = None /\ kelvin' = None
    /\ effects' = {"scene"} /\ seen' = (InScene /\ seen)
    /\ UNCHANGED <<power, known, dreamOff, sent>>

\* A DIY scene leaves the look in place.
CommandDiy ==
    /\ Counted /\ Stamp
    /\ SaveLook
    /\ effects' = {"diy"} /\ seen' = (InScene /\ seen)
    /\ UNCHANGED <<power, look, known, dreamOff, sent>>

\* Music mode or DreamView: enabling one ends the rest.
CommandMode(m, on) ==
    /\ Counted /\ Stamp
    /\ effects' = IF on THEN {m} ELSE effects \ {m}
    /\ UNCHANGED <<power, look, target, known, dreamOff, sent, seen>>

\* A setpoint: neither marker nor stamp.
CommandSetpoint(r) ==
    /\ Counted /\ known' = known \cup {r}
    /\ UNCHANGED <<power, look, effects, target, grace, dreamOff, hist>>

\* async_clear_scene: a colour command brings the remembered look back.
Restored ==
    LET c == IF color \in Colors THEN color ELSE lastColor
        k == IF kelvin # None THEN kelvin ELSE lastKelvin
    IN  IF c # None THEN <<c, None>> ELSE IF k # None THEN <<None, k>> ELSE <<White, None>>

ClearScene ==
    /\ InScene /\ Counted /\ Stamp
    /\ SetLook(Restored[1], Restored[2])
    /\ effects' = effects \ {"scene", "diy"}
    /\ UNCHANGED <<power, target, known, dreamOff, sent>>

\* Nothing to clear: clear_scene leaves the marker, without a stamp.
ClearNothing ==
    /\ ~InScene /\ Counted /\ source' = "optimistic"
    /\ UNCHANGED <<power, look, effects, target, stamp, known, dreamOff, hist>>

\* async_send_dreamview(False) on a light that leaves video mode by a colour
\* command: it takes the state object and its colour, then awaits the command.
DreamOffStarts ==
    /\ dreamOff = "none" /\ "dream" \in effects
    /\ dreamOff' = "held"
    /\ UNCHANGED <<power, look, effects, target, grace, known, commands, hist>>

\* The command's update goes to the current object, the flag to the one taken.
DreamOffEnds(c) ==
    /\ dreamOff # "none" /\ dreamOff' = "none"
    /\ Counted /\ Stamp
    /\ SetLook(c, None)
    /\ effects' = effects \ (IF dreamOff = "held" THEN {"scene", "dream"} ELSE {"scene"})
    /\ UNCHANGED <<power, target, known, sent>>

DreamOffFails ==
    /\ dreamOff # "none" /\ dreamOff' = "none"
    /\ UNCHANGED <<power, look, effects, target, grace, known, commands, hist>>
-----------------------------------------------------------------------------
\* The history of the power: a push or a poll that agrees answers for the
\* command, any reading once its time is up.
Answered(answer) ==
    IF answer \/ sentAge = Window THEN sent' = None /\ sentAge' = 0 ELSE UNCHANGED <<sent, sentAge>>

\* Bug: the colour of a running effect is taken for the light's own.
AdoptLive(l) ==
    IF l.kelvin # None THEN color' = None /\ kelvin' = l.kelvin
    ELSE IF l.color \in Colors THEN color' = l.color /\ kelvin' = None
    ELSE UNCHANGED look

\* update_from_lan: during an effect the colour is live and says nothing.
Adopt(l) ==
    IF effects # {} THEN UNCHANGED look
    ELSE IF l.kelvin # None THEN color' = None /\ kelvin' = l.kelvin
    ELSE IF l.color \in Colors THEN color' = l.color /\ kelvin' = None
    ELSE UNCHANGED look

\* Bug: a read in the grace period stamps its source, and so ends the period.
LanPowerStamps(on) ==
    /\ source' = "lan"
    /\ IF InGrace THEN UNCHANGED <<power, stamp>>
       ELSE power' = (IF on = Absent THEN power ELSE on) /\ stamp' = None

\* In the grace period the power is left alone, and the period too.
LanPower(on) ==
    IF InGrace THEN UNCHANGED <<power, grace>>
    ELSE power' = (IF on = Absent THEN power ELSE on) /\ source' = "lan" /\ stamp' = None

\* _apply_lan_read.
LanRead(on, l) ==
    /\ Adopt(l) /\ LanPower(on)
    /\ Answered(FALSE)
    /\ seen' = (seen \/ (effects = {} /\ Static(l)))
    /\ UNCHANGED <<effects, target, known, dreamOff, commands>>

\* _on_mqtt_state_update: what the push carries, and the end of the grace
\* period.  Frames may carry readings, and on some models DreamView itself.
Push(on, l, dream, rs) ==
    /\ power' = IF on = Absent THEN power ELSE on
    /\ IF l = Absent THEN UNCHANGED <<look, seen>>
       ELSE color' = l.color /\ kelvin' = l.kelvin /\ seen' = (seen \/ Static(l))
    /\ effects' = IF dream = Absent THEN effects
                  ELSE IF dream THEN effects \cup {"dream"} ELSE effects \ {"dream"}
    /\ known' = known \cup rs
    /\ source' = "mqtt" /\ stamp' = None
    /\ Answered(TRUE)
    /\ UNCHANGED <<target, dreamOff, commands>>

\* Bug: the grace period starts again with every poll it outlives.
MergedPowerRestamps(on) ==
    IF InGrace /\ power # on THEN stamp' = 0 /\ UNCHANGED <<power, source>>
    ELSE power' = on /\ source' = "api" /\ stamp' = None

\* In the grace period a power that differs is held, and the period with it;
\* one that agrees ends it.
MergedPower(on) ==
    IF InGrace /\ power # on THEN UNCHANGED <<power, grace>>
    ELSE power' = on /\ source' = "api" /\ stamp' = None

\* Bug: what the poll lacks is not copied to the new object.
MergedKnownFresh(rs) == rs

\* The polled readings, and those of the old object on the merge's list.
MergedKnown(rs) == rs \cup (known \ WriteOnly)

\* Scenes outlive anything; music mode and DreamView end with the power.
MergedEffects(dream) ==
    (effects \cap {"scene", "diy"}) \cup (IF power' THEN effects \cap {"music", "dream"} ELSE {})
    \cup (IF dream THEN {"dream"} ELSE {})

\* _fetch_device_state's merge and the commit of the new object.  {0,0,0}
\* never replaces a real colour.
Poll(on, l, dream, rs) ==
    /\ MergedPower(on)
    /\ Answered(on = sent)
    /\ color' = IF l.color = Black /\ color \in Colors THEN color ELSE l.color
    /\ kelvin' = l.kelvin
    /\ effects' = MergedEffects(dream)
    /\ known' = MergedKnown(rs)
    /\ dreamOff' = IF dreamOff = "held" THEN "replaced" ELSE dreamOff
    /\ seen' = (seen \/ Static(l))
    /\ UNCHANGED <<target, commands>>
-----------------------------------------------------------------------------
AnyPoll ==
    \E on, dream \in BOOLEAN, l \in Looks, rs \in SUBSET Polled : Poll(on, l, dream, rs)

AnyPush ==
    \E on, dream \in BOOLEAN \cup {Absent}, l \in Looks \cup {Absent},
       rs \in SUBSET (Readings \ WriteOnly) : Push(on, l, dream, rs)

AnyLanRead == \E on \in BOOLEAN \cup {Absent}, l \in Looks : LanRead(on, l)

Command ==
    \/ \E on \in BOOLEAN : CommandPower(on)
    \/ \E c \in Colors : CommandLook(c, None)
    \/ \E k \in Kelvins : CommandLook(None, k)
    \/ CommandOther \/ CommandScene \/ CommandDiy
    \/ \E m \in {"music", "dream"}, on \in BOOLEAN : CommandMode(m, on)
    \/ ClearScene \/ ClearNothing
    \/ \E r \in WriteOnly : CommandSetpoint(r)
    \/ DreamOffStarts
    \/ \E c \in Colors : DreamOffEnds(c)
    \/ DreamOffFails

Next == Tick \/ Command \/ AnyPoll \/ AnyPush \/ AnyLanRead

Spec == Init /\ [][Next]_vars

\* Time passes, and the poll's timer fires for a light it does not skip.
FairSpec == Spec /\ WF_vars(Tick) /\ WF_vars(AnyPoll)
-----------------------------------------------------------------------------
\* The power last commanded is shown until a push comes, a poll agrees, or
\* something is read after Window: whatever slower reads report before that,
\* in whichever order they come ("must not overwrite the in-flight power").
CommandedPowerHolds == sent # None => power = sent

\* Scene A, then scene B, then none: A's start is what comes back, unless the
\* light was seen to have left the effect.  Live colours in between, from LAN
\* reads, and the cloud's {0,0,0} do not count.
EffectsKeepTarget == [][InScene /\ InScene' /\ ~seen => UNCHANGED target]_vars

\* What a push, a frame or another poll reported does not go back to unknown
\* because a cloud poll lacks it.
KnownStaysKnown == [][known \ WriteOnly \subseteq known']_vars

\* Together: neither the look to go back to nor a reading is forgotten.
NothingIsForgotten == EffectsKeepTarget /\ KnownStaysKnown

\* An optimistic state does not outlive its command for ever: a reader has
\* the last word.
ReadersWin == <>[](source # "optimistic")

\* "Restore the last known colour (or white) over the normal control path so
\* the switch settles to off instead of sticking" (async_send_dreamview).  A
\* poll committed during the command replaces the object the flag is cleared
\* on, with the flag copied: this fails.
DreamViewSettlesOff == [][(\E c \in Colors : DreamOffEnds(c)) => "dream" \notin effects']_vars
=============================================================================
