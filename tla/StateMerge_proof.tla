-------------------------- MODULE StateMerge_proof --------------------------
(* Theorems of StateMerge, for any colours, readings and grace period.      *)
EXTENDS StateMerge, TLAPS

\* The commanded power is shown, and its time is the stamp's while it lasts.
GraceInv ==
    /\ stamp # None => source = "optimistic"
    /\ sent # None => power = sent
    /\ sent # None /\ sentAge < Window => stamp = sentAge

\* Since a scene began and no static look was seen, the look still held is the
\* one remembered: saving it again changes nothing.
TargetInv ==
    InScene /\ ~seen =>
        /\ color \in Colors => lastColor = color /\ lastKelvin = None
        /\ color \notin Colors /\ kelvin # None => lastKelvin = kelvin /\ lastColor = None

IInv == TypeOK /\ GraceInv /\ TargetInv
-----------------------------------------------------------------------------
\* What a scene saves.
LEMMA SavedLook ==
    ASSUME StateAssumption, TypeOK, SaveLook
    PROVE  /\ lastColor' \in Colors \cup {None} /\ lastKelvin' \in Kelvins \cup {None}
           /\ color \in Colors => lastColor' = color /\ lastKelvin' = None
           /\ color \notin Colors /\ kelvin # None => lastKelvin' = kelvin /\ lastColor' = None
           /\ color \notin Colors /\ kelvin = None => UNCHANGED target
    BY DEF StateAssumption, TypeOK, SaveLook, target

\* What clearing one restores.
LEMMA RestoredLook ==
    ASSUME StateAssumption, TypeOK
    PROVE  Restored[1] \in Colors \cup {Black, None} /\ Restored[2] \in Kelvins \cup {None}
    BY DEF StateAssumption, TypeOK, Restored

\* The types are kept.
LEMMA TypeStep ==
    ASSUME StateAssumption, TypeOK, [Next]_vars
    PROVE  TypeOK'
    <1> USE DEF TypeOK, StateAssumption, Counted, Stamp, SetLook, look, target, grace, hist, Answered
    <1>1. CASE Tick
        BY <1>1 DEF Tick
    <1>2. ASSUME NEW on \in BOOLEAN, CommandPower(on) PROVE TypeOK'
        BY <1>2 DEF CommandPower
    <1>3. ASSUME NEW c \in Colors, CommandLook(c, None) PROVE TypeOK'
        BY <1>3 DEF CommandLook
    <1>4. ASSUME NEW k \in Kelvins, CommandLook(None, k) PROVE TypeOK'
        BY <1>4 DEF CommandLook
    <1>5. CASE CommandOther
        BY <1>5 DEF CommandOther
    <1>6. CASE CommandScene
        BY <1>6, SavedLook DEF CommandScene, InScene, Effects
    <1>7. CASE CommandDiy
        BY <1>7, SavedLook DEF CommandDiy, InScene, Effects
    <1>8. ASSUME NEW m \in {"music", "dream"}, NEW on \in BOOLEAN, CommandMode(m, on) PROVE TypeOK'
        BY <1>8 DEF CommandMode, Effects
    <1>9. CASE ClearScene
        BY <1>9, RestoredLook DEF ClearScene
    <1>10. CASE ClearNothing
        BY <1>10 DEF ClearNothing
    <1>11. ASSUME NEW r \in WriteOnly, CommandSetpoint(r) PROVE TypeOK'
        BY <1>11 DEF CommandSetpoint
    <1>12. CASE DreamOffStarts
        BY <1>12 DEF DreamOffStarts
    <1>13. ASSUME NEW c \in Colors, DreamOffEnds(c) PROVE TypeOK'
        BY <1>13 DEF DreamOffEnds
    <1>14. CASE DreamOffFails
        BY <1>14 DEF DreamOffFails
    <1>15. ASSUME NEW on \in BOOLEAN, NEW dream \in BOOLEAN, NEW l \in Looks, NEW rs \in SUBSET Polled,
                  Poll(on, l, dream, rs)
           PROVE  TypeOK'
        <2>1. l.color \in Colors \cup {Black, None} /\ l.kelvin \in Kelvins \cup {None}
            BY DEF Looks
        <2>2. power' \in BOOLEAN /\ source' \in {"api", "mqtt", "lan", "optimistic"} /\ stamp' \in 0..Window \cup {None}
            BY <1>15 DEF Poll, MergedPower, InGrace
        <2>3. effects' \subseteq Effects /\ known' \subseteq Readings
            BY <1>15 DEF Poll, MergedEffects, MergedKnown, Effects
        <2> QED
            BY <1>15, <2>1, <2>2, <2>3 DEF Poll
    <1>16. ASSUME NEW on \in BOOLEAN \cup {Absent}, NEW dream \in BOOLEAN \cup {Absent},
                  NEW l \in Looks \cup {Absent}, NEW rs \in SUBSET (Readings \ WriteOnly), Push(on, l, dream, rs)
           PROVE  TypeOK'
        <2>1. l # Absent => l.color \in Colors \cup {Black, None} /\ l.kelvin \in Kelvins \cup {None}
            BY DEF Looks
        <2>2. color' \in Colors \cup {Black, None} /\ kelvin' \in Kelvins \cup {None} /\ seen' \in BOOLEAN
            BY <1>16, <2>1 DEF Push
        <2>3. power' \in BOOLEAN /\ effects' \subseteq Effects /\ known' \subseteq Readings
            BY <1>16 DEF Push, Effects
        <2> QED
            BY <1>16, <2>2, <2>3 DEF Push
    <1>17. ASSUME NEW on \in BOOLEAN \cup {Absent}, NEW l \in Looks, LanRead(on, l) PROVE TypeOK'
        <2>1. l.color \in Colors \cup {Black, None} /\ l.kelvin \in Kelvins \cup {None}
            BY DEF Looks
        <2>2. color' \in Colors \cup {Black, None} /\ kelvin' \in Kelvins \cup {None}
            BY <1>17, <2>1 DEF LanRead, Adopt
        <2>3. power' \in BOOLEAN /\ source' \in {"api", "mqtt", "lan", "optimistic"} /\ stamp' \in 0..Window \cup {None}
            BY <1>17 DEF LanRead, LanPower
        <2> QED
            BY <1>17, <2>2, <2>3 DEF LanRead
    <1>18. CASE UNCHANGED vars
        BY <1>18 DEF vars
    <1> QED
        BY <1>1, <1>2, <1>3, <1>4, <1>5, <1>6, <1>7, <1>8, <1>9, <1>10, <1>11, <1>12, <1>13, <1>14, <1>15,
           <1>16, <1>17, <1>18
        DEF Next, Command, AnyPoll, AnyPush, AnyLanRead
-----------------------------------------------------------------------------
\* Commands start the window anew, readers in it leave the power alone, and
\* readers after it answer for the command.
LEMMA GraceStep ==
    ASSUME StateAssumption, TypeOK, GraceInv, [Next]_vars
    PROVE  GraceInv'
    <1> USE DEF TypeOK, GraceInv, StateAssumption, Counted, Stamp, look, target, grace, hist, Answered
    <1>1. CASE Tick
        BY <1>1 DEF Tick
    <1>2. ASSUME NEW on \in BOOLEAN, CommandPower(on) PROVE GraceInv'
        BY <1>2 DEF CommandPower
    <1>3. ASSUME NEW c, NEW k, CommandLook(c, k) PROVE GraceInv'
        BY <1>3 DEF CommandLook
    <1>4. CASE CommandOther \/ CommandScene \/ CommandDiy \/ ClearScene \/ ClearNothing
        BY <1>4 DEF CommandOther, CommandScene, CommandDiy, ClearScene, ClearNothing
    <1>5. ASSUME NEW m, NEW on \in BOOLEAN, CommandMode(m, on) PROVE GraceInv'
        BY <1>5 DEF CommandMode
    <1>6. ASSUME NEW r, CommandSetpoint(r) PROVE GraceInv'
        BY <1>6 DEF CommandSetpoint
    <1>7. CASE DreamOffStarts \/ DreamOffFails
        BY <1>7 DEF DreamOffStarts, DreamOffFails
    <1>8. ASSUME NEW c, DreamOffEnds(c) PROVE GraceInv'
        BY <1>8 DEF DreamOffEnds
    <1>9. ASSUME NEW on \in BOOLEAN, NEW dream, NEW l, NEW rs, Poll(on, l, dream, rs) PROVE GraceInv'
        BY <1>9 DEF Poll, MergedPower, InGrace
    <1>10. ASSUME NEW on, NEW dream, NEW l, NEW rs, Push(on, l, dream, rs) PROVE GraceInv'
        BY <1>10 DEF Push
    <1>11. ASSUME NEW on, NEW l, LanRead(on, l) PROVE GraceInv'
        BY <1>11 DEF LanRead, LanPower, InGrace
    <1>12. CASE UNCHANGED vars
        BY <1>12 DEF vars
    <1> QED
        BY <1>1, <1>2, <1>3, <1>4, <1>5, <1>6, <1>7, <1>8, <1>9, <1>10, <1>11, <1>12
        DEF Next, Command, AnyPoll, AnyPush, AnyLanRead

\* The look held and the look remembered stay the same while only live colours
\* and {0,0,0} are reported.
LEMMA TargetStep ==
    ASSUME StateAssumption, TypeOK, TargetInv, [Next]_vars
    PROVE  TargetInv'
    <1> USE DEF TypeOK, TargetInv, StateAssumption, SetLook, InScene, look, target, hist
    <1>1. CASE Tick
        BY <1>1 DEF Tick
    <1>2. ASSUME NEW on, CommandPower(on) PROVE TargetInv'
        BY <1>2 DEF CommandPower
    <1>3. ASSUME NEW c, NEW k, CommandLook(c, k) PROVE TargetInv'
        BY <1>3 DEF CommandLook
    <1>4. CASE CommandOther
        BY <1>4 DEF CommandOther
    <1>5. CASE CommandScene
        BY <1>5 DEF CommandScene
    <1>6. CASE CommandDiy
        BY <1>6, SavedLook DEF CommandDiy
    <1>7. ASSUME NEW m \in {"music", "dream"}, NEW on, CommandMode(m, on) PROVE TargetInv'
        BY <1>7 DEF CommandMode
    <1>8. CASE ClearScene
        BY <1>8 DEF ClearScene
    <1>9. CASE ClearNothing
        BY <1>9 DEF ClearNothing
    <1>10. ASSUME NEW r, CommandSetpoint(r) PROVE TargetInv'
        BY <1>10 DEF CommandSetpoint
    <1>11. CASE DreamOffStarts \/ DreamOffFails
        BY <1>11 DEF DreamOffStarts, DreamOffFails
    <1>12. ASSUME NEW c, DreamOffEnds(c) PROVE TargetInv'
        BY <1>12 DEF DreamOffEnds
    <1>13. ASSUME NEW on, NEW dream \in BOOLEAN, NEW l \in Looks, NEW rs, Poll(on, l, dream, rs) PROVE TargetInv'
        <2>1. InScene' => InScene
            BY <1>13 DEF Poll, MergedEffects
        <2> QED
            BY <1>13, <2>1 DEF Poll, Static
    <1>14. ASSUME NEW on, NEW dream \in BOOLEAN \cup {Absent}, NEW l, NEW rs, Push(on, l, dream, rs) PROVE TargetInv'
        <2>1. InScene' => InScene
            BY <1>14 DEF Push
        <2> QED
            BY <1>14, <2>1 DEF Push, Static
    <1>15. ASSUME NEW on, NEW l, LanRead(on, l) PROVE TargetInv'
        BY <1>15 DEF LanRead, Adopt
    <1>16. CASE UNCHANGED vars
        BY <1>16 DEF vars
    <1> QED
        BY <1>1, <1>2, <1>3, <1>4, <1>5, <1>6, <1>7, <1>8, <1>9, <1>10, <1>11, <1>12, <1>13, <1>14, <1>15, <1>16
        DEF Next, Command, AnyPoll, AnyPush, AnyLanRead
-----------------------------------------------------------------------------
\* The inductive invariant, TypeOK and CommandedPowerHolds with it: what the
\* fields hold, and that no slower read undoes a power commanded.
THEOREM StateInvariant == Spec => [](IInv /\ CommandedPowerHolds)
    <1>1. Init => IInv
        <2> SUFFICES ASSUME Init PROVE IInv
            OBVIOUS
        <2>1. color \in Colors \cup {Black, None} /\ kelvin \in Kelvins \cup {None}
            BY DEF Init, Looks
        <2>2. commands \in 0..MaxCommands /\ sentAge \in 0..Window
            BY StateAssumption DEF Init, StateAssumption
        <2>3. TypeOK
            BY <2>1, <2>2 DEF Init, TypeOK
        <2> QED
            BY <2>3, StateAssumption DEF Init, IInv, GraceInv, TargetInv, InScene
    <1>2. IInv /\ [Next]_vars => IInv'
        BY StateAssumption, TypeStep, GraceStep, TargetStep DEF IInv
    <1>3. IInv => CommandedPowerHolds
        BY DEF IInv, GraceInv, CommandedPowerHolds
    <1> QED
        BY <1>1, <1>2, <1>3, PTL DEF Spec

\* What was reported does not go back to unknown because a poll lacks it.
THEOREM ReadingsStayKnown == Spec => KnownStaysKnown
    <1>1. [Next]_vars => [known \ WriteOnly \subseteq known']_vars
        BY DEF Next, Command, AnyPoll, AnyPush, AnyLanRead, vars, Tick, CommandPower, CommandLook, CommandOther,
               CommandScene, CommandDiy, CommandMode, ClearScene, ClearNothing, CommandSetpoint, DreamOffStarts,
               DreamOffEnds, DreamOffFails, Poll, Push, LanRead, MergedKnown
    <1> QED
        BY <1>1, PTL DEF Spec, KnownStaysKnown

\* A chain of scenes remembers the look from before the first.
THEOREM ScenesKeepTarget == Spec => EffectsKeepTarget
    <1>1. IInv /\ [Next]_vars => [InScene /\ InScene' /\ ~seen => UNCHANGED target]_vars
        <2> SUFFICES ASSUME IInv, Next, InScene, ~seen PROVE UNCHANGED target
            BY DEF vars
        <2> USE DEF IInv, TypeOK, TargetInv, target
        <2>1. CASE CommandScene \/ CommandDiy
            BY <2>1, SavedLook, StateAssumption DEF CommandScene, CommandDiy
        <2>2. CASE Tick \/ CommandOther \/ ClearScene \/ ClearNothing \/ DreamOffStarts \/ DreamOffFails
            BY <2>2 DEF Tick, CommandOther, ClearScene, ClearNothing, DreamOffStarts, DreamOffFails
        <2>3. ASSUME NEW x, NEW y, CommandPower(x) \/ CommandLook(x, y) \/ CommandMode(x, y) \/ CommandSetpoint(x)
                                   \/ DreamOffEnds(x) \/ LanRead(x, y)
              PROVE  UNCHANGED target
            BY <2>3 DEF CommandPower, CommandLook, CommandMode, CommandSetpoint, DreamOffEnds, LanRead
        <2>4. ASSUME NEW on, NEW l, NEW dream, NEW rs, Poll(on, l, dream, rs) \/ Push(on, l, dream, rs)
              PROVE  UNCHANGED target
            BY <2>4 DEF Poll, Push
        <2> QED
            BY <2>1, <2>2, <2>3, <2>4 DEF Next, Command, AnyPoll, AnyPush, AnyLanRead
    <1> QED
        BY <1>1, StateInvariant, PTL DEF Spec, EffectsKeepTarget

\* For any order of pushes, reads, polls and commands: the look to restore and
\* the readings stay known.
THEOREM NothingForgotten == Spec => NothingIsForgotten
BY ReadingsStayKnown, ScenesKeepTarget DEF NothingIsForgotten
=============================================================================
