------------------------------ MODULE MCLamps ------------------------------
(* The control path of lamps, and what is kept of their zones, segments and *)
(* effects, in one run.  The parts share no state: a behaviour is one of    *)
(* one part.                                                                *)
EXTENDS CommandDispatch

CONSTANTS
    Segments, RingColours, Panels, NoColour, MaxTurns, MaxLosses, Count, PerFrame,
    Colours, MaxPushes, MaxEvents, Copies, MaxZoneCalls, MaxZoneFaults,
    MaxZonePowers, MaxZoneBoots, DiyZones, Off, Glow, Raw, Empty, Palette, Lost, Any, DiyCopies,
    MaxStages, MaxUploads, MaxDiyBoots, lamp, old, c1, c2, s1, s2, all, red, blue, p1, p2, ripple, ring

VARIABLES
    part,
    ringMode, ringRing, ringLit, ringTrack, ringRgb, ringShows, ringPowering, ringPanel,
    ringQueue, ringLanded, ringGoingOff, ringSpoilt, ringOvertaken, ringTurns, ringLosses,
    stripMode, stripLamp, stripPowered, stripLatched, stripIsOn, stripRgb, stripGrace,
    stripCall, stripPushed, stripPainter, stripUnsure, stripRaced, stripEvents,
    zoneKind, zoneKept, zoneTint, zoneLamp, zoneLan, zoneCloud, zcall, zoneWire, zoneSaved,
    zoneOverlapped, zoneUnsure, zcalls, zfaults, zpowers, zboots,
    draft, diyAdded, diyUploads, lampDoc, diyReach, diyStates, diyMeant, diyStages, diySent,
    diyBoots

powerVars == dispatchVars
ringVars == <<ringMode, ringRing, ringLit, ringTrack, ringRgb, ringShows, ringPowering, ringPanel,
    ringQueue, ringLanded, ringGoingOff, ringSpoilt, ringOvertaken, ringTurns, ringLosses>>
readbackVars == <<stripMode, stripLamp, stripPowered, stripLatched, stripIsOn, stripRgb, stripGrace,
    stripCall, stripPushed, stripPainter, stripUnsure, stripRaced, stripEvents>>
zoneVars == <<zoneKind, zoneKept, zoneTint, zoneLamp, zoneLan, zoneCloud, zcall, zoneWire, zoneSaved,
    zoneOverlapped, zoneUnsure, zcalls, zfaults, zpowers, zboots>>
diyVars == <<draft, diyAdded, diyUploads, lampDoc, diyReach, diyStates, diyMeant, diyStages, diySent,
    diyBoots>>

Command(k, v) == [kind |-> k, value |-> v]
OnlyOn        == {Command("power", "on")}
PowerCommands == OnlyOn \cup {Command("power", "off"), Command("segment", "black")}
DarkLamp      == [power |-> "off", scene |-> "none", segment |-> "white"]

Ring == INSTANCE CeilingRing WITH
    mode <- ringMode, ring <- ringRing, lit <- ringLit, track <- ringTrack, rgb <- ringRgb,
    shows <- ringShows, powering <- ringPowering, panel <- ringPanel, queue <- ringQueue,
    landed <- ringLanded, goingOff <- ringGoingOff, spoilt <- ringSpoilt,
    overtaken <- ringOvertaken, turns <- ringTurns, losses <- ringLosses,
    All <- all, None <- NoColour, Paints <- RingColours
Readback == INSTANCE SegmentReadback WITH
    mode <- stripMode, lamp <- stripLamp, powered <- stripPowered, latched <- stripLatched,
    isOn <- stripIsOn, rgb <- stripRgb, grace <- stripGrace, call <- stripCall,
    pushed <- stripPushed, painter <- stripPainter, unsure <- stripUnsure, raced <- stripRaced,
    events <- stripEvents
Zone == INSTANCE ZoneLight WITH
    kind <- zoneKind, kept <- zoneKept, tint <- zoneTint, lamp <- zoneLamp, lan <- zoneLan,
    cloud <- zoneCloud, wire <- zoneWire, saved <- zoneSaved, overlapped <- zoneOverlapped,
    unsure <- zoneUnsure
Diy == INSTANCE DiyDraft WITH
    added <- diyAdded, uploads <- diyUploads, reach <- diyReach, states <- diyStates,
    meant <- diyMeant, stages <- diyStages, sent <- diySent

\* A command of the ring is told by who sent it.
ASSUME RingAssumption ==
    /\ Segments \cap Panels = {} /\ all \notin Segments \cup Panels /\ NoColour \notin Ring!Lights
    /\ MaxTurns \in Nat /\ MaxLosses \in Nat

\* Off is black, and no entity is given it as a colour.
ASSUME ReadbackAssumption ==
    /\ Count \in Nat \ {0} /\ PerFrame \in Nat \ {0} /\ "black" \notin Colours
    /\ MaxPushes \in Nat /\ MaxEvents \in Nat

\* A write goes out once at least: LAN_WRITE_REPEATS.
ASSUME CopiesAssumption ==
    /\ Copies \in Nat \ {0} /\ DiyCopies \in Nat \ {0}
    /\ MaxZoneCalls \in Nat /\ MaxZoneFaults \in Nat /\ MaxZonePowers \in Nat /\ MaxZoneBoots \in Nat
    /\ MaxStages \in Nat /\ MaxUploads \in Nat /\ MaxDiyBoots \in Nat

Parts == {"power", "ring", "readback", "zone", "diy"}

PartsInit ==
    /\ part \in Parts
    /\ DispatchInit
    /\ Ring!Init /\ (part # "ring" => ringMode = "groups")
    /\ Readback!Init /\ stripRgb[Readback!All] = red
    /\ (IF part = "readback" THEN stripMode = "both" => stripPowered ELSE stripMode = "groups" /\ ~stripPowered)
    /\ Zone!Init /\ (part # "zone" => zoneKind = "light")
    /\ Diy!Init

PartsNext ==
    /\ part' = part
    /\ \/ part = "power" /\ DispatchNext /\ UNCHANGED <<ringVars, readbackVars, zoneVars, diyVars>>
       \/ part = "ring" /\ Ring!Next /\ UNCHANGED <<powerVars, readbackVars, zoneVars, diyVars>>
       \/ part = "readback" /\ Readback!Next /\ UNCHANGED <<powerVars, ringVars, zoneVars, diyVars>>
       \/ part = "zone" /\ Zone!Next /\ UNCHANGED <<powerVars, ringVars, readbackVars, diyVars>>
       \/ part = "diy" /\ Diy!Next /\ UNCHANGED <<powerVars, ringVars, readbackVars, zoneVars>>

partsVars == <<part, powerVars, ringVars, readbackVars, zoneVars, diyVars>>

PartsSpec ==
    /\ PartsInit /\ [][PartsNext]_partsVars
    /\ \A c \in Calls : WF_powerVars(part = "power" /\ Resume(c))

\* The part that runs has the types of its module.
AllTypeOK ==
    /\ part = "power" => DispatchTypeOK
    /\ part = "ring" => Ring!TypeOK
    /\ part = "readback" => Readback!TypeOK
    /\ part = "zone" => Zone!TypeOK
    /\ part = "diy" => Diy!TypeOK

\* Every call of the control path returns and the power-off flags it set are
\* taken back (CommandDispatch).
EveryCallEnds == part = "power" => EveryCallReturns

\* The colours of a ring, the readback of a strip, the zones of a lamp and the
\* draft of its effect are kept as the lamp has them, or as they were given
\* (CeilingRing, SegmentReadback, ZoneLight, DiyDraft).
LampsAreRight ==
    /\ part = "ring" => Ring!RingIsKept
    /\ part = "readback" => Readback!ReadbackIsTrue
    /\ part = "zone" => Zone!ZonesAreRight
    /\ part = "diy" => Diy!DraftIsKept
==============================================================================
