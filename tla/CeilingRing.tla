---------------------------- MODULE CeilingRing -----------------------------
(***************************************************************************)
(* A two-zone ceiling light (H1270): the whole-fixture channel drives the  *)
(* main panel and wipes the ring, whose segments are an overlay.  The      *)
(* coordinator tracks the colour each segment was last given and replays   *)
(* it after every panel write.  A ring command is recorded when it is      *)
(* dispatched and waits for the device's lock; a turn-off is recorded once *)
(* more when its call returns.  External: the fixture.                     *)
(***************************************************************************)
EXTENDS Naturals, FiniteSets, Sequences

CONSTANTS
    Segments,       \* the ring
    All,            \* the entity of all the segments
    Paints,         \* colours, white and black besides
    Panels,         \* overlapping calls of the panel entity
    None,           \* nothing tracked, or no call
    MaxTurns,       \* bound: calls of the entities, the master's turn-off included
    MaxLosses       \* bound: commands refused or sent again, replays left out, restarts

VARIABLES
    mode,           \* the option: an entity per segment beside one of all, or a group of all
    ring, lit,      \* external: what each segment shows; reported powered on
    track,          \* _segment_colors
    rgb,            \* each entity's colour, kept while it is off: _rgb_color
    shows,          \* what each segment's entity says, black when off
    powering,       \* the colour of a turn-on that awaits the power-on before it
    panel,          \* the panel entity's calls: where each is, and what it still replays
    queue,          \* _segment_locks: the ring commands in order, the first is sent
    landed,         \* the first has reached the ring
    goingOff,       \* _pending_power_off
    spoilt,         \* history: no command since one was refused, left out or recorded over
    overtaken,      \* history: the last call met another call, or a replay, under way
    turns, losses

fixture == <<ring, lit>>
entity  == <<rgb, shows, powering>>
lock    == <<queue, landed>>
counts  == <<turns, losses>>
vars    == <<mode, fixture, track, entity, panel, lock, goingOff, spoilt, overtaken, counts>>

Lights   == Paints \cup {"white", "black"}
Owners   == Segments \cup {All}
Entities == IF mode = "segments" THEN Owners ELSE {All}
Of(e)    == IF e = All THEN Segments ELSE {e}
Replay   == [light : Lights, segs : SUBSET Segments]
Command  == [light : Lights, segs : SUBSET Segments, by : Panels \cup Owners]
NoCall   == [at |-> "idle", light |-> "black", left |-> {}]

TypeOK ==
    /\ mode \in {"segments", "groups"} /\ ring \in [Segments -> Lights] /\ lit \in BOOLEAN
    /\ track \in [Segments -> Lights \cup {None}]
    /\ rgb \in [Owners -> Lights] /\ shows \in [Segments -> Lights] /\ powering \in [Owners -> Lights \cup {None}]
    /\ panel \in [Panels -> [at : {"idle", "writes", "landed", "replays"}, light : Lights, left : SUBSET Replay]]
    /\ \A i \in DOMAIN queue : queue[i] \in Command
    /\ landed \in BOOLEAN /\ goingOff \in BOOLEAN
    /\ spoilt \in [Segments -> BOOLEAN] /\ overtaken \in [Segments -> BOOLEAN]
    /\ turns \in 0..MaxTurns /\ losses \in 0..MaxLosses

\* The first setup: nothing restored, every entity shows white.
Init ==
    /\ mode \in {"segments", "groups"} /\ ring = [s \in Segments |-> "white"] /\ lit = TRUE
    /\ track = [s \in Segments |-> IF mode = "segments" THEN "white" ELSE None]
    /\ rgb = [e \in Owners |-> "white"] /\ shows = ring /\ powering = [e \in Owners |-> None]
    /\ panel = [p \in Panels |-> NoCall] /\ queue = <<>> /\ landed = FALSE /\ goingOff = FALSE
    /\ spoilt = [s \in Segments |-> FALSE] /\ overtaken = [s \in Segments |-> FALSE]
    /\ turns = 0 /\ losses = 0

Over(f, segs, v) == [s \in DOMAIN f |-> IF s \in segs THEN v ELSE f[s]]
-----------------------------------------------------------------------------
(* The ring's entities.                                                     *)

Replaying == \E p \in Panels : panel[p].at = "replays"

\* A call for this segment is under way.
Calling(s) ==
    \/ \E i \in DOMAIN queue : queue[i].by \in Owners /\ s \in queue[i].segs
    \/ \E e \in Owners : powering[e] # None /\ s \in Of(e)

Begins(e) ==
    /\ turns < MaxTurns /\ turns' = turns + 1 /\ e \in Entities /\ powering[e] = None
    /\ overtaken' = [s \in Segments |-> IF s \in Of(e) THEN Calling(s) \/ Replaying ELSE overtaken[s]]

\* Recorded before the first await, then queued for the lock.
Dispatched(e, light) ==
    /\ track' = Over(track, Of(e), light) /\ spoilt' = Over(spoilt, Of(e), FALSE)
    /\ queue' = Append(queue, [light |-> light, segs |-> Of(e), by |-> e])

\* The colour is taken at once; a fixture reported off is powered on first,
\* unless another child has just done it.
TurnOn(e, light) ==
    /\ Begins(e) /\ light \in Paints \cup {rgb[e]} /\ rgb' = [rgb EXCEPT ![e] = light]
    /\ \/ Dispatched(e, light) /\ UNCHANGED powering
       \/ ~lit /\ powering' = [powering EXCEPT ![e] = light] /\ UNCHANGED <<track, spoilt, queue>>
    /\ UNCHANGED <<mode, fixture, shows, panel, landed, goingOff, losses>>

\* Powered on or not, it paints; an account error ends the call.
PoweredUp(e) ==
    /\ powering[e] # None /\ powering' = [powering EXCEPT ![e] = None] /\ lit' \in {lit, TRUE}
    /\ \/ /\ Dispatched(e, powering[e])
          /\ overtaken' = [s \in Segments |-> overtaken[s] \/ (s \in Of(e) /\ Replaying)]
          /\ UNCHANGED losses
       \/ /\ losses < MaxLosses /\ losses' = losses + 1
          /\ overtaken' = Over(overtaken, Of(e), TRUE) /\ UNCHANGED <<track, spoilt, queue>>
    /\ UNCHANGED <<mode, ring, rgb, shows, panel, landed, goingOff, turns>>

TurnOff(e) ==
    /\ Begins(e) /\ lit /\ ~goingOff /\ Dispatched(e, "black")
    /\ UNCHANGED <<mode, fixture, entity, panel, landed, goingOff, losses>>

\* Bug: black is not recorded for a write that was left out.
RecordedOnSkip(e) == track

\* Black is recorded when a turn-off returns, sent or not; a group records nothing.
RecordedWhenOff(e) == IF mode = "segments" THEN Over(track, Of(e), "black") ELSE track

\* The entity of all hands the segments' entities its colour, lit or not.
Signalled(e)    == IF mode = "segments" THEN Of(e) ELSE {}
Mirrored(e)     == Over(rgb, Signalled(e), rgb[e])
Shown(e, light) == Over(shows, Signalled(e), IF light = "black" THEN "black" ELSE rgb[e])

\* Turned off while the fixture is off, or going off: nothing is sent.
LeftOut(e) ==
    /\ Begins(e) /\ (~lit \/ goingOff)
    /\ track' = RecordedWhenOff(e) /\ rgb' = Mirrored(e) /\ shows' = Shown(e, "black")
    /\ spoilt' = IF mode = "segments" THEN Over(spoilt, Of(e), TRUE) ELSE spoilt
    /\ UNCHANGED <<mode, fixture, powering, panel, lock, goingOff, losses>>

\* A segment's entity seeds the tracking after the one of all did.
Restored == [s \in Segments |-> IF mode = "segments" THEN shows[s] ELSE None]

\* What an entity shows is restored, but for the colour of one that is off.
Remembered == {f \in [Owners -> Lights \ {"black"}] : \A s \in Segments :
                  f[s] = IF shows[s] = "black" THEN "white" ELSE shows[s]}

\* A restart ends every call; an entity that was off forgets its colour.
Restart ==
    /\ losses < MaxLosses /\ losses' = losses + 1
    /\ track' = Restored /\ rgb' \in Remembered
    /\ powering' = [e \in Owners |-> None]
    /\ panel' = [p \in Panels |-> NoCall] /\ queue' = <<>> /\ landed' = FALSE /\ goingOff' = FALSE
    /\ spoilt' = IF queue = <<>> /\ (\A p \in Panels : panel[p].at = "idle") /\ track = Restored
                 THEN spoilt ELSE [s \in Segments |-> TRUE]
    /\ overtaken' = [s \in Segments |-> FALSE]
    /\ UNCHANGED <<mode, fixture, shows, turns>>
-----------------------------------------------------------------------------
(* The panel: each write is followed by a replay.                           *)

\* Off is a black write, left out as a segment's is; on checks nothing, and
\* writes nothing when the panel is lit already.
PanelWrites(p, light) ==
    /\ panel[p].at = "idle" /\ turns < MaxTurns /\ turns' = turns + 1
    /\ light = "black" => lit /\ ~goingOff
    /\ \E at \in IF light = "black" THEN {"writes"} ELSE {"writes", "landed"} :
         panel' = [panel EXCEPT ![p] = [at |-> at, light |-> light, left |-> {}]]
    /\ UNCHANGED <<mode, fixture, track, entity, lock, goingOff, spoilt, overtaken, losses>>

\* A brightness and a colour are two writes, and a tier may send one again.
PanelLands(p) ==
    /\ panel[p].at \in {"writes", "landed"} /\ panel' = [panel EXCEPT ![p].at = "landed"]
    /\ ring' = [s \in Segments |-> panel[p].light]
    /\ UNCHANGED <<mode, lit, track, entity, lock, goingOff, spoilt, overtaken, counts>>

\* Refused: the call raises and nothing is replayed, whatever had landed.
PanelRefused(p) ==
    /\ panel[p].at \in {"writes", "landed"} /\ panel' = [panel EXCEPT ![p] = NoCall]
    /\ spoilt' = [s \in Segments |-> spoilt[s] \/ panel[p].at = "landed"]
    /\ UNCHANGED <<mode, fixture, track, entity, lock, goingOff, overtaken, counts>>

\* The confirmation of a panel write sends it again, and nothing is replayed.
PanelResent(light) ==
    /\ turns > 0 /\ losses < MaxLosses /\ losses' = losses + 1
    /\ ring' = [s \in Segments |-> light] /\ spoilt' = [s \in Segments |-> TRUE]
    /\ UNCHANGED <<mode, lit, track, entity, panel, lock, goingOff, overtaken, turns>>

Tracked == {s \in Segments : track[s] # None}

\* Bug: a dark ring needs no replay, whatever the panel was given.
DarkIsLeft(p) == \A s \in Tracked : track[s] = "black"

\* A dark ring is left alone only after a black write.
NeedsNone(p) == Tracked = {} \/ (panel[p].light = "black" /\ \A s \in Tracked : track[s] = "black")

ByColour == {[light |-> c, segs |-> {s \in Tracked : track[s] = c}] : c \in {track[s] : s \in Tracked}}

\* The next command of a replay is recorded and queued as any other.
Replays(p, left, q, was) ==
    IF left = {}
    THEN panel' = [panel EXCEPT ![p] = NoCall] /\ queue' = q /\ spoilt' = was /\ UNCHANGED track
    ELSE \E next \in left :
           /\ panel' = [panel EXCEPT ![p].at = "replays", ![p].left = left \ {next}]
           /\ track' = Over(track, next.segs, next.light)
           /\ queue' = Append(q, [light |-> next.light, segs |-> next.segs, by |-> p])
           /\ spoilt' = Over(was, next.segs, FALSE)

Reasserts(p) ==
    /\ panel[p].at = "landed"
    /\ \/ /\ ~goingOff /\ ~NeedsNone(p) /\ Replays(p, ByColour, queue, spoilt) /\ UNCHANGED losses
       \/ /\ goingOff \/ NeedsNone(p)
          /\ panel' = [panel EXCEPT ![p] = NoCall] /\ UNCHANGED <<track, queue, losses>>
          /\ spoilt' = [s \in Segments |-> spoilt[s] \/ goingOff \/ s \notin Tracked]
       \/ /\ ~goingOff /\ ~NeedsNone(p) /\ losses < MaxLosses /\ losses' = losses + 1   \* below the reserve
          /\ panel' = [panel EXCEPT ![p] = NoCall] /\ UNCHANGED <<track, queue>>
          /\ spoilt' = [s \in Segments |-> TRUE]
    /\ UNCHANGED <<mode, fixture, entity, landed, goingOff, overtaken, turns>>
-----------------------------------------------------------------------------
(* The lock: a command is sent when the calls before it are done.           *)

RingLands ==
    /\ queue # <<>> /\ ~landed /\ landed' = TRUE
    /\ ring' = Over(ring, Head(queue).segs, Head(queue).light)
    /\ UNCHANGED <<mode, lit, track, entity, panel, queue, goingOff, spoilt, overtaken, counts>>

\* The entity's call goes on after its await: it shows what it holds by then,
\* and a turn-off records black over what was recorded meanwhile.
EntityReturns(e, light) ==
    /\ queue' = Tail(queue) /\ rgb' = Mirrored(e) /\ shows' = Shown(e, light)
    /\ IF light = "black" /\ mode = "segments"
       THEN /\ track' = RecordedWhenOff(e)
            /\ spoilt' = [s \in Segments |-> spoilt[s] \/ (s \in Of(e) /\ track[s] # "black")]
       ELSE UNCHANGED <<track, spoilt>>
    /\ UNCHANGED panel

RingReturns ==
    /\ queue # <<>> /\ landed /\ landed' = FALSE
    /\ LET c == Head(queue)
       IN  IF c.by \in Panels THEN Replays(c.by, panel[c.by].left, Tail(queue), spoilt) /\ UNCHANGED <<rgb, shows>>
           ELSE EntityReturns(c.by, c.light)
    /\ UNCHANGED <<mode, fixture, powering, goingOff, overtaken, counts>>

\* Refused, or the answer is lost: an entity raises and shows what it showed, a
\* group does not look; a replay goes on, but for an account error.
RingRefused ==
    /\ queue # <<>> /\ losses < MaxLosses /\ losses' = losses + 1 /\ landed' = FALSE
    /\ LET c   == Head(queue)
           was == Over(spoilt, c.segs, TRUE)
       IN  \/ /\ c.by \in Panels /\ Replays(c.by, panel[c.by].left, Tail(queue), was)
              /\ UNCHANGED <<rgb, shows, overtaken>>
           \/ /\ c.by \in Panels /\ panel' = [panel EXCEPT ![c.by] = NoCall] /\ queue' = Tail(queue)
              /\ spoilt' = [s \in Segments |-> was[s] \/ \E r \in panel[c.by].left : s \in r.segs]
              /\ UNCHANGED <<track, rgb, shows, overtaken>>
           \/ /\ c.by \notin Panels /\ queue' = Tail(queue) /\ spoilt' = was
              /\ overtaken' = Over(overtaken, c.segs, TRUE)
              /\ UNCHANGED <<track, panel, rgb, shows>>
    /\ UNCHANGED <<mode, fixture, powering, goingOff, turns>>
-----------------------------------------------------------------------------
(* The master entity's power, in flight while its flag is set.              *)

PowerOff ==
    /\ turns < MaxTurns /\ turns' = turns + 1 /\ lit /\ ~goingOff /\ goingOff' = TRUE
    /\ UNCHANGED <<mode, fixture, track, entity, panel, lock, spoilt, overtaken, losses>>

PowerOffEnds ==
    /\ goingOff /\ goingOff' = FALSE /\ lit' \in BOOLEAN
    /\ UNCHANGED <<mode, ring, track, entity, panel, lock, spoilt, overtaken, counts>>

PowerOn ==
    /\ ~lit /\ lit' = TRUE
    /\ UNCHANGED <<mode, ring, track, entity, panel, lock, goingOff, spoilt, overtaken, counts>>
-----------------------------------------------------------------------------
Next ==
    \/ \E e \in Owners : \/ TurnOff(e) \/ LeftOut(e) \/ PoweredUp(e)
                         \/ \E light \in Lights : TurnOn(e, light)
    \/ \E p \in Panels : \/ \E light \in {"white", "black"} : PanelWrites(p, light)
                         \/ PanelLands(p) \/ PanelRefused(p) \/ Reasserts(p)
    \/ \E light \in {"white", "black"} : PanelResent(light)
    \/ RingLands \/ RingReturns \/ RingRefused \/ PowerOff \/ PowerOffEnds \/ PowerOn \/ Restart

Spec == Init /\ [][Next]_vars
-----------------------------------------------------------------------------
Quiet == queue = <<>> /\ \A p \in Panels : panel[p].at = "idle"

\* However panel writes, replays and paints overlap, once they are done the ring
\* shows the colours tracked for it, unless a command was refused or left out,
\* or a turn-off's second record covered a newer colour (coordinator.py
\* 1294-1370, issue #131).
RingIsRestored ==
    Quiet => \A s \in Segments : ~spoilt[s] /\ track[s] # None => ring[s] = track[s]

\* What would be replayed is what the segment's entity shows, off included
\* (segment.py 170-197), once its call is done, unless that call met another
\* one or a replay, or was refused.
TrackIsShown ==
    mode = "segments" => \A s \in Segments : ~overtaken[s] /\ ~Calling(s) => track[s] = shows[s]

RingIsKept == RingIsRestored /\ TrackIsShown
=============================================================================
