------------------------------ MODULE ZoneLight ------------------------------
(***************************************************************************)
(* The zones of a multi-zone lamp.  No channel reports them, so one        *)
(* registry keeps what each was last told, and both entity models (zone    *)
(* lights, or switches when the option is off) read and write it.  The     *)
(* lamp lights two zones at most: one more, and the weakest of the others  *)
(* goes dark, which the registry repeats.  A write goes out over the LAN   *)
(* in several copies, or as a toggle over the cloud.  External: the lamp,  *)
(* the network, Home Assistant's store of entity states.                   *)
(***************************************************************************)
EXTENDS Naturals, Sequences, FiniteSets

CONSTANTS
    Copies,             \* LAN_WRITE_REPEATS
    MaxZoneCalls, MaxZoneFaults, MaxZonePowers, MaxZoneBoots    \* bounds

Order == <<"downlight", "ripple", "ring">>      \* displacement_order: the weakest first
Limit == 2                                      \* MaxSimultaneousZones
Zones == {Order[i] : i \in DOMAIN Order}

VARIABLES
    kind,               \* "light" or "switch": the option enable_zone_lights
    kept,               \* ZoneStateRegistry._state: the zones recorded lit
    tint,               \* the zone lights that show a colour (_rgb_color)
    lamp,               \* external: whether it is on, its lit zones, and those that have the colour
    lan, cloud,         \* whether the LAN, and whether another transport, reaches the lamp
    zcall,              \* each zone's call: where it is, and what it asks
    wire,               \* the calls between two copies, in the order of their timers
    saved,              \* external: the zones and colours in the stored states
    overlapped,         \* history: two calls were open at once
    unsure,             \* history: a write met a dark lamp, or a stop met unavailable entities
    zcalls, zfaults, zpowers, zboots

zcounts == <<zcalls, zfaults, zpowers, zboots>>
vars    == <<kind, kept, tint, lamp, lan, cloud, zcall, wire, saved, overlapped, unsure, zcounts>>

Ask  == [on : BOOLEAN, tinted : BOOLEAN]
Idle == [step |-> "idle", on |-> FALSE, tinted |-> FALSE, left |-> 0]

TypeOK ==
    /\ kind \in {"light", "switch"} /\ kept \subseteq Zones /\ tint \subseteq Zones
    /\ lamp \in [on : BOOLEAN, lit : SUBSET Zones, tinted : SUBSET Zones]
    /\ lan \in BOOLEAN /\ cloud \in BOOLEAN
    /\ zcall \in [Zones -> [step : {"idle", "powers", "copies", "toggles"}, on : BOOLEAN, tinted : BOOLEAN,
                           left : 0..Copies]]
    /\ wire \in UNION {[1..n -> Zones] : n \in 0..Cardinality(Zones)}
    /\ saved \in [lit : SUBSET Zones, tinted : SUBSET Zones]
    /\ overlapped \in BOOLEAN /\ unsure \in BOOLEAN
    /\ zcalls \in 0..MaxZoneCalls /\ zfaults \in 0..MaxZoneFaults
    /\ zpowers \in 0..MaxZonePowers /\ zboots \in 0..MaxZoneBoots

Init ==
    /\ kind \in {"light", "switch"} /\ kept = {} /\ tint = {}
    /\ lamp = [on |-> TRUE, lit |-> {}, tinted |-> {}]
    /\ lan = TRUE /\ cloud = TRUE /\ zcall = [z \in Zones |-> Idle] /\ wire = <<>>
    /\ saved = [lit |-> {}, tinted |-> {}] /\ overlapped = FALSE /\ unsure = FALSE
    /\ zcalls = 0 /\ zfaults = 0 /\ zpowers = 0 /\ zboots = 0
-----------------------------------------------------------------------------
(* The limit.                                                               *)

Rank(z) == CHOOSE i \in DOMAIN Order : Order[i] = z

\* Bug: the zone that was just turned on counts among the weak.
DisplacedOrSelf(z, lit) ==
    {w \in lit \cup {z} : Cardinality({v \in lit \cup {z} : Rank(v) >= Rank(w)}) > Limit}

\* The zones that go dark because z was turned on: the weakest others, down to the limit.
Displaced(z, lit) ==
    {w \in lit \ {z} : Cardinality({z} \cup {v \in lit : Rank(v) >= Rank(w)}) > Limit}

\* External: the same limit, kept by the lamp.
Lit(z, on, lit) == LET weak == {w \in lit \ {z} : Cardinality({z} \cup {v \in lit : Rank(v) >= Rank(w)}) > Limit}
                   IN IF on THEN (lit \cup {z}) \ weak ELSE lit \ {z}

\* Bug: a toggle over the cloud records its own zone alone.
AppliedAlone(z, on) == IF on /\ lan THEN (kept \cup {z}) \ Displaced(z, kept)
                       ELSE IF on THEN kept \cup {z} ELSE kept \ {z}

\* What is recorded, whichever way the write went.
Applied(z, on) == IF on THEN (kept \cup {z}) \ Displaced(z, kept) ELSE kept \ {z}
-----------------------------------------------------------------------------
(* Commands.  A dark lamp does not take zone frames.                        *)

Took(z, ask, l) ==
    IF l.on THEN [l EXCEPT !.lit = Lit(z, ask.on, @), !.tinted = IF ask.tinted THEN @ \cup {z} ELSE @] ELSE l

\* The call goes on: as a first copy, or as a toggle
\* when the lamp is not reached or the socket refuses every copy.
Called(z, ask, l, reached) ==
    \/ /\ reached /\ Copies > 1
       /\ lamp' = Took(z, ask, l) /\ unsure' = (unsure \/ ~l.on)
       /\ zcall' = [zcall EXCEPT ![z] = [step |-> "copies", on |-> ask.on, tinted |-> ask.tinted, left |-> Copies - 1]]
       /\ wire' = Append(wire, z) /\ UNCHANGED zfaults
    \/ /\ IF reached THEN zfaults < MaxZoneFaults /\ zfaults' = zfaults + 1 ELSE UNCHANGED zfaults
       /\ lamp' = l
       /\ zcall' = [zcall EXCEPT ![z] = [step |-> "toggles", on |-> ask.on, tinted |-> FALSE, left |-> 0]]
       /\ UNCHANGED <<wire, unsure>>

\* A colour cannot be asked for without the LAN; only a zone light powers the lamp.
Asked(z, ask) ==
    /\ zcall[z].step = "idle" /\ zcalls < MaxZoneCalls /\ zcalls' = zcalls + 1
    /\ ask.tinted => kind = "light" /\ ask.on /\ lan
    /\ overlapped' = (overlapped \/ \E w \in Zones : zcall[w].step # "idle")
    /\ IF kind = "light" /\ ask.on /\ ~lamp.on
       THEN /\ zcall' = [zcall EXCEPT ![z] = [step |-> "powers", on |-> TRUE, tinted |-> ask.tinted, left |-> 0]]
            /\ UNCHANGED <<lamp, wire, unsure, zfaults>>
       ELSE Called(z, ask, lamp, lan)
    /\ UNCHANGED <<kind, kept, tint, lan, cloud, saved, zpowers, zboots>>

\* The power command ends, well or not; the call goes on anyway, and the LAN is looked at again.
Powered(z, ok) ==
    /\ zcall[z].step = "powers"
    /\ ok \/ zfaults < MaxZoneFaults
    /\ Called(z, zcall[z], [lamp EXCEPT !.on = @ \/ ok], lan)
    /\ UNCHANGED <<kind, kept, tint, lan, cloud, saved, overlapped, zcalls, zpowers, zboots>>

\* The next copy of the call whose timer is first; the last one is recorded.
Copy ==
    /\ wire # <<>>
    /\ LET z == Head(wire)  c == zcall[z]  last == c.left = 1
       IN /\ lamp' = Took(z, c, lamp) /\ unsure' = (unsure \/ ~lamp.on)
          /\ wire' = IF last THEN Tail(wire) ELSE Append(Tail(wire), z)
          /\ zcall' = [zcall EXCEPT ![z] = IF last THEN Idle ELSE [c EXCEPT !.left = @ - 1]]
          /\ kept' = IF last THEN Applied(z, c.on) ELSE kept
          /\ tint' = IF last /\ c.tinted THEN tint \cup {z} ELSE tint
    /\ UNCHANGED <<kind, lan, cloud, saved, overlapped, zcounts>>

Toggled(z, ok) ==
    /\ zcall[z].step = "toggles" /\ (ok => cloud)
    /\ lamp' = IF ok THEN Took(z, zcall[z], lamp) ELSE lamp
    /\ unsure' = (unsure \/ (ok /\ ~lamp.on))
    /\ kept' = IF ok THEN Applied(z, zcall[z].on) ELSE kept
    /\ zcall' = [zcall EXCEPT ![z] = Idle]
    /\ UNCHANGED <<kind, tint, lan, cloud, wire, saved, overlapped, zcounts>>
-----------------------------------------------------------------------------
\* The user or the app switches the whole lamp.
LampPower ==
    /\ zpowers < MaxZonePowers /\ zpowers' = zpowers + 1 /\ lamp' = [lamp EXCEPT !.on = ~@]
    /\ UNCHANGED <<kind, kept, tint, lan, cloud, zcall, wire, saved, overlapped, unsure, zcalls, zfaults, zboots>>

Reach ==
    /\ zfaults < MaxZoneFaults /\ zfaults' = zfaults + 1
    /\ \/ lan' = ~lan /\ UNCHANGED cloud
       \/ cloud' = ~cloud /\ UNCHANGED lan
    /\ UNCHANGED <<kind, kept, tint, lamp, zcall, wire, saved, overlapped, unsure, zcalls, zpowers, zboots>>

\* Bug: the zones are restored from the entities' states, which a dark lamp masks.
SavedShown == IF lamp.on \/ kind = "switch" THEN kept ELSE {}

\* They are restored from an attribute the lamp's power does not mask.
Saved == kept

\* An unavailable entity is stored without it, and a light that is off without its colour.
Restart ==
    /\ zboots < MaxZoneBoots /\ zboots' = zboots + 1 /\ \A z \in Zones : zcall[z].step = "idle"
    /\ LET s == IF lan \/ cloud THEN [lit |-> Saved, tinted |-> IF lamp.on THEN tint \cap kept ELSE {}]
                                ELSE [lit |-> {}, tinted |-> {}]
       IN saved' = s /\ kept' = s.lit /\ tint' = s.tinted
    /\ unsure' = (unsure \/ ~(lan \/ cloud))
    /\ UNCHANGED <<kind, lamp, lan, cloud, zcall, wire, overlapped, zcalls, zfaults, zpowers>>
-----------------------------------------------------------------------------
Next == \/ \E z \in Zones : \/ \E ask \in Ask : Asked(z, ask)
                            \/ \E ok \in BOOLEAN : Powered(z, ok) \/ Toggled(z, ok)
        \/ Copy \/ LampPower \/ Reach \/ Restart

Spec == Init /\ [][Next]_vars
-----------------------------------------------------------------------------
Settled == ~unsure /\ \A z \in Zones : zcall[z].step = "idle"

\* With no call open, the zones recorded lit are the ones the lamp lights, and no
\* zone shows a colour it was not given, whichever way each write went, unless
\* calls overlapped (zone_state.py 141-219, zone_light.py 385-570).
ZonesAreRight == Settled /\ ~overlapped => kept = lamp.lit /\ tint \subseteq lamp.tinted
=============================================================================
