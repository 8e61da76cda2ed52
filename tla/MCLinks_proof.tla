---------------------------- MODULE MCLinks_proof ----------------------------
(* Theorems of the links to the devices: what is said over each of them, for *)
(* any devices, addresses, writes and readings, and their sum.               *)
EXTENDS MCLinks, Integers, Sequences, FiniteSetTheorems, TLAPS

-----------------------------------------------------------------------------
(* The LAN: a reading is for the device that gave it, and a demotion was a   *)
(* silence.                                                                  *)

Places == Addresses \cup {None}

\* Lines of the type invariant the routes rest on.
MapType ==
    /\ where \in [Devices -> Addresses]
    /\ pins \in PinSets
    /\ lan \in [Devices -> Places] /\ found \in [Devices -> Places]
    /\ owner \in [Addresses -> Devices \cup {None}]
    /\ batch \in [Addresses -> Devices \cup {None}]
    /\ poll \in {"idle", "scan", "read"}

\* Leases are held by one device each, and what a scan heard is not handed on
\* while it runs: it hears one device at an address.
OneHolder ==
    /\ \A d, e \in Devices : d # e => where[d] # where[e]
    /\ \A d, e \in Devices : d # e /\ found[d] # None => found[e] # found[d] /\ where[e] # found[d]
    /\ poll # "scan" => found = Nowhere

RouteInv == MapType /\ OneHolder /\ RoutesFollowScans


----------------------------------------------------------------------------
\* What a found device's address resolves to, when no two were found at one.
LEMMA HolderFound ==
    ASSUME NEW table, NEW d \in Devices, NEW spot,
           table[d] = spot, \A e \in Devices : table[e] = spot => e = d
    PROVE  Holder(table, spot) = d
BY DEF Holder

LEMMA HolderNone ==
    ASSUME NEW table, NEW spot, \A e \in Devices : table[e] # spot
    PROVE  Holder(table, spot) = None
BY DEF Holder

LEMMA HolderType ==
    ASSUME NEW table, NEW spot
    PROVE  Holder(table, spot) \in Devices \cup {None}
BY DEF Holder

\* The address a device is matched at is the one it answered from, or its pin.
LEMMA MatchedAt ==
    ASSUME NEW answers \in [Devices -> Places], NEW d \in Devices, pins \in PinSets
    PROVE  /\ Matched(answers) \in [Devices -> Places]
           /\ answers[d] # None => Matched(answers)[d] = answers[d]
           /\ answers[d] = None /\ Matched(answers)[d] # None => <<d, Matched(answers)[d]>> \in pins
<1>1. \A e \in Devices : (\E spot \in Addresses : <<e, spot>> \in pins) =>
        /\ (CHOOSE other \in Addresses : <<e, other>> \in pins) \in Addresses
        /\ <<e, CHOOSE other \in Addresses : <<e, other>> \in pins>> \in pins
  OBVIOUS
<1>2. Matched(answers) \in [Devices -> Places]
  BY <1>1 DEF Matched, Places
<1> QED BY <1>1, <1>2 DEF Matched, Places

\* The batch reads a device at the address the map has for it.
LEMMA BatchReadsMap ==
    ASSUME NEW table, NEW spot \in Addresses, Batch(table)[spot] # None
    PROVE  Batch(table)[spot] \in Devices /\ table[Batch(table)[spot]] = spot
<1> DEFINE readable == {d \in Devices \ WriteOnly : table[d] = spot}
           pinned   == {d \in readable : <<d, spot>> \in pins}
<1>1. Batch(table)[spot] = IF readable = {} THEN None
                        ELSE IF pinned = {} THEN CHOOSE d \in readable : TRUE ELSE CHOOSE d \in pinned : TRUE
  BY DEF Batch
<1>2. Batch(table)[spot] \in readable
  <2> HIDE DEF readable
  <2>1. readable # {} BY <1>1
  <2>2. CASE pinned = {} BY <1>1, <2>1, <2>2
  <2>3. CASE pinned # {} BY <1>1, <2>1, <2>3
  <2> QED BY <2>2, <2>3
<1> QED BY <1>2

LEMMA BatchType ==
    ASSUME NEW table
    PROVE  Batch(table) \in [Addresses -> Devices \cup {None}]
<1>1. \A spot \in Addresses : Batch(table)[spot] \in Devices \cup {None}
  BY BatchReadsMap
<1> QED BY <1>1 DEF Batch

\* A batch is routed as the map it is made from.
LEMMA BatchRouted ==
    ASSUME NEW table, NEW to,
           \A d \in Devices : table[d] # None => to[table[d]] = d \/ <<d, table[d]>> \in pins
    PROVE  \A spot \in Addresses : Batch(table)[spot] # None =>
             to[spot] = Batch(table)[spot] \/ <<Batch(table)[spot], spot>> \in pins
<1> SUFFICES ASSUME NEW spot \in Addresses, Batch(table)[spot] # None
             PROVE  to[spot] = Batch(table)[spot] \/ <<Batch(table)[spot], spot>> \in pins
  OBVIOUS
<1>1. Batch(table)[spot] \in Devices /\ table[Batch(table)[spot]] = spot
  BY BatchReadsMap
<1>2. spot # None BY LanAssumption DEF LanAssumption
<1> QED BY <1>1, <1>2

----------------------------------------------------------------------------
LEMMA RouteInit == Init => RouteInv
<1> SUFFICES ASSUME Init PROVE RouteInv
  OBVIOUS
<1> USE LanAssumption DEF LanAssumption
<1>1. PICK heard \in SUBSET (Devices \ OffScan) :
        LET answers == [d \in Devices |-> IF d \in heard THEN where[d] ELSE None]
        IN  lan = Matched(answers) /\ owner = [spot \in Addresses |-> Holder(answers, spot)]
  BY DEF Init
<1> DEFINE answers == [d \in Devices |-> IF d \in heard THEN where[d] ELSE None]
<1>2. lan = Matched(answers) /\ owner = [spot \in Addresses |-> Holder(answers, spot)]
  BY <1>1
<1>3. where \in [Devices -> Addresses] /\ pins \in PinSets /\ \A d, e \in Devices : d # e => where[d] # where[e]
  BY DEF Init
<1>4. answers \in [Devices -> Places]
  BY <1>3 DEF Places
<1>5. lan \in [Devices -> Places]
  <2>1. CASE Devices = {}
    <3>1. lan \in [{} -> {}] BY <1>2, <2>1 DEF Matched
    <3> QED BY <3>1, <2>1
  <2>2. CASE Devices # {}
    BY <1>2, <1>3, <1>4, <2>2, MatchedAt
  <2> QED BY <2>1, <2>2
<1>6. MapType
  BY <1>2, <1>3, <1>5, HolderType DEF Init, MapType, Nowhere, Places, Unread
<1>7. OneHolder
  BY <1>3 DEF Init, OneHolder, Nowhere
<1>8. ASSUME NEW d \in Devices, lan[d] # None
      PROVE  owner[lan[d]] = d \/ <<d, lan[d]>> \in pins
  <2>1. CASE answers[d] # None
    <3>1. lan[d] = answers[d] /\ answers[d] = where[d] /\ where[d] \in Addresses
      BY <1>2, <1>3, <1>4, <2>1, MatchedAt
    <3>2. \A e \in Devices : answers[e] = where[d] => e = d
      BY <1>3, <3>1
    <3>3. Holder(answers, where[d]) = d
      <4> HIDE DEF answers
      <4> QED BY <3>1, <3>2, HolderFound
    <3> QED BY <1>2, <3>1, <3>3
  <2>2. CASE answers[d] = None
    <3> HIDE DEF answers
    <3> QED BY <1>2, <1>3, <1>4, <1>8, <2>2, MatchedAt
  <2> QED BY <2>1, <2>2
<1>9. RoutesFollowScans
  BY <1>8 DEF RoutesFollowScans, Init, Unread
<1> QED BY <1>6, <1>7, <1>9 DEF RouteInv

\* The end of a scan, its answers merged into the map.
LEMMA MergeKeepsRoutes ==
    ASSUME RouteInv, ScanEnds
    PROVE  /\ lan' \in [Devices -> Places] /\ owner' \in [Addresses -> Devices \cup {None}]
           /\ \A d \in Devices : lan'[d] # None => owner'[lan'[d]] = d \/ <<d, lan'[d]>> \in pins
<1> USE LanAssumption DEF LanAssumption
<1> DEFINE matched == Matched(found)
           claimed == {matched[d] : d \in Devices} \ {None}
           dropped == {d \in Devices : matched[d] = None /\ lan[d] \in claimed}
<1>1. /\ where \in [Devices -> Addresses] /\ pins \in PinSets /\ found \in [Devices -> Places]
      /\ lan \in [Devices -> Places] /\ owner \in [Addresses -> Devices \cup {None}]
  BY DEF RouteInv, MapType
<1>2. \A d \in Devices : /\ matched[d] \in Places
                         /\ found[d] # None => matched[d] = found[d]
                         /\ found[d] = None /\ matched[d] # None => <<d, matched[d]>> \in pins
  BY <1>1, MatchedAt
<1>3. lan' = [d \in Devices |->
                IF matched[d] # None THEN matched[d] ELSE IF d \in dropped THEN None ELSE lan[d]]
  BY DEF ScanEnds, Merge
<1>4. owner' = [spot \in Addresses |-> IF Holder(found, spot) # None THEN Holder(found, spot) ELSE owner[spot]]
  BY DEF ScanEnds
<1>5. lan' \in [Devices -> Places]
  <2> HIDE DEF matched
  <2> QED BY <1>1, <1>2, <1>3 DEF Places
<1>6. owner' \in [Addresses -> Devices \cup {None}]
  BY <1>1, <1>4, HolderType
<1>7. ASSUME NEW d \in Devices, lan'[d] # None
      PROVE  owner'[lan'[d]] = d \/ <<d, lan'[d]>> \in pins
  <2>1. CASE found[d] # None
    <3>1. lan'[d] = found[d] /\ found[d] \in Addresses
      <4> HIDE DEF matched
      <4> QED BY <1>1, <1>2, <1>3, <2>1 DEF Places
    <3>2. Holder(found, found[d]) = d
      <4>1. \A e \in Devices : found[e] = found[d] => e = d
        BY <2>1 DEF RouteInv, OneHolder
      <4> QED BY <4>1, HolderFound
    <3> QED BY <1>4, <3>1, <3>2
  <2>2. CASE found[d] = None /\ matched[d] # None
    <3> HIDE DEF matched
    <3> QED BY <1>2, <1>3, <2>2
  <2>3. CASE found[d] = None /\ matched[d] = None
    <3>1. lan'[d] = lan[d] /\ lan[d] \in Addresses /\ lan[d] \notin claimed
      <4> HIDE DEF matched
      <4> QED BY <1>1, <1>3, <1>7, <2>3 DEF Places
    <3>2. \A e \in Devices : found[e] # lan[d]
      <4> HIDE DEF matched
      <4> SUFFICES ASSUME NEW e \in Devices, found[e] = lan[d] PROVE FALSE
        OBVIOUS
      <4>1. matched[e] = lan[d] /\ lan[d] # None
        BY <1>2, <3>1
      <4>2. lan[d] \in claimed
        BY <4>1
      <4> QED BY <3>1, <4>2
    <3>3. Holder(found, lan[d]) = None
      BY <3>2, HolderNone
    <3>4. owner'[lan'[d]] = owner[lan[d]]
      BY <1>4, <3>1, <3>3
    <3> QED BY <1>7, <3>1, <3>4 DEF RouteInv, RoutesFollowScans
  <2> QED BY <2>1, <2>2, <2>3
<1> QED BY <1>5, <1>6, <1>7

LEMMA RouteStep == RouteInv /\ [Next]_vars => RouteInv'
<1> SUFFICES ASSUME RouteInv, [Next]_vars PROVE RouteInv'
  OBVIOUS
<1> USE LanAssumption DEF LanAssumption
<1>t. /\ where \in [Devices -> Addresses] /\ pins \in PinSets /\ found \in [Devices -> Places]
      /\ lan \in [Devices -> Places] /\ owner \in [Addresses -> Devices \cup {None}]
      /\ batch \in [Addresses -> Devices \cup {None}] /\ poll \in {"idle", "scan", "read"}
  BY DEF RouteInv, MapType
<1>r. \A d \in Devices : lan[d] # None => owner[lan[d]] = d \/ <<d, lan[d]>> \in pins
  BY DEF RouteInv, RoutesFollowScans
<1>1. CASE PollReads
  <2>1. UNCHANGED <<where, pins, lan, owner, found>> /\ batch' = Batch(lan) /\ poll' \in {"idle", "read"} /\ poll = "idle"
    BY <1>1 DEF PollReads, StartRead, world, map, scan
  <2>2. MapType' BY <1>t, <2>1, BatchType DEF MapType
  <2>3. OneHolder' BY <2>1 DEF RouteInv, OneHolder
  <2>4. RoutesFollowScans' BY <1>r, <2>1, BatchRouted DEF RoutesFollowScans
  <2> QED BY <2>2, <2>3, <2>4 DEF RouteInv
<1>2. CASE StartScan
  <2>1. UNCHANGED <<where, pins, lan, owner, found, batch>> /\ poll' = "scan" /\ poll = "idle"
    BY <1>2 DEF StartScan, world, map, read
  <2> QED BY <1>t, <2>1 DEF RouteInv, MapType, OneHolder, RoutesFollowScans
<1>3. CASE ScanEnds
  <2>1. UNCHANGED <<where, pins>> /\ found' = Nowhere /\ batch' = Batch(lan') /\ poll' \in {"idle", "read"}
    BY <1>3 DEF ScanEnds, StartRead, KeepsRequests, world
  <2>2. MapType' BY <1>3, <1>t, <2>1, BatchType, MergeKeepsRoutes DEF MapType, Nowhere, Places
  <2>3. OneHolder' BY <2>1 DEF RouteInv, OneHolder, Nowhere
  <2>4. RoutesFollowScans' BY <1>3, <2>1, BatchRouted, MergeKeepsRoutes DEF RoutesFollowScans
  <2> QED BY <2>2, <2>3, <2>4 DEF RouteInv
<1>4. CASE ScanFails
  <2>1. UNCHANGED <<where, pins, lan, owner>> /\ found' = Nowhere /\ batch' = Batch(lan) /\ poll' \in {"idle", "read"}
    BY <1>4 DEF ScanFails, StartRead, KeepsRequests, world, map
  <2>2. MapType' BY <1>t, <2>1, BatchType DEF MapType, Nowhere, Places
  <2>3. OneHolder' BY <2>1 DEF RouteInv, OneHolder, Nowhere
  <2>4. RoutesFollowScans' BY <1>r, <2>1, BatchRouted DEF RoutesFollowScans
  <2> QED BY <2>2, <2>3, <2>4 DEF RouteInv
<1>5. CASE WindowEnds
  <2>1. /\ UNCHANGED <<where, pins, owner, found>> /\ batch' = Unread /\ poll' = "idle"
        /\ poll = "read"
        /\ \E demoted : lan' = [d \in Devices |-> IF d \in demoted THEN None ELSE lan[d]]
    BY <1>5 DEF WindowEnds, world, scan
  <2>2. MapType' BY <1>t, <2>1 DEF MapType, Unread, Places
  <2>3. OneHolder' BY <2>1 DEF RouteInv, OneHolder
  <2>4. RoutesFollowScans' BY <1>r, <2>1 DEF RoutesFollowScans, Unread
  <2> QED BY <2>2, <2>3, <2>4 DEF RouteInv
<1>6. ASSUME NEW d \in Devices, ScanReply(d) PROVE RouteInv'
  <2>1. UNCHANGED <<where, pins, lan, owner, batch, poll>> /\ found' = [found EXCEPT ![d] = where[d]] /\ poll = "scan"
    BY <1>6 DEF ScanReply, world, map, read
  <2>2. MapType' BY <1>t, <2>1 DEF MapType, Places
  <2>3. OneHolder' BY <1>t, <2>1 DEF RouteInv, OneHolder
  <2>4. RoutesFollowScans' BY <2>1 DEF RouteInv, RoutesFollowScans
  <2> QED BY <2>2, <2>3, <2>4 DEF RouteInv
<1>7. ASSUME NEW d \in Devices, NEW spot \in Addresses, Move(d, spot) PROVE RouteInv'
  <2>1. /\ UNCHANGED <<pins, lan, owner, batch, poll, found>> /\ where' = [where EXCEPT ![d] = spot]
        /\ \A e \in Devices : where[e] # spot
        /\ poll = "scan" => \A e \in Devices : found[e] # spot
    BY <1>7 DEF Move, map, read, scan
  <2>2. MapType' BY <1>t, <2>1 DEF MapType
  <2>3. OneHolder'
    <3>1. \A e \in Devices : found[e] # spot
      BY <2>1 DEF RouteInv, OneHolder, Nowhere
    <3> QED BY <1>t, <2>1, <3>1 DEF RouteInv, OneHolder
  <2>4. RoutesFollowScans' BY <2>1 DEF RouteInv, RoutesFollowScans
  <2> QED BY <2>2, <2>3, <2>4 DEF RouteInv
<1>8. CASE UNCHANGED <<where, pins, lan, owner, batch, poll, found>>
  BY <1>t, <1>8 DEF RouteInv, MapType, OneHolder, RoutesFollowScans
<1>9. ASSUME NEW d \in Devices, Announce(d) PROVE RouteInv'
  BY <1>8, <1>9 DEF Announce, world, map, scan, read
<1>10. ASSUME NEW d \in Nudged, CloudPush(d) \/ NudgeFires(d) \/ NudgeConfirms(d) \/ NudgeTimesOut(d) \/ NudgeEnds(d)
       PROVE RouteInv'
  BY <1>8, <1>10 DEF CloudPush, NudgeFires, NudgeConfirms, ReadOnce, NudgeTimesOut, NudgeEnds, world, map, scan, read
<1>11. ASSUME NEW spot \in Addresses, Deliver(spot) \/ Lose(spot) PROVE RouteInv'
  BY <1>8, <1>11 DEF Deliver, Lose, world, map, scan, read
<1>12. CASE RescanFallsDue
  BY <1>8, <1>12 DEF RescanFallsDue, world, map, read
<1>13. CASE UNCHANGED vars
  BY <1>8, <1>13 DEF vars, world, map, scan, read
<1> QED BY <1>1, <1>2, <1>3, <1>4, <1>5, <1>6, <1>7, <1>9, <1>10, <1>11, <1>12, <1>13 DEF Next, Poll

\* A device that is not held by its pin is where the last scan found it, for any
\* houses, leases that move as they like, lost answers and nudges.
THEOREM Routed == Spec => []RoutesFollowScans
<1>1. RouteInv => RoutesFollowScans
  BY DEF RouteInv
<1> QED BY RouteInit, RouteStep, <1>1, PTL DEF Spec

\* A rescan that was requested stays due until one begins.
THEOREM RequestsStand == Spec => []RequestNotLost
<1>1. Init => RequestNotLost
  BY DEF Init, RequestNotLost
<1>2. RequestNotLost /\ [Next]_vars => RequestNotLost'
  <2> SUFFICES ASSUME RequestNotLost, [Next]_vars PROVE RequestNotLost'
    OBVIOUS
  <2>1. CASE UNCHANGED <<due, asked>>
    BY <2>1 DEF RequestNotLost
  <2>2. CASE Poll
    BY <2>1, <2>2 DEF Poll, PollReads, StartScan, ScanEnds, ScanFails, WindowEnds, KeepsRequests, RequestNotLost, scan
  <2>3. CASE RescanFallsDue
    BY <2>3 DEF RescanFallsDue, RequestNotLost
  <2>4. ASSUME NEW d \in Devices, ScanReply(d) \/ Announce(d) PROVE RequestNotLost'
    BY <2>1, <2>4 DEF ScanReply, Announce, scan
  <2>5. ASSUME NEW d \in Nudged, CloudPush(d) \/ NudgeFires(d) \/ NudgeConfirms(d) \/ NudgeTimesOut(d) \/ NudgeEnds(d)
        PROVE RequestNotLost'
    BY <2>1, <2>5 DEF CloudPush, NudgeFires, NudgeConfirms, ReadOnce, NudgeTimesOut, NudgeEnds, scan
  <2>6. ASSUME NEW spot \in Addresses, Deliver(spot) PROVE RequestNotLost'
    BY <2>1, <2>6 DEF Deliver, Unsolicited, RequestNotLost
  <2>7. ASSUME NEW spot \in Addresses, Lose(spot) \/ \E d \in Devices : Move(d, spot) PROVE RequestNotLost'
    BY <2>1, <2>7 DEF Lose, Move, scan
  <2>8. CASE UNCHANGED vars
    BY <2>1, <2>8 DEF vars, scan
  <2> QED BY <2>2, <2>3, <2>4, <2>5, <2>6, <2>7, <2>8 DEF Next
<1> QED BY <1>1, <1>2, PTL DEF Spec

\* For any devices, addresses and pins: routes follow the scans, and a scan
\* that was asked for stays due.
THEOREM RoutesKept == Spec => []RoutesAreKept
BY Routed, RequestsStand, PTL DEF RoutesAreKept
----------------------------------------------------------------------------
(* Demotion.                                                                *)

CountsType ==
    /\ misses \in [Devices -> 0..(Threshold - 1)] /\ silent \in [Devices -> 0..Threshold]
    /\ batch \in [Addresses -> Devices \cup {None}] /\ poll \in {"idle", "scan", "read"}

\* A batch reads a device at one address, and notes every address of its own
\* that it hears from, whoever else was waiting.
BatchHears ==
    /\ \A spot, other \in Addresses : batch[spot] = batch[other] /\ batch[spot] # None => spot = other
    /\ \A spot \in spoke : spot \in Addresses /\ (batch[spot] # None => spot \in got)

\* What counts as a miss was silence.
MissesAreSilences == \A d \in Devices : misses[d] <= silent[d]

SilenceInv == CountsType /\ BatchHears /\ MissesAreSilences

\* The start of a read, of the map or of the one just merged.
LEMMA StartReadHears ==
    ASSUME NEW table, StartRead(table)
    PROVE  /\ batch' \in [Addresses -> Devices \cup {None}] /\ poll' \in {"idle", "read"}
           /\ BatchHears'
<1>1. batch' = Batch(table) /\ got' = {} /\ spoke' = {} /\ poll' \in {"idle", "read"}
  BY DEF StartRead
<1>2. \A spot, other \in Addresses : batch'[spot] = batch'[other] /\ batch'[spot] # None => spot = other
  BY <1>1, BatchReadsMap
<1> QED BY <1>1, <1>2, BatchType DEF BatchHears

\* A device not heard in the window was not heard from at all.
LEMMA UnheardWasSilent ==
    ASSUME SilenceInv, NEW d \in Devices, NEW spot \in Addresses \ got, batch[spot] = d
    PROVE  ~\E other \in spoke : batch[other] = d
BY LanAssumption DEF SilenceInv, BatchHears

\* The end of the window counts a miss where it counts a silence.
LEMMA WindowCounts ==
    ASSUME SilenceInv, WindowEnds
    PROVE  SilenceInv' /\ \A d \in Devices : lan'[d] = None /\ lan[d] # None => silent'[d] >= Threshold
<1> DEFINE heard   == {d \in Devices : \E spot \in got : batch[spot] = d}
           unheard == {d \in Devices : \E spot \in Addresses \ got : batch[spot] = d}
           demoted == {d \in unheard : Demotes(d)}
<1>1. /\ misses' = [d \in Devices |->
           IF d \in heard \cup demoted THEN 0 ELSE IF d \in unheard THEN misses[d] + 1 ELSE misses[d]]
      /\ lan' = [d \in Devices |-> IF d \in demoted THEN None ELSE lan[d]]
      /\ poll' = "idle" /\ batch' = Unread /\ got' = {} /\ spoke' = {}
      /\ silent' = [d \in Devices |->
           IF \E spot \in spoke : batch[spot] = d THEN 0
           ELSE IF \E spot \in Addresses : batch[spot] = d /\ silent[d] < Threshold THEN silent[d] + 1 ELSE silent[d]]
  BY DEF WindowEnds
<1>2. CountsType /\ MissesAreSilences /\ Threshold \in Nat \ {0}
  BY LanAssumption DEF SilenceInv
<1>3. ASSUME NEW d \in unheard
      PROVE  silent'[d] = IF silent[d] < Threshold THEN silent[d] + 1 ELSE silent[d]
  <2>1. PICK spot \in Addresses \ got : batch[spot] = d
    OBVIOUS
  <2>2. ~\E other \in spoke : batch[other] = d
    BY <2>1, UnheardWasSilent
  <2> QED BY <1>1, <2>1, <2>2
<1>4. ASSUME NEW d \in Devices
      PROVE  /\ misses'[d] \in 0..(Threshold - 1) /\ silent'[d] \in 0..Threshold
             /\ misses'[d] <= silent'[d]
             /\ d \in demoted => silent'[d] >= Threshold
  <2>1. misses[d] \in 0..(Threshold - 1) /\ silent[d] \in 0..Threshold /\ misses[d] <= silent[d]
    BY <1>2 DEF CountsType, MissesAreSilences
  <2>2. silent'[d] \in 0..Threshold
    BY <1>1, <1>2, <2>1
  <2>3. CASE d \in demoted
    BY <1>1, <1>2, <1>3, <2>1, <2>2, <2>3 DEF Demotes
  <2>4. CASE d \in heard /\ d \notin demoted
    BY <1>1, <1>2, <2>2, <2>4
  <2>5. CASE d \in unheard /\ d \notin heard \cup demoted
    BY <1>1, <1>2, <1>3, <2>1, <2>2, <2>5 DEF Demotes
  <2>6. CASE d \notin unheard \cup heard
    <3>1. ~\E spot \in Addresses : batch[spot] = d
      BY <2>6
    <3>2. misses'[d] = misses[d] /\ silent'[d] = silent[d]
      BY <1>1, <2>6, <3>1 DEF SilenceInv, BatchHears
    <3> QED BY <2>1, <2>6, <3>2
  <2> QED BY <2>3, <2>4, <2>5, <2>6
<1>5. CountsType'
  BY <1>1, <1>4 DEF CountsType, Unread
<1>6. BatchHears'
  BY <1>1 DEF BatchHears, Unread
<1> QED BY <1>1, <1>4, <1>5, <1>6 DEF SilenceInv, MissesAreSilences

LEMMA SilenceStep == SilenceInv /\ [Next]_vars => SilenceInv'
<1> SUFFICES ASSUME SilenceInv, [Next]_vars PROVE SilenceInv'
  OBVIOUS
<1> USE DEF SilenceInv, MissesAreSilences
<1>0. Threshold \in Nat \ {0}
  BY LanAssumption
<1>1. CASE PollReads
  BY <1>1, StartReadHears DEF PollReads, CountsType, map
<1>2. CASE StartScan
  BY <1>2 DEF StartScan, CountsType, BatchHears, map, read
<1>3. CASE ScanEnds
  <2>1. StartRead(lan') /\ \E matched, dropped :
          /\ misses' = [d \in Devices |-> IF matched[d] # None \/ d \in dropped THEN 0 ELSE misses[d]]
          /\ silent' = [d \in Devices |-> IF matched[d] # None THEN 0 ELSE silent[d]]
    BY <1>3 DEF ScanEnds, Merge
  <2>2. /\ misses' \in [Devices -> 0..(Threshold - 1)] /\ silent' \in [Devices -> 0..Threshold]
        /\ MissesAreSilences'
    BY <1>0, <2>1 DEF CountsType
  <2> QED BY <2>1, <2>2, StartReadHears DEF CountsType
<1>4. CASE ScanFails
  BY <1>4, StartReadHears DEF ScanFails, CountsType, map
<1>5. CASE WindowEnds
  BY <1>5, WindowCounts
<1>6. ASSUME NEW spot \in Addresses, Deliver(spot) PROVE SilenceInv'
  BY <1>6 DEF Deliver, Serves, CountsType, BatchHears, map
<1>7. ASSUME UNCHANGED <<misses, read, poll>> PROVE SilenceInv'
  BY <1>7 DEF CountsType, BatchHears, read
<1>8. ASSUME NEW d \in Nudged, CloudPush(d) \/ NudgeFires(d) \/ NudgeConfirms(d) \/ NudgeTimesOut(d) \/ NudgeEnds(d)
      PROVE  SilenceInv'
  BY <1>7, <1>8 DEF CloudPush, NudgeFires, NudgeConfirms, ReadOnce, NudgeTimesOut, NudgeEnds, MissIsForgotten, map
<1> QED
  BY <1>1, <1>2, <1>3, <1>4, <1>5, <1>6, <1>7, <1>8
     DEF Next, Poll, RescanFallsDue, ScanReply, Announce, Lose, Move, vars, map

\* For any devices, addresses and threshold: a device leaves the map at the end
\* of a read only after as many reads in a row without a word from its address.
THEOREM Demoted == Spec => DemotedOnlySilent
<1>1. Init => SilenceInv
  BY LanAssumption DEF Init, SilenceInv, CountsType, BatchHears, MissesAreSilences, Unread
<1>2. SilenceInv /\ [Next]_vars =>
        [\A d \in Devices : poll = "read" /\ lan[d] # None /\ lan'[d] = None => silent'[d] >= Threshold]_vars
  <2> SUFFICES ASSUME SilenceInv, Next, NEW d \in Devices, poll = "read", lan[d] # None, lan'[d] = None
               PROVE  silent'[d] >= Threshold
    OBVIOUS
  <2>1. CASE WindowEnds
    BY <2>1, WindowCounts
  <2>2. CASE lan' = lan
    BY <2>2
  <2> QED
    BY <2>1, <2>2
       DEF Next, Poll, PollReads, StartScan, ScanEnds, ScanFails, RescanFallsDue, ScanReply, Announce, Lose, Move,
           Deliver, CloudPush, NudgeFires, NudgeConfirms, ReadOnce, NudgeTimesOut, NudgeEnds, map
<1> QED BY <1>1, <1>2, SilenceStep, PTL DEF Spec, DemotedOnlySilent

-----------------------------------------------------------------------------
(* The datagrams and the nudges.                                             *)

NudgeSteps == {"none", "pending", "first", "rest", "second"}

\* The other lines of the type invariant; however many addresses there are,
\* statuses come from finitely many.
AirType ==
    /\ net \subseteq Addresses /\ IsFiniteSet(net)
    /\ due \in BOOLEAN /\ asked \in BOOLEAN
    /\ got \subseteq Addresses /\ spoke \subseteq Addresses
    /\ nudge \in [Nudged -> NudgeSteps] /\ nudgeAt \in [Nudged -> Places]
    /\ moves \in 0..MaxMoves /\ lost \in 0..MaxLost

LEMMA AirStarts == Init => AirType
<1> SUFFICES ASSUME Init PROVE AirType
  OBVIOUS
<1> USE LanAssumption DEF LanAssumption
<1>1. /\ net = {} /\ moves = 0 /\ lost = 0 /\ got = {} /\ spoke = {} /\ due = FALSE /\ asked = FALSE
      /\ nudge = [d \in Nudged |-> "none"] /\ nudgeAt = [d \in Nudged |-> None]
  BY DEF Init
<1>2. due \in BOOLEAN /\ asked \in BOOLEAN
  BY ONLY <1>1, Zenon
<1>3. IsFiniteSet(net)
  BY <1>1, FS_EmptySet
<1>4. nudge \in [Nudged -> NudgeSteps] /\ nudgeAt \in [Nudged -> Places]
  BY <1>1 DEF NudgeSteps, Places
<1> QED BY <1>1, <1>2, <1>3, <1>4 DEF AirType

\* Finitely many devices answer.
LEMMA FewAnswer ==
    ASSUME MapType
    PROVE  Answering \subseteq Addresses /\ IsFiniteSet(Answering)
<1>1. IsFiniteSet(Devices \ WriteOnly)
  BY LanAssumption, FS_Subset DEF LanAssumption
<1>2. IsFiniteSet(Answering)
  <2> DEFINE from == [d \in Devices \ WriteOnly |-> where[d]]
  <2>1. from \in Surjection(Devices \ WriteOnly, Answering)
    BY DEF Surjection, Answering
  <2> HIDE DEF from
  <2> QED BY <1>1, <2>1, FS_Surjection
<1>3. Answering \subseteq Addresses
  BY DEF MapType, Answering
<1> QED BY <1>2, <1>3

\* A read asks devices of the map; nothing was heard yet.
LEMMA ReadAsks ==
    ASSUME MapType, AirType, NEW table, StartRead(table)
    PROVE  net' \subseteq Addresses /\ IsFiniteSet(net') /\ got' = {} /\ spoke' = {}
<1> DEFINE new == {other \in Answering : Batch(table)[other] # None}
<1>1. net' = net \cup new /\ got' = {} /\ spoke' = {}
  BY DEF StartRead
<1>2. new \subseteq Addresses /\ IsFiniteSet(new)
  <2>1. new \subseteq Answering
    OBVIOUS
  <2> HIDE DEF new
  <2> QED BY <2>1, FewAnswer, FS_Subset
<1> HIDE DEF new
<1> QED BY <1>1, <1>2, FS_Union DEF AirType

\* The poll.
LEMMA PollKeepsAir ==
    ASSUME MapType, AirType, Poll
    PROVE  AirType'
<1> USE LanAssumption DEF LanAssumption
<1>1. /\ due \in BOOLEAN /\ asked \in BOOLEAN /\ nudge \in [Nudged -> NudgeSteps] /\ nudgeAt \in [Nudged -> Places]
      /\ moves \in 0..MaxMoves /\ lost \in 0..MaxLost /\ net \subseteq Addresses /\ IsFiniteSet(net)
  BY DEF AirType
<1>2. ASSUME UNCHANGED <<nudge, nudgeAt, moves>>, UNCHANGED <<due, asked>>, lost' \in 0..MaxLost,
             net' \subseteq Addresses, IsFiniteSet(net'), got' = {}, spoke' = {}
      PROVE  AirType'
  <2>1. due' \in BOOLEAN /\ asked' \in BOOLEAN
    BY ONLY <1>1, <1>2, Zenon
  <2> QED BY <1>1, <1>2, <2>1 DEF AirType
<1>3. CASE PollReads
  <2>1. StartRead(lan) /\ UNCHANGED <<nudge, nudgeAt, moves, lost>> /\ UNCHANGED <<due, asked>>
    BY <1>3 DEF PollReads, world, scan, nudges
  <2> QED BY <1>1, <1>2, <2>1, ReadAsks
<1>4. CASE StartScan
  <2>1. /\ due' = FALSE /\ asked' = FALSE
        /\ UNCHANGED <<net, got, spoke, nudge, nudgeAt, moves, lost>>
    BY <1>4 DEF StartScan, world, read, nudges
  <2>2. due' \in BOOLEAN /\ asked' \in BOOLEAN
    BY ONLY <2>1, Zenon
  <2> QED BY <2>1, <2>2 DEF AirType
<1>5. CASE ScanEnds
  <2> DEFINE unheard == {d \in Devices \ OffScan : found[d] # where[d]}
  <2>1. /\ StartRead(lan') /\ UNCHANGED <<nudge, nudgeAt, moves>> /\ UNCHANGED <<due, asked>>
        /\ lost + Cardinality(unheard) <= MaxLost /\ lost' = lost + Cardinality(unheard)
    BY <1>5 DEF ScanEnds, KeepsRequests, world, nudges
  <2>2. Cardinality(unheard) \in Nat
    <3>1. unheard \subseteq Devices
      OBVIOUS
    <3> HIDE DEF unheard
    <3> QED BY <3>1, FS_Subset, FS_CardinalityType
  <2> HIDE DEF unheard
  <2>3. lost' \in 0..MaxLost
    BY <1>1, <2>1, <2>2
  <2> QED BY <1>2, <2>1, <2>3, ReadAsks
<1>6. CASE ScanFails
  <2>1. /\ StartRead(lan) /\ UNCHANGED <<nudge, nudgeAt, moves>> /\ UNCHANGED <<due, asked>>
        /\ lost < MaxLost /\ lost' = lost + 1
    BY <1>6 DEF ScanFails, KeepsRequests, world, nudges
  <2>2. lost' \in 0..MaxLost
    BY <1>1, <2>1
  <2> QED BY <1>2, <2>1, <2>2, ReadAsks
<1>7. CASE WindowEnds
  <2> DEFINE late == {other \in net \ got : batch[other] # None}
  <2>1. /\ UNCHANGED <<nudge, nudgeAt, moves, net>> /\ UNCHANGED <<due, asked>> /\ got' = {} /\ spoke' = {}
        /\ lost + Cardinality(late) <= MaxLost /\ lost' = lost + Cardinality(late)
    BY <1>7 DEF WindowEnds, scan, world, nudges
  <2>2. Cardinality(late) \in Nat
    <3>1. late \subseteq net
      OBVIOUS
    <3> HIDE DEF late
    <3> QED BY <1>1, <3>1, FS_Subset, FS_CardinalityType
  <2> HIDE DEF late
  <2>3. lost' \in 0..MaxLost
    BY <1>1, <2>1, <2>2
  <2> QED BY <1>1, <1>2, <2>1, <2>3
<1> QED BY <1>3, <1>4, <1>5, <1>6, <1>7 DEF Poll

\* What a datagram does.
LEMMA DatagramKeepsAir ==
    ASSUME MapType, AirType, NEW spot \in Addresses, Deliver(spot) \/ Lose(spot)
    PROVE  AirType'
<1> USE LanAssumption DEF LanAssumption
<1>1. /\ due \in BOOLEAN /\ asked \in BOOLEAN /\ nudge \in [Nudged -> NudgeSteps] /\ nudgeAt \in [Nudged -> Places]
      /\ moves \in 0..MaxMoves /\ lost \in 0..MaxLost /\ net \subseteq Addresses /\ IsFiniteSet(net)
      /\ got \subseteq Addresses /\ spoke \subseteq Addresses
  BY DEF AirType
<1>2. net' = net \ {spot} => net' \subseteq Addresses /\ IsFiniteSet(net')
  BY <1>1, FS_Subset
<1>3. CASE Lose(spot)
  <2>1. /\ net' = net \ {spot} /\ lost < MaxLost /\ lost' = lost + 1
        /\ UNCHANGED <<got, spoke, nudge, nudgeAt, moves>> /\ UNCHANGED <<due, asked>>
    BY <1>3 DEF Lose, world, scan, read, nudges
  <2>2. due' \in BOOLEAN /\ asked' \in BOOLEAN
    BY ONLY <1>1, <2>1, Zenon
  <2> QED BY <1>1, <1>2, <2>1, <2>2 DEF AirType
<1>4. CASE Deliver(spot)
  <2> DEFINE readers == {d \in Nudged : Reading(d, spot)}
  <2>1. /\ net' = net \ {spot} /\ got' \in {got, got \cup {spot}} /\ spoke' \in {spoke, spoke \cup {spot}}
        /\ nudge' = Answered(readers) /\ nudgeAt' = [d \in Nudged |-> IF d \in readers THEN None ELSE nudgeAt[d]]
        /\ UNCHANGED <<moves, lost>>
    BY <1>4 DEF Deliver, Serves, world
  <2>2. due' \in BOOLEAN /\ asked' \in BOOLEAN
    <3>1. UNCHANGED <<due, asked>> \/ (due' = TRUE /\ asked' = TRUE)
      BY <1>4 DEF Deliver, Unsolicited
    <3> QED BY ONLY <1>1, <3>1, Zenon
  <2>3. nudge' \in [Nudged -> NudgeSteps]
    <3> HIDE DEF readers
    <3> QED BY <1>1, <2>1 DEF Answered, NudgeSteps
  <2>4. nudgeAt' \in [Nudged -> Places]
    <3> HIDE DEF readers
    <3> QED BY <1>1, <2>1 DEF Places
  <2> HIDE DEF readers
  <2> QED BY <1>1, <1>2, <2>1, <2>2, <2>3, <2>4 DEF AirType
<1> QED BY <1>3, <1>4

\* What the cloud, a nudge or a device does.
LEMMA NudgeKeepsAir ==
    ASSUME MapType, AirType,
           \/ \E d \in Nudged : CloudPush(d) \/ NudgeFires(d) \/ NudgeConfirms(d) \/ NudgeTimesOut(d) \/ NudgeEnds(d)
           \/ \E d \in Devices : Announce(d) \/ ScanReply(d) \/ \E spot \in Addresses : Move(d, spot)
           \/ RescanFallsDue
    PROVE  AirType'
<1> USE LanAssumption DEF LanAssumption
<1>1. /\ due \in BOOLEAN /\ asked \in BOOLEAN /\ nudge \in [Nudged -> NudgeSteps] /\ nudgeAt \in [Nudged -> Places]
      /\ moves \in 0..MaxMoves /\ lost \in 0..MaxLost /\ net \subseteq Addresses /\ IsFiniteSet(net)
      /\ got \subseteq Addresses /\ spoke \subseteq Addresses
  BY DEF AirType
<1>2. ASSUME UNCHANGED <<due, asked>>, UNCHANGED <<got, spoke, lost>>, net' \subseteq Addresses, IsFiniteSet(net'),
             nudge' \in [Nudged -> NudgeSteps], nudgeAt' \in [Nudged -> Places], moves' \in 0..MaxMoves
      PROVE  AirType'
  <2>1. due' \in BOOLEAN /\ asked' \in BOOLEAN
    BY ONLY <1>1, <1>2, Zenon
  <2> QED BY <1>1, <1>2, <2>1 DEF AirType
<1>3. ASSUME NEW d \in Nudged, CloudPush(d) \/ NudgeTimesOut(d) \/ NudgeEnds(d) PROVE AirType'
  <2>1. /\ UNCHANGED <<due, asked>> /\ UNCHANGED <<got, spoke, lost, net, moves>>
        /\ \E s \in NudgeSteps : nudge' = [nudge EXCEPT ![d] = s]
        /\ nudgeAt' = nudgeAt \/ nudgeAt' = [nudgeAt EXCEPT ![d] = None]
    BY <1>3 DEF CloudPush, NudgeTimesOut, NudgeEnds, world, scan, read, NudgeSteps
  <2>2. nudge' \in [Nudged -> NudgeSteps]
    BY <1>1, <2>1
  <2>3. nudgeAt' \in [Nudged -> Places]
    BY <1>1, <2>1 DEF Places
  <2> QED BY <1>1, <1>2, <2>1, <2>2, <2>3
<1>4. ASSUME NEW d \in Nudged, NudgeFires(d) \/ NudgeConfirms(d) PROVE AirType'
  <2>1. /\ UNCHANGED <<due, asked>> /\ UNCHANGED <<got, spoke, lost, moves>>
        /\ \E s \in NudgeSteps : nudge' = [nudge EXCEPT ![d] = s]
        /\ nudgeAt' = [nudgeAt EXCEPT ![d] = lan[d]]
        /\ net' = net \cup ({lan[d]} \cap Answering)
    BY <1>4 DEF NudgeFires, NudgeConfirms, ReadOnce, world, scan, read, NudgeSteps
  <2>2. nudge' \in [Nudged -> NudgeSteps]
    BY <1>1, <2>1
  <2>3. nudgeAt' \in [Nudged -> Places]
    <3>1. lan[d] \in Places
      BY DEF MapType
    <3> QED BY <1>1, <2>1, <3>1
  <2>4. net' \subseteq Addresses /\ IsFiniteSet(net')
    <3> DEFINE more == {lan[d]} \cap Answering
    <3>1. more \subseteq Answering
      OBVIOUS
    <3> HIDE DEF more
    <3>2. more \subseteq Addresses /\ IsFiniteSet(more)
      BY <3>1, FewAnswer, FS_Subset
    <3>3. net' = net \cup more
      BY <2>1 DEF more
    <3> QED BY <1>1, <3>2, <3>3, FS_Union
  <2> QED BY <1>1, <1>2, <2>1, <2>2, <2>3, <2>4
<1>5. ASSUME NEW d \in Devices, Announce(d) PROVE AirType'
  <2>1. /\ UNCHANGED <<due, asked>> /\ UNCHANGED <<got, spoke, lost, moves, nudge, nudgeAt>>
        /\ net' = net \cup {where[d]}
    BY <1>5 DEF Announce, world, scan, read, nudges
  <2>2. where[d] \in Addresses
    BY DEF MapType
  <2>3. net' \subseteq Addresses /\ IsFiniteSet(net')
    BY <1>1, <2>1, <2>2, FS_AddElement
  <2> QED BY <1>1, <1>2, <2>1, <2>3
<1>6. ASSUME NEW d \in Devices, ScanReply(d) PROVE AirType'
  <2>1. UNCHANGED <<due, asked>> /\ UNCHANGED <<got, spoke, lost, net, moves, nudge, nudgeAt>>
    BY <1>6 DEF ScanReply, world, read, nudges
  <2> QED BY <1>1, <1>2, <2>1
<1>7. ASSUME NEW d \in Devices, NEW spot \in Addresses, Move(d, spot) PROVE AirType'
  <2>1. /\ UNCHANGED <<due, asked>> /\ UNCHANGED <<got, spoke, lost, net, nudge, nudgeAt>>
        /\ moves < MaxMoves /\ moves' = moves + 1
    BY <1>7 DEF Move, scan, read, nudges
  <2>2. moves' \in 0..MaxMoves
    BY <1>1, <2>1
  <2> QED BY <1>1, <1>2, <2>1, <2>2
<1>8. CASE RescanFallsDue
  <2>1. due' = TRUE /\ asked' = asked /\ UNCHANGED <<got, spoke, lost, net, moves, nudge, nudgeAt>>
    BY <1>8 DEF RescanFallsDue, world, read, nudges
  <2>2. due' \in BOOLEAN /\ asked' \in BOOLEAN
    BY ONLY <1>1, <2>1, Zenon
  <2> QED BY <1>1, <2>1, <2>2 DEF AirType
<1> QED BY <1>3, <1>4, <1>5, <1>6, <1>7, <1>8

LEMMA AirGoesOn == MapType /\ AirType /\ [Next]_vars => AirType'
<1> SUFFICES ASSUME MapType, AirType, [Next]_vars PROVE AirType'
  OBVIOUS
<1>1. CASE UNCHANGED vars
  BY <1>1 DEF vars, world, scan, read, nudges, AirType
<1>2. CASE Next
  BY <1>2, PollKeepsAir, DatagramKeepsAir, NudgeKeepsAir DEF Next
<1> QED BY <1>1, <1>2

\* For any devices, addresses and losses: the LAN's map, counts and datagrams
\* keep their types, and statuses are under way from finitely many addresses.
THEOREM LanTyped == Spec => []TypeOK
<1>1. Init => SilenceInv
  BY LanAssumption DEF Init, SilenceInv, CountsType, BatchHears, MissesAreSilences, Unread
<1>2. RouteInv => MapType
  BY DEF RouteInv
<1>3. RouteInv /\ AirType /\ SilenceInv => TypeOK
  BY DEF RouteInv, MapType, AirType, SilenceInv, CountsType, TypeOK, Places, NudgeSteps
<1> QED BY RouteInit, RouteStep, AirStarts, AirGoesOn, SilenceStep, <1>1, <1>2, <1>3, PTL DEF Spec

-----------------------------------------------------------------------------
(* The paths of one device. *)

HealthRecord == [up : BOOLEAN, reason : Health!Reasons]

\* A channel that is up has no failure on record, and one of its own, once the
\* device is gone, was up at the last poll for a sign within its window.
UpIsClean == pathHealth["lan_udp"].up => pathHealth["lan_udp"].reason = "none"

SignsAge ==
    /\ pathThere => pathGone = 0
    /\ \A t \in Health!Timed : pathGone <= pathAge[t]
    /\ pathHealth["lan"].up => "lan" \in pathKnown /\ pathGone <= LanStale + pathSincePoll
    /\ pathHealth["ble"].up => "ble" \in pathKnown /\ pathGone <= BleStale + pathSincePoll
    /\ pathEnrolled => "ble" \in pathKnown

HealthInv == Health!TypeOK /\ UpIsClean /\ SignsAge

HealthStep ==
    /\ pathHealth'["lan_udp"].up => pathHealth'["lan_udp"].reason = "none"
    /\ pathHealth["lan_udp"].reason = "send_failed" /\ pathHealth'["lan_udp"].up => Health!RawSend

LEMMA HealthStarts == Health!Init => HealthInv
<1> SUFFICES ASSUME Health!Init PROVE HealthInv
  OBVIOUS
<1> USE HealthAssumption DEF Health!Init
<1>1. TRUE \in BOOLEAN /\ FALSE \in BOOLEAN
  BY Zenon
<1>2. pathThere \in BOOLEAN /\ pathOnLan \in BOOLEAN /\ pathEnrolled \in BOOLEAN
  BY <1>1, Zenon
<1>3. pathHealth \in [Health!Channels -> HealthRecord] /\ \A c \in Health!Channels : ~pathHealth[c].up
  BY <1>1 DEF HealthRecord, Health!Reasons, Health!Channels
<1>4. Health!TypeOK
  BY <1>2, <1>3 DEF Health!TypeOK, HealthRecord
<1>5. UpIsClean /\ SignsAge
  BY <1>3 DEF UpIsClean, SignsAge, Health!Channels
<1> QED BY <1>4, <1>5 DEF HealthInv

LEMMA HealthEntries ==
           /\ Health!Up \in HealthRecord /\ Health!Up.up /\ Health!Up.reason = "none"
           /\ \A r \in Health!Reasons : Health!Down(r) \in HealthRecord /\ ~Health!Down(r).up /\ Health!Down(r).reason = r
<1>1. TRUE \in BOOLEAN /\ FALSE \in BOOLEAN
  BY Zenon
<1> QED BY <1>1 DEF Health!Up, Health!Down, HealthRecord, Health!Reasons

\* A sign over a channel that proves the device there.
LEMMA SignsKeep ==
    ASSUME HealthInv, Health!Reads \/ Health!Advertises \/ Health!Pushes
    PROVE  HealthInv' /\ HealthStep
<1> USE HealthAssumption DEF Health!links
<1>1. PICK c \in {"lan", "ble", "mqtt"}, t \in Health!Timed :
        /\ pathHealth' = [pathHealth EXCEPT ![c] = Health!Up] /\ pathAge' = [pathAge EXCEPT ![t] = 0]
        /\ pathKnown' = pathKnown \cup {t} /\ pathThere /\ UNCHANGED <<pathThere, pathGone, pathOnLan, pathSession, pathSincePoll>>
        /\ pathEnrolled' = pathEnrolled \/ (pathEnrolled' = TRUE /\ t = "ble")
        /\ (c = "lan" => t = "lan") /\ (c = "ble" => t = "ble")
  <2>1. CASE Health!Reads
    <3> USE DEF Health!Timed
    <3> WITNESS "lan" \in {"lan", "ble", "mqtt"}, "lan" \in Health!Timed
    <3> QED BY <2>1 DEF Health!Reads, Health!Succeeds
  <2>2. CASE Health!Advertises
    <3> USE DEF Health!Timed
    <3> WITNESS "ble" \in {"lan", "ble", "mqtt"}, "ble" \in Health!Timed
    <3> QED BY <2>2 DEF Health!Advertises, Health!Succeeds
  <2>3. CASE Health!Pushes
    <3> USE DEF Health!Timed
    <3> WITNESS "mqtt" \in {"lan", "ble", "mqtt"}, "push" \in Health!Timed
    <3> QED BY <2>3 DEF Health!Pushes, Health!Succeeds
  <2> QED BY <2>1, <2>2, <2>3
<1>2. /\ pathHealth \in [Health!Channels -> HealthRecord] /\ pathAge \in [Health!Timed -> 0..Cap]
      /\ pathGone = 0 /\ pathSincePoll \in Nat
  BY <1>1 DEF HealthInv, Health!TypeOK, HealthRecord, SignsAge
<1>3. /\ pathHealth' \in [Health!Channels -> HealthRecord] /\ pathHealth'["lan_udp"] = pathHealth["lan_udp"]
      /\ (c # "lan" => pathHealth'["lan"] = pathHealth["lan"]) /\ (c # "ble" => pathHealth'["ble"] = pathHealth["ble"])
  BY <1>1, <1>2, HealthEntries DEF Health!Channels
<1>4. pathAge' \in [Health!Timed -> 0..Cap]
  BY <1>1, <1>2
<1>5. pathEnrolled' \in BOOLEAN
  <2>1. pathEnrolled \in BOOLEAN
    BY DEF HealthInv, Health!TypeOK
  <2> QED BY ONLY <1>1, <2>1, Zenon
<1>6. Health!TypeOK'
  BY <1>1, <1>3, <1>4, <1>5 DEF HealthInv, Health!TypeOK, HealthRecord
<1>7. UpIsClean' /\ HealthStep
  BY <1>3 DEF HealthInv, UpIsClean, HealthStep
<1>8. SignsAge'
  BY <1>1, <1>2, <1>3, <1>4 DEF HealthInv, SignsAge
<1> QED BY <1>6, <1>7, <1>8 DEF HealthInv

\* A command says how it went, a raw datagram that the socket took.
LEMMA SendsKeep ==
    ASSUME HealthInv, Health!Commands \/ Health!RawSend
    PROVE  HealthInv' /\ HealthStep
<1> USE HealthAssumption DEF Health!links
<1>1. PICK c \in Health!Channels, e \in {Health!Up, Health!Down("send_failed")} :
        /\ pathHealth' = [pathHealth EXCEPT ![c] = e]
        /\ UNCHANGED <<pathThere, pathGone, pathOnLan, pathEnrolled, pathSession, pathSincePoll, pathAge, pathKnown>>
        /\ c = "lan" => e = Health!Down("send_failed")
        /\ c = "ble" => e = Health!Down("send_failed") \/ (pathEnrolled /\ pathThere)
        /\ c = "lan_udp" => e = Health!Down("send_failed") \/ Health!RawSend
  <2>1. CASE Health!RawSend
    <3> USE DEF Health!Channels
    <3> WITNESS "lan_udp" \in Health!Channels, Health!Up \in {Health!Up, Health!Down("send_failed")}
    <3> QED BY <2>1 DEF Health!RawSend, Health!Sends
  <2>2. CASE Health!Commands
    BY <2>2 DEF Health!Commands, Health!Sends, Health!Fails, Health!Channels
  <2> QED BY <2>1, <2>2
<1>2. /\ pathHealth \in [Health!Channels -> HealthRecord] /\ e \in HealthRecord /\ (e = Health!Up \/ ~e.up)
      /\ (e.up => e.reason = "none") /\ Health!Down("send_failed") \in HealthRecord /\ ~Health!Down("send_failed").up
  BY HealthEntries DEF HealthInv, Health!TypeOK, HealthRecord, Health!Reasons
<1>3. /\ pathHealth' \in [Health!Channels -> HealthRecord] /\ pathHealth'[c] = e
      /\ \A o \in Health!Channels : o # c => pathHealth'[o] = pathHealth[o]
  BY <1>1, <1>2
<1>4. {"lan", "ble", "lan_udp"} \subseteq Health!Channels
  BY DEF Health!Channels
<1>5. Health!TypeOK'
  BY <1>1, <1>3 DEF HealthInv, Health!TypeOK, HealthRecord
<1>6. UpIsClean'
  BY <1>1, <1>2, <1>3, <1>4 DEF HealthInv, UpIsClean
<1>7. HealthStep
  BY <1>1, <1>2, <1>3, <1>4, <1>6 DEF HealthInv, UpIsClean, HealthStep
<1>8. SignsAge'
  <2>1. pathSincePoll \in Nat /\ pathGone \in Nat
    BY DEF HealthInv, Health!TypeOK
  <2> QED BY <1>1, <1>2, <1>3, <1>4, <2>1 DEF HealthInv, SignsAge
<1> QED BY <1>5, <1>6, <1>7, <1>8 DEF HealthInv

LEMMA PassesKeep ==
    ASSUME HealthInv, Health!Poll
    PROVE  HealthInv' /\ HealthStep
<1> USE HealthAssumption DEF Health!links
<1>1. /\ pathHealth \in [Health!Channels -> HealthRecord] /\ pathAge \in [Health!Timed -> 0..Cap] /\ pathGone \in Nat
      /\ {"lan", "ble", "lan_udp"} \subseteq Health!Channels /\ {"lan", "ble"} \subseteq Health!Timed
  BY DEF HealthInv, Health!TypeOK, HealthRecord, Health!Channels, Health!Timed
<1>2. /\ Health!LanPass \in HealthRecord
      /\ Health!LanPass.up => pathHealth["lan"].up /\ (pathAge["lan"] <= LanStale \/ "lan" \notin pathKnown)
  <2>1. CASE ~pathOnLan
    BY <2>1, HealthEntries DEF Health!LanPass, Health!Reasons
  <2>2. CASE pathOnLan /\ "lan" \in pathKnown /\ pathAge["lan"] > LanStale
    BY <2>2, HealthEntries DEF Health!LanPass, Health!Reasons
  <2>3. CASE pathOnLan /\ ~("lan" \in pathKnown /\ pathAge["lan"] > LanStale)
    BY <1>1, <2>3 DEF Health!LanPass
  <2> QED BY <2>1, <2>2, <2>3
<1>3. /\ Health!BlePass \in HealthRecord
      /\ Health!BlePass.up => pathHealth["ble"].up /\ (pathAge["ble"] <= BleStale \/ "ble" \notin pathKnown)
  <2>1. CASE ~pathEnrolled
    <3>1. FALSE \in BOOLEAN
      BY Zenon
    <3> QED BY <1>1, <2>1, <3>1 DEF Health!BlePass, HealthRecord
  <2>2. CASE pathEnrolled /\ "ble" \in pathKnown /\ pathAge["ble"] > BleStale
    BY <2>2, HealthEntries DEF Health!BlePass, Health!Reasons
  <2>3. CASE pathEnrolled /\ ~("ble" \in pathKnown /\ pathAge["ble"] > BleStale)
    BY <1>1, <2>3 DEF Health!BlePass
  <2> QED BY <2>1, <2>2, <2>3
<1>4. /\ Health!UdpPass \in HealthRecord /\ (Health!UdpPass.up => Health!UdpPass.reason = "none")
      /\ pathHealth["lan_udp"].reason = "send_failed" => ~Health!UdpPass.up
  <2>1. CASE ~pathOnLan
    BY <2>1, HealthEntries DEF Health!UdpPass, Health!Reasons
  <2>2. CASE pathOnLan
    BY <1>1, <2>2, HealthEntries DEF Health!UdpPass, HealthInv, UpIsClean
  <2> QED BY <2>1, <2>2
<1>5. Health!MqttPass \in HealthRecord
  BY HealthEntries DEF Health!MqttPass, Health!Reasons
<1>6. /\ pathHealth' \in [Health!Channels -> HealthRecord] /\ pathHealth'["lan"] = Health!LanPass
      /\ pathHealth'["ble"] = Health!BlePass /\ pathHealth'["lan_udp"] = Health!UdpPass
  BY <1>2, <1>3, <1>4, <1>5 DEF Health!Poll, Health!Channels
<1>7. UNCHANGED <<pathThere, pathGone, pathAge, pathKnown, pathOnLan, pathEnrolled, pathSession>> /\ pathSincePoll' = 0
  BY DEF Health!Poll
<1>8. Health!TypeOK'
  BY <1>6, <1>7 DEF HealthInv, Health!TypeOK, HealthRecord
<1>9. UpIsClean' /\ HealthStep
  BY <1>4, <1>6 DEF UpIsClean, HealthStep
<1>10. SignsAge'
  BY <1>1, <1>2, <1>3, <1>6, <1>7 DEF HealthInv, SignsAge
<1> QED BY <1>8, <1>9, <1>10 DEF HealthInv

\* Time, and what becomes of the device, the LAN and the session.
LEMMA TimeKeeps ==
    ASSUME HealthInv, Health!Tick \/ Health!Comes \/ Health!Correlates \/ Health!SessionChanges
    PROVE  HealthInv' /\ HealthStep
<1> USE HealthAssumption DEF Health!links, Health!entries
<1>1. pathHealth' = pathHealth /\ pathKnown' = pathKnown /\ pathEnrolled' = pathEnrolled
  BY DEF Health!Tick, Health!Comes, Health!Correlates, Health!SessionChanges
<1>2. UpIsClean' /\ HealthStep
  BY <1>1 DEF HealthInv, UpIsClean, HealthStep
<1>3. CASE Health!Tick
  <2>1. /\ pathSincePoll < PollEvery /\ pathSincePoll' = pathSincePoll + 1
        /\ pathAge' = [t \in Health!Timed |-> IF pathAge[t] < Cap THEN pathAge[t] + 1 ELSE Cap]
        /\ pathGone' = IF pathThere THEN 0 ELSE IF pathGone < Cap THEN pathGone + 1 ELSE Cap
        /\ UNCHANGED <<pathThere, pathOnLan, pathSession>>
    BY <1>3 DEF Health!Tick
  <2>2. /\ pathAge \in [Health!Timed -> 0..Cap] /\ pathGone \in 0..Cap /\ pathSincePoll \in 0..PollEvery
    BY DEF HealthInv, Health!TypeOK
  <2>3. /\ pathAge' \in [Health!Timed -> 0..Cap] /\ pathGone' \in 0..Cap /\ pathSincePoll' \in 0..PollEvery
        /\ pathGone' <= pathGone + 1 /\ \A t \in Health!Timed : pathGone' <= pathAge'[t]
    BY <2>1, <2>2 DEF HealthInv, SignsAge
  <2>4. Health!TypeOK'
    BY <1>1, <2>1, <2>3 DEF HealthInv, Health!TypeOK
  <2>5. SignsAge'
    BY <1>1, <2>1, <2>2, <2>3 DEF HealthInv, SignsAge
  <2> QED BY <1>2, <2>4, <2>5 DEF HealthInv
<1>4. CASE Health!Comes \/ Health!Correlates \/ Health!SessionChanges
  <2>1. /\ pathAge' = pathAge /\ pathSincePoll' = pathSincePoll
        /\ (pathThere' = pathThere /\ pathGone' = pathGone) \/ pathGone' = 0
        /\ pathSession' \in {"none", "down", "up"}
    BY <1>4 DEF Health!Comes, Health!Correlates, Health!SessionChanges, HealthInv, Health!TypeOK
  <2>2. pathThere' \in BOOLEAN /\ pathOnLan' \in BOOLEAN
    <3>1. pathThere \in BOOLEAN /\ pathOnLan \in BOOLEAN
      BY DEF HealthInv, Health!TypeOK
    <3> QED BY ONLY <1>4, <3>1, Zenon DEF Health!Comes, Health!Correlates, Health!SessionChanges, Health!links, Health!entries
  <2>3. /\ pathAge \in [Health!Timed -> 0..Cap] /\ pathGone \in 0..Cap /\ pathSincePoll \in 0..PollEvery
    BY DEF HealthInv, Health!TypeOK
  <2>4. Health!TypeOK'
    BY <1>1, <2>1, <2>2, <2>3 DEF HealthInv, Health!TypeOK
  <2>5. SignsAge'
    BY <1>1, <2>1, <2>3 DEF HealthInv, SignsAge
  <2> QED BY <1>2, <2>4, <2>5 DEF HealthInv
<1> QED BY <1>3, <1>4

LEMMA HealthGoesOn == HealthInv /\ [Health!Next]_(Health!vars) => HealthInv' /\ [HealthStep]_(Health!vars)
<1> SUFFICES ASSUME HealthInv, [Health!Next]_(Health!vars) PROVE HealthInv' /\ [HealthStep]_(Health!vars)
  OBVIOUS
<1>1. CASE UNCHANGED Health!vars
  BY <1>1 DEF Health!vars, Health!entries, Health!links, HealthInv, Health!TypeOK, UpIsClean, SignsAge
<1>2. CASE Health!Next
  BY <1>2, SignsKeep, SendsKeep, PassesKeep, TimeKeeps DEF Health!Next
<1> QED BY <1>1, <1>2

LEMMA HealthFindsOut == HealthInv => Health!GoneIsFoundOut
<1> SUFFICES ASSUME HealthInv PROVE Health!GoneIsFoundOut
  OBVIOUS
<1> USE HealthAssumption
<1>1. /\ pathAge \in [Health!Timed -> 0..Cap] /\ pathGone \in 0..Cap /\ pathSincePoll \in 0..PollEvery
      /\ "push" \in Health!Timed
  BY DEF HealthInv, Health!TypeOK, Health!Timed
<1>2. Health!Longest \in Nat /\ Health!Longest >= PushWindow /\ Health!Longest >= BleStale
  BY DEF Health!Longest
<1>3. pathGone <= pathAge["push"]
  BY <1>1 DEF HealthInv, SignsAge
<1> QED BY <1>1, <1>2, <1>3 DEF Health!GoneIsFoundOut, Health!Reachable, HealthInv, SignsAge

\* For any windows and interval, the LAN's no longer than the radio's: a device
\* that is gone is found out (coordinator.py 887-905, 4536-4552).
THEOREM GoneFoundOut == Health!Spec => []Health!GoneIsFoundOut
<1> QED BY HealthStarts, HealthGoesOn, HealthFindsOut, PTL DEF Health!Spec

\* A datagram the socket refused counts until one is accepted or the device has
\* left the LAN (lan_udp_health.py 60-96, 149-171).
THEOREM RefusalKept == Health!Spec => Health!RefusalHolds
<1>1. HealthInv /\ [Health!Next]_(Health!vars)
        => [/\ pathHealth'["lan_udp"].up => pathHealth'["lan_udp"].reason = "none"
            /\ pathHealth["lan_udp"].reason = "send_failed" /\ pathHealth'["lan_udp"].up => Health!RawSend]_(Health!vars)
  BY HealthGoesOn DEF HealthStep
<1> QED BY <1>1, HealthStarts, HealthGoesOn, PTL DEF Health!Spec, Health!RefusalHolds

-----------------------------------------------------------------------------
(* The bridged thermometer. *)

EntryRecord == [at : 0..meterTaken, has : Thermo!Kinds]
ShownRecord == [at : 0..meterTaken, unit : {"C", "F"}, by : {"nobody", "frame", "list", "poll"}]

\* The frames under way are in order and newer than the last one that came, and
\* the reading a frame left has its number.
FramesNumbered ==
    /\ meterFrames \in Seq(1..meterTaken)
    /\ \A i \in DOMAIN meterFrames : meterFrameTs < meterFrames[i]
    /\ \A i, j \in DOMAIN meterFrames : i < j => meterFrames[i] < meterFrames[j]
    /\ meterShown.by = "frame" => meterFrameTs = meterShown.at /\ meterFrameTs # 0

\* No Developer read is asked for a device the list has.
AsksOfPending == meterAsk # "owned"

ThermoInv == Thermo!TypeOK /\ FramesNumbered /\ Thermo!UnitIsRight /\ AsksOfPending

ThermoStep ==
    /\ meterShown.by = "frame" /\ meterShown'.at < meterShown.at =>
         ~meterDated \/ meterAsk = "pending" \/ meterReloads' # meterReloads
    /\ Thermo!UnitIsRight'

LEMMA ThermoTypes ==
    ASSUME ThermoInv
    PROVE  /\ meterTaken \in Nat /\ meterTaken >= 1 /\ meterEntry \in EntryRecord /\ meterDevAt \in 0..meterTaken
           /\ meterShown \in ShownRecord /\ meterFrameTs \in 0..meterTaken /\ meterFrames \in Seq(1..meterTaken)
           /\ meterRefresh \in [at : {"idle", "asked", "answered"}, entry : EntryRecord]
  BY ThermoAssumption DEF ThermoInv, Thermo!TypeOK, FramesNumbered, EntryRecord, ShownRecord

LEMMA ThermoFlags ==
    ASSUME ThermoInv
    PROVE  /\ meterFahrenheit \in BOOLEAN /\ meterDated \in BOOLEAN /\ meterOwned \in BOOLEAN /\ meterCarried \in BOOLEAN
           /\ meterAsk \in {"none", "pending"}
           /\ FALSE \in BOOLEAN /\ TRUE \in BOOLEAN
<1>1. FALSE \in BOOLEAN /\ TRUE \in BOOLEAN
  BY Zenon
<1> QED BY <1>1 DEF ThermoInv, Thermo!TypeOK, AsksOfPending

\* What the list holds, stored in the unit of a device it owns.
LEMMA ListedIsOwned ==
    ASSUME NEW e \in EntryRecord
    PROVE  /\ Thermo!Owns(e) \in BOOLEAN
           /\ e.has = "full" => Thermo!Owns(e)
           /\ meterTaken \in Nat => Thermo!Listed(e) \in ShownRecord
           /\ Thermo!Listed(e).by = "nobody" \/ (Thermo!Owns(e) /\ Thermo!Listed(e).unit = "C")
           /\ Thermo!Listed(e).by # "frame"
           /\ e.has = "full" => Thermo!Listed(e).at = e.at
  BY DEF Thermo!Owns, Thermo!Listed, Thermo!NoShown, ShownRecord, EntryRecord

LEMMA ThermoStarts == Thermo!Init => ThermoInv
<1> SUFFICES ASSUME Thermo!Init PROVE ThermoInv
  OBVIOUS
<1> USE ThermoAssumption DEF Thermo!Init
<1>1. FALSE \in BOOLEAN /\ meterFahrenheit \in BOOLEAN /\ meterDated \in BOOLEAN /\ meterCarried \in BOOLEAN
  BY Zenon
<1>2. meterEntry \in EntryRecord /\ meterTaken \in Nat
  BY DEF EntryRecord
<1>3. meterRefresh \in [at : {"idle", "asked", "answered"}, entry : EntryRecord]
  BY <1>2 DEF Thermo!Idle, Thermo!NoCopy, EntryRecord, Thermo!Kinds
<1>4. Thermo!TypeOK
  BY <1>1, <1>2, <1>3, ListedIsOwned DEF Thermo!TypeOK, EntryRecord, ShownRecord
<1>5. FramesNumbered
  BY <1>2, ListedIsOwned DEF FramesNumbered
<1>6. Thermo!UnitIsRight
  BY <1>2, ListedIsOwned DEF Thermo!UnitIsRight, Thermo!ReadsAs
<1>7. AsksOfPending
  BY DEF AsksOfPending
<1> QED BY <1>4, <1>5, <1>6, <1>7 DEF ThermoInv

\* Govee: readings taken, and the copies of them.
LEMMA GoveeKeeps ==
    ASSUME ThermoInv, Thermo!Takes \/ Thermo!CopyLands
    PROVE  ThermoInv' /\ ThermoStep
<1> USE ThermoAssumption DEF Thermo!meter, Thermo!account
<1>1. /\ UNCHANGED <<meterFahrenheit, meterDated, meterOwned, meterShown, meterFrameTs, meterCarried, meterAsk,
                      meterRefresh, meterReloads>>
      /\ meterTaken' \in meterTaken..MaxTaken /\ meterTaken' \in Nat
      /\ \/ meterFrames' = meterFrames
         \/ meterFrames' = Append(meterFrames, meterTaken') /\ meterTaken' = meterTaken + 1
      /\ \/ meterEntry' = meterEntry
         \/ \E h \in Thermo!Kinds : meterEntry' = [at |-> meterTaken, has |-> h]
      /\ meterDevAt' \in {meterDevAt, meterTaken}
  BY DEF Thermo!Takes, Thermo!CopyLands, ThermoInv, Thermo!TypeOK
<1>2. /\ meterTaken \in Nat /\ meterTaken >= 1 /\ meterEntry \in EntryRecord /\ meterDevAt \in 0..meterTaken
      /\ meterShown \in ShownRecord /\ meterFrameTs \in 0..meterTaken /\ meterFrames \in Seq(1..meterTaken)
      /\ meterRefresh \in [at : {"idle", "asked", "answered"}, entry : EntryRecord]
  BY ThermoTypes
<1>3. 0..meterTaken \subseteq 0..meterTaken' /\ 1..meterTaken \subseteq 1..meterTaken' /\ meterTaken' \in 1..MaxTaken
  BY <1>1, <1>2
<1>4. EntryRecord \subseteq EntryRecord' /\ ShownRecord \subseteq ShownRecord'
  BY <1>3 DEF EntryRecord, ShownRecord
<1>5. meterEntry' \in EntryRecord'
  <2>1. \A h \in Thermo!Kinds : [at |-> meterTaken, has |-> h] \in EntryRecord
    BY <1>2 DEF EntryRecord
  <2> QED BY <1>1, <1>2, <1>4, <2>1
<1>6. meterFrames' \in Seq(1..meterTaken')
  <2>1. meterFrames \in Seq(1..meterTaken')
    BY <1>2, <1>3
  <2> QED BY <1>1, <1>2, <2>1
<1>7. Thermo!TypeOK'
  BY <1>1, <1>2, <1>3, <1>4, <1>5, <1>6 DEF ThermoInv, Thermo!TypeOK, EntryRecord, ShownRecord
<1>8. FramesNumbered'
  <2>1. FramesNumbered
    BY DEF ThermoInv
  <2>2. CASE meterFrames' = meterFrames
    BY <1>1, <1>6, <2>1, <2>2 DEF FramesNumbered
  <2>3. CASE meterFrames' = Append(meterFrames, meterTaken') /\ meterTaken' = meterTaken + 1
    <3>1. /\ Len(meterFrames) \in Nat /\ DOMAIN meterFrames = 1..Len(meterFrames)
          /\ DOMAIN meterFrames' = 1..(Len(meterFrames) + 1)
          /\ meterFrames'[Len(meterFrames) + 1] = meterTaken + 1
          /\ \A i \in DOMAIN meterFrames : meterFrames'[i] = meterFrames[i] /\ meterFrames[i] \in 1..meterTaken
      BY <1>2, <2>3
    <3>2. ASSUME NEW i \in DOMAIN meterFrames' PROVE meterFrameTs < meterFrames'[i]
      <4>1. CASE i = Len(meterFrames) + 1
        BY <1>2, <3>1, <4>1
      <4>2. CASE i # Len(meterFrames) + 1
        <5>1. i \in DOMAIN meterFrames
          BY <3>1, <4>2
        <5> QED BY <2>1, <3>1, <5>1 DEF FramesNumbered
      <4> QED BY <4>1, <4>2
    <3>3. ASSUME NEW i \in DOMAIN meterFrames', NEW j \in DOMAIN meterFrames', i < j
          PROVE  meterFrames'[i] < meterFrames'[j]
      <4>1. i \in DOMAIN meterFrames
        BY <3>1, <3>3
      <4>2. CASE j = Len(meterFrames) + 1
        BY <1>2, <3>1, <4>1, <4>2
      <4>3. CASE j # Len(meterFrames) + 1
        <5>1. j \in DOMAIN meterFrames
          BY <3>1, <4>3
        <5> QED BY <2>1, <3>1, <3>3, <4>1, <5>1 DEF FramesNumbered
      <4> QED BY <4>2, <4>3
    <3> QED BY <1>1, <1>6, <2>1, <3>2, <3>3 DEF FramesNumbered
  <2> QED BY <1>1, <2>2, <2>3
<1>9. Thermo!UnitIsRight' /\ AsksOfPending'
  BY <1>1 DEF ThermoInv, Thermo!UnitIsRight, Thermo!ReadsAs, AsksOfPending
<1> QED BY <1>1, <1>2, <1>7, <1>8, <1>9 DEF ThermoInv, ThermoStep, ShownRecord

\* A step that leaves what was taken and copied alone.
LEMMA TypedAgain ==
    ASSUME ThermoInv, UNCHANGED <<meterTaken, meterEntry, meterDevAt, meterFahrenheit, meterDated>>,
           meterOwned' \in BOOLEAN, meterCarried' \in BOOLEAN, meterAsk' \in {"none", "pending"},
           \A i \in DOMAIN meterFrames' : meterFrameTs' < meterFrames'[i],
           \A i, j \in DOMAIN meterFrames' : i < j => meterFrames'[i] < meterFrames'[j],
           meterShown' \in ShownRecord, meterFrameTs' \in 0..meterTaken, meterFrames' \in Seq(1..meterTaken),
           meterRefresh' \in [at : {"idle", "asked", "answered"}, entry : EntryRecord],
           meterReloads' \in 0..MaxMeterReloads,
           meterShown'.by = "frame" => meterFrameTs' = meterShown'.at /\ meterFrameTs' # 0,
           meterShown'.by # "nobody" => meterShown'.unit = Thermo!ReadsAs(meterOwned') \/ meterCarried'
    PROVE  ThermoInv'
<1>1. Thermo!TypeOK'
  BY DEF ThermoInv, Thermo!TypeOK, EntryRecord, ShownRecord
<1>2. FramesNumbered' /\ Thermo!UnitIsRight' /\ AsksOfPending'
  BY DEF FramesNumbered, Thermo!UnitIsRight, Thermo!ReadsAs, AsksOfPending
<1> QED BY <1>1, <1>2 DEF ThermoInv

\* The frames and the polls.
LEMMA ReadingsKeep ==
    ASSUME ThermoInv, Thermo!FrameArrives \/ Thermo!PollAsks \/ Thermo!PollAnswers \/ Thermo!Reload
    PROVE  ThermoInv' /\ ThermoStep
<1> USE ThermoAssumption DEF Thermo!govee, Thermo!account, Thermo!meter
<1>1. /\ meterTaken \in Nat /\ meterTaken >= 1 /\ meterEntry \in EntryRecord /\ meterDevAt \in 0..meterTaken
      /\ meterShown \in ShownRecord /\ meterFrameTs \in 0..meterTaken /\ meterFrames \in Seq(1..meterTaken)
      /\ meterRefresh \in [at : {"idle", "asked", "answered"}, entry : EntryRecord]
  BY ThermoTypes
<1>2. /\ meterFahrenheit \in BOOLEAN /\ meterDated \in BOOLEAN /\ meterOwned \in BOOLEAN /\ meterCarried \in BOOLEAN
      /\ meterAsk \in {"none", "pending"}
      /\ FALSE \in BOOLEAN /\ TRUE \in BOOLEAN
  BY ThermoFlags
<1>3. /\ meterReloads \in 0..MaxMeterReloads
      /\ meterShown.by = "frame" => meterFrameTs = meterShown.at /\ meterFrameTs # 0
      /\ meterShown.by # "nobody" => meterShown.unit = Thermo!ReadsAs(meterOwned) \/ meterCarried
      /\ \A i \in DOMAIN meterFrames : meterFrameTs < meterFrames[i]
      /\ \A i, j \in DOMAIN meterFrames : i < j => meterFrames[i] < meterFrames[j]
  BY DEF ThermoInv, Thermo!TypeOK, FramesNumbered, Thermo!UnitIsRight
<1>4. Thermo!ReadsAs(meterOwned) \in {"C", "F"} /\ Thermo!ReadsAs(FALSE) \in {"C", "F"}
  BY DEF Thermo!ReadsAs
<1>5. CASE Thermo!FrameArrives
  <2>1. /\ meterFrames # <<>> /\ meterFrames' = Tail(meterFrames)
        /\ meterShown' = [at |-> Head(meterFrames), unit |-> Thermo!ReadsAs(meterOwned), by |-> "frame"]
        /\ meterFrameTs' = Head(meterFrames) /\ meterCarried' = FALSE
        /\ UNCHANGED <<meterTaken, meterEntry, meterDevAt, meterFahrenheit, meterDated, meterOwned, meterAsk, meterRefresh, meterReloads>>
    BY <1>5 DEF Thermo!FrameArrives, Thermo!FrameUnit
  <2>2. Head(meterFrames) \in 1..meterTaken /\ Tail(meterFrames) \in Seq(1..meterTaken)
    BY <1>1, <2>1
  <2>3. meterShown' \in ShownRecord
    BY <1>1, <1>4, <2>1, <2>2 DEF ShownRecord
  <2>6. /\ meterShown'.by = "frame" /\ meterShown'.at = meterFrameTs' /\ meterFrameTs' # 0
        /\ meterFrameTs' \in 0..meterTaken /\ meterShown'.unit = Thermo!ReadsAs(meterOwned')
    BY <1>1, <2>1, <2>2
  <2>7. meterCarried' \in BOOLEAN
    BY ONLY <1>2, <2>1, Zenon
  <2>8. /\ DOMAIN meterFrames = 1..Len(meterFrames) /\ Len(meterFrames) \in Nat \ {0} /\ Head(meterFrames) = meterFrames[1]
        /\ DOMAIN meterFrames' = 1..(Len(meterFrames) - 1)
        /\ \A i \in DOMAIN meterFrames' : meterFrames'[i] = meterFrames[i + 1]
    BY <1>1, <2>1
  <2>9. /\ 1 \in DOMAIN meterFrames
        /\ \A i \in DOMAIN meterFrames' : i \in Nat /\ 1 < i + 1 /\ i + 1 \in DOMAIN meterFrames
    BY <2>8
  <2>10. \A i \in DOMAIN meterFrames' : meterFrameTs' < meterFrames'[i]
    BY <1>3, <2>1, <2>8, <2>9
  <2>11. ASSUME NEW i \in DOMAIN meterFrames', NEW j \in DOMAIN meterFrames', i < j
         PROVE  meterFrames'[i] < meterFrames'[j]
    <3>1. i + 1 < j + 1
      BY <2>9, <2>11
    <3> QED BY <1>3, <2>8, <2>9, <3>1
  <2>4. ThermoInv'
    BY <1>1, <1>2, <1>3, <2>1, <2>2, <2>3, <2>6, <2>7, <2>10, <2>11, TypedAgain
  <2>5. meterShown.by = "frame" => meterShown'.at > meterShown.at
    BY <1>1, <1>3, <2>1, <2>8, <2>9 DEF ShownRecord
  <2>12. meterShown.at \in Nat /\ meterShown'.at \in Nat
    BY <1>1, <2>2, <2>6 DEF ShownRecord
  <2> QED BY <2>4, <2>5, <2>12 DEF ThermoInv, ThermoStep
<1>6. CASE Thermo!PollAsks
  <2>1. /\ meterAsk' = "pending"
        /\ UNCHANGED <<meterTaken, meterEntry, meterDevAt, meterFahrenheit, meterDated, meterOwned, meterShown, meterFrameTs,
                       meterCarried, meterFrames, meterRefresh, meterReloads>>
    BY <1>6 DEF Thermo!PollAsks
  <2>2. meterAsk' \in {"none", "pending"}
    BY <2>1
  <2>3. ThermoInv'
    BY <1>1, <1>2, <1>3, <2>1, <2>2, TypedAgain
  <2> QED BY <1>1, <2>1, <2>3 DEF ThermoInv, ThermoStep, ShownRecord
<1>7. CASE Thermo!PollAnswers
  <2>1. /\ meterAsk' = "none" /\ meterAsk = "pending"
        /\ UNCHANGED <<meterTaken, meterEntry, meterDevAt, meterFahrenheit, meterDated, meterOwned, meterFrameTs,
                       meterFrames, meterRefresh, meterReloads>>
        /\ \/ UNCHANGED <<meterShown, meterCarried>>
           \/ /\ meterShown' = [at |-> meterDevAt, unit |-> Thermo!ReadsAs(FALSE), by |-> "poll"]
              /\ meterCarried' = meterOwned
    BY <1>2, <1>7 DEF Thermo!PollAnswers
  <2>2. meterAsk' \in {"none", "pending"} /\ meterCarried' \in BOOLEAN
    BY <1>2, <2>1
  <2> DEFINE polled == [at |-> meterDevAt, unit |-> Thermo!ReadsAs(FALSE), by |-> "poll"]
  <2>6. polled \in ShownRecord /\ polled.by = "poll" /\ polled.unit = Thermo!ReadsAs(FALSE)
    BY <1>1, <1>4 DEF ShownRecord
  <2>7. (meterShown' = polled /\ meterCarried' = meterOwned) \/ UNCHANGED <<meterShown, meterCarried>>
    BY <2>1
  <2> HIDE DEF polled
  <2>3. meterShown' \in ShownRecord
    BY <1>1, <2>6, <2>7
  <2>8. ~meterOwned => Thermo!ReadsAs(meterOwned) = Thermo!ReadsAs(FALSE)
    BY DEF Thermo!ReadsAs
  <2>9. /\ meterShown'.by = "frame" => meterFrameTs' = meterShown'.at /\ meterFrameTs' # 0
        /\ meterShown'.by # "nobody" => meterShown'.unit = Thermo!ReadsAs(meterOwned') \/ meterCarried'
    BY <1>2, <1>3, <2>1, <2>6, <2>7, <2>8
  <2>4. ThermoInv'
    BY <1>1, <1>2, <1>3, <2>1, <2>2, <2>3, <2>9, TypedAgain
  <2> QED BY <2>1, <2>4 DEF ThermoInv, ThermoStep
<1>8. CASE Thermo!Reload
  <2>1. /\ meterReloads' = meterReloads + 1 /\ meterReloads < MaxMeterReloads
        /\ meterOwned' = Thermo!Owns(meterEntry) /\ meterShown' = Thermo!Listed(meterEntry)
        /\ meterFrameTs' = 0 /\ meterCarried' = FALSE /\ meterAsk' = "none"
        /\ meterRefresh' = Thermo!Idle /\ meterFrames' = <<>>
        /\ UNCHANGED <<meterTaken, meterEntry, meterDevAt, meterFahrenheit, meterDated>>
    BY <1>8 DEF Thermo!Reload
  <2>2. meterOwned' \in BOOLEAN /\ meterCarried' \in BOOLEAN
    <3>1. Thermo!Owns(meterEntry) \in BOOLEAN
      BY <1>1, ListedIsOwned
    <3> QED BY ONLY <1>2, <2>1, <3>1, Zenon
  <2>3. /\ meterShown' \in ShownRecord /\ meterShown'.by # "frame"
        /\ meterShown'.by # "nobody" => meterShown'.unit = Thermo!ReadsAs(meterOwned')
    BY <1>1, <2>1, ListedIsOwned DEF Thermo!ReadsAs
  <2>4. meterRefresh' \in [at : {"idle", "asked", "answered"}, entry : EntryRecord]
    BY <1>1, <2>1 DEF Thermo!Idle, Thermo!NoCopy, EntryRecord, Thermo!Kinds
  <2>7. DOMAIN meterFrames' = {}
    BY <2>1
  <2>5. ThermoInv'
    BY <1>1, <1>2, <1>3, <2>1, <2>2, <2>3, <2>4, <2>7, TypedAgain
  <2>6. meterReloads' # meterReloads
    BY <1>3, <2>1
  <2> QED BY <2>5, <2>6 DEF ThermoInv, ThermoStep
<1> QED BY <1>5, <1>6, <1>7, <1>8

\* The account's list.
LEMMA RefreshKeeps ==
    ASSUME ThermoInv, Thermo!RefreshAsks \/ Thermo!ListAnswers \/ Thermo!ListFails \/ Thermo!Refreshed
    PROVE  ThermoInv' /\ ThermoStep
<1> USE ThermoAssumption DEF Thermo!govee, Thermo!account, Thermo!meter
<1>1. /\ meterTaken \in Nat /\ meterTaken >= 1 /\ meterEntry \in EntryRecord /\ meterDevAt \in 0..meterTaken
      /\ meterShown \in ShownRecord /\ meterFrameTs \in 0..meterTaken /\ meterFrames \in Seq(1..meterTaken)
      /\ meterRefresh \in [at : {"idle", "asked", "answered"}, entry : EntryRecord]
  BY ThermoTypes
<1>2. /\ meterFahrenheit \in BOOLEAN /\ meterDated \in BOOLEAN /\ meterOwned \in BOOLEAN /\ meterCarried \in BOOLEAN
      /\ meterAsk \in {"none", "pending"}
      /\ FALSE \in BOOLEAN /\ TRUE \in BOOLEAN
  BY ThermoFlags
<1>3. /\ meterReloads \in 0..MaxMeterReloads
      /\ meterShown.by = "frame" => meterFrameTs = meterShown.at /\ meterFrameTs # 0
      /\ meterShown.by # "nobody" => meterShown.unit = Thermo!ReadsAs(meterOwned) \/ meterCarried
      /\ \A i \in DOMAIN meterFrames : meterFrameTs < meterFrames[i]
      /\ \A i, j \in DOMAIN meterFrames : i < j => meterFrames[i] < meterFrames[j]
  BY DEF ThermoInv, Thermo!TypeOK, FramesNumbered, Thermo!UnitIsRight
<1>4. Thermo!Idle \in [at : {"idle", "asked", "answered"}, entry : EntryRecord]
  BY <1>1 DEF Thermo!Idle, Thermo!NoCopy, EntryRecord, Thermo!Kinds
<1>5. UNCHANGED <<meterTaken, meterEntry, meterDevAt, meterFahrenheit, meterDated, meterFrames, meterFrameTs, meterAsk, meterReloads>>
  BY DEF Thermo!RefreshAsks, Thermo!ListAnswers, Thermo!ListFails, Thermo!Refreshed
<1>6. CASE Thermo!RefreshAsks \/ Thermo!ListAnswers \/ Thermo!ListFails
  <2>1. /\ UNCHANGED <<meterOwned, meterShown, meterCarried>>
        /\ meterRefresh' \in {[meterRefresh EXCEPT !.at = "asked"], [at |-> "answered", entry |-> meterEntry], Thermo!Idle}
    BY <1>6 DEF Thermo!RefreshAsks, Thermo!ListAnswers, Thermo!ListFails
  <2>2. meterRefresh' \in [at : {"idle", "asked", "answered"}, entry : EntryRecord]
    BY <1>1, <1>4, <2>1
  <2>3. ThermoInv'
    BY <1>1, <1>2, <1>3, <1>5, <2>1, <2>2, TypedAgain
  <2> QED BY <1>1, <2>1, <2>3 DEF ThermoInv, ThermoStep, ShownRecord
<1>7. CASE Thermo!Refreshed
  <2> DEFINE e == meterRefresh.entry
             fresh == ~Thermo!Stale(e) /\ e.has = "full"
  <2>1. /\ meterRefresh' = Thermo!Idle
        /\ meterOwned' = (meterOwned \/ Thermo!Owns(e))
        /\ meterShown' = IF fresh THEN Thermo!Listed(e) ELSE meterShown
        /\ meterCarried' = (~fresh /\ (meterCarried \/ (~meterOwned /\ Thermo!Owns(e) /\ meterShown.by # "nobody")))
    BY <1>7 DEF Thermo!Refreshed, Thermo!Apply
  <2>2. e \in EntryRecord /\ Thermo!Owns(e) \in BOOLEAN
    BY <1>1, ListedIsOwned
  <2>3. fresh \in BOOLEAN
    BY DEF Thermo!Stale
  <2> HIDE DEF fresh
  <2>4. meterOwned' \in BOOLEAN /\ meterCarried' \in BOOLEAN
    BY <1>2, <2>1, <2>2, <2>3
  <2>5. meterShown' \in ShownRecord
    BY <1>1, <2>1, <2>2, <2>3, ListedIsOwned
  <2>6. CASE fresh
    <3>1. meterOwned' /\ ~meterCarried' /\ meterShown' = Thermo!Listed(e)
      BY <1>2, <2>1, <2>2, <2>6, ListedIsOwned DEF fresh
    <3>2. meterShown'.by # "frame" /\ (meterShown'.by # "nobody" => meterShown'.unit = Thermo!ReadsAs(meterOwned'))
      BY <2>2, <3>1, ListedIsOwned DEF Thermo!ReadsAs
    <3>3. meterShown.by = "frame" /\ meterDated => meterShown'.at >= meterShown.at
      <4>1. meterShown'.at = e.at /\ e.at \in Nat /\ meterShown.at \in Nat
        BY <1>1, <2>2, <2>6, <3>1, ListedIsOwned DEF fresh, EntryRecord, ShownRecord
      <4> QED BY <1>3, <2>6, <4>1 DEF fresh, Thermo!Stale
    <3>4. ThermoInv'
      BY <1>1, <1>2, <1>3, <1>4, <1>5, <2>1, <2>4, <2>5, <3>2, TypedAgain
    <3>5. meterShown'.at \in Nat /\ meterShown.at \in Nat
      BY <1>1, <2>5 DEF ShownRecord
    <3> QED BY <1>2, <3>3, <3>4, <3>5 DEF ThermoInv, ThermoStep
  <2>7. CASE ~fresh
    <3>1. /\ meterShown' = meterShown
          /\ meterCarried' = (meterCarried \/ (~meterOwned /\ Thermo!Owns(e) /\ meterShown.by # "nobody"))
      BY <1>2, <2>1, <2>2, <2>7
    <3>2. meterShown'.by # "nobody" => meterShown'.unit = Thermo!ReadsAs(meterOwned') \/ meterCarried'
      BY <1>2, <1>3, <2>1, <2>2, <3>1 DEF Thermo!ReadsAs
    <3>3. ThermoInv'
      BY <1>1, <1>2, <1>3, <1>4, <1>5, <2>1, <2>4, <2>5, <3>1, <3>2, TypedAgain
    <3> QED BY <1>1, <3>1, <3>3 DEF ThermoInv, ThermoStep, ShownRecord
  <2> QED BY <2>6, <2>7
<1> QED BY <1>6, <1>7

LEMMA ThermoGoesOn == ThermoInv /\ [Thermo!Next]_(Thermo!vars) => ThermoInv' /\ ThermoStep
<1> SUFFICES ASSUME ThermoInv, [Thermo!Next]_(Thermo!vars) PROVE ThermoInv' /\ ThermoStep
  OBVIOUS
<1>1. CASE UNCHANGED Thermo!vars
  <2>1. UNCHANGED <<meterTaken, meterEntry, meterDevAt, meterFahrenheit, meterDated, meterFrames, meterOwned, meterShown, meterFrameTs,
                    meterCarried, meterAsk, meterRefresh, meterReloads>>
    BY <1>1 DEF Thermo!vars, Thermo!govee, Thermo!account, Thermo!meter
  <2>2. ThermoInv'
    BY <2>1 DEF ThermoInv, Thermo!TypeOK, FramesNumbered, Thermo!UnitIsRight, Thermo!ReadsAs, AsksOfPending
  <2>3. meterShown.at \in Nat
    BY ThermoTypes DEF ShownRecord
  <2> QED BY <2>1, <2>2, <2>3 DEF ThermoInv, ThermoStep
<1>2. CASE Thermo!Next
  BY <1>2, GoveeKeeps, ReadingsKeep, RefreshKeeps DEF Thermo!Next
<1> QED BY <1>1, <1>2

\* For any number of readings and reloads: a frame's reading is replaced by one
\* taken before it only by a list without times, by a Developer read asked before
\* the list took over, or by a reload; and a reading is stored in the unit it is
\* read in unless it was carried over the take-over (coordinator.py 2595-2609,
\* 2842-2889, 4989, 5085).
THEOREM ReadingsForward == Thermo!Spec => Thermo!ReadingsMoveForward
<1>1. ThermoInv /\ [Thermo!Next]_(Thermo!vars)
        => [/\ meterShown.by = "frame" /\ meterShown'.at < meterShown.at =>
                 ~meterDated \/ meterAsk = "pending" \/ meterReloads' # meterReloads
            /\ Thermo!UnitIsRight']_(Thermo!vars)
  BY ThermoGoesOn DEF ThermoStep
<1> QED BY <1>1, ThermoStarts, ThermoGoesOn, PTL DEF Thermo!Spec, Thermo!ReadingsMoveForward

-----------------------------------------------------------------------------
(* Raw writes. *)

Ats == Raw!Tiers \cup {"unmade", "done", "cloud"}
PaintRecord == [at : Ats, tries : 0..RawCopies, sent : BOOLEAN]
Waiters == RawPaints \cup {Drop}

\* Who waits for the link is a write at Bluetooth, once, or the drop.
WritersWait ==
    /\ rawLock \in Seq(Waiters)
    /\ \A i \in DOMAIN rawLock : rawLock[i] \in RawPaints => rawPaint[rawLock[i]].at = "ble"
    /\ \A i, j \in DOMAIN rawLock : rawLock[i] = rawLock[j] /\ rawLock[i] \in RawPaints => i = j

\* A write goes on to the next pipe with nothing sent.
NothingSentYet ==
    \A w \in RawPaints :
        /\ rawPaint[w].at \in {"unmade", "ble", "mqtt", "cloud"} => rawUsed[w] = {}
        /\ rawPaint[w].at = "lan" =>
             /\ rawUsed[w] \subseteq {"lan"}
             /\ ~rawPaint[w].sent => rawUsed[w] = {}
             /\ rawPaint[w].tries = 0 => ~rawPaint[w].sent
        /\ "lan" \in rawUsed[w] => rawUsed[w] = {"lan"}

\* The link's client is none it gave up.
ClientsKnown ==
    /\ rawOpen \subseteq 1..rawClients /\ rawClient \in 0..rawClients
    /\ rawClient \notin rawFailing

RawInv == Raw!TypeOK /\ WritersWait /\ NothingSentYet /\ ClientsKnown /\ Raw!LinkIsLetGo

LEMMA RawStarts == Raw!Init => RawInv
<1> SUFFICES ASSUME Raw!Init PROVE RawInv
  OBVIOUS
<1> USE RawAssumption DEF Raw!Init
<1>1. FALSE \in BOOLEAN /\ rawTimer \in BOOLEAN
  BY Zenon
<1>2. rawPaint \in [RawPaints -> PaintRecord] /\ \A w \in RawPaints : rawPaint[w].at = "unmade"
  BY <1>1 DEF PaintRecord, Ats
<1>3. Raw!TypeOK
  BY <1>1, <1>2 DEF Raw!TypeOK, PaintRecord, Ats, Raw!Tiers
<1>4. WritersWait /\ NothingSentYet /\ ClientsKnown /\ Raw!LinkIsLetGo
  BY <1>2 DEF WritersWait, NothingSentYet, ClientsKnown, Raw!LinkIsLetGo
<1> QED BY <1>3, <1>4 DEF RawInv

-----------------------------------------------------------------------------
\* The line at the lock.
LEMMA LineGrows ==
    ASSUME RawInv, NEW who \in Waiters, rawLock' = Append(rawLock, who),
           who \in RawPaints => rawPaint'[who].at = "ble" /\ ~Raw!Contains(rawLock, who),
           \A w \in RawPaints : rawPaint[w].at = "ble" => rawPaint'[w].at = "ble"
    PROVE  WritersWait' /\ rawLock' # <<>>
<1>1. rawLock \in Seq(Waiters) /\ rawLock' \in Seq(Waiters) /\ rawLock' # <<>>
  BY DEF RawInv, WritersWait
<1>2. /\ DOMAIN rawLock = 1..Len(rawLock) /\ Len(rawLock) \in Nat /\ DOMAIN rawLock' = 1..(Len(rawLock) + 1)
      /\ rawLock'[Len(rawLock) + 1] = who /\ \A i \in 1..Len(rawLock) : rawLock'[i] = rawLock[i]
  BY <1>1
<1>3. who \in RawPaints => \A i \in 1..Len(rawLock) : rawLock[i] # who
  BY <1>1, <1>2 DEF Raw!Contains
<1>4. \A i \in DOMAIN rawLock' : rawLock'[i] \in RawPaints => rawPaint'[rawLock'[i]].at = "ble"
  BY <1>2 DEF RawInv, WritersWait
<1>5. \A i, j \in DOMAIN rawLock' : rawLock'[i] = rawLock'[j] /\ rawLock'[i] \in RawPaints => i = j
  BY <1>2, <1>3 DEF RawInv, WritersWait
<1> QED BY <1>1, <1>4, <1>5 DEF WritersWait

LEMMA LineMoves ==
    ASSUME RawInv, NEW who, Raw!Holds(who), rawLock' = Tail(rawLock),
           \A w \in RawPaints : w # who /\ rawPaint[w].at = "ble" => rawPaint'[w].at = "ble"
    PROVE  WritersWait' /\ who \in Waiters /\ (who \in RawPaints => rawPaint[who].at = "ble")
<1>1. rawLock \in Seq(Waiters) /\ rawLock # <<>> /\ who = rawLock[1]
  BY DEF RawInv, WritersWait, Raw!Holds
<1>2. /\ DOMAIN rawLock = 1..Len(rawLock) /\ Len(rawLock) \in Nat /\ 1 \in DOMAIN rawLock /\ rawLock' \in Seq(Waiters)
      /\ DOMAIN rawLock' = 1..(Len(rawLock) - 1)
      /\ \A i \in DOMAIN rawLock' : i + 1 \in DOMAIN rawLock /\ rawLock'[i] = rawLock[i + 1] /\ i + 1 # 1 /\ i \in Nat
  BY <1>1
<1>3. who \in Waiters /\ (who \in RawPaints => rawPaint[who].at = "ble")
  BY <1>1, <1>2 DEF RawInv, WritersWait
<1>4. \A i \in DOMAIN rawLock' : rawLock'[i] \in RawPaints =>
        rawLock'[i] # who /\ rawPaint[rawLock'[i]].at = "ble"
  BY <1>1, <1>2 DEF RawInv, WritersWait
<1>5. \A i, j \in DOMAIN rawLock' : rawLock'[i] = rawLock'[j] /\ rawLock'[i] \in RawPaints => i = j
  <2> SUFFICES ASSUME NEW i \in DOMAIN rawLock', NEW j \in DOMAIN rawLock',
                      rawLock'[i] = rawLock'[j], rawLock'[i] \in RawPaints
               PROVE  i = j
    OBVIOUS
  <2>1. i + 1 = j + 1
    BY <1>2 DEF RawInv, WritersWait
  <2> QED BY <1>2, <2>1
<1> QED BY <1>2, <1>3, <1>4, <1>5 DEF WritersWait

\* The line does not move.
LEMMA LineStands ==
    ASSUME RawInv, rawLock' = rawLock,
           \A w \in RawPaints : rawPaint[w].at = "ble" => rawPaint'[w].at = "ble" \/ ~Raw!Contains(rawLock, w)
    PROVE  WritersWait'
<1>1. \A i \in DOMAIN rawLock : rawLock[i] \in RawPaints => Raw!Contains(rawLock, rawLock[i])
  BY DEF RawInv, WritersWait, Raw!Contains
<1> QED BY <1>1 DEF RawInv, WritersWait

\* A write moved on: what its tiers took stays in one pipe.
LEMMA PaintMoves ==
    ASSUME RawInv, NEW w \in RawPaints, NEW t \in Ats, Raw!At(w, t), rawUsed' = rawUsed,
           t # "done" => rawUsed[w] = {}
    PROVE  NothingSentYet' /\ rawPaint' \in [RawPaints -> PaintRecord]
<1> USE RawAssumption
<1>1. rawPaint \in [RawPaints -> PaintRecord] /\ rawUsed \in [RawPaints -> SUBSET Raw!Tiers] /\ FALSE \in BOOLEAN
  <2>1. FALSE \in BOOLEAN
    BY Zenon
  <2> QED BY <2>1 DEF RawInv, Raw!TypeOK, PaintRecord, Ats
<1> DEFINE p == [at |-> t, tries |-> 0, sent |-> FALSE]
<1>2. p \in PaintRecord /\ p.at = t /\ ~p.sent
  BY <1>1 DEF PaintRecord
<1>3. rawPaint' = [rawPaint EXCEPT ![w] = p]
  BY DEF Raw!At
<1> HIDE DEF p
<1>4. rawPaint' \in [RawPaints -> PaintRecord] /\ rawPaint'[w] = p /\ \A v \in RawPaints : v # w => rawPaint'[v] = rawPaint[v]
  BY <1>1, <1>2, <1>3
<1> QED BY <1>1, <1>2, <1>4 DEF RawInv, NothingSentYet

\* A write was taken by one pipe.
LEMMA PaintTaken ==
    ASSUME RawInv, NEW w \in RawPaints, NEW t \in Raw!Tiers, Raw!At(w, "done"),
           rawUsed' = [rawUsed EXCEPT ![w] = @ \cup {t}],
           rawUsed[w] = {} \/ (t = "lan" /\ rawUsed[w] \subseteq {"lan"})
    PROVE  /\ NothingSentYet' /\ rawPaint' \in [RawPaints -> PaintRecord]
           /\ rawUsed' \in [RawPaints -> SUBSET Raw!Tiers]
<1> USE RawAssumption
<1>1. rawPaint \in [RawPaints -> PaintRecord] /\ rawUsed \in [RawPaints -> SUBSET Raw!Tiers]
  BY DEF RawInv, Raw!TypeOK, PaintRecord, Ats
<1> DEFINE p == [at |-> "done", tries |-> 0, sent |-> FALSE]
<1>2. p \in PaintRecord /\ p.at = "done"
  <2>1. FALSE \in BOOLEAN
    BY Zenon
  <2> QED BY <2>1 DEF PaintRecord, Ats
<1>3. rawPaint' = [rawPaint EXCEPT ![w] = p]
  BY DEF Raw!At
<1> HIDE DEF p
<1>4. rawPaint' \in [RawPaints -> PaintRecord] /\ rawPaint'[w] = p /\ \A v \in RawPaints : v # w => rawPaint'[v] = rawPaint[v]
  BY <1>1, <1>2, <1>3
<1>5. /\ rawUsed' \in [RawPaints -> SUBSET Raw!Tiers] /\ ("lan" \in rawUsed'[w] => rawUsed'[w] = {"lan"})
      /\ \A v \in RawPaints : v # w => rawUsed'[v] = rawUsed[v]
  BY <1>1
<1> QED BY <1>2, <1>4, <1>5 DEF RawInv, NothingSentYet

LEMMA RawTyped ==
    ASSUME RawInv, rawGates' \subseteq Raw!Tiers, rawPaint' \in [RawPaints -> PaintRecord],
           rawUsed' \in [RawPaints -> SUBSET Raw!Tiers], rawClient' \in 0..MaxClients, rawTimer' \in BOOLEAN,
           WritersWait', rawOpen' \subseteq 1..MaxClients, rawFailing' \subseteq rawOpen',
           rawStray' \subseteq 1..MaxClients, rawClients' \in 0..MaxClients, rawUnloads' \in 0..MaxUnloads
    PROVE  Raw!TypeOK'
  BY DEF Raw!TypeOK, PaintRecord, Ats, WritersWait, Waiters

LEMMA RawTypes ==
    ASSUME RawInv
    PROVE  /\ rawGates \subseteq Raw!Tiers /\ rawPaint \in [RawPaints -> PaintRecord]
           /\ rawUsed \in [RawPaints -> SUBSET Raw!Tiers] /\ rawClient \in 0..MaxClients /\ rawTimer \in BOOLEAN
           /\ rawOpen \subseteq 1..MaxClients /\ rawFailing \subseteq rawOpen
           /\ rawStray \subseteq 1..MaxClients /\ rawClients \in 0..MaxClients /\ rawUnloads \in 0..MaxUnloads
           /\ rawOpen \subseteq 1..rawClients /\ rawClient \in 0..rawClients /\ rawClient \notin rawFailing
           /\ \A c \in rawOpen \ (rawFailing \cup rawStray) : c = rawClient /\ (rawTimer \/ rawLock # <<>>)
  BY DEF RawInv, Raw!TypeOK, PaintRecord, Ats, ClientsKnown, Raw!LinkIsLetGo

\* The route leaves the link alone.
LEMMA RouteKeeps ==
    ASSUME RawInv, NEW w \in RawPaints,
           Raw!Paint(w) \/ Raw!PassedBy(w) \/ Raw!LanCopy(w) \/ Raw!LanEnds(w) \/ Raw!MqttPublishes(w)
    PROVE  RawInv'
<1> USE RawAssumption DEF Raw!link, Raw!radio
<1>1. /\ rawGates \subseteq Raw!Tiers /\ rawPaint \in [RawPaints -> PaintRecord]
      /\ rawUsed \in [RawPaints -> SUBSET Raw!Tiers]
  BY RawTypes
<1>2. /\ UNCHANGED <<rawGates, rawClient, rawLock, rawTimer, rawOpen, rawFailing, rawStray, rawClients, rawUnloads>>
      /\ \/ rawUsed' = rawUsed
         \/ rawUsed' = [rawUsed EXCEPT ![w] = @ \cup {rawPaint[w].at}] /\ rawPaint[w].at \in Raw!Tiers
  BY DEF Raw!Paint, Raw!PassedBy, Raw!LanCopy, Raw!LanEnds, Raw!MqttPublishes, Raw!Accepted, Raw!Took, Raw!Tiers
<1>3. /\ NothingSentYet' /\ rawPaint' \in [RawPaints -> PaintRecord]
      /\ \A v \in RawPaints : rawPaint[v].at = "ble" => rawPaint'[v].at = "ble" \/ ~Raw!Contains(rawLock, v)
  <2>1. CASE Raw!Paint(w)
    <3>1. rawPaint[w].at = "unmade" /\ Raw!At(w, "lan") /\ rawUsed' = rawUsed /\ "lan" \in Ats
      BY <2>1 DEF Raw!Paint, Ats, Raw!Tiers
    <3>2. rawUsed[w] = {}
      BY <3>1 DEF RawInv, NothingSentYet
    <3> QED BY <1>1, <3>1, <3>2, PaintMoves DEF Raw!At
  <2>2. CASE Raw!PassedBy(w) \/ (Raw!LanEnds(w) /\ ~rawPaint[w].sent) \/ (Raw!MqttPublishes(w) /\ Raw!Falls(w))
    <3>1. /\ rawPaint[w].at \in Raw!Tiers /\ Raw!At(w, Raw!After[rawPaint[w].at])
          /\ rawPaint[w].at = "lan" => rawPaint[w].tries = 0 \/ ~rawPaint[w].sent
          /\ rawPaint[w].at = "ble" => ~Raw!Contains(rawLock, w)
      BY <2>2 DEF Raw!PassedBy, Raw!LanEnds, Raw!MqttPublishes, Raw!Falls, Raw!Tiers
    <3>2. Raw!After[rawPaint[w].at] \in {"ble", "mqtt", "cloud"} /\ {"ble", "mqtt", "cloud"} \subseteq Ats
      BY <3>1 DEF Raw!After, Raw!Tiers, Ats
    <3>3. rawUsed[w] = {}
      BY <3>1 DEF RawInv, NothingSentYet, Raw!Tiers
    <3>4. rawUsed' = rawUsed
      <4>1. CASE Raw!PassedBy(w) \/ (Raw!LanEnds(w) /\ ~rawPaint[w].sent)
        BY <4>1 DEF Raw!PassedBy, Raw!LanEnds
      <4>2. CASE Raw!MqttPublishes(w) /\ Raw!Falls(w)
        <5>1. ~Raw!Accepted(w)
          <6> SUFFICES ASSUME Raw!Accepted(w) PROVE FALSE
            OBVIOUS
          <6>1. /\ rawPaint' = [rawPaint EXCEPT ![w] = [at |-> "done", tries |-> 0, sent |-> FALSE]]
                /\ rawPaint' = [rawPaint EXCEPT ![w] = [at |-> Raw!After[rawPaint[w].at], tries |-> 0, sent |-> FALSE]]
            BY <4>2 DEF Raw!Accepted, Raw!Falls, Raw!At
          <6>2. rawPaint'[w].at = "done" /\ rawPaint'[w].at = Raw!After[rawPaint[w].at]
            BY <1>1, <6>1
          <6> QED BY <3>2, <6>2
        <5> QED BY <4>2, <5>1 DEF Raw!MqttPublishes
      <4> QED BY <2>2, <4>1, <4>2
    <3> QED BY <1>1, <3>1, <3>2, <3>3, <3>4, PaintMoves DEF Raw!At
  <2>3. CASE (Raw!LanEnds(w) /\ rawPaint[w].sent) \/ (Raw!MqttPublishes(w) /\ Raw!Accepted(w))
    <3>1. Raw!Accepted(w) /\ rawPaint[w].at \in {"lan", "mqtt"} /\ {"lan", "mqtt"} \subseteq Raw!Tiers
      BY <2>3 DEF Raw!LanEnds, Raw!MqttPublishes, Raw!Tiers
    <3>2. rawUsed[w] = {} \/ (rawPaint[w].at = "lan" /\ rawUsed[w] \subseteq {"lan"})
      BY <3>1 DEF RawInv, NothingSentYet
    <3>3. Raw!At(w, "done") /\ rawUsed' = [rawUsed EXCEPT ![w] = @ \cup {rawPaint[w].at}]
      BY <3>1 DEF Raw!Accepted, Raw!Took
    <3>4. \A v \in RawPaints : rawPaint[v].at = "ble" => rawPaint'[v].at = "ble"
      BY <1>1, <3>1, <3>3 DEF Raw!At
    <3> QED BY <3>1, <3>2, <3>3, <3>4, PaintTaken
  <2>4. CASE Raw!LanCopy(w)
    <3>1. PICK ok \in BOOLEAN :
            /\ rawPaint[w].at = "lan" /\ rawPaint[w].tries < RawCopies
            /\ rawPaint' = [rawPaint EXCEPT ![w].tries = @ + 1, ![w].sent = (rawPaint[w].sent \/ ok)]
            /\ IF ok THEN rawUsed' = [rawUsed EXCEPT ![w] = @ \cup {"lan"}] ELSE rawUsed' = rawUsed
      BY <2>4 DEF Raw!LanCopy, Raw!SentAfter, Raw!Took
    <3>2. rawPaint[w] \in PaintRecord /\ (rawPaint[w].sent \/ ok) \in BOOLEAN
      BY <1>1
    <3>3. /\ rawPaint' \in [RawPaints -> PaintRecord] /\ rawPaint'[w].at = "lan" /\ rawPaint'[w].tries = rawPaint[w].tries + 1
          /\ rawPaint'[w].sent = (rawPaint[w].sent \/ ok) /\ \A v \in RawPaints : v # w => rawPaint'[v] = rawPaint[v]
      <4>1. rawPaint[w].tries + 1 \in 0..RawCopies
        BY <3>1, <3>2 DEF PaintRecord
      <4> DEFINE q == [rawPaint[w] EXCEPT !.tries = @ + 1, !.sent = (rawPaint[w].sent \/ ok)]
      <4>2. q \in PaintRecord /\ q.at = "lan" /\ q.tries = rawPaint[w].tries + 1 /\ q.sent = (rawPaint[w].sent \/ ok)
        BY <3>1, <3>2, <4>1 DEF PaintRecord
      <4>3. rawPaint' = [rawPaint EXCEPT ![w] = q]
        BY <1>1, <3>1
      <4> HIDE DEF q
      <4> QED BY <1>1, <4>2, <4>3
    <3>4. rawPaint'[w].tries # 0
      BY <3>2, <3>3 DEF PaintRecord
    <3>5. /\ rawUsed'[w] \subseteq {"lan"} /\ (~rawPaint'[w].sent => rawUsed'[w] = {})
          /\ \A v \in RawPaints : v # w => rawUsed'[v] = rawUsed[v]
      <4>1. rawUsed[w] \subseteq {"lan"} /\ (~rawPaint[w].sent => rawUsed[w] = {})
        BY <3>1 DEF RawInv, NothingSentYet
      <4>2. CASE ok
        <5>1. rawPaint'[w].sent
          BY <3>3, <4>2
        <5>2. rawUsed' = [rawUsed EXCEPT ![w] = @ \cup {"lan"}]
          BY <3>1, <4>2
        <5> QED BY <1>1, <4>1, <5>1, <5>2
      <4>3. CASE ~ok
        <5>1. rawPaint'[w].sent = rawPaint[w].sent
          <6>1. rawPaint[w].sent \in BOOLEAN
            BY <3>2 DEF PaintRecord
          <6> QED BY <3>3, <4>3, <6>1
        <5>2. rawUsed' = rawUsed
          BY <3>1, <4>3
        <5> QED BY <4>1, <5>1, <5>2
      <4> QED BY <4>2, <4>3
    <3> QED BY <3>1, <3>3, <3>4, <3>5 DEF RawInv, NothingSentYet
  <2>5. Raw!MqttPublishes(w) => Raw!Accepted(w) \/ Raw!Falls(w)
    BY DEF Raw!MqttPublishes
  <2> QED BY <2>1, <2>2, <2>3, <2>4, <2>5
<1>4. rawUsed' \in [RawPaints -> SUBSET Raw!Tiers]
  BY <1>1, <1>2
<1>5. WritersWait'
  BY <1>2, <1>3, LineStands
<1>6. Raw!TypeOK'
  <2>1. /\ rawClient \in 0..MaxClients /\ rawTimer \in BOOLEAN
        /\ rawOpen \subseteq 1..MaxClients /\ rawFailing \subseteq rawOpen
        /\ rawStray \subseteq 1..MaxClients /\ rawClients \in 0..MaxClients /\ rawUnloads \in 0..MaxUnloads
    BY RawTypes
  <2> QED BY <1>1, <1>2, <1>3, <1>4, <1>5, <2>1, RawTyped
<1>7. ClientsKnown' /\ Raw!LinkIsLetGo'
  BY <1>2 DEF RawInv, ClientsKnown, Raw!LinkIsLetGo
<1> QED BY <1>3, <1>5, <1>6, <1>7 DEF RawInv

\* Someone takes a place at the lock.
LEMMA AskersKeep ==
    ASSUME RawInv, (\E w \in RawPaints : Raw!LinkAsked(w)) \/ Raw!IdleFires \/ Raw!Unload
    PROVE  RawInv'
<1> USE RawAssumption DEF Raw!link, Raw!radio
<1>1. PICK who \in Waiters :
        /\ rawLock' = Append(rawLock, who) /\ rawTimer' = FALSE
        /\ who \in RawPaints => rawPaint[who].at = "ble" /\ ~Raw!Contains(rawLock, who)
  BY DEF Raw!LinkAsked, Raw!IdleFires, Raw!Unload, Waiters
<1>2. /\ UNCHANGED <<rawGates, rawPaint, rawUsed, rawClient, rawOpen, rawFailing, rawStray, rawClients>>
      /\ rawUnloads' \in 0..MaxUnloads
  BY RawTypes DEF Raw!LinkAsked, Raw!IdleFires, Raw!Unload
<1>3. WritersWait' /\ rawLock' # <<>>
  BY <1>1, <1>2, LineGrows
<1>4. rawTimer' \in BOOLEAN
  BY ONLY <1>1, Zenon
<1>5. Raw!TypeOK'
  BY <1>2, <1>3, <1>4, RawTypes, RawTyped
<1>6. NothingSentYet' /\ ClientsKnown' /\ Raw!LinkIsLetGo'
  BY <1>2, <1>3 DEF RawInv, NothingSentYet, ClientsKnown, Raw!LinkIsLetGo
<1> QED BY <1>3, <1>5, <1>6 DEF RawInv

\* The holder of the lock.
LEMMA HolderKeeps ==
    ASSUME RawInv,
           \/ \E w \in RawPaints : Raw!Connects(w) \/ Raw!LinkWrites(w) \/ Raw!LinkFails(w) \/ Raw!WriteCancelled(w)
           \/ Raw!Dropped
    PROVE  RawInv'
<1> USE RawAssumption DEF Raw!link, Raw!radio
<1>1. /\ rawGates \subseteq Raw!Tiers /\ rawPaint \in [RawPaints -> PaintRecord]
      /\ rawUsed \in [RawPaints -> SUBSET Raw!Tiers] /\ rawClient \in 0..MaxClients /\ rawTimer \in BOOLEAN
      /\ rawOpen \subseteq 1..MaxClients /\ rawFailing \subseteq rawOpen
      /\ rawStray \subseteq 1..MaxClients /\ rawClients \in 0..MaxClients /\ rawUnloads \in 0..MaxUnloads
      /\ rawOpen \subseteq 1..rawClients /\ rawClient \in 0..rawClients /\ rawClient \notin rawFailing
      /\ \A c \in rawOpen \ (rawFailing \cup rawStray) : c = rawClient /\ (rawTimer \/ rawLock # <<>>)
  BY RawTypes
<1>2. ASSUME NEW w \in RawPaints, Raw!Connects(w) PROVE RawInv'
  <2>1. /\ Raw!Holds(w) /\ rawPaint[w].tries = 0 /\ rawPaint' = [rawPaint EXCEPT ![w].tries = 1]
        /\ UNCHANGED <<rawGates, rawUsed, rawLock, rawTimer, rawFailing, rawStray, rawUnloads>>
        /\ \/ UNCHANGED <<rawClient, rawOpen, rawClients>>
           \/ /\ rawClients < MaxClients /\ rawClients' = rawClients + 1 /\ rawClient' = rawClients'
              /\ rawOpen' = rawOpen \cup {rawClients'} /\ rawClient \notin rawOpen
    BY <1>1, <1>2 DEF Raw!Connects, Raw!Live
  <2>2. rawPaint[w].at = "ble" /\ rawLock # <<>>
    <3>1. rawLock \in Seq(Waiters) /\ rawLock # <<>> /\ w = rawLock[1]
      BY <2>1 DEF RawInv, WritersWait, Raw!Holds
    <3>2. 1 \in DOMAIN rawLock
      BY <3>1
    <3> QED BY <3>1, <3>2 DEF RawInv, WritersWait
  <2>3. /\ rawPaint' \in [RawPaints -> PaintRecord] /\ rawPaint'[w].at = "ble"
        /\ \A v \in RawPaints : v # w => rawPaint'[v] = rawPaint[v]
    <3> DEFINE q == [rawPaint[w] EXCEPT !.tries = 1]
    <3>1. rawPaint[w] \in PaintRecord /\ 1 \in 0..RawCopies
      BY <1>1
    <3>2. q \in PaintRecord /\ q.at = "ble"
      BY <2>2, <3>1 DEF PaintRecord
    <3>3. rawPaint' = [rawPaint EXCEPT ![w] = q]
      BY <1>1, <2>1
    <3> HIDE DEF q
    <3> QED BY <1>1, <3>2, <3>3
  <2>4. WritersWait'
    BY <2>1, <2>2, <2>3, LineStands
  <2>5. NothingSentYet'
    BY <2>1, <2>2, <2>3 DEF RawInv, NothingSentYet
  <2>6. /\ rawClients' \in 0..MaxClients /\ rawClient' \in 0..rawClients' /\ rawOpen' \subseteq 1..rawClients'
        /\ rawClient' \notin rawFailing' /\ rawFailing' \subseteq rawOpen'
    BY <1>1, <2>1
  <2>7. Raw!TypeOK'
    BY <1>1, <2>1, <2>3, <2>4, <2>6, RawTyped
  <2>8. ClientsKnown' /\ Raw!LinkIsLetGo'
    BY <1>1, <2>1, <2>2, <2>6 DEF ClientsKnown, Raw!LinkIsLetGo
  <2> QED BY <2>4, <2>5, <2>7, <2>8 DEF RawInv
<1>3. ASSUME NEW w \in RawPaints, Raw!LinkWrites(w) PROVE RawInv'
  <2>1. /\ Raw!Holds(w) /\ rawTimer' = TRUE /\ rawLock' = Tail(rawLock) /\ Raw!Accepted(w)
        /\ rawStray' = rawStray \ {rawClient}
        /\ UNCHANGED <<rawGates, rawClient, rawOpen, rawFailing, rawClients, rawUnloads>>
    BY <1>3 DEF Raw!LinkWrites
  <2>2. /\ Raw!At(w, "done") /\ rawUsed' = [rawUsed EXCEPT ![w] = @ \cup {rawPaint[w].at}]
        /\ \A v \in RawPaints : v # w => rawPaint'[v] = rawPaint[v]
    BY <1>1, <2>1 DEF Raw!Accepted, Raw!Took, Raw!At
  <2>3. WritersWait' /\ rawPaint[w].at = "ble"
    BY <2>1, <2>2, LineMoves
  <2>4. /\ NothingSentYet' /\ rawPaint' \in [RawPaints -> PaintRecord] /\ rawUsed' \in [RawPaints -> SUBSET Raw!Tiers]
    <3>1. rawUsed[w] = {} /\ "ble" \in Raw!Tiers
      BY <2>3 DEF RawInv, NothingSentYet, Raw!Tiers
    <3> QED BY <2>2, <2>3, <3>1, PaintTaken
  <2>5. rawTimer' \in BOOLEAN /\ rawTimer'
    BY ONLY <2>1, Zenon
  <2>6. Raw!TypeOK'
    BY <1>1, <2>1, <2>3, <2>4, <2>5, RawTyped
  <2>7. ClientsKnown' /\ Raw!LinkIsLetGo'
    BY <1>1, <2>1, <2>5 DEF ClientsKnown, Raw!LinkIsLetGo
  <2> QED BY <2>3, <2>4, <2>6, <2>7 DEF RawInv
<1>4. ASSUME Raw!LetGo, UNCHANGED <<rawStray, rawClients>>
      PROVE  /\ ClientsKnown' /\ Raw!LinkIsLetGo' /\ rawClient' \in 0..MaxClients
             /\ rawOpen' \subseteq 1..MaxClients /\ rawFailing' \subseteq rawOpen'
  <2>1. /\ rawClient' = 0 /\ rawOpen' \subseteq rawOpen
        /\ \/ rawOpen' = rawOpen \ {rawClient} /\ rawFailing' = rawFailing
           \/ rawOpen' = rawOpen /\ rawClient \in rawOpen /\ rawFailing' = rawFailing \cup {rawClient}
    BY <1>4 DEF Raw!LetGo
  <2>2. rawFailing' \subseteq rawOpen' /\ 0 \notin rawFailing' /\ rawClient \notin rawOpen' \ rawFailing'
    <3>1. 0 \notin rawOpen
      BY <1>1
    <3>2. CASE rawOpen' = rawOpen \ {rawClient} /\ rawFailing' = rawFailing
      <4>1. \A c \in rawFailing : c \in rawOpen /\ c # rawClient
        BY <1>1
      <4> QED BY <3>1, <3>2, <4>1
    <3>3. CASE rawOpen' = rawOpen /\ rawClient \in rawOpen /\ rawFailing' = rawFailing \cup {rawClient}
      <4>1. \A c \in rawFailing : c \in rawOpen
        BY <1>1
      <4> QED BY <3>1, <3>3, <4>1
    <3> QED BY <2>1, <3>2, <3>3
  <2>3. ClientsKnown'
    BY <1>1, <1>4, <2>1, <2>2 DEF ClientsKnown
  <2>4. Raw!LinkIsLetGo'
    BY <1>1, <1>4, <2>1, <2>2 DEF Raw!LinkIsLetGo
  <2> QED BY <1>1, <2>1, <2>2, <2>3, <2>4
<1>5. ASSUME NEW w \in RawPaints, Raw!LinkFails(w) PROVE RawInv'
  <2>1. /\ Raw!Holds(w) /\ Raw!LetGo /\ rawLock' = Tail(rawLock) /\ Raw!At(w, Raw!After[rawPaint[w].at])
        /\ UNCHANGED <<rawGates, rawUsed, rawTimer, rawStray, rawClients, rawUnloads>>
    BY <1>5 DEF Raw!LinkFails, Raw!AfterFailure, Raw!Falls
  <2>2. \A v \in RawPaints : v # w => rawPaint'[v] = rawPaint[v]
    BY <1>1, <2>1 DEF Raw!At
  <2>3. WritersWait' /\ rawPaint[w].at = "ble"
    BY <2>1, <2>2, LineMoves
  <2>4. Raw!After[rawPaint[w].at] = "mqtt" /\ "mqtt" \in Ats
    BY <2>3 DEF Raw!After, Ats, Raw!Tiers
  <2>5. NothingSentYet' /\ rawPaint' \in [RawPaints -> PaintRecord]
    <3>1. rawUsed[w] = {}
      BY <2>3 DEF RawInv, NothingSentYet
    <3> QED BY <2>1, <2>4, <3>1, PaintMoves
  <2>6. Raw!TypeOK'
    BY <1>1, <1>4, <2>1, <2>3, <2>5, RawTyped
  <2> QED BY <1>4, <2>1, <2>3, <2>5, <2>6 DEF RawInv
<1>7. ASSUME NEW w \in RawPaints, Raw!WriteCancelled(w) PROVE RawInv'
  <2>1. /\ Raw!Holds(w) /\ rawLock' = Tail(rawLock) /\ Raw!At(w, "done")
        /\ rawStray' = IF Raw!Live /\ ~rawTimer /\ rawLock' = <<>> THEN rawStray \cup {rawClient} ELSE rawStray
        /\ UNCHANGED <<rawGates, rawUsed, rawClient, rawTimer, rawOpen, rawFailing, rawClients, rawUnloads>>
    BY <1>7 DEF Raw!WriteCancelled
  <2>2. \A v \in RawPaints : v # w => rawPaint'[v] = rawPaint[v]
    BY <1>1, <2>1 DEF Raw!At
  <2>3. WritersWait'
    BY <2>1, <2>2, LineMoves
  <2>4. NothingSentYet' /\ rawPaint' \in [RawPaints -> PaintRecord]
    BY <2>1, PaintMoves DEF Ats
  <2>5. rawStray' \subseteq 1..MaxClients /\ (\A c \in rawOpen \ (rawFailing \cup rawStray') : rawTimer \/ rawLock' # <<>>)
    BY <1>1, <2>1 DEF Raw!Live
  <2>6. Raw!TypeOK'
    BY <1>1, <2>1, <2>3, <2>4, <2>5, RawTyped
  <2>7. ClientsKnown' /\ Raw!LinkIsLetGo'
    BY <1>1, <2>1, <2>5 DEF ClientsKnown, Raw!LinkIsLetGo
  <2> QED BY <2>3, <2>4, <2>6, <2>7 DEF RawInv
<1>6. CASE Raw!Dropped
  <2>1. /\ Raw!Holds(Drop) /\ Raw!LetGo /\ rawLock' = Tail(rawLock)
        /\ UNCHANGED <<rawGates, rawPaint, rawUsed, rawTimer, rawStray, rawClients, rawUnloads>>
    BY <1>6 DEF Raw!Dropped
  <2>2. WritersWait'
    BY <2>1, LineMoves
  <2>3. NothingSentYet'
    BY <2>1 DEF RawInv, NothingSentYet
  <2>4. Raw!TypeOK'
    BY <1>1, <1>4, <2>1, <2>2, RawTyped
  <2> QED BY <1>4, <2>1, <2>2, <2>3, <2>4 DEF RawInv
<1> QED BY <1>2, <1>3, <1>5, <1>6, <1>7

\* The radio, and the gates.
LEMMA OutsideKeeps ==
    ASSUME RawInv, (\E c \in rawOpen : Raw!Disconnected(c)) \/ Raw!GatesChange
    PROVE  RawInv'
<1> USE RawAssumption DEF Raw!link, Raw!radio
<1>1. /\ rawGates \subseteq Raw!Tiers /\ rawPaint \in [RawPaints -> PaintRecord]
      /\ rawUsed \in [RawPaints -> SUBSET Raw!Tiers] /\ rawClient \in 0..MaxClients /\ rawTimer \in BOOLEAN
      /\ rawOpen \subseteq 1..MaxClients /\ rawFailing \subseteq rawOpen
      /\ rawStray \subseteq 1..MaxClients /\ rawClients \in 0..MaxClients /\ rawUnloads \in 0..MaxUnloads
      /\ rawOpen \subseteq 1..rawClients /\ rawClient \in 0..rawClients /\ rawClient \notin rawFailing
      /\ \A c \in rawOpen \ (rawFailing \cup rawStray) : c = rawClient /\ (rawTimer \/ rawLock # <<>>)
  BY RawTypes
<1>2. ASSUME NEW c \in rawOpen, Raw!Disconnected(c) PROVE RawInv'
  <2>1. /\ rawOpen' = rawOpen \ {c} /\ rawFailing' = rawFailing \ {c} /\ rawClient' = 0
        /\ rawStray' = IF rawClient \notin {0, c} THEN rawStray \cup {rawClient} ELSE rawStray
        /\ UNCHANGED <<rawGates, rawPaint, rawUsed, rawLock, rawTimer, rawClients, rawUnloads>>
    BY <1>2 DEF Raw!Disconnected
  <2>2. rawStray' \subseteq 1..MaxClients /\ rawFailing' \subseteq rawOpen' /\ rawOpen' \subseteq 1..rawClients
    BY <1>1, <2>1
  <2>3. WritersWait' /\ NothingSentYet'
    BY <2>1 DEF RawInv, WritersWait, NothingSentYet
  <2>4. Raw!TypeOK'
    BY <1>1, <2>1, <2>2, <2>3, RawTyped
  <2>5. ClientsKnown' /\ Raw!LinkIsLetGo'
    BY <1>1, <2>1, <2>2 DEF ClientsKnown, Raw!LinkIsLetGo
  <2> QED BY <2>3, <2>4, <2>5 DEF RawInv
<1>3. CASE Raw!GatesChange
  <2>1. /\ rawGates' \subseteq Raw!Tiers
        /\ UNCHANGED <<rawPaint, rawUsed, rawClient, rawLock, rawTimer, rawOpen, rawFailing, rawStray, rawClients, rawUnloads>>
    BY <1>3 DEF Raw!GatesChange
  <2>2. WritersWait' /\ NothingSentYet' /\ ClientsKnown' /\ Raw!LinkIsLetGo'
    BY <2>1 DEF RawInv, WritersWait, NothingSentYet, ClientsKnown, Raw!LinkIsLetGo
  <2>3. Raw!TypeOK'
    BY <1>1, <2>1, <2>2, RawTyped
  <2> QED BY <2>2, <2>3 DEF RawInv
<1> QED BY <1>2, <1>3

LEMMA RawGoesOn == RawInv /\ [Raw!Next]_(Raw!vars) => RawInv'
<1> SUFFICES ASSUME RawInv, [Raw!Next]_(Raw!vars) PROVE RawInv'
  OBVIOUS
<1>1. CASE UNCHANGED Raw!vars
  BY <1>1 DEF Raw!vars, Raw!link, Raw!radio, RawInv, Raw!TypeOK, WritersWait, NothingSentYet, ClientsKnown, Raw!LinkIsLetGo
<1>2. CASE Raw!Next
  BY <1>2, RouteKeeps, AskersKeep, HolderKeeps, OutsideKeeps DEF Raw!Next
<1> QED BY <1>1, <1>2

LEMMA RawIsRight == RawInv => Raw!RawWritesAreRight
<1> SUFFICES ASSUME RawInv PROVE Raw!RawWritesAreRight
  OBVIOUS
<1>1. Raw!OnePipe
  <2> SUFFICES ASSUME NEW w \in RawPaints, "lan" \in rawUsed[w]
               PROVE  rawUsed[w] = {"lan"} /\ rawPaint[w].at \in {"lan", "done"}
    BY DEF Raw!OnePipe
  <2>1. rawPaint[w].at \in Ats
    BY RawTypes DEF PaintRecord
  <2> QED BY <2>1 DEF RawInv, NothingSentYet, Ats, Raw!Tiers
<1> QED BY <1>1 DEF RawInv, Raw!RawWritesAreRight

\* For any writes, copies and links: the lamp's one link is let go, and once a
\* copy went out on the LAN no other pipe is tried (ble_raw_write.py 55-63,
\* 210-320; lan_raw.py 150-187).
THEOREM RawWritesRight == Raw!Spec => []Raw!RawWritesAreRight
<1> QED BY RawStarts, RawGoesOn, RawIsRight, PTL DEF Raw!Spec

-----------------------------------------------------------------------------
(* The probe thermometers: sweeps that go on, and limits that are theirs.     *)

ReplyRecord == [of : Probe!Corridor, last : BOOLEAN]

ProbeTyped ==
    /\ probeArmed \subseteq Meters /\ probeTimer \in BOOLEAN /\ probeTick \in 0..ReadEvery - 1 /\ probeUp \in BOOLEAN
    /\ probePasses \in Seq(Probe!Pass) /\ Len(probePasses) <= MaxPasses
    /\ probeHeld \in [Meters -> Probe!Corridor] /\ probeShown \in [Meters -> Probe!Corridor]
    /\ probeReplies \in [Meters -> Seq(ReplyRecord)] /\ probeUnsure \in [Meters -> BOOLEAN]
    /\ probeWrites \in 0..MaxWrites /\ probeChanges \in 0..MaxAppChanges
    /\ probeDrops \in 0..MaxDrops /\ probeReloads \in 0..MaxProbeReloads

\* A reply that is the last word holds what the device holds, and so do those after it.
QueueRight(q, limits) ==
    /\ \A i \in DOMAIN q : q[i].last => q[i].of = limits
    /\ \A i, j \in DOMAIN q : i <= j /\ q[i].last => q[j].last

LastWords(q) == \A i \in DOMAIN q : q[i].last

\* Where the limits shown are sure, every reply on its way is the last word.
MeterKept(m) ==
    /\ QueueRight(probeReplies[m], probeHeld[m])
    /\ ~probeUnsure[m] => probeShown[m] = probeHeld[m] /\ LastWords(probeReplies[m])

ProbeInv == ProbeTyped /\ Probe!SweepsGoOn /\ \A m \in Meters : MeterKept(m)

LEMMA UnsetTyped == Probe!NoLimits \in Probe!Corridor
  BY DEF Probe!NoLimits, Probe!Corridor

LEMMA ReplyFlags == FALSE \in BOOLEAN /\ TRUE \in BOOLEAN
  BY Zenon

LEMMA AnswerAdded ==
    ASSUME NEW q \in Seq(ReplyRecord), NEW limits \in Probe!Corridor, QueueRight(q, limits)
    PROVE  /\ Append(q, [of |-> limits, last |-> TRUE]) \in Seq(ReplyRecord)
           /\ QueueRight(Append(q, [of |-> limits, last |-> TRUE]), limits)
           /\ LastWords(q) => LastWords(Append(q, [of |-> limits, last |-> TRUE]))
<1> DEFINE r == [of |-> limits, last |-> TRUE]  more == Append(q, r)
<1>1. r \in ReplyRecord /\ r.of = limits /\ r.last
  BY ReplyFlags DEF ReplyRecord
<1> HIDE DEF r
<1>2. /\ more \in Seq(ReplyRecord) /\ Len(q) \in Nat /\ DOMAIN q = 1..Len(q) /\ DOMAIN more = 1..(Len(q) + 1)
      /\ more[Len(q) + 1] = r /\ \A i \in DOMAIN q : more[i] = q[i]
  BY <1>1
<1> HIDE DEF more
<1>3. \A i \in DOMAIN more : i \in DOMAIN q \/ more[i] = r
  BY <1>2
<1>4. \A i, j \in DOMAIN more : i <= j /\ more[i].last => more[j].last
  <2> SUFFICES ASSUME NEW i \in DOMAIN more, NEW j \in DOMAIN more, i <= j, more[i].last PROVE more[j].last
    OBVIOUS
  <2>1. CASE j = Len(q) + 1
    BY <1>1, <1>2, <2>1
  <2>2. CASE j # Len(q) + 1
    <3>1. i \in DOMAIN q /\ j \in DOMAIN q
      BY <1>2, <2>2
    <3> QED BY <1>2, <3>1 DEF QueueRight
  <2> QED BY <2>1, <2>2
<1>5. \A i \in DOMAIN more : more[i].last => more[i].of = limits
  BY <1>1, <1>2, <1>3 DEF QueueRight
<1>6. LastWords(q) => LastWords(more)
  BY <1>1, <1>2, <1>3 DEF LastWords
<1> QED BY <1>2, <1>4, <1>5, <1>6 DEF QueueRight, more, r

LEMMA AnswersAged ==
    ASSUME NEW q \in Seq(ReplyRecord)
    PROVE  /\ Probe!NotLast(q) \in Seq(ReplyRecord) /\ Len(Probe!NotLast(q)) = Len(q)
           /\ \A limits : QueueRight(Probe!NotLast(q), limits)
<1> DEFINE old == Probe!NotLast(q)
<1>1. DOMAIN q = 1..Len(q) /\ Len(q) \in Nat
  OBVIOUS
<1>2. ASSUME NEW i \in DOMAIN q PROVE old[i] \in ReplyRecord /\ ~old[i].last
  <2>1. old[i] = [q[i] EXCEPT !.last = FALSE] /\ q[i] \in ReplyRecord
    BY DEF Probe!NotLast
  <2> QED BY <2>1, ReplyFlags DEF ReplyRecord
<1>3. old = [i \in 1..Len(q) |-> old[i]]
  BY <1>1 DEF Probe!NotLast
<1> HIDE DEF old
<1>4. old \in Seq(ReplyRecord) /\ Len(old) = Len(q) /\ DOMAIN old = DOMAIN q
  BY <1>1, <1>2, <1>3
<1>5. \A limits : QueueRight(old, limits)
  BY <1>2, <1>4 DEF QueueRight
<1> QED BY <1>4, <1>5 DEF old

LEMMA AnswerTold ==
    ASSUME NEW q \in Seq(ReplyRecord), q # <<>>, NEW limits, QueueRight(q, limits)
    PROVE  /\ Head(q) \in ReplyRecord /\ Tail(q) \in Seq(ReplyRecord) /\ QueueRight(Tail(q), limits)
           /\ Head(q).last => Head(q).of = limits /\ LastWords(Tail(q))
           /\ LastWords(q) => Head(q).last
<1> DEFINE rest == Tail(q)
<1>1. /\ Head(q) = q[1] /\ 1 \in DOMAIN q /\ Head(q) \in ReplyRecord /\ rest \in Seq(ReplyRecord)
      /\ Len(q) \in Nat \ {0} /\ DOMAIN q = 1..Len(q) /\ DOMAIN rest = 1..(Len(q) - 1)
      /\ \A i \in DOMAIN rest : rest[i] = q[i + 1]
  OBVIOUS
<1> HIDE DEF rest
<1>2. \A i \in DOMAIN rest : i \in Int /\ i + 1 \in DOMAIN q /\ 1 <= i + 1
  BY <1>1
<1>3. \A i, j \in DOMAIN rest : i <= j /\ rest[i].last => rest[j].last
  <2> SUFFICES ASSUME NEW i \in DOMAIN rest, NEW j \in DOMAIN rest, i <= j, rest[i].last PROVE rest[j].last
    OBVIOUS
  <2>1. i + 1 <= j + 1
    BY <1>2
  <2> QED BY <1>1, <1>2, <2>1 DEF QueueRight
<1>4. Head(q).last => LastWords(rest)
  BY <1>1, <1>2 DEF QueueRight, LastWords
<1> QED BY <1>1, <1>2, <1>3, <1>4 DEF QueueRight, LastWords, rest

\* The meters an operation leaves alone.
LEMMA MetersStay ==
    ASSUME \A m \in Meters : MeterKept(m), UNCHANGED <<probeHeld, probeShown, probeReplies, probeUnsure>>
    PROVE  \A m \in Meters : MeterKept(m)'
  BY DEF MeterKept
-----------------------------------------------------------------------------
LEMMA ProbeStarts == Probe!Init => ProbeInv
<1> SUFFICES ASSUME Probe!Init PROVE ProbeInv
  OBVIOUS
<1>1. ProbeTyped
  <2>1. /\ probeArmed = {} /\ probeTimer = FALSE /\ probeTick = 0 /\ probePasses = <<>> /\ probeUp = TRUE
        /\ probeHeld \in [Meters -> Probe!Corridor] /\ probeShown = [m \in Meters |-> Probe!NoLimits]
        /\ probeReplies = [m \in Meters |-> <<>>] /\ probeUnsure = [m \in Meters |-> TRUE]
        /\ probeWrites = 0 /\ probeChanges = 0 /\ probeDrops = 0 /\ probeReloads = 0
    BY DEF Probe!Init
  <2>2. probePasses \in Seq(Probe!Pass) /\ Len(probePasses) <= MaxPasses
    BY <2>1, ProbeAssumption
  <2>3. probeReplies \in [Meters -> Seq(ReplyRecord)] /\ probeShown \in [Meters -> Probe!Corridor]
    BY <2>1, UnsetTyped
  <2>4. probeUnsure \in [Meters -> BOOLEAN] /\ probeTimer \in BOOLEAN /\ probeUp \in BOOLEAN
    BY <2>1, ReplyFlags
  <2> QED BY <2>1, <2>2, <2>3, <2>4, ProbeAssumption DEF ProbeTyped
<1>2. Probe!SweepsGoOn
  BY DEF Probe!Init, Probe!SweepsGoOn
<1>3. \A m \in Meters : MeterKept(m)
  BY DEF Probe!Init, MeterKept, QueueRight
<1> QED BY <1>1, <1>2, <1>3 DEF ProbeInv

LEMMA BurstTyped == \A m \in Meters : Probe!Burst(m) \in Probe!Pass
  BY ReplyFlags DEF Probe!Burst, Probe!Pass

LEMMA SweepTyped == probeArmed \subseteq Meters => Probe!Sweep \in Probe!Pass /\ Probe!Sweep.sweep
<1>1. (probeTick = 0) \in BOOLEAN
  BY Zenon
<1> QED BY <1>1, ReplyFlags DEF Probe!Sweep, Probe!Pass

LEMMA ArmKeeps ==
    ASSUME ProbeInv, NEW m \in Meters, Probe!Arm(m)
    PROVE  ProbeInv'
<1> USE DEF ProbeInv
<1>1. /\ Len(probePasses) < MaxPasses /\ probeArmed' = probeArmed \cup {m}
      /\ probePasses' = Append(probePasses, Probe!Burst(m)) /\ probeTimer' = TRUE
      /\ UNCHANGED <<probeTick, probeUp, probeHeld, probeShown, probeReplies, probeUnsure, probeWrites, probeChanges,
                      probeDrops, probeReloads>>
  BY DEF Probe!Arm, Probe!limits, Probe!counts
<1>2. probePasses' \in Seq(Probe!Pass) /\ Len(probePasses') <= MaxPasses
  BY <1>1, BurstTyped, ProbeAssumption DEF ProbeTyped
<1>3. ProbeTyped'
  BY <1>1, <1>2, ReplyFlags DEF ProbeTyped
<1> QED BY <1>1, <1>3, MetersStay DEF Probe!SweepsGoOn

LEMMA DisarmKeeps ==
    ASSUME ProbeInv, NEW m \in Meters, Probe!Disarm(m)
    PROVE  ProbeInv'
<1> USE DEF ProbeInv
<1>1. /\ probeArmed' = probeArmed \ {m} /\ probeTimer' = (probeTimer /\ probeArmed' # {})
      /\ UNCHANGED <<probePasses, probeTick, probeUp, probeHeld, probeShown, probeReplies, probeUnsure, probeWrites, probeChanges,
                      probeDrops, probeReloads>>
  BY DEF Probe!Disarm, Probe!limits, Probe!counts
<1>2. probeTimer' \in BOOLEAN /\ (probeArmed' # {} => (probeTimer' <=> probeTimer))
  <2>1. (probeTimer /\ probeArmed' # {}) \in BOOLEAN
    BY Zenon
  <2> QED BY <1>1, <2>1
<1>3. ProbeTyped'
  BY <1>1, <1>2 DEF ProbeTyped
<1>4. Probe!SweepsGoOn'
  <2>1. probeArmed' # {} => probeArmed # {}
    BY <1>1
  <2> QED BY <1>1, <1>2, <2>1 DEF Probe!SweepsGoOn
<1> QED BY <1>1, <1>3, <1>4, MetersStay

LEMMA TimerKeeps ==
    ASSUME ProbeInv, Probe!TimerFires
    PROVE  ProbeInv'
<1> USE DEF ProbeInv
<1>1. /\ Len(probePasses) < MaxPasses /\ probeTimer' = FALSE /\ probePasses' = Append(probePasses, Probe!Sweep)
      /\ probeTick' = IF probeArmed = {} \/ ~probeUp THEN probeTick ELSE (probeTick + 1) % ReadEvery
      /\ UNCHANGED <<probeArmed, probeUp, probeHeld, probeShown, probeReplies, probeUnsure, probeWrites, probeChanges,
                      probeDrops, probeReloads>>
  BY DEF Probe!TimerFires, Probe!limits, Probe!counts
<1>2. Probe!Sweep \in Probe!Pass /\ Probe!Sweep.sweep
  BY SweepTyped DEF ProbeTyped
<1>3. probePasses \in Seq(Probe!Pass) /\ Len(probePasses) \in Nat
  BY DEF ProbeTyped
<1>4. /\ probePasses' \in Seq(Probe!Pass) /\ Len(probePasses') <= MaxPasses
      /\ Len(probePasses) + 1 \in DOMAIN probePasses' /\ probePasses'[Len(probePasses) + 1] = Probe!Sweep
  <2> DEFINE p == Probe!Sweep
  <2>1. p \in Probe!Pass /\ probePasses' = Append(probePasses, p) /\ Len(probePasses) < MaxPasses
    BY <1>1, <1>2
  <2> HIDE DEF p
  <2>2. /\ probePasses' \in Seq(Probe!Pass) /\ Len(probePasses') <= MaxPasses
        /\ Len(probePasses) + 1 \in DOMAIN probePasses' /\ probePasses'[Len(probePasses) + 1] = p
    BY <1>3, <2>1, ProbeAssumption
  <2> QED BY <2>2 DEF p
<1>5. probeTick' \in 0..ReadEvery - 1
  <2>1. ASSUME NEW t \in Nat, NEW n \in Nat \ {0} PROVE (t + 1) % n \in 0..n - 1
    OBVIOUS
  <2>2. (probeTick + 1) % ReadEvery \in 0..ReadEvery - 1
    BY <2>1, ProbeAssumption DEF ProbeTyped
  <2> QED BY <1>1, <2>2 DEF ProbeTyped
<1>6. ProbeTyped'
  BY <1>1, <1>4, <1>5, ReplyFlags DEF ProbeTyped
<1>7. Probe!SweepsGoOn'
  BY <1>2, <1>4 DEF Probe!SweepsGoOn
<1> QED BY <1>1, <1>6, <1>7, MetersStay

LEMMA PassChanged ==
    ASSUME ProbeTyped, NEW i \in DOMAIN probePasses, NEW p \in Probe!Pass, p.sweep = probePasses[i].sweep,
           probePasses' = [probePasses EXCEPT ![i] = p]
    PROVE  /\ probePasses' \in Seq(Probe!Pass) /\ Len(probePasses') <= MaxPasses
           /\ DOMAIN probePasses' = DOMAIN probePasses
           /\ \A j \in DOMAIN probePasses : probePasses'[j].sweep = probePasses[j].sweep
<1>1. probePasses \in Seq(Probe!Pass) /\ Len(probePasses) <= MaxPasses
  BY DEF ProbeTyped
<1>2. probePasses' \in Seq(Probe!Pass) /\ Len(probePasses') = Len(probePasses) /\ DOMAIN probePasses' = DOMAIN probePasses
  BY <1>1
<1>3. ASSUME NEW j \in DOMAIN probePasses PROVE probePasses'[j].sweep = probePasses[j].sweep
  <2>1. probePasses'[j] = IF j = i THEN p ELSE probePasses[j]
    BY <1>1
  <2> QED BY <2>1
<1> QED BY <1>1, <1>2, <1>3

\* The device's answer is the last word on what it holds.
LEMMA AnswersKeep ==
    ASSUME ProbeInv, NEW m \in Meters, Probe!Answers(m), UNCHANGED <<probeHeld, probeShown, probeUnsure>>
    PROVE  probeReplies' \in [Meters -> Seq(ReplyRecord)] /\ \A n \in Meters : MeterKept(n)'
<1>1. CASE UNCHANGED probeReplies
  BY <1>1, MetersStay DEF ProbeInv, ProbeTyped
<1>2. CASE probeReplies' = [probeReplies EXCEPT ![m] = Append(@, [of |-> probeHeld[m], last |-> TRUE])]
  <2>1. probeReplies[m] \in Seq(ReplyRecord) /\ probeHeld[m] \in Probe!Corridor /\ MeterKept(m)
    BY DEF ProbeInv, ProbeTyped
  <2> DEFINE more == Append(probeReplies[m], [of |-> probeHeld[m], last |-> TRUE])
  <2>2. /\ more \in Seq(ReplyRecord) /\ QueueRight(more, probeHeld[m])
        /\ LastWords(probeReplies[m]) => LastWords(more)
    BY <2>1, AnswerAdded DEF MeterKept
  <2>3. probeReplies' = [probeReplies EXCEPT ![m] = more]
    BY <1>2
  <2> HIDE DEF more
  <2>4. /\ probeReplies' \in [Meters -> Seq(ReplyRecord)] /\ probeReplies'[m] = more
        /\ \A n \in Meters \ {m} : probeReplies'[n] = probeReplies[n]
    BY <2>2, <2>3 DEF ProbeInv, ProbeTyped
  <2>5. MeterKept(m)'
    BY <2>1, <2>2, <2>4 DEF MeterKept
  <2>6. \A n \in Meters \ {m} : MeterKept(n)'
    BY <2>4 DEF MeterKept, ProbeInv
  <2> QED BY <2>4, <2>5, <2>6
<1> QED BY <1>1, <1>2 DEF Probe!Answers

LEMMA ReadKeeps ==
    ASSUME ProbeInv, NEW m \in Meters, NEW i \in DOMAIN probePasses, Probe!Read(i, m)
    PROVE  ProbeInv'
<1> DEFINE p == probePasses[i]
           none == [p EXCEPT !.left = {}]
           next == [p EXCEPT !.left = @ \ {m}, !.began = TRUE]
<1>1. p \in Probe!Pass
  BY DEF ProbeInv, ProbeTyped
<1>2. none \in Probe!Pass /\ none.sweep = p.sweep /\ next \in Probe!Pass /\ next.sweep = p.sweep
  BY <1>1, ReplyFlags DEF Probe!Pass
<1>3. UNCHANGED <<probeArmed, probeTimer, probeTick, probeUp, probeHeld, probeShown, probeUnsure, probeWrites, probeChanges,
                  probeDrops, probeReloads>>
  BY DEF Probe!Read, Probe!counts
<1>4. \/ probePasses' = [probePasses EXCEPT ![i] = none] /\ UNCHANGED probeReplies
      \/ probePasses' = [probePasses EXCEPT ![i] = next] /\ (Probe!Answers(m) \/ UNCHANGED probeReplies)
  BY DEF Probe!Read
<1> HIDE DEF none, next, p
<1>5. probeReplies' \in [Meters -> Seq(ReplyRecord)] /\ \A n \in Meters : MeterKept(n)'
  BY <1>3, <1>4, AnswersKeep DEF Probe!Answers
<1>6. /\ probePasses' \in Seq(Probe!Pass) /\ Len(probePasses') <= MaxPasses
      /\ DOMAIN probePasses' = DOMAIN probePasses
      /\ \A j \in DOMAIN probePasses : probePasses'[j].sweep = probePasses[j].sweep
  BY <1>2, <1>4, PassChanged DEF ProbeInv, p
<1>7. ProbeTyped'
  BY <1>3, <1>5, <1>6 DEF ProbeInv, ProbeTyped
<1>8. Probe!SweepsGoOn'
  BY <1>3, <1>6 DEF ProbeInv, Probe!SweepsGoOn
<1> QED BY <1>5, <1>7, <1>8 DEF ProbeInv

LEMMA Joined ==
    ASSUME NEW S, NEW s \in Seq(S), NEW t \in Seq(S)
    PROVE  /\ s \o t \in Seq(S) /\ Len(s \o t) = Len(s) + Len(t)
           /\ \A k \in 1..Len(s) : (s \o t)[k] = s[k]
           /\ \A k \in 1..Len(t) : (s \o t)[Len(s) + k] = t[k]
  OBVIOUS

LEMMA PassEndsKeeps ==
    ASSUME ProbeInv, NEW i \in DOMAIN probePasses, Probe!PassEnds(i)
    PROVE  ProbeInv'
<1>1. /\ probePasses' = Probe!RemoveAt(probePasses, i)
      /\ probeTimer' = IF probePasses[i].sweep THEN Probe!RearmsTimer ELSE probeTimer
      /\ UNCHANGED <<probeArmed, probeTick, probeUp, probeHeld, probeShown, probeReplies, probeUnsure, probeWrites, probeChanges,
                      probeDrops, probeReloads>>
  BY DEF Probe!PassEnds, Probe!limits, Probe!counts
<1>2. probePasses \in Seq(Probe!Pass) /\ Len(probePasses) \in Nat /\ Len(probePasses) <= MaxPasses /\ DOMAIN probePasses = 1..Len(probePasses)
  BY DEF ProbeInv, ProbeTyped
<1> DEFINE before == SubSeq(probePasses, 1, i - 1)  after == SubSeq(probePasses, i + 1, Len(probePasses))
<1>3. probePasses' = before \o after
  BY <1>1 DEF Probe!RemoveAt
<1>4. before \in Seq(Probe!Pass) /\ Len(before) = i - 1 /\ \A j \in 1..(i - 1) : before[j] = probePasses[j]
  BY <1>2
<1>5. /\ after \in Seq(Probe!Pass) /\ Len(after) = Len(probePasses) - i
      /\ \A j \in 1..(Len(probePasses) - i) : after[j] = probePasses[i + j]
  BY <1>2
<1> HIDE DEF before, after
<1>6. /\ probePasses' \in Seq(Probe!Pass) /\ Len(probePasses') = Len(before) + Len(after)
      /\ \A k \in 1..Len(before) : probePasses'[k] = before[k]
      /\ \A k \in 1..Len(after) : probePasses'[Len(before) + k] = after[k]
  <2>1. before \in Seq(Probe!Pass) /\ after \in Seq(Probe!Pass)
    BY <1>4, <1>5
  <2>2. /\ before \o after \in Seq(Probe!Pass) /\ Len(before \o after) = Len(before) + Len(after)
        /\ \A k \in 1..Len(before) : (before \o after)[k] = before[k]
        /\ \A k \in 1..Len(after) : (before \o after)[Len(before) + k] = after[k]
    BY ONLY <2>1, Joined
  <2> QED BY <1>3, <2>2
<1>7. Len(probePasses') = Len(probePasses) - 1 /\ DOMAIN probePasses' = 1..(Len(probePasses) - 1)
  BY <1>2, <1>4, <1>5, <1>6
<1>8. /\ \A j \in 1..(i - 1) : probePasses'[j] = probePasses[j]
      /\ \A j \in (i + 1)..Len(probePasses) : probePasses'[j - 1] = probePasses[j]
  <2>1. ASSUME NEW j \in 1..(i - 1) PROVE probePasses'[j] = probePasses[j]
    BY <1>4, <1>6
  <2>2. ASSUME NEW j \in (i + 1)..Len(probePasses) PROVE probePasses'[j - 1] = probePasses[j]
    <3>1. j - i \in 1..(Len(probePasses) - i) /\ i - 1 + (j - i) = j - 1 /\ i + (j - i) = j
      BY <1>2
    <3>2. after[j - i] = probePasses[j]
      BY <1>5, <3>1
    <3>3. probePasses'[j - 1] = after[j - i]
      BY <1>4, <1>5, <1>6, <3>1
    <3> QED BY <3>2, <3>3
  <2> QED BY <2>1, <2>2
<1>9. probeTimer' \in BOOLEAN /\ (probePasses[i].sweep /\ probeArmed # {} => probeTimer') /\ (probeTimer => probeTimer')
  <2>1. (probeTimer \/ probeArmed # {}) \in BOOLEAN /\ probeTimer \in BOOLEAN
    BY Zenon DEF ProbeInv, ProbeTyped
  <2> QED BY <1>1, <2>1 DEF Probe!RearmsTimer
<1>10. ProbeTyped'
  <2>1. Len(probePasses') <= MaxPasses
    BY <1>2, <1>7, ProbeAssumption
  <2> QED BY <1>1, <1>6, <1>9, <2>1 DEF ProbeInv, ProbeTyped
<1>11. Probe!SweepsGoOn'
  <2> SUFFICES ASSUME probeArmed' # {}, ~probeTimer' PROVE \E j \in DOMAIN probePasses' : probePasses'[j].sweep
    BY DEF Probe!SweepsGoOn
  <2>1. PICK j \in DOMAIN probePasses : probePasses[j].sweep /\ j # i
    BY <1>1, <1>9 DEF ProbeInv, Probe!SweepsGoOn
  <2>2. CASE j < i
    <3>1. j \in DOMAIN probePasses' /\ probePasses'[j] = probePasses[j]
      BY <1>2, <1>7, <1>8, <2>2
    <3> QED BY <2>1, <3>1
  <2>3. CASE j > i
    <3>1. j - 1 \in DOMAIN probePasses' /\ probePasses'[j - 1] = probePasses[j]
      BY <1>2, <1>7, <1>8, <2>3
    <3> QED BY <2>1, <3>1
  <2> QED BY <1>2, <2>1, <2>2, <2>3
<1> QED BY <1>1, <1>10, <1>11, MetersStay DEF ProbeInv

LEMMA ToldKeeps ==
    ASSUME ProbeInv, NEW m \in Meters, Probe!Told(m)
    PROVE  ProbeInv'
<1> DEFINE q == probeReplies[m]  frame == Head(q)  rest == Tail(q)
<1>1. /\ q # <<>> /\ probeReplies' = [probeReplies EXCEPT ![m] = rest]
      /\ probeShown' = [probeShown EXCEPT ![m] = frame.of]
      /\ probeUnsure' = [probeUnsure EXCEPT ![m] = @ /\ ~frame.last]
      /\ UNCHANGED <<probeArmed, probeTimer, probeTick, probePasses, probeUp, probeHeld, probeWrites, probeChanges,
                      probeDrops, probeReloads>>
  BY DEF Probe!Told, Probe!Frame, Probe!polling, Probe!counts
<1>2. q \in Seq(ReplyRecord) /\ probeHeld[m] \in Probe!Corridor /\ MeterKept(m) /\ probeUnsure[m] \in BOOLEAN
  BY DEF ProbeInv, ProbeTyped
<1>3. /\ frame \in ReplyRecord /\ rest \in Seq(ReplyRecord) /\ QueueRight(rest, probeHeld[m])
      /\ frame.last => frame.of = probeHeld[m] /\ LastWords(rest)
      /\ LastWords(q) => frame.last
  BY <1>1, <1>2, AnswerTold DEF MeterKept
<1>4. frame.of \in Probe!Corridor
  BY <1>3 DEF ReplyRecord
<1>5. (probeUnsure[m] /\ ~frame.last) \in BOOLEAN
  BY Zenon
<1> HIDE DEF frame, rest
<1>6. /\ probeReplies' \in [Meters -> Seq(ReplyRecord)] /\ probeReplies'[m] = rest
      /\ \A n \in Meters \ {m} : probeReplies'[n] = probeReplies[n]
  BY <1>1, <1>3 DEF ProbeInv, ProbeTyped
<1>7. /\ probeShown' \in [Meters -> Probe!Corridor] /\ probeShown'[m] = frame.of
      /\ \A n \in Meters \ {m} : probeShown'[n] = probeShown[n]
  BY <1>1, <1>4 DEF ProbeInv, ProbeTyped
<1>8. /\ probeUnsure' \in [Meters -> BOOLEAN] /\ probeUnsure'[m] = (probeUnsure[m] /\ ~frame.last)
      /\ \A n \in Meters \ {m} : probeUnsure'[n] = probeUnsure[n]
  BY <1>1, <1>5 DEF ProbeInv, ProbeTyped
<1>9. MeterKept(m)'
  <2>1. ~probeUnsure'[m] => frame.last
    BY <1>2, <1>3, <1>8 DEF MeterKept
  <2> QED BY <1>1, <1>3, <1>6, <1>7, <2>1 DEF MeterKept
<1>10. \A n \in Meters \ {m} : MeterKept(n)'
  BY <1>1, <1>6, <1>7, <1>8 DEF MeterKept, ProbeInv
<1>11. ProbeTyped' /\ Probe!SweepsGoOn'
  BY <1>1, <1>6, <1>7, <1>8 DEF ProbeInv, ProbeTyped, Probe!SweepsGoOn
<1> QED BY <1>9, <1>10, <1>11 DEF ProbeInv

\* A change of a device's limits: what is on its way no longer counts.
LEMMA ChangeKeeps ==
    ASSUME ProbeInv, NEW m \in Meters, NEW q \in Seq(ReplyRecord),
           probeHeld' \in [Meters -> Probe!Corridor], \A n \in Meters \ {m} : probeHeld'[n] = probeHeld[n],
           QueueRight(q, probeHeld'[m]), probeReplies' = [probeReplies EXCEPT ![m] = q],
           probeUnsure' = [probeUnsure EXCEPT ![m] = TRUE], UNCHANGED probeShown
    PROVE  /\ probeReplies' \in [Meters -> Seq(ReplyRecord)] /\ probeUnsure' \in [Meters -> BOOLEAN]
           /\ \A n \in Meters : MeterKept(n)'
<1>1. /\ probeReplies' \in [Meters -> Seq(ReplyRecord)] /\ probeReplies'[m] = q
      /\ \A n \in Meters \ {m} : probeReplies'[n] = probeReplies[n]
  BY DEF ProbeInv, ProbeTyped
<1>2. /\ probeUnsure' \in [Meters -> BOOLEAN] /\ probeUnsure'[m]
      /\ \A n \in Meters \ {m} : probeUnsure'[n] = probeUnsure[n]
  BY ReplyFlags DEF ProbeInv, ProbeTyped
<1>3. MeterKept(m)'
  BY <1>1, <1>2 DEF MeterKept
<1>4. \A n \in Meters \ {m} : MeterKept(n)'
  BY <1>1, <1>2 DEF MeterKept, ProbeInv
<1> QED BY <1>1, <1>2, <1>3, <1>4

LEMMA SetLimitKeeps ==
    ASSUME ProbeInv, NEW m \in Meters, NEW l \in Limits, NEW v \in Values, Probe!SetLimit(m, l, v)
    PROVE  ProbeInv'
<1> DEFINE old == Probe!NotLast(probeReplies[m])  answer == Append(old, [of |-> probeHeld'[m], last |-> TRUE])
<1>1. /\ probeWrites < MaxWrites /\ probeWrites' = probeWrites + 1
      /\ probeHeld' = probeHeld \/ probeHeld' = [probeHeld EXCEPT ![m] = Probe!Carried(m, l, v)]
      /\ \/ probeReplies' = [probeReplies EXCEPT ![m] = old]
         \/ probeReplies' = [probeReplies EXCEPT ![m] = answer]
      /\ probeUnsure' = [probeUnsure EXCEPT ![m] = TRUE]
      /\ UNCHANGED <<probeArmed, probeTimer, probeTick, probePasses, probeUp, probeShown, probeChanges, probeDrops, probeReloads>>
  BY DEF Probe!SetLimit, Probe!polling
<1>2. Probe!Carried(m, l, v) \in Probe!Corridor
  BY DEF Probe!Carried, Probe!Corridor, ProbeInv, ProbeTyped
<1>3. probeHeld' \in [Meters -> Probe!Corridor] /\ \A n \in Meters \ {m} : probeHeld'[n] = probeHeld[n]
  BY <1>1, <1>2 DEF ProbeInv, ProbeTyped
<1>4. old \in Seq(ReplyRecord) /\ QueueRight(old, probeHeld'[m])
  BY AnswersAged DEF ProbeInv, ProbeTyped
<1>5. answer \in Seq(ReplyRecord) /\ QueueRight(answer, probeHeld'[m])
  BY <1>3, <1>4, AnswerAdded
<1> HIDE DEF old, answer
<1>6. /\ probeReplies' \in [Meters -> Seq(ReplyRecord)] /\ probeUnsure' \in [Meters -> BOOLEAN]
      /\ \A n \in Meters : MeterKept(n)'
  BY <1>1, <1>3, <1>4, <1>5, ChangeKeeps
<1>7. probeWrites' \in 0..MaxWrites
  BY <1>1, ProbeAssumption DEF ProbeInv, ProbeTyped
<1> QED BY <1>1, <1>3, <1>6, <1>7 DEF ProbeInv, ProbeTyped, Probe!SweepsGoOn

LEMMA AppSetsKeeps ==
    ASSUME ProbeInv, NEW m \in Meters, NEW l \in Limits, NEW v \in Values, Probe!AppSets(m, l, v)
    PROVE  ProbeInv'
<1> DEFINE old == Probe!NotLast(probeReplies[m])  new == [probeHeld[m] EXCEPT ![l] = v]
<1>1. /\ probeChanges < MaxAppChanges /\ probeChanges' = probeChanges + 1
      /\ probeHeld' = [probeHeld EXCEPT ![m] = new]
      /\ probeReplies' = [probeReplies EXCEPT ![m] = old]
      /\ probeUnsure' = [probeUnsure EXCEPT ![m] = TRUE]
      /\ UNCHANGED <<probeArmed, probeTimer, probeTick, probePasses, probeUp, probeShown, probeWrites, probeDrops, probeReloads>>
  BY DEF Probe!AppSets, Probe!polling
<1>2. new \in Probe!Corridor
  BY DEF Probe!Corridor, ProbeInv, ProbeTyped
<1> HIDE DEF new
<1>3. probeHeld' \in [Meters -> Probe!Corridor] /\ \A n \in Meters \ {m} : probeHeld'[n] = probeHeld[n]
  BY <1>1, <1>2 DEF ProbeInv, ProbeTyped
<1>4. old \in Seq(ReplyRecord) /\ QueueRight(old, probeHeld'[m])
  BY AnswersAged DEF ProbeInv, ProbeTyped
<1> HIDE DEF old
<1>5. /\ probeReplies' \in [Meters -> Seq(ReplyRecord)] /\ probeUnsure' \in [Meters -> BOOLEAN]
      /\ \A n \in Meters : MeterKept(n)'
  BY <1>1, <1>3, <1>4, ChangeKeeps
<1>6. probeChanges' \in 0..MaxAppChanges
  BY <1>1, ProbeAssumption DEF ProbeInv, ProbeTyped
<1> QED BY <1>1, <1>3, <1>5, <1>6 DEF ProbeInv, ProbeTyped, Probe!SweepsGoOn

LEMMA DropsKeeps ==
    ASSUME ProbeInv, Probe!Drops
    PROVE  ProbeInv'
<1>1. /\ probeDrops < MaxDrops /\ probeDrops' = probeDrops + 1 /\ probeUp' = FALSE
      /\ probeReplies' = [m \in Meters |-> <<>>]
      /\ UNCHANGED <<probeArmed, probeTimer, probeTick, probePasses, probeHeld, probeShown, probeUnsure, probeWrites, probeChanges,
                      probeReloads>>
  BY DEF Probe!Drops, Probe!polling
<1>2. probeReplies' \in [Meters -> Seq(ReplyRecord)] /\ probeDrops' \in 0..MaxDrops /\ probeUp' \in BOOLEAN
  <2>1. probeReplies' \in [Meters -> Seq(ReplyRecord)]
    BY <1>1
  <2>2. probeUp' \in BOOLEAN
    BY <1>1, ReplyFlags
  <2>3. probeDrops' \in 0..MaxDrops
    BY <1>1, ProbeAssumption DEF ProbeInv, ProbeTyped
  <2> QED BY <2>1, <2>2, <2>3
<1>3. \A m \in Meters : MeterKept(m)'
  BY <1>1 DEF ProbeInv, MeterKept, QueueRight, LastWords
<1> QED BY <1>1, <1>2, <1>3 DEF ProbeInv, ProbeTyped, Probe!SweepsGoOn

LEMMA ConnectsKeeps ==
    ASSUME ProbeInv, Probe!Connects
    PROVE  ProbeInv'
<1>1. /\ probeUp' = TRUE
      /\ UNCHANGED <<probeArmed, probeTimer, probeTick, probePasses, probeHeld, probeShown, probeReplies, probeUnsure, probeWrites,
                      probeChanges, probeDrops, probeReloads>>
  BY DEF Probe!Connects, Probe!polling, Probe!limits, Probe!counts
<1>2. probeUp' \in BOOLEAN
  BY <1>1, ReplyFlags
<1>3. \A m \in Meters : MeterKept(m)'
  BY <1>1, MetersStay DEF ProbeInv
<1> QED BY <1>1, <1>2, <1>3 DEF ProbeInv, ProbeTyped, Probe!SweepsGoOn

\* A finite set has a sequence of its members.
LEMMA Listed ==
    ASSUME NEW on, IsFiniteSet(on)
    PROVE  /\ Probe!Cardinality(on) \in Nat
           /\ \A i \in 1..Probe!Cardinality(on) : Probe!SetToSeq(on)[i] \in on
<1>1. Probe!Cardinality(on) = Cardinality(on)
  BY DEF Probe!Cardinality, Cardinality
<1>2. Cardinality(on) \in Nat /\ ExistsBijection(1..Cardinality(on), on)
  BY FS_CardinalityType
<1>3. PICK list \in [1..Cardinality(on) -> on] : \A i, j \in 1..Cardinality(on) : list[i] = list[j] => i = j
  BY <1>2 DEF ExistsBijection, Bijection, Injection, IsInjective
<1>4. \E f \in [1..Cardinality(on) -> on] : Probe!IsInjective(f)
  BY <1>3 DEF Probe!IsInjective
<1>5. Probe!SetToSeq(on) \in [1..Cardinality(on) -> on]
  BY <1>1, <1>4 DEF Probe!SetToSeq
<1> QED BY <1>1, <1>2, <1>5

LEMMA ProbeReloadKeeps ==
    ASSUME ProbeInv, Probe!Reload
    PROVE  ProbeInv'
<1>1. /\ probeReloads < MaxProbeReloads /\ probeReloads' = probeReloads + 1 /\ probeTick' = 0
      /\ probeShown' = [m \in Meters |-> Probe!NoLimits] /\ probeReplies' = [m \in Meters |-> <<>>]
      /\ probeUnsure' = [m \in Meters |-> TRUE]
      /\ UNCHANGED <<probeUp, probeHeld, probeWrites, probeChanges, probeDrops>>
  BY DEF Probe!Reload
<1>2. PICK on \in SUBSET probeArmed :
        /\ probeArmed' = on /\ probeTimer' = (on # {})
        /\ probePasses' = IF Probe!Cardinality(on) > MaxPasses THEN <<>>
                          ELSE [i \in 1..Probe!Cardinality(on) |-> Probe!Burst(Probe!SetToSeq(on)[i])]
  BY DEF Probe!Reload
<1>3. on \subseteq Meters
  BY DEF ProbeInv, ProbeTyped
<1>4. IsFiniteSet(on)
  BY <1>3, ProbeAssumption, FS_Subset
<1>5. probePasses' \in Seq(Probe!Pass) /\ Len(probePasses') <= MaxPasses
  <2> DEFINE n == Probe!Cardinality(on)  burst(i) == Probe!Burst(Probe!SetToSeq(on)[i])
  <2>1. n \in Nat /\ \A i \in 1..n : burst(i) \in Probe!Pass
    BY <1>3, <1>4, Listed, BurstTyped
  <2>2. probePasses' = IF n > MaxPasses THEN <<>> ELSE [i \in 1..n |-> burst(i)]
    BY <1>2
  <2> HIDE DEF n, burst
  <2>3. CASE n > MaxPasses
    BY <2>2, <2>3, ProbeAssumption
  <2>4. CASE ~(n > MaxPasses)
    <3>1. probePasses' = [i \in 1..n |-> burst(i)]
      BY <2>2, <2>4
    <3>2. probePasses' \in Seq(Probe!Pass) /\ Len(probePasses') = n
      BY <2>1, <3>1
    <3> QED BY <2>1, <2>4, <3>2, ProbeAssumption
  <2> QED BY <2>3, <2>4
<1>6. probeTimer' \in BOOLEAN /\ (probeArmed' # {} => probeTimer')
  <2>1. (on # {}) \in BOOLEAN
    BY Zenon
  <2> QED BY <1>2, <2>1
<1>7. /\ probeShown' \in [Meters -> Probe!Corridor] /\ probeReplies' \in [Meters -> Seq(ReplyRecord)]
      /\ probeUnsure' \in [Meters -> BOOLEAN]
  BY <1>1, UnsetTyped, ReplyFlags
<1>8. probeReloads' \in 0..MaxProbeReloads /\ probeTick' \in 0..ReadEvery - 1
  BY <1>1, ProbeAssumption DEF ProbeInv, ProbeTyped
<1>9. ProbeTyped'
  BY <1>1, <1>2, <1>3, <1>5, <1>6, <1>7, <1>8 DEF ProbeInv, ProbeTyped
<1>10. \A m \in Meters : MeterKept(m)'
  BY <1>1 DEF ProbeInv, MeterKept, QueueRight, LastWords
<1> QED BY <1>6, <1>9, <1>10 DEF ProbeInv, Probe!SweepsGoOn

LEMMA ProbeGoesOn == ProbeInv /\ [Probe!Next]_(Probe!vars) => ProbeInv'
<1> SUFFICES ASSUME ProbeInv, [Probe!Next]_(Probe!vars) PROVE ProbeInv'
  OBVIOUS
<1>1. CASE UNCHANGED Probe!vars
  <2>1. UNCHANGED <<probeArmed, probeTimer, probeTick, probePasses, probeUp, probeHeld, probeShown, probeReplies, probeUnsure,
                    probeWrites, probeChanges, probeDrops, probeReloads>>
    BY <1>1 DEF Probe!vars, Probe!polling, Probe!limits, Probe!counts
  <2>2. \A m \in Meters : MeterKept(m)'
    BY <2>1, MetersStay DEF ProbeInv
  <2> QED BY <2>1, <2>2 DEF ProbeInv, ProbeTyped, Probe!SweepsGoOn
<1>2. CASE Probe!Next
  BY <1>2, ArmKeeps, DisarmKeeps, ToldKeeps, SetLimitKeeps, AppSetsKeeps, ReadKeeps, PassEndsKeeps, TimerKeeps, DropsKeeps,
     ConnectsKeeps, ProbeReloadKeeps DEF Probe!Next
<1> QED BY <1>1, <1>2

LEMMA ProbeIsRight == ProbeInv => Probe!TypeOK /\ Probe!ProbesAreRight
<1> SUFFICES ASSUME ProbeInv PROVE Probe!TypeOK /\ Probe!ProbesAreRight
  OBVIOUS
<1>1. \A i \in DOMAIN probePasses : probePasses[i] \in Probe!Pass
  BY DEF ProbeInv, ProbeTyped
<1>2. ASSUME NEW m \in Meters, NEW i \in DOMAIN probeReplies[m]
      PROVE  probeReplies[m][i] \in [of : Probe!Corridor, last : BOOLEAN]
  <2>1. probeReplies[m] \in Seq(ReplyRecord)
    BY DEF ProbeInv, ProbeTyped
  <2>2. probeReplies[m][i] \in ReplyRecord
    BY <2>1
  <2> QED BY <2>2 DEF ReplyRecord
<1>3. Probe!TypeOK
  BY <1>1, <1>2 DEF ProbeInv, ProbeTyped, Probe!TypeOK
<1>4. Probe!LimitsAreHeld
  BY DEF ProbeInv, MeterKept, Probe!LimitsAreHeld
<1> QED BY <1>3, <1>4 DEF ProbeInv, Probe!ProbesAreRight

\* For any thermometers, limits and overlaps of sweeps: while one is armed its
\* sweeps go on, and limits shown are the device's unless they changed since the
\* last reply applied was made (coordinator.py 3384-3421, 3436-3489).
THEOREM LimitsShownRight == Probe!Spec => []Probe!ProbesAreRight
<1> QED BY ProbeStarts, ProbeGoesOn, ProbeIsRight, PTL DEF Probe!Spec

-----------------------------------------------------------------------------
(* The kettle: its mode, and the chain of reads after a command.             *)

Readers  == {"poll", "follow"}
Works    == {"brew", "custom", Nothing}
SlotsSet == {"c1", "c2", Nothing}
ModeShown == [work : Works, value : SlotsSet, slot : SlotsSet]
ModeHeld  == [left : SUBSET Kettle!Fields, at : Kettle!Modes, age : 0..(Protect + 1)]
Chain     == [gen : 0..MaxKettleMoves, next : 1..Followups, reads : BOOLEAN]
ReadOpen  == [open : BOOLEAN, says : Works, aged : BOOLEAN, older : BOOLEAN]

KettleTyped ==
    /\ kettleRunning \in BOOLEAN /\ kettleMode \in ModeShown /\ kettleProtected \in ModeHeld
    /\ kettleGen \in 0..MaxKettleMoves \cup {Nothing} /\ kettleHandle \in 0..MaxKettleMoves \cup {Nothing}
    /\ kettleChains \subseteq Chain /\ kettleReads \in [Readers -> ReadOpen]
    /\ kettleKettle \in Kettle!Modes /\ cloudSays \in Kettle!Modes /\ kettleBehind \in 0..Lag /\ kettleKept \in SlotsSet
    /\ kettleUnheard \in BOOLEAN /\ kettleReordered \in BOOLEAN
    /\ kettleMoves \in 0..MaxKettleMoves /\ kettleBoots \in 0..MaxKettleBoots

\* A chain that waits is the newest command's, whose canceller is stored.
OneChain ==
    /\ \A c, d \in kettleChains : c.gen = d.gen => c = d
    /\ \A c \in kettleChains : ~c.reads => kettleHandle = c.gen
    /\ \A c \in kettleChains : c.gen = kettleGen => kettleHandle = kettleGen
    /\ kettleHandle # Nothing => kettleHandle = kettleGen /\ kettleRunning
    /\ kettleRunning => kettleGen # Nothing
    /\ kettleGen # Nothing => kettleGen <= kettleMoves /\ \A c \in kettleChains : c.gen <= kettleGen

\* No read outlives the entry, each knows what it says, and two at once are noted.
ReadsCounted ==
    /\ ~kettleRunning => \A r \in Readers : ~kettleReads[r].open
    /\ \A r \in Readers : kettleReads[r].open => kettleReads[r].says # Nothing
    /\ ~kettleReordered => ~(kettleReads["poll"].open /\ kettleReads["follow"].open)

\* The mode is the kettle's, as commanded or pushed, and is protected as long as
\* the cloud says otherwise.
ModeRight ==
    /\ kettleProtected.left # {} => kettleProtected.at = kettleKettle
    /\ "work" \in kettleProtected.left /\ kettleKettle # "brew" => "slot" \in kettleProtected.left
    /\ Kettle!Work(cloudSays) # Kettle!Work(kettleKettle) =>
         "work" \in kettleProtected.left /\ kettleProtected.age <= kettleBehind
    /\ (kettleMode = Kettle!Unknown \/ ~kettleRunning) => kettleKept = Kettle!Slot(kettleKettle)
    /\ kettleRunning /\ kettleMode = Kettle!Unknown => kettleProtected.left = {}
    /\ kettleRunning /\ kettleMode # Kettle!Unknown =>
         /\ kettleMode.work = Kettle!Work(kettleKettle) /\ kettleMode.slot = Kettle!Slot(kettleKettle)
         /\ kettleMode.value \in {Kettle!Slot(kettleKettle), Nothing}

\* A read that is open meets a protection that outlasts it, where it needs one.
ReadRight(r) ==
    kettleReads[r].open =>
        /\ kettleReads[r].older =>
             kettleProtected.left = Kettle!Fields /\ kettleProtected.age <= IF kettleReads[r].aged THEN 1 ELSE 0
        /\ ~kettleReads[r].older /\ kettleReads[r].says # Kettle!Work(kettleKettle) =>
             "work" \in kettleProtected.left /\ kettleProtected.age <= Lag + IF kettleReads[r].aged THEN 1 ELSE 0
        /\ ~kettleReads[r].older /\ cloudSays # kettleKettle => kettleReads[r].says = Kettle!Work(cloudSays)

Heard == ~kettleUnheard /\ ~kettleReordered

HeardRight == Heard => ModeRight /\ \A r \in Readers : ReadRight(r)

KettleInv == KettleTyped /\ OneChain /\ ReadsCounted /\ HeardRight

LEMMA TrueOrFalse == TRUE \in BOOLEAN /\ FALSE \in BOOLEAN
  BY Zenon

LEMMA ModesTyped ==
    ASSUME NEW m \in Kettle!Modes
    PROVE  /\ Kettle!Work(m) \in {"brew", "custom"} /\ Kettle!Slot(m) \in SlotsSet
           /\ Kettle!Work(m) # Nothing /\ (m = "brew" <=> Kettle!Work(m) = "brew")
           /\ m = "brew" => Kettle!Slot(m) = Nothing
           /\ m # "brew" => Kettle!Slot(m) = m /\ m \in {"c1", "c2"}
  BY KettleAssumption DEF Kettle!Modes, Kettle!Work, Kettle!Slot, SlotsSet

LEMMA KettleStarts == Kettle!Init => KettleInv
<1> SUFFICES ASSUME Kettle!Init PROVE KettleInv
  OBVIOUS
<1>1. /\ kettleRunning = TRUE /\ kettleMode = Kettle!Unknown /\ kettleProtected = Kettle!Free /\ kettleGen = 0
      /\ kettleChains = {} /\ kettleHandle = Nothing /\ kettleReads = [r \in Readers |-> Kettle!NoRead]
      /\ kettleKettle = "brew" /\ cloudSays = "brew" /\ kettleBehind = 0 /\ kettleKept = Nothing
      /\ kettleUnheard = FALSE /\ kettleReordered = FALSE /\ kettleMoves = 0 /\ kettleBoots = 0
  BY DEF Kettle!Init, Readers
<1>2. Kettle!Unknown \in ModeShown /\ Kettle!NoRead \in ReadOpen
  BY TrueOrFalse DEF Kettle!Unknown, Kettle!NoRead, ModeShown, ReadOpen, Works, SlotsSet
<1>3. Kettle!Free \in ModeHeld /\ Kettle!Free.left = {}
  BY KettleAssumption DEF Kettle!Free, ModeHeld, Kettle!Modes
<1>4. kettleReads \in [Readers -> ReadOpen] /\ \A r \in Readers : ~kettleReads[r].open
  BY <1>1, <1>2 DEF Kettle!NoRead
<1>5. kettleRunning \in BOOLEAN /\ kettleUnheard \in BOOLEAN /\ kettleReordered \in BOOLEAN
  BY <1>1, TrueOrFalse
<1>6. KettleTyped
  BY <1>1, <1>2, <1>3, <1>4, <1>5, KettleAssumption DEF KettleTyped, Kettle!Modes, SlotsSet
<1>7. OneChain
  BY <1>1, KettleAssumption DEF OneChain
<1>8. ReadsCounted
  BY <1>1, <1>4 DEF ReadsCounted, Readers
<1>9. ModeRight
  BY <1>1, <1>3 DEF ModeRight, Kettle!Slot
<1> QED BY <1>4, <1>6, <1>7, <1>8, <1>9 DEF KettleInv, HeardRight, ReadRight

\* A mode that is set here or pushed is the kettle's, and is protected.
LEMMA ModeTaken ==
    ASSUME KettleTyped, ReadsCounted, NEW m \in Kettle!Modes, kettleKettle' = m, kettleRunning,
           Kettle!SetTo(m), Kettle!Protects(m), UNCHANGED <<kettleRunning, cloudSays, kettleBehind>>
    PROVE  /\ kettleMode' \in ModeShown /\ kettleProtected' \in ModeHeld /\ kettleReads' \in [Readers -> ReadOpen]
           /\ \A r \in Readers : kettleReads'[r].open = kettleReads[r].open /\ kettleReads'[r].says = kettleReads[r].says
           /\ ModeRight' /\ \A r \in Readers : ReadRight(r)'
<1>1. /\ kettleMode' = [work |-> Kettle!Work(m), value |-> Kettle!Slot(m), slot |-> Kettle!Slot(m)]
      /\ kettleProtected' = [left |-> Kettle!Fields, at |-> m, age |-> 0]
      /\ kettleReads' = [r \in DOMAIN kettleReads |-> [kettleReads[r] EXCEPT !.older = kettleReads[r].open]]
  BY DEF Kettle!SetTo, Kettle!Protects
<1>2. /\ kettleMode'.work = Kettle!Work(m) /\ kettleMode'.value = Kettle!Slot(m) /\ kettleMode'.slot = Kettle!Slot(m)
      /\ kettleMode' \in ModeShown
  BY <1>1, ModesTyped DEF ModeShown, Works
<1>3. /\ kettleProtected'.left = Kettle!Fields /\ kettleProtected'.at = m /\ kettleProtected'.age = 0
      /\ kettleProtected' \in ModeHeld
  BY <1>1, KettleAssumption DEF ModeHeld
<1>4. kettleReads \in [Readers -> ReadOpen] /\ DOMAIN kettleReads = Readers
  BY DEF KettleTyped
<1>5. ASSUME NEW r \in Readers
      PROVE  /\ kettleReads'[r].open = kettleReads[r].open /\ kettleReads'[r].says = kettleReads[r].says
             /\ kettleReads'[r].older = kettleReads[r].open /\ kettleReads'[r] \in ReadOpen
  <2>1. kettleReads[r] \in ReadOpen /\ kettleReads'[r] = [kettleReads[r] EXCEPT !.older = kettleReads[r].open]
    BY <1>1, <1>4
  <2> QED BY <2>1 DEF ReadOpen
<1>6. kettleReads' \in [Readers -> ReadOpen]
  <2>1. kettleReads' = [r \in Readers |-> kettleReads'[r]]
    BY <1>1, <1>4
  <2> QED BY <1>5, <2>1
<1>7. kettleMode' # Kettle!Unknown
  BY <1>2, ModesTyped DEF Kettle!Unknown
<1>8. "work" \in Kettle!Fields /\ "slot" \in Kettle!Fields
  BY DEF Kettle!Fields
<1>9. 0 <= kettleBehind
  BY KettleAssumption DEF KettleTyped
<1>10. ModeRight'
  BY <1>2, <1>3, <1>7, <1>8, <1>9 DEF ModeRight
<1>11. ASSUME NEW r \in Readers PROVE ReadRight(r)'
  BY <1>3, <1>5 DEF ReadRight
<1> QED BY <1>2, <1>3, <1>5, <1>6, <1>10, <1>11

LEMMA ReadsAlike ==
    ASSUME ReadsCounted, UNCHANGED <<kettleRunning, kettleReordered>>,
           \A r \in Readers : kettleReads'[r].open = kettleReads[r].open /\ kettleReads'[r].says = kettleReads[r].says
    PROVE  ReadsCounted'
  BY DEF ReadsCounted, Readers

LEMMA MovesCount ==
    ASSUME KettleTyped, kettleMoves < MaxKettleMoves, kettleMoves' = kettleMoves + 1
    PROVE  kettleMoves' \in 0..MaxKettleMoves
  BY KettleAssumption DEF KettleTyped

LEMMA CommandKeeps ==
    ASSUME KettleInv, NEW m \in Kettle!Modes, Kettle!Command(m)
    PROVE  KettleInv'
<1> USE DEF KettleInv
<1> DEFINE new == [gen |-> kettleGen + 1, next |-> 1, reads |-> FALSE]
           left == {c \in kettleChains : c.reads \/ c.gen # kettleHandle}
<1>1. /\ kettleRunning /\ kettleKettle' = m /\ kettleMoves < MaxKettleMoves /\ kettleMoves' = kettleMoves + 1
      /\ Kettle!SetTo(m) /\ Kettle!Protects(m) /\ kettleUnheard' = FALSE
      /\ kettleGen' = kettleGen + 1 /\ kettleHandle' = kettleGen + 1 /\ kettleChains' = left \cup {new}
      /\ UNCHANGED <<kettleRunning, cloudSays, kettleBehind, kettleKept, kettleReordered, kettleBoots>>
  BY DEF Kettle!Command, Kettle!KettleMoves, Kettle!Schedules
<1>2. /\ kettleMode' \in ModeShown /\ kettleProtected' \in ModeHeld /\ kettleReads' \in [Readers -> ReadOpen]
      /\ \A r \in Readers : kettleReads'[r].open = kettleReads[r].open /\ kettleReads'[r].says = kettleReads[r].says
      /\ ModeRight' /\ \A r \in Readers : ReadRight(r)'
  BY <1>1, ModeTaken
<1>3. kettleGen \in 0..MaxKettleMoves /\ kettleGen <= kettleMoves /\ kettleMoves \in 0..MaxKettleMoves
  BY <1>1 DEF OneChain, KettleTyped
<1>4. kettleGen' \in 0..MaxKettleMoves /\ kettleGen' <= kettleMoves' /\ kettleMoves' \in 0..MaxKettleMoves
  BY <1>1, <1>3, KettleAssumption
<1>5. new \in Chain /\ new.gen = kettleGen + 1 /\ ~new.reads
  <2>1. 1 \in 1..Followups /\ kettleGen + 1 \in 0..MaxKettleMoves
    BY <1>1, <1>4, KettleAssumption
  <2> QED BY <2>1, TrueOrFalse DEF Chain
<1> HIDE DEF new
<1>6. \A c \in left : c \in kettleChains /\ c.reads /\ c.gen \in Nat /\ c.gen <= kettleGen
  <2> SUFFICES ASSUME NEW c \in left PROVE c \in kettleChains /\ c.reads /\ c.gen \in Nat /\ c.gen <= kettleGen
    OBVIOUS
  <2>1. c \in kettleChains /\ c \in Chain /\ (c.reads \/ c.gen # kettleHandle)
    BY DEF KettleTyped
  <2>2. c.gen \in Nat
    BY <2>1 DEF Chain
  <2>3. kettleGen # Nothing
    BY <1>3, KettleAssumption
  <2> QED BY <2>1, <2>2, <2>3 DEF OneChain
<1>7. left \subseteq Chain
  BY <1>6 DEF KettleTyped
<1> HIDE DEF left
<1>8. KettleTyped'
  BY <1>1, <1>2, <1>4, <1>5, <1>7, TrueOrFalse DEF KettleTyped
<1>9. OneChain'
  <2>1. \A c, d \in kettleChains' : c.gen = d.gen => c = d
    BY <1>1, <1>3, <1>5, <1>6 DEF OneChain
  <2>2. \A c \in kettleChains' : (~c.reads => kettleHandle' = c.gen) /\ c.gen <= kettleGen'
    BY <1>1, <1>3, <1>5, <1>6
  <2>3. kettleHandle' = kettleGen' /\ kettleRunning' /\ kettleGen' # Nothing
    BY <1>1, <1>4, KettleAssumption
  <2> QED BY <1>4, <2>1, <2>2, <2>3 DEF OneChain
<1>10. ReadsCounted'
  BY <1>1, <1>2, ReadsAlike
<1> QED BY <1>2, <1>8, <1>9, <1>10 DEF HeardRight

LEMMA ChangedKeeps ==
    ASSUME KettleInv, NEW m \in Kettle!Modes, NEW heard \in BOOLEAN, Kettle!Changed(m, heard)
    PROVE  KettleInv'
<1> USE DEF KettleInv
<1>1. /\ kettleKettle' = m /\ kettleMoves < MaxKettleMoves /\ kettleMoves' = kettleMoves + 1 /\ (heard => kettleRunning)
      /\ kettleUnheard' = ~heard
      /\ UNCHANGED <<kettleRunning, kettleGen, kettleChains, kettleHandle, cloudSays, kettleBehind, kettleKept, kettleReordered,
                      kettleBoots>>
  BY DEF Kettle!Changed, Kettle!KettleMoves
<1>2. kettleMoves' \in 0..MaxKettleMoves /\ kettleMoves <= kettleMoves' /\ kettleUnheard' \in BOOLEAN
  <2>1. kettleUnheard' \in BOOLEAN
    BY <1>1, Zenon
  <2> QED BY <1>1, <2>1, MovesCount DEF KettleTyped
<1>3. OneChain'
  <2>1. kettleGen # Nothing => kettleGen <= kettleMoves'
    BY <1>1, <1>2 DEF OneChain, KettleTyped
  <2> QED BY <1>1, <2>1 DEF OneChain
<1>4. CASE heard
  <2>1. Kettle!SetTo(m) /\ Kettle!Protects(m)
    BY <1>4 DEF Kettle!Changed
  <2>2. /\ kettleMode' \in ModeShown /\ kettleProtected' \in ModeHeld /\ kettleReads' \in [Readers -> ReadOpen]
        /\ \A r \in Readers : kettleReads'[r].open = kettleReads[r].open /\ kettleReads'[r].says = kettleReads[r].says
        /\ ModeRight' /\ \A r \in Readers : ReadRight(r)'
    BY <1>1, <1>4, <2>1, ModeTaken
  <2>3. KettleTyped'
    BY <1>1, <1>2, <2>2 DEF KettleTyped
  <2>4. ReadsCounted'
    BY <1>1, <2>2, ReadsAlike
  <2> QED BY <1>3, <2>2, <2>3, <2>4 DEF HeardRight
<1>5. CASE ~heard
  <2>1. UNCHANGED <<kettleMode, kettleProtected, kettleReads>>
    BY <1>5 DEF Kettle!Changed
  <2>2. KettleTyped'
    BY <1>1, <1>2, <2>1 DEF KettleTyped
  <2>3. ReadsCounted'
    BY <1>1, <2>1, ReadsAlike
  <2>4. ~Heard'
    BY <1>1, <1>5 DEF Heard
  <2> QED BY <1>3, <2>2, <2>3, <2>4 DEF HeardRight
<1> QED BY <1>4, <1>5

LEMMA CloudLearnsKeeps ==
    ASSUME KettleInv, Kettle!CloudLearns
    PROVE  KettleInv'
<1> USE DEF KettleInv
<1>1. /\ cloudSays' = kettleKettle /\ kettleBehind' = 0
      /\ UNCHANGED <<kettleRunning, kettleMode, kettleProtected, kettleGen, kettleChains, kettleHandle, kettleReads, kettleKettle,
                      kettleKept, kettleUnheard, kettleReordered, kettleMoves, kettleBoots>>
  BY DEF Kettle!CloudLearns, Kettle!kcounts
<1>2. KettleTyped'
  BY <1>1, KettleAssumption DEF KettleTyped
<1>3. OneChain' /\ ReadsCounted'
  BY <1>1 DEF OneChain, ReadsCounted
<1>4. ModeRight => ModeRight'
  BY <1>1 DEF ModeRight
<1>5. \A r \in Readers : ReadRight(r) => ReadRight(r)'
  BY <1>1 DEF ReadRight
<1> QED BY <1>1, <1>2, <1>3, <1>4, <1>5 DEF HeardRight, Heard

LEMMA KettleTickKeeps ==
    ASSUME KettleInv, Kettle!Tick
    PROVE  KettleInv'
<1> USE DEF KettleInv
<1> DEFINE longer == IF kettleProtected.left # {} /\ kettleProtected.age <= Protect THEN kettleProtected.age + 1
                     ELSE kettleProtected.age
<1>1. /\ cloudSays # kettleKettle => kettleBehind < Lag
      /\ \A r \in DOMAIN kettleReads : ~kettleReads[r].aged
      /\ kettleBehind' = IF cloudSays # kettleKettle THEN kettleBehind + 1 ELSE 0
      /\ kettleReads' = [r \in DOMAIN kettleReads |-> [kettleReads[r] EXCEPT !.aged = kettleReads[r].open]]
      /\ kettleProtected' = [kettleProtected EXCEPT !.age = longer]
      /\ UNCHANGED <<kettleRunning, kettleMode, kettleGen, kettleChains, kettleHandle, kettleKettle, cloudSays,
                      kettleKept, kettleUnheard, kettleReordered, kettleMoves, kettleBoots>>
  BY DEF Kettle!Tick, Kettle!kcounts
<1>2. kettleReads \in [Readers -> ReadOpen] /\ DOMAIN kettleReads = Readers
  BY DEF KettleTyped
<1>3. ASSUME NEW r \in Readers
      PROVE  /\ kettleReads'[r].open = kettleReads[r].open /\ kettleReads'[r].says = kettleReads[r].says
             /\ kettleReads'[r].older = kettleReads[r].older /\ kettleReads'[r].aged = kettleReads[r].open
             /\ ~kettleReads[r].aged /\ kettleReads'[r] \in ReadOpen
  <2>1. /\ kettleReads[r] \in ReadOpen /\ kettleReads'[r] = [kettleReads[r] EXCEPT !.aged = kettleReads[r].open]
        /\ ~kettleReads[r].aged
    BY <1>1, <1>2
  <2> QED BY <2>1 DEF ReadOpen
<1>4. kettleReads' \in [Readers -> ReadOpen]
  <2>1. kettleReads' = [r \in Readers |-> kettleReads'[r]]
    BY <1>1, <1>2
  <2> QED BY <1>3, <2>1
<1>5. kettleProtected \in ModeHeld /\ kettleProtected.age \in 0..(Protect + 1)
  BY DEF KettleTyped, ModeHeld
<1>6. longer \in 0..(Protect + 1) /\ longer <= kettleProtected.age + 1
  BY <1>5, KettleAssumption
<1> HIDE DEF longer
<1>7. /\ kettleProtected' \in ModeHeld /\ kettleProtected'.left = kettleProtected.left
      /\ kettleProtected'.at = kettleProtected.at /\ kettleProtected'.age = longer
  BY <1>1, <1>5, <1>6 DEF ModeHeld
<1>8. kettleBehind' \in 0..Lag
  BY <1>1, KettleAssumption DEF KettleTyped
<1>9. KettleTyped'
  BY <1>1, <1>4, <1>7, <1>8 DEF KettleTyped
<1>10. OneChain' /\ ReadsCounted'
  BY <1>1, <1>3, ReadsAlike DEF OneChain
<1>11. ASSUME ModeRight PROVE ModeRight'
  <2>1. Kettle!Work(cloudSays) # Kettle!Work(kettleKettle) => "work" \in kettleProtected.left /\ longer <= kettleBehind'
    <3> SUFFICES ASSUME Kettle!Work(cloudSays) # Kettle!Work(kettleKettle)
                 PROVE  "work" \in kettleProtected.left /\ longer <= kettleBehind'
      OBVIOUS
    <3>1. kettleBehind' = kettleBehind + 1 /\ kettleProtected.age <= kettleBehind /\ "work" \in kettleProtected.left
      BY <1>1, <1>11 DEF ModeRight
    <3> QED BY <1>5, <1>6, <3>1 DEF KettleTyped
  <2>2. Kettle!Work(cloudSays)' = Kettle!Work(cloudSays) /\ Kettle!Work(kettleKettle)' = Kettle!Work(kettleKettle)
    BY <1>1
  <2> QED BY <1>1, <1>7, <1>11, <2>1, <2>2 DEF ModeRight
<1>12. ASSUME NEW r \in Readers, ReadRight(r) PROVE ReadRight(r)'
  <2> SUFFICES ASSUME kettleReads[r].open PROVE ReadRight(r)'
    BY <1>3 DEF ReadRight
  <2>1. /\ kettleReads[r].older => kettleProtected.left = Kettle!Fields /\ kettleProtected.age <= 0
        /\ ~kettleReads[r].older /\ kettleReads[r].says # Kettle!Work(kettleKettle) =>
             "work" \in kettleProtected.left /\ kettleProtected.age <= Lag + 0
        /\ ~kettleReads[r].older /\ cloudSays # kettleKettle => kettleReads[r].says = Kettle!Work(cloudSays)
    BY <1>3, <1>12 DEF ReadRight
  <2>2. kettleReads[r].older => longer <= 1
    BY <1>5, <1>6, <2>1
  <2>3. ~kettleReads[r].older /\ kettleReads[r].says # Kettle!Work(kettleKettle) => longer <= Lag + 1
    BY <1>5, <1>6, <2>1, KettleAssumption
  <2> QED BY <1>1, <1>3, <1>7, <2>1, <2>2, <2>3 DEF ReadRight
<1> QED BY <1>1, <1>9, <1>10, <1>11, <1>12 DEF HeardRight, Heard

\* A read that begins says what the cloud does now.
LEMMA AsksKeeps ==
    ASSUME KettleInv, kettleRunning, NEW r \in Readers, Kettle!Asks(r),
           UNCHANGED <<kettleRunning, kettleMode, kettleProtected, kettleKettle, cloudSays, kettleBehind, kettleKept, kettleUnheard>>
    PROVE  /\ kettleReads' \in [Readers -> ReadOpen] /\ kettleReordered' \in BOOLEAN /\ ReadsCounted' /\ HeardRight'
<1> USE DEF KettleInv
<1> DEFINE asking == [open |-> TRUE, says |-> Kettle!Work(cloudSays), aged |-> FALSE, older |-> FALSE]
<1>1. /\ ~kettleReads[r].open /\ kettleReads' = [kettleReads EXCEPT ![r] = asking]
      /\ kettleReordered' = (kettleReordered \/ \E o \in DOMAIN kettleReads : kettleReads[o].open)
  BY DEF Kettle!Asks
<1>2. Kettle!Work(cloudSays) \in {"brew", "custom"} /\ Kettle!Work(cloudSays) # Nothing
  BY ModesTyped DEF KettleTyped
<1>3. asking \in ReadOpen /\ asking.open /\ asking.says = Kettle!Work(cloudSays) /\ ~asking.aged /\ ~asking.older
  BY <1>2, TrueOrFalse DEF ReadOpen, Works
<1> HIDE DEF asking
<1>4. /\ kettleReads' \in [Readers -> ReadOpen] /\ kettleReads'[r] = asking /\ DOMAIN kettleReads = Readers
      /\ \A o \in Readers \ {r} : kettleReads'[o] = kettleReads[o]
  BY <1>1, <1>3 DEF KettleTyped
<1>5. kettleReordered' \in BOOLEAN /\ (~kettleReordered' => ~kettleReordered /\ \A o \in Readers : ~kettleReads[o].open)
  <2>1. (kettleReordered \/ \E o \in DOMAIN kettleReads : kettleReads[o].open) \in BOOLEAN
    BY Zenon
  <2> QED BY <1>1, <1>4, <2>1
<1>6. ReadsCounted'
  <2>1. \A o \in Readers : kettleReads'[o].open => kettleReads'[o].says # Nothing
    BY <1>2, <1>3, <1>4 DEF ReadsCounted
  <2>2. ~kettleReordered' => ~(kettleReads'["poll"].open /\ kettleReads'["follow"].open)
    BY <1>4, <1>5 DEF Readers
  <2> QED BY <2>1, <2>2 DEF ReadsCounted
<1>7. HeardRight'
  <2> SUFFICES ASSUME Heard' PROVE ModeRight' /\ \A o \in Readers : ReadRight(o)'
    BY DEF HeardRight
  <2>1. Heard /\ \A o \in Readers \ {r} : ~kettleReads'[o].open
    BY <1>4, <1>5 DEF Heard
  <2>2. ModeRight /\ ModeRight'
    BY <2>1 DEF HeardRight, ModeRight
  <2>3. Kettle!Work(cloudSays) # Kettle!Work(kettleKettle) =>
          "work" \in kettleProtected.left /\ kettleProtected.age <= Lag + 0
    <3>1. kettleBehind \in 0..Lag /\ kettleProtected.age \in 0..(Protect + 1)
      BY DEF KettleTyped, ModeHeld
    <3> QED BY <2>2, <3>1, KettleAssumption DEF ModeRight
  <2>4. ReadRight(r)'
    BY <1>3, <1>4, <2>3 DEF ReadRight
  <2>5. \A o \in Readers \ {r} : ReadRight(o)'
    BY <2>1 DEF ReadRight
  <2> QED BY <2>2, <2>4, <2>5
<1> QED BY <1>4, <1>5, <1>6, <1>7

LEMMA PollAsksKeeps ==
    ASSUME KettleInv, Kettle!PollAsks
    PROVE  KettleInv'
<1>1. /\ kettleRunning /\ Kettle!Asks("poll") /\ "poll" \in Readers
      /\ UNCHANGED <<kettleRunning, kettleMode, kettleProtected, kettleGen, kettleChains, kettleHandle, kettleKettle, cloudSays,
                      kettleBehind, kettleKept, kettleUnheard, kettleMoves, kettleBoots>>
  BY DEF Kettle!PollAsks, Kettle!kcounts, Readers
<1>2. kettleReads' \in [Readers -> ReadOpen] /\ kettleReordered' \in BOOLEAN /\ ReadsCounted' /\ HeardRight'
  BY <1>1, AsksKeeps
<1>3. KettleTyped'
  BY <1>1, <1>2 DEF KettleInv, KettleTyped
<1>4. OneChain'
  BY <1>1 DEF KettleInv, OneChain
<1> QED BY <1>2, <1>3, <1>4 DEF KettleInv

LEMMA FiresKeeps ==
    ASSUME KettleInv, NEW c \in kettleChains, Kettle!Fires(c)
    PROVE  KettleInv'
<1> DEFINE on == [c EXCEPT !.reads = TRUE]
<1>1. /\ ~c.reads /\ kettleChains' = (kettleChains \ {c}) \cup {on}
      /\ UNCHANGED <<kettleRunning, kettleMode, kettleProtected, kettleGen, kettleHandle, kettleKettle, cloudSays,
                      kettleBehind, kettleKept, kettleUnheard, kettleMoves, kettleBoots>>
      /\ Kettle!Asks("follow") \/ UNCHANGED <<kettleReads, kettleReordered>>
  BY DEF Kettle!Fires, Kettle!kcounts
<1>2. c \in Chain /\ c.gen \in 0..MaxKettleMoves
  BY DEF KettleInv, KettleTyped, Chain
<1>3. on \in Chain /\ on.gen = c.gen /\ on.reads
  BY <1>2, TrueOrFalse DEF Chain
<1> HIDE DEF on
<1>4. kettleRunning
  <2>1. kettleHandle = c.gen /\ kettleHandle # Nothing
    BY <1>1, <1>2, KettleAssumption DEF KettleInv, OneChain
  <2> QED BY <2>1 DEF KettleInv, OneChain
<1>5. kettleReads' \in [Readers -> ReadOpen] /\ kettleReordered' \in BOOLEAN /\ ReadsCounted' /\ HeardRight'
  <2>1. CASE Kettle!Asks("follow")
    <3>1. "follow" \in Readers
      BY DEF Readers
    <3> QED BY <1>1, <1>4, <2>1, <3>1, AsksKeeps
  <2>2. CASE UNCHANGED <<kettleReads, kettleReordered>>
    BY <1>1, <2>2 DEF KettleInv, KettleTyped, ReadsCounted, HeardRight, Heard, ModeRight, ReadRight
  <2> QED BY <1>1, <2>1, <2>2
<1>6. KettleTyped'
  BY <1>1, <1>3, <1>5 DEF KettleInv, KettleTyped
<1>7. OneChain'
  <2>1. \A d \in kettleChains' : d = on \/ (d \in kettleChains /\ d # c)
    BY <1>1
  <2>2. \A d, e \in kettleChains' : d.gen = e.gen => d = e
    BY <1>3, <2>1 DEF KettleInv, OneChain
  <2>3. \A d \in kettleChains' : (~d.reads => kettleHandle = d.gen) /\ (d.gen = kettleGen => kettleHandle = kettleGen)
    BY <1>3, <2>1 DEF KettleInv, OneChain
  <2>4. kettleGen # Nothing => kettleGen <= kettleMoves /\ \A d \in kettleChains' : d.gen <= kettleGen
    BY <1>3, <2>1 DEF KettleInv, OneChain
  <2> QED BY <1>1, <2>2, <2>3, <2>4 DEF KettleInv, OneChain
<1> QED BY <1>5, <1>6, <1>7 DEF KettleInv

LEMMA ChainReadKeeps ==
    ASSUME KettleInv, NEW c \in kettleChains, Kettle!Read(c)
    PROVE  KettleInv'
<1> DEFINE next == [c EXCEPT !.next = @ + 1, !.reads = FALSE]
           more == c.gen = kettleGen /\ c.next < Followups
<1>1. /\ c.reads /\ kettleChains' = (kettleChains \ {c}) \cup (IF more THEN {next} ELSE {})
      /\ kettleHandle' = IF more THEN c.gen ELSE IF c.gen = kettleGen THEN Nothing ELSE kettleHandle
      /\ UNCHANGED <<kettleRunning, kettleMode, kettleProtected, kettleGen, kettleReads, kettleKettle, cloudSays,
                      kettleBehind, kettleKept, kettleUnheard, kettleReordered, kettleMoves, kettleBoots>>
  BY DEF Kettle!Read, Kettle!GoesOn, Kettle!kcounts
<1>2. c \in Chain /\ c.gen \in 0..MaxKettleMoves /\ c.next \in 1..Followups
  BY DEF KettleInv, KettleTyped, Chain
<1>3. more => next \in Chain /\ next.gen = c.gen /\ ~next.reads
  <2>1. more => c.next + 1 \in 1..Followups
    BY <1>2, KettleAssumption
  <2> QED BY <1>2, <2>1, TrueOrFalse DEF Chain
<1> HIDE DEF next
<1>4. KettleTyped'
  <2>1. kettleChains' \subseteq Chain
    BY <1>1, <1>3 DEF KettleInv, KettleTyped
  <2>2. kettleHandle' \in 0..MaxKettleMoves \cup {Nothing}
    BY <1>1, <1>2 DEF KettleInv, KettleTyped
  <2> QED BY <1>1, <2>1, <2>2 DEF KettleInv, KettleTyped
<1>5. ReadsCounted' /\ HeardRight'
  BY <1>1 DEF KettleInv, ReadsCounted, HeardRight, Heard, ModeRight, ReadRight
<1>6. OneChain'
  <2>1. \A d \in kettleChains' : (more /\ d = next) \/ (d \in kettleChains /\ d # c)
    BY <1>1
  <2>2. \A d \in kettleChains \ {c} : d.gen # c.gen
    BY DEF KettleInv, OneChain
  <2>3. \A d, e \in kettleChains' : d.gen = e.gen => d = e
    BY <1>3, <2>1, <2>2 DEF KettleInv, OneChain
  <2>4. c.gen = kettleGen => kettleHandle = c.gen
    BY DEF KettleInv, OneChain
  <2>5. \A d \in kettleChains' : ~d.reads => kettleHandle' = d.gen
    <3> SUFFICES ASSUME NEW d \in kettleChains', ~d.reads PROVE kettleHandle' = d.gen
      OBVIOUS
    <3>1. CASE more /\ d = next
      BY <1>1, <1>3, <3>1
    <3>2. CASE d \in kettleChains /\ d # c
      <4>1. kettleHandle = d.gen /\ d.gen # c.gen
        BY <2>2, <3>2 DEF KettleInv, OneChain
      <4> QED BY <1>1, <2>4, <4>1
    <3> QED BY <2>1, <3>1, <3>2
  <2>6. \A d \in kettleChains' : d.gen = kettleGen => kettleHandle' = kettleGen
    BY <1>1, <1>3, <2>1, <2>2 DEF KettleInv, OneChain
  <2>7. kettleHandle' # Nothing => kettleHandle' = kettleGen /\ kettleRunning
    <3>1. c.gen # Nothing
      BY <1>2, KettleAssumption
    <3> QED BY <1>1, <2>4, <3>1 DEF KettleInv, OneChain
  <2>8. kettleGen # Nothing => kettleGen <= kettleMoves /\ \A d \in kettleChains' : d.gen <= kettleGen
    BY <1>3, <2>1 DEF KettleInv, OneChain
  <2> QED BY <1>1, <2>3, <2>5, <2>6, <2>7, <2>8 DEF KettleInv, OneChain
<1> QED BY <1>4, <1>5, <1>6 DEF KettleInv

\* What a read is taken for, the fields put back included.
LEMMA AnsweredKeeps ==
    ASSUME KettleInv, NEW r \in Readers, Kettle!Answered(r),
           UNCHANGED <<kettleRunning, kettleGen, kettleChains, kettleHandle, kettleKettle, cloudSays, kettleBehind, kettleKept,
                       kettleUnheard, kettleMoves, kettleBoots>>
    PROVE  KettleInv'
<1> USE DEF KettleInv
<1> DEFINE says   == kettleReads[r].says
           held   == kettleProtected.left
           slot   == Kettle!Carried(says)
           polled == [work |-> says, value |-> Nothing, slot |-> slot]
           left   == {f \in held : Kettle!Kept(f, polled)}
           work2  == IF Kettle!Kept("work", polled) THEN Kettle!Work(kettleProtected.at) ELSE says
           value2 == IF Kettle!Kept("value", polled) THEN Kettle!Slot(kettleProtected.at) ELSE Nothing
           slot2  == IF Kettle!Kept("slot", polled) THEN Kettle!Slot(kettleProtected.at) ELSE
                     IF slot = Nothing /\ kettleMode = Kettle!Unknown /\ says = "custom" THEN kettleKept ELSE slot
<1>1. /\ kettleReads[r].open /\ kettleRunning
      /\ kettleMode' = [work |-> work2, value |-> value2, slot |-> slot2]
      /\ kettleProtected' = IF left = {} THEN Kettle!Free ELSE [kettleProtected EXCEPT !.left = left]
      /\ kettleReordered' = (kettleReordered \/ (kettleReads[r].older /\ left # held))
      /\ kettleReads' = [kettleReads EXCEPT ![r] = Kettle!NoRead]
  BY DEF Kettle!Answered
<1>2. /\ Kettle!Kept("work", polled) <=>
           "work" \in held /\ kettleProtected.age <= Protect /\ says # Kettle!Work(kettleProtected.at)
      /\ Kettle!Kept("value", polled) <=>
           "value" \in held /\ kettleProtected.age <= Protect /\ Nothing # Kettle!Slot(kettleProtected.at)
      /\ Kettle!Kept("slot", polled) <=>
           "slot" \in held /\ kettleProtected.age <= Protect /\ slot # Kettle!Slot(kettleProtected.at)
  BY DEF Kettle!Kept
<1>3. /\ kettleProtected \in ModeHeld /\ kettleProtected.at \in Kettle!Modes /\ held \subseteq Kettle!Fields
      /\ kettleProtected.age \in 0..(Protect + 1) /\ kettleReads \in [Readers -> ReadOpen] /\ kettleReads[r] \in ReadOpen
      /\ kettleMode \in ModeShown /\ kettleKettle \in Kettle!Modes /\ cloudSays \in Kettle!Modes
  BY DEF KettleTyped, ModeHeld
<1>4. says \in {"brew", "custom"}
  BY <1>1, <1>3 DEF ReadOpen, Works, ReadsCounted
<1>5. slot \in SlotsSet /\ slot = IF says = kettleMode.work THEN kettleMode.slot ELSE Nothing
  BY <1>3 DEF Kettle!Carried, ModeShown, SlotsSet
<1> HIDE DEF polled, slot
<1>6. kettleMode' \in ModeShown /\ kettleMode'.work = work2 /\ kettleMode'.value = value2 /\ kettleMode'.slot = slot2
  <2>1. /\ Kettle!Work(kettleProtected.at) \in {"brew", "custom"} /\ Kettle!Slot(kettleProtected.at) \in SlotsSet
        /\ kettleKept \in SlotsSet /\ Nothing \in SlotsSet
    BY <1>3, ModesTyped DEF KettleTyped, SlotsSet
  <2>2. work2 \in Works /\ value2 \in SlotsSet /\ slot2 \in SlotsSet
    BY <1>4, <1>5, <2>1 DEF Works
  <2> HIDE DEF work2, value2, slot2
  <2> QED BY <1>1, <2>2 DEF ModeShown
<1>7. /\ kettleReads' \in [Readers -> ReadOpen] /\ ~kettleReads'[r].open
      /\ \A o \in Readers \ {r} : kettleReads'[o] = kettleReads[o]
  <2>1. Kettle!NoRead \in ReadOpen /\ ~Kettle!NoRead.open
    BY TrueOrFalse DEF Kettle!NoRead, ReadOpen, Works
  <2> QED BY <1>1, <1>3, <2>1
<1>8. /\ kettleProtected' \in ModeHeld
      /\ left = {} => kettleProtected'.left = {}
      /\ left # {} => /\ kettleProtected'.left = left /\ kettleProtected'.at = kettleProtected.at
                      /\ kettleProtected'.age = kettleProtected.age
  <2>1. Kettle!Free \in ModeHeld /\ Kettle!Free.left = {}
    BY KettleAssumption DEF Kettle!Free, ModeHeld, Kettle!Modes
  <2>2. left \subseteq Kettle!Fields
    BY <1>3
  <2> HIDE DEF left
  <2> QED BY <1>1, <1>3, <2>1, <2>2 DEF ModeHeld
<1>9. kettleReordered' \in BOOLEAN /\ (~kettleReordered' => ~kettleReordered /\ (kettleReads[r].older => left = held))
  <2>1. (kettleReordered \/ (kettleReads[r].older /\ left # held)) \in BOOLEAN
    BY Zenon
  <2> QED BY <1>1, <2>1
<1>10. KettleTyped'
  BY <1>6, <1>7, <1>8, <1>9 DEF KettleTyped
<1>11. OneChain'
  BY DEF OneChain
<1>12. ReadsCounted'
  BY <1>1, <1>7, <1>9 DEF ReadsCounted, Readers
<1>13. ASSUME Heard' PROVE ModeRight' /\ \A o \in Readers : ReadRight(o)'
  <2>1. Heard /\ ModeRight /\ ReadRight(r) /\ (kettleReads[r].older => left = held)
    BY <1>9, <1>13 DEF Heard, HeardRight
  <2>2. \A o \in Readers \ {r} : ~kettleReads[o].open
    BY <1>1, <2>1 DEF ReadsCounted, Readers, Heard
  <2>3. \A o \in Readers : ReadRight(o)'
    BY <1>7, <2>2 DEF ReadRight
  <2> DEFINE w == Kettle!Work(kettleKettle)  s == Kettle!Slot(kettleKettle)
  <2>4. /\ w \in {"brew", "custom"} /\ (kettleKettle = "brew" <=> w = "brew")
        /\ (kettleKettle = "brew" => s = Nothing) /\ (kettleKettle # "brew" => s # Nothing)
    BY <1>3, ModesTyped, KettleAssumption
  <2>5. held # {} => kettleProtected.at = kettleKettle
    BY <2>1 DEF ModeRight
  \* A read that disagrees meets the protection of the work mode, while it lasts.
  <2>6. says # w => "work" \in held /\ kettleProtected.age <= Protect
    <3> SUFFICES ASSUME says # w PROVE "work" \in held /\ kettleProtected.age <= Protect
      OBVIOUS
    <3>1. CASE kettleReads[r].older
      <4>1. held = Kettle!Fields /\ kettleProtected.age <= IF kettleReads[r].aged THEN 1 ELSE 0
        BY <1>1, <2>1, <3>1 DEF ReadRight
      <4>2. kettleProtected.age <= 1
        BY <1>3, <4>1
      <4> QED BY <1>3, <4>1, <4>2, KettleAssumption DEF Kettle!Fields
    <3>2. CASE ~kettleReads[r].older
      <4>1. "work" \in held /\ kettleProtected.age <= Lag + IF kettleReads[r].aged THEN 1 ELSE 0
        BY <1>1, <2>1, <3>2 DEF ReadRight
      <4>2. kettleProtected.age <= Lag + 1
        BY <1>3, <4>1, KettleAssumption
      <4> QED BY <1>3, <4>1, <4>2, KettleAssumption
    <3> QED BY <3>1, <3>2
  <2>7. says # w => Kettle!Kept("work", polled) /\ kettleProtected.at = kettleKettle
    BY <1>2, <2>5, <2>6
  <2>8. work2 = w
    BY <1>2, <2>5, <2>7
  <2>9. value2 \in {s, Nothing}
    BY <1>2, <2>5
  <2>10. kettleMode = Kettle!Unknown => held = {} /\ kettleKept = s /\ kettleMode.work = Nothing
    BY <1>1, <2>1 DEF ModeRight, Kettle!Unknown
  <2>11. kettleMode # Kettle!Unknown => kettleMode.work = w /\ kettleMode.slot = s
    BY <1>1, <2>1 DEF ModeRight
  <2>12. says # w => slot = Nothing /\ kettleMode # Kettle!Unknown
    BY <1>5, <2>6, <2>10, <2>11
  <2>13. says # w /\ kettleKettle # "brew" => Kettle!Kept("slot", polled)
    <3>1. says # w /\ kettleKettle # "brew" => "slot" \in held
      BY <2>1, <2>6 DEF ModeRight
    <3> QED BY <1>2, <2>4, <2>6, <2>7, <2>12, <3>1
  <2>14. slot2 = s
    <3>1. CASE Kettle!Kept("slot", polled)
      BY <1>2, <2>5, <3>1
    <3>2. CASE ~Kettle!Kept("slot", polled) /\ says # w
      BY <2>4, <2>12, <2>13, <3>2
    <3>3. CASE ~Kettle!Kept("slot", polled) /\ says = w /\ kettleMode = Kettle!Unknown
      <4>1. slot = Nothing
        BY <1>4, <1>5, <2>10, <3>3, KettleAssumption
      <4>2. says = "custom" => slot2 = kettleKept
        BY <3>3, <4>1
      <4>3. says # "custom" => slot2 = Nothing
        BY <3>3, <4>1
      <4> QED BY <1>4, <2>4, <2>10, <3>3, <4>2, <4>3
    <3>4. CASE ~Kettle!Kept("slot", polled) /\ says = w /\ kettleMode # Kettle!Unknown
      <4>1. slot = s
        BY <1>5, <2>11, <3>4
      <4> QED BY <3>4, <4>1
    <3> QED BY <3>1, <3>2, <3>3, <3>4
  <2>15. kettleMode' # Kettle!Unknown
    BY <1>6, <2>4, <2>8, KettleAssumption DEF Kettle!Unknown
  <2>16. kettleProtected'.left # {} => kettleProtected'.at = kettleKettle
    BY <1>8, <2>5
  <2>17. "work" \in left /\ kettleKettle # "brew" => "slot" \in left
    <3>1. "work" \in left => says # w
      BY <1>2, <2>5
    <3> QED BY <1>2, <2>13, <3>1
  <2>18. Kettle!Work(cloudSays) # w => "work" \in left /\ kettleProtected.age <= kettleBehind
    <3> SUFFICES ASSUME Kettle!Work(cloudSays) # w PROVE "work" \in left /\ kettleProtected.age <= kettleBehind
      OBVIOUS
    <3>1. "work" \in held /\ kettleProtected.age <= kettleBehind
      BY <2>1 DEF ModeRight
    <3>2. CASE kettleReads[r].older
      BY <2>1, <3>1, <3>2
    <3>3. CASE ~kettleReads[r].older
      <4>1. says = Kettle!Work(cloudSays)
        BY <1>1, <2>1, <3>3 DEF ReadRight
      <4> QED BY <2>7, <3>1, <4>1
    <3> QED BY <3>2, <3>3
  <2>19. /\ "work" \in kettleProtected'.left /\ kettleKettle # "brew" => "slot" \in kettleProtected'.left
         /\ Kettle!Work(cloudSays) # w => "work" \in kettleProtected'.left /\ kettleProtected'.age <= kettleBehind
    BY <1>8, <2>17, <2>18
  <2>20. /\ Kettle!Work(cloudSays)' = Kettle!Work(cloudSays) /\ Kettle!Work(kettleKettle)' = w
         /\ Kettle!Slot(kettleKettle)' = s
    OBVIOUS
  <2> HIDE DEF w, s, work2, value2, slot2, left
  <2>21. ModeRight'
    BY <1>1, <1>6, <2>8, <2>9, <2>14, <2>15, <2>16, <2>19, <2>20 DEF ModeRight
  <2> QED BY <2>3, <2>21
<1> QED BY <1>10, <1>11, <1>12, <1>13 DEF HeardRight

\* The slot is stored while the entities know it, or still hold it.
LEMMA UnloadKeeps ==
    ASSUME KettleInv, Kettle!Unload
    PROVE  KettleInv'
<1> DEFINE picked == Kettle!Selected
<1>1. /\ kettleRunning /\ kettleBoots < MaxKettleBoots /\ kettleBoots' = kettleBoots + 1 /\ kettleRunning' = FALSE
      /\ kettleKept' = IF picked \in {"c1", "c2"} THEN picked ELSE Nothing
      /\ kettleReads' = [r \in DOMAIN kettleReads |-> Kettle!NoRead]
      /\ kettleUnheard' = (kettleUnheard \/ (kettleMode = Kettle!Unknown /\ kettleKept # Nothing))
      /\ UNCHANGED <<kettleMode, kettleProtected, kettleKettle, cloudSays, kettleBehind, kettleReordered, kettleMoves>>
  BY DEF Kettle!Unload
<1>2. \/ /\ kettleHandle # Nothing /\ kettleGen' = Nothing /\ kettleHandle' = Nothing
         /\ kettleChains' = {c \in kettleChains : c.reads \/ c.gen # kettleHandle}
      \/ kettleHandle = Nothing /\ UNCHANGED <<kettleGen, kettleHandle, kettleChains>>
  BY DEF Kettle!Unload
<1>3. kettleReads' \in [Readers -> ReadOpen] /\ \A r \in Readers : ~kettleReads'[r].open
  <2>1. Kettle!NoRead \in ReadOpen /\ ~Kettle!NoRead.open
    BY TrueOrFalse DEF Kettle!NoRead, ReadOpen, Works
  <2>2. DOMAIN kettleReads = Readers
    BY DEF KettleInv, KettleTyped
  <2> QED BY <1>1, <2>1, <2>2
<1>4. kettleBoots' \in 0..MaxKettleBoots /\ kettleKept' \in SlotsSet
  BY <1>1, KettleAssumption DEF KettleInv, KettleTyped, SlotsSet
<1>5. kettleRunning' \in BOOLEAN /\ kettleUnheard' \in BOOLEAN
  <2>1. (kettleUnheard \/ (kettleMode = Kettle!Unknown /\ kettleKept # Nothing)) \in BOOLEAN
    BY Zenon
  <2> QED BY <1>1, <2>1, TrueOrFalse
<1>6. KettleTyped'
  <2>1. kettleGen' \in 0..MaxKettleMoves \cup {Nothing} /\ kettleHandle' \in 0..MaxKettleMoves \cup {Nothing}
    BY <1>2 DEF KettleInv, KettleTyped
  <2>2. kettleChains' \subseteq Chain
    BY <1>2 DEF KettleInv, KettleTyped
  <2> QED BY <1>1, <1>3, <1>4, <1>5, <2>1, <2>2 DEF KettleInv, KettleTyped
<1>7. \A c \in kettleChains : c.gen # Nothing
  BY KettleAssumption DEF KettleInv, KettleTyped, Chain
<1>8. OneChain'
  <2>1. CASE kettleHandle = Nothing
    BY <1>1, <1>2, <2>1 DEF KettleInv, OneChain
  <2>2. CASE kettleHandle # Nothing
    <3>1. \A c \in kettleChains' : c \in kettleChains /\ c.reads
      BY <1>2, <2>2 DEF KettleInv, OneChain
    <3> QED BY <1>1, <1>2, <1>7, <2>2, <3>1 DEF KettleInv, OneChain
  <2> QED BY <2>1, <2>2
<1>9. ReadsCounted'
  BY <1>3 DEF ReadsCounted, Readers
<1>10. ASSUME Heard' PROVE ModeRight' /\ \A r \in Readers : ReadRight(r)'
  <2>1. Heard /\ ModeRight /\ (kettleMode = Kettle!Unknown => kettleKept = Nothing)
    BY <1>1, <1>10 DEF KettleInv, Heard, HeardRight
  <2> DEFINE s == Kettle!Slot(kettleKettle)
  <2>2. kettleKept' = s
    <3>1. CASE kettleMode = Kettle!Unknown
      <4>1. picked = Nothing
        BY <3>1, KettleAssumption DEF Kettle!Selected, Kettle!Unknown
      <4>2. kettleKept' = Nothing
        BY <1>1, <4>1, KettleAssumption
      <4> QED BY <2>1, <3>1, <4>2 DEF ModeRight
    <3>2. CASE kettleMode # Kettle!Unknown
      <4>1. /\ kettleMode.work = Kettle!Work(kettleKettle) /\ kettleMode.slot = s
            /\ kettleMode.value \in {s, Nothing} /\ kettleKettle \in Kettle!Modes
        BY <1>1, <2>1, <3>2 DEF ModeRight, KettleInv, KettleTyped
      <4>2. CASE kettleKettle = "brew"
        BY <1>1, <4>1, <4>2 DEF Kettle!Selected, Kettle!Work, Kettle!Slot
      <4>3. CASE kettleKettle # "brew"
        <5>1. s = kettleKettle /\ s \in {"c1", "c2"} /\ kettleMode.work = "custom"
          BY <4>1, <4>3, ModesTyped DEF Kettle!Work
        <5>2. picked = s
          BY <4>1, <5>1 DEF Kettle!Selected
        <5> QED BY <1>1, <5>1, <5>2
      <4> QED BY <4>2, <4>3
    <3> QED BY <3>1, <3>2
  <2>3. Kettle!Slot(kettleKettle)' = s
    BY <1>1
  <2> HIDE DEF s
  <2>4. ModeRight'
    BY <1>1, <2>1, <2>2, <2>3 DEF ModeRight
  <2> QED BY <1>3, <2>4 DEF ReadRight
<1> QED BY <1>6, <1>8, <1>9, <1>10 DEF KettleInv, HeardRight

LEMMA LoadKeeps ==
    ASSUME KettleInv, Kettle!Load
    PROVE  KettleInv'
<1>1. /\ ~kettleRunning /\ kettleChains = {} /\ kettleRunning' = TRUE /\ kettleMode' = Kettle!Unknown
      /\ kettleProtected' = Kettle!Free /\ kettleGen' = 0 /\ kettleHandle' = Nothing
      /\ kettleUnheard' = (kettleUnheard \/ cloudSays # kettleKettle)
      /\ UNCHANGED <<kettleChains, kettleReads, kettleKettle, cloudSays, kettleBehind, kettleKept, kettleReordered, kettleMoves,
                      kettleBoots>>
  BY DEF Kettle!Load, Kettle!kcounts
<1>2. Kettle!Unknown \in ModeShown
  BY DEF Kettle!Unknown, ModeShown, Works, SlotsSet
<1>3. Kettle!Free \in ModeHeld /\ Kettle!Free.left = {}
  BY KettleAssumption DEF Kettle!Free, ModeHeld, Kettle!Modes
<1>4. kettleRunning' \in BOOLEAN /\ kettleUnheard' \in BOOLEAN
  <2>1. (kettleUnheard \/ cloudSays # kettleKettle) \in BOOLEAN
    BY Zenon
  <2> QED BY <1>1, <2>1, TrueOrFalse
<1>5. KettleTyped'
  <2>1. 0 \in 0..MaxKettleMoves
    BY KettleAssumption
  <2> QED BY <1>1, <1>2, <1>3, <1>4, <2>1 DEF KettleInv, KettleTyped
<1>6. OneChain'
  <2>1. 0 # Nothing /\ 0 <= kettleMoves
    BY KettleAssumption DEF KettleInv, KettleTyped
  <2> QED BY <1>1, <2>1 DEF OneChain
<1>7. ReadsCounted' /\ \A r \in Readers : ~kettleReads'[r].open
  BY <1>1 DEF KettleInv, ReadsCounted
<1>8. ASSUME Heard' PROVE ModeRight' /\ \A r \in Readers : ReadRight(r)'
  <2>1. Heard /\ cloudSays = kettleKettle
    BY <1>1, <1>8 DEF Heard
  <2>2. kettleKept = Kettle!Slot(kettleKettle)
    BY <1>1, <2>1 DEF KettleInv, HeardRight, ModeRight
  <2>3. kettleKept' = Kettle!Slot(kettleKettle)' /\ Kettle!Work(cloudSays)' = Kettle!Work(kettleKettle)'
    BY <1>1, <2>1, <2>2
  <2>4. kettleProtected'.left = {}
    BY <1>1, <1>3
  <2>5. ModeRight'
    BY <1>1, <2>3, <2>4 DEF ModeRight
  <2> QED BY <1>7, <2>5 DEF ReadRight
<1> QED BY <1>5, <1>6, <1>7, <1>8 DEF KettleInv, HeardRight

LEMMA KettleGoesOn == KettleInv /\ [Kettle!Next]_(Kettle!vars) => KettleInv'
<1> SUFFICES ASSUME KettleInv, [Kettle!Next]_(Kettle!vars) PROVE KettleInv'
  OBVIOUS
<1>1. CASE UNCHANGED Kettle!vars
  <2>1. UNCHANGED <<kettleRunning, kettleMode, kettleProtected, kettleGen, kettleChains, kettleHandle, kettleReads, kettleKettle,
                    cloudSays, kettleBehind, kettleKept, kettleUnheard, kettleReordered, kettleMoves, kettleBoots>>
    BY <1>1 DEF Kettle!vars, Kettle!kcounts
  <2> QED BY <2>1 DEF KettleInv, KettleTyped, OneChain, ReadsCounted, HeardRight, Heard, ModeRight, ReadRight
<1>2. CASE Kettle!PollAnswered \/ Kettle!FollowAnswered
  <2>1. PICK r \in Readers :
          /\ Kettle!Answered(r)
          /\ UNCHANGED <<kettleRunning, kettleGen, kettleChains, kettleHandle, kettleKettle, cloudSays, kettleBehind, kettleKept,
                         kettleUnheard, kettleMoves, kettleBoots>>
    BY <1>2 DEF Kettle!PollAnswered, Kettle!FollowAnswered, Kettle!kcounts, Readers
  <2> QED BY <2>1, AnsweredKeeps
<1>3. CASE Kettle!Next /\ ~(Kettle!PollAnswered \/ Kettle!FollowAnswered)
  BY <1>3, CommandKeeps, ChangedKeeps, CloudLearnsKeeps, KettleTickKeeps, PollAsksKeeps, FiresKeeps, ChainReadKeeps, UnloadKeeps,
     LoadKeeps DEF Kettle!Next
<1> QED BY <1>1, <1>2, <1>3

LEMMA ChainsCounted == OneChain /\ kettleChains \subseteq Chain => Kettle!ChainIsOne
<1> SUFFICES ASSUME OneChain, kettleChains \subseteq Chain PROVE Kettle!ChainIsOne
  OBVIOUS
<1> DEFINE waiting == {c \in kettleChains : ~c.reads}
<1>1. Kettle!Cardinality(waiting) = Cardinality(waiting)
  BY DEF Kettle!Cardinality, Cardinality
<1>2. \A c \in waiting : kettleHandle = c.gen /\ c.gen \in Nat
  BY DEF OneChain, Chain
<1>3. CASE waiting = {}
  BY <1>1, <1>3, FS_EmptySet DEF Kettle!ChainIsOne
<1>4. CASE waiting # {}
  <2>1. PICK c \in waiting : TRUE
    BY <1>4
  <2>2. waiting = {c}
    BY <1>2, <2>1 DEF OneChain
  <2>3. kettleRunning
    BY <1>2, <2>1, KettleAssumption DEF OneChain
  <2>4. Cardinality(waiting) = 1
    BY <2>2, FS_Singleton
  <2> QED BY <1>1, <2>3, <2>4 DEF Kettle!ChainIsOne
<1> QED BY <1>3, <1>4

LEMMA KettleIsKept == KettleInv => Kettle!TypeOK /\ Kettle!KettleIsRight
<1> SUFFICES ASSUME KettleInv PROVE Kettle!TypeOK /\ Kettle!KettleIsRight
  OBVIOUS
<1>1. Kettle!TypeOK
  BY DEF KettleInv, KettleTyped, Kettle!TypeOK, ModeShown, ModeHeld, Chain, ReadOpen, Works, SlotsSet, Readers
<1>2. Kettle!ModeIsRight
  <2> SUFFICES ASSUME kettleRunning, kettleMode # Kettle!Unknown, Heard PROVE Kettle!Selected = kettleKettle
    BY DEF Kettle!ModeIsRight, Heard
  <2>1. /\ kettleMode.work = Kettle!Work(kettleKettle) /\ kettleMode.slot = Kettle!Slot(kettleKettle)
        /\ kettleMode.value \in {Kettle!Slot(kettleKettle), Nothing} /\ kettleKettle \in Kettle!Modes
    BY DEF KettleInv, HeardRight, ModeRight, KettleTyped
  <2>2. CASE kettleKettle = "brew"
    BY <2>1, <2>2 DEF Kettle!Selected, Kettle!Work
  <2>3. CASE kettleKettle # "brew"
    BY <2>1, <2>3, ModesTyped DEF Kettle!Selected, Kettle!Work
  <2> QED BY <2>2, <2>3
<1>3. Kettle!ChainIsOne
  BY ChainsCounted DEF KettleInv, KettleTyped
<1> QED BY <1>1, <1>2, <1>3 DEF Kettle!KettleIsRight

\* For any delays, lag and numbers of commands and restarts, as long as a read that
\* met a lagging cloud is answered while the protection lasts: the mode shown is
\* the kettle's when its last change was commanded or pushed, and one chain of
\* reads waits at most (manager.py 200-345, modes.py 44-108).
THEOREM ModeKept == Kettle!Spec => []Kettle!KettleIsRight
<1> QED BY KettleStarts, KettleGoesOn, KettleIsKept, PTL DEF Kettle!Spec

-----------------------------------------------------------------------------
(* The plug: what it counts, what it saved and what was read are numbers.   *)

PlugSet    == [up : BOOLEAN, uptime : Nat, on : Nat, energy : Nat, due : BOOLEAN]
CopySet    == [on : Nat, energy : Nat]
ReadingSet == [of : PlugSet, at : 0..MaxTime]
CounterSet == [reset : 0..MaxTime, updated : 0..MaxTime, energy : Nat, on : Nat, uptime : Nat,
               seen : Energy!Never..MaxTime]

\* A restore is due only of a copy.
EnergyInv ==
    /\ plugNow \in 0..MaxTime /\ plugPlug \in PlugSet /\ plugPassed \in BOOLEAN
    /\ plugSaved = Energy!NoCopy \/ plugSaved \in CopySet
    /\ plugReading = Energy!NoCopy \/ plugReading \in ReadingSet
    /\ plugCounter \in CounterSet
    /\ plugUsed \in Nat /\ plugBooked \in Int /\ plugReboots \in 0..MaxReboots
    /\ plugPlug.due => plugSaved # Energy!NoCopy

LEMMA EnergyStarts == Energy!Init => EnergyInv
<1> SUFFICES ASSUME Energy!Init PROVE EnergyInv
  OBVIOUS
<1> USE EnergyAssumption DEF EnergyAssumption
<1>1. /\ plugNow = 0 /\ plugPlug = [up |-> TRUE, uptime |-> 3600, on |-> 3600, energy |-> 1200, due |-> FALSE]
      /\ plugPassed = FALSE /\ plugSaved = [on |-> 3600, energy |-> 1200] /\ plugReading = Energy!NoCopy
      /\ plugCounter = [reset |-> 0, updated |-> 0, energy |-> 1200, on |-> 3600, uptime |-> 3600, seen |-> -1]
      /\ plugUsed = 0 /\ plugBooked = 0 /\ plugReboots = 0
  BY DEF Energy!Init, Energy!First, Energy!Never
<1>2. plugPlug \in PlugSet /\ plugSaved \in CopySet /\ ~plugPlug.due
  BY <1>1 DEF PlugSet, CopySet
<1>3. plugCounter \in CounterSet
  BY <1>1 DEF CounterSet, Energy!Never
<1>4. plugPassed \in BOOLEAN
  BY ONLY <1>1, Zenon
<1>5. plugNow \in 0..MaxTime /\ plugUsed \in Nat /\ plugBooked \in Int /\ plugReboots \in 0..MaxReboots
  BY <1>1
<1>6. plugReading = Energy!NoCopy /\ ~plugPlug.due
  BY <1>1, <1>2
<1> QED BY ONLY <1>2, <1>3, <1>4, <1>5, <1>6 DEF EnergyInv

\* What happens to the plug.
LEMMA PlugKeeps ==
    ASSUME EnergyInv,
           \/ \E dt \in Steps : Energy!Passes(dt)
           \/ Energy!Saves \/ Energy!PowerFails \/ Energy!Boots \/ Energy!Restores \/ Energy!Midnight
    PROVE  EnergyInv'
<1> USE EnergyAssumption DEF EnergyAssumption
<1>1. /\ plugNow \in 0..MaxTime /\ plugPlug \in PlugSet /\ plugPassed \in BOOLEAN
      /\ plugSaved = Energy!NoCopy \/ plugSaved \in CopySet
      /\ plugReading = Energy!NoCopy \/ plugReading \in ReadingSet
      /\ plugCounter \in CounterSet
      /\ plugUsed \in Nat /\ plugBooked \in Int /\ plugReboots \in 0..MaxReboots
      /\ plugPlug.due => plugSaved # Energy!NoCopy
  BY DEF EnergyInv
<1>2. ASSUME NEW dt \in Steps, Energy!Passes(dt) PROVE EnergyInv'
  <2>1. /\ plugNow + dt <= MaxTime /\ plugNow' = plugNow + dt
        /\ UNCHANGED <<plugSaved, plugPassed, plugReading, plugCounter, plugBooked, plugReboots>>
        /\ \/ /\ plugPlug' = [plugPlug EXCEPT !.uptime = @ + ((dt * 94) \div 1000) * 10, !.on = @ + dt,
                                              !.energy = @ + dt \div 3]
              /\ plugUsed' = plugUsed + dt \div 3
           \/ UNCHANGED <<plugPlug, plugUsed>>
    BY <1>2, Zenon DEF Energy!Passes
  <2>2. dt \in Nat /\ dt \div 3 \in Nat /\ ((dt * 94) \div 1000) * 10 \in Nat
    OBVIOUS
  <2>3. plugNow' \in 0..MaxTime
    BY <1>1, <2>1, <2>2
  <2>4. plugPlug' \in PlugSet /\ plugUsed' \in Nat /\ (plugPlug'.due <=> plugPlug.due)
    <3> DEFINE third == dt \div 3
               run   == ((dt * 94) \div 1000) * 10
    <3>1. third \in Nat /\ run \in Nat
      BY <2>2
    <3>2. \/ /\ plugPlug' = [plugPlug EXCEPT !.uptime = @ + run, !.on = @ + dt, !.energy = @ + third]
             /\ plugUsed' = plugUsed + third
          \/ UNCHANGED <<plugPlug, plugUsed>>
      BY <2>1
    <3>3. CASE UNCHANGED <<plugPlug, plugUsed>>
      BY <1>1, <3>3
    <3>4. CASE /\ plugPlug' = [plugPlug EXCEPT !.uptime = @ + run, !.on = @ + dt, !.energy = @ + third]
               /\ plugUsed' = plugUsed + third
      <4> DEFINE u == plugPlug.uptime + run
                 o == plugPlug.on + dt
                 g == plugPlug.energy + third
      <4> HIDE DEF third, run
      <4>1. u \in Nat /\ o \in Nat /\ g \in Nat /\ plugUsed' \in Nat
        BY <1>1, <2>2, <3>1, <3>4 DEF PlugSet
      <4>2. plugPlug' = [plugPlug EXCEPT !.uptime = u, !.on = o, !.energy = g]
        BY <3>4
      <4> HIDE DEF u, o, g
      <4> QED BY <1>1, <4>1, <4>2 DEF PlugSet
    <3> QED BY <3>2, <3>3, <3>4
  <2> QED BY <1>1, <2>1, <2>3, <2>4 DEF EnergyInv
<1>3. CASE Energy!Saves
  <2>1. /\ plugSaved' = [on |-> plugPlug.on, energy |-> plugPlug.energy] /\ ~plugPlug.due
        /\ UNCHANGED <<plugNow, plugPlug, plugPassed, plugReading, plugCounter, plugUsed, plugBooked, plugReboots>>
    BY <1>3 DEF Energy!Saves, Energy!history
  <2>2. plugSaved' \in CopySet
    BY <1>1, <2>1 DEF PlugSet, CopySet
  <2> QED BY <1>1, <2>1, <2>2 DEF EnergyInv
<1>4. CASE Energy!PowerFails
  <2>1. /\ plugReboots < MaxReboots /\ plugReboots' = plugReboots + 1
        /\ plugPlug' = [plugPlug EXCEPT !.up = FALSE, !.uptime = 0, !.on = 0, !.energy = 0, !.due = FALSE]
        /\ UNCHANGED <<plugNow, plugSaved, plugPassed, plugReading, plugCounter, plugUsed, plugBooked>>
    BY <1>4 DEF Energy!PowerFails, Energy!history
  <2>2. plugPlug' \in PlugSet /\ ~plugPlug'.due
    BY <1>1, <2>1 DEF PlugSet
  <2> QED BY <1>1, <2>1, <2>2 DEF EnergyInv
<1>5. CASE Energy!Boots
  <2> DEFINE there == plugSaved # Energy!NoCopy
  <2>1. /\ plugPlug' = [plugPlug EXCEPT !.up = TRUE, !.due = there]
        /\ UNCHANGED <<plugNow, plugSaved, plugPassed, plugReading, plugCounter, plugUsed, plugBooked, plugReboots>>
    BY <1>5 DEF Energy!Boots, Energy!history
  <2>2. there \in BOOLEAN
    OBVIOUS
  <2>3. plugPlug' \in PlugSet /\ plugPlug'.due = there
    <3> HIDE DEF there
    <3> QED BY <1>1, <2>1, <2>2 DEF PlugSet
  <2> QED BY <1>1, <2>1, <2>3 DEF EnergyInv
<1>6. CASE Energy!Restores
  <2>1. /\ plugPlug.due
        /\ plugPlug' = [plugPlug EXCEPT !.on = @ + plugSaved.on, !.energy = @ + plugSaved.energy, !.due = FALSE]
        /\ UNCHANGED <<plugNow, plugSaved, plugPassed, plugReading, plugCounter, plugUsed, plugBooked, plugReboots>>
    BY <1>6 DEF Energy!Restores, Energy!history
  <2>2. plugSaved.on \in Nat /\ plugSaved.energy \in Nat
    BY <1>1, <2>1 DEF CopySet
  <2> DEFINE o == plugPlug.on + plugSaved.on
             g == plugPlug.energy + plugSaved.energy
  <2>3. plugPlug' \in PlugSet /\ ~plugPlug'.due
    <3>1. o \in Nat /\ g \in Nat
      BY <1>1, <2>2 DEF PlugSet
    <3>2. plugPlug' = [plugPlug EXCEPT !.on = o, !.energy = g, !.due = FALSE]
      BY <2>1
    <3> HIDE DEF o, g
    <3> QED BY <1>1, <3>1, <3>2 DEF PlugSet
  <2> QED BY <1>1, <2>1, <2>3 DEF EnergyInv
<1>7. CASE Energy!Midnight
  <2>1. /\ plugPassed' = TRUE /\ plugSaved' = Energy!NoCopy
        /\ plugPlug' = [plugPlug EXCEPT !.on = 0, !.energy = 0, !.due = FALSE]
        /\ UNCHANGED <<plugNow, plugReading, plugCounter, plugUsed, plugBooked, plugReboots>>
    BY <1>7 DEF Energy!Midnight, Energy!history
  <2>2. plugPlug' \in PlugSet /\ ~plugPlug'.due
    BY <1>1, <2>1 DEF PlugSet
  <2> QED BY <1>1, <2>1, <2>2 DEF EnergyInv
<1> QED BY <1>2, <1>3, <1>4, <1>5, <1>6, <1>7

\* What is read of it, and what the counter makes of that.
LEMMA CounterKeeps ==
    ASSUME EnergyInv, Energy!Pushes \/ Energy!Arrives
    PROVE  EnergyInv'
<1> USE EnergyAssumption DEF EnergyAssumption
<1>1. /\ plugNow \in 0..MaxTime /\ plugPlug \in PlugSet /\ plugPassed \in BOOLEAN
      /\ plugSaved = Energy!NoCopy \/ plugSaved \in CopySet
      /\ plugReading = Energy!NoCopy \/ plugReading \in ReadingSet
      /\ plugCounter \in CounterSet
      /\ plugUsed \in Nat /\ plugBooked \in Int /\ plugReboots \in 0..MaxReboots
      /\ plugPlug.due => plugSaved # Energy!NoCopy
  BY DEF EnergyInv
<1>2. CASE Energy!Pushes
  <2>1. /\ plugReading' = [of |-> plugPlug, at |-> plugNow]
        /\ UNCHANGED <<plugNow, plugPlug, plugSaved, plugPassed, plugCounter, plugUsed, plugBooked, plugReboots>>
    BY <1>2 DEF Energy!Pushes, Energy!external, Energy!history
  <2>2. plugReading' \in ReadingSet
    BY <1>1, <2>1 DEF ReadingSet
  <2> QED BY <1>1, <2>1, <2>2 DEF EnergyInv
<1>3. CASE Energy!Arrives
  <2> DEFINE c == Energy!Cycle
             e == IF c.seen = Energy!Never THEN plugReading.of.energy ELSE plugCounter.energy
  <2>1. /\ plugReading # Energy!NoCopy /\ plugReading' = Energy!NoCopy
        /\ UNCHANGED <<plugNow, plugPlug, plugSaved, plugPassed, plugUsed, plugReboots>>
        /\ \/ UNCHANGED <<plugCounter, plugBooked>>
           \/ /\ plugCounter' = [reset |-> c.reset, updated |-> plugNow, energy |-> e, on |-> plugReading.of.on,
                                 uptime |-> plugReading.of.uptime, seen |-> c.seen]
              /\ plugBooked' = plugBooked + Energy!Booked(c.reset, e)
    BY <1>3 DEF Energy!Arrives, Energy!external
  <2>2. plugReading.of.on \in Nat /\ plugReading.of.energy \in Nat /\ plugReading.of.uptime \in Nat
    BY <1>1, <2>1 DEF ReadingSet, PlugSet
  <2>3. plugCounter.reset \in 0..MaxTime /\ plugCounter.energy \in Nat /\ plugCounter.seen \in Energy!Never..MaxTime
    BY <1>1 DEF CounterSet
  <2>4. c.reset \in 0..MaxTime /\ c.seen \in Energy!Never..MaxTime
    <3>1. /\ c.reset \in {plugCounter.reset, plugNow} \/ (c.reset = plugCounter.seen /\ plugCounter.seen # Energy!Never)
          /\ c.seen \in {Energy!Never, plugCounter.seen, plugNow}
      BY DEF Energy!Cycle
    <3> HIDE DEF c
    <3> QED BY <1>1, <2>3, <3>1 DEF Energy!Never
  <2>5. e \in Nat
    BY <2>2, <2>3
  <2>6. Energy!Booked(c.reset, e) \in Int
    <3> HIDE DEF c, e
    <3> QED BY <2>3, <2>5 DEF Energy!Booked
  <2>7. plugCounter' \in CounterSet /\ plugBooked' \in Int
    <3> HIDE DEF c, e
    <3> QED BY <1>1, <2>1, <2>2, <2>4, <2>5, <2>6 DEF CounterSet
  <2> QED BY <1>1, <2>1, <2>7 DEF EnergyInv
<1> QED BY <1>2, <1>3

LEMMA EnergyGoesOn == EnergyInv /\ [Energy!Next]_(Energy!vars) => EnergyInv'
<1> SUFFICES ASSUME EnergyInv, [Energy!Next]_(Energy!vars) PROVE EnergyInv'
  OBVIOUS
<1>1. CASE UNCHANGED Energy!vars
  BY <1>1 DEF Energy!vars, Energy!external, Energy!history, EnergyInv
<1>2. CASE Energy!Next
  BY <1>2, PlugKeeps, CounterKeeps DEF Energy!Next
<1> QED BY <1>1, <1>2

LEMMA EnergyTypes == EnergyInv => Energy!TypeOK
<1> SUFFICES ASSUME EnergyInv PROVE Energy!TypeOK
  OBVIOUS
<1>1. /\ plugPlug.up \in BOOLEAN /\ plugPlug.due \in BOOLEAN
      /\ plugPlug.uptime \in Nat /\ plugPlug.on \in Nat /\ plugPlug.energy \in Nat
  BY DEF EnergyInv, PlugSet
<1>2. plugSaved = Energy!NoCopy \/ (plugSaved.on \in Nat /\ plugSaved.energy \in Nat)
  BY DEF EnergyInv, CopySet
<1>3. plugReading = Energy!NoCopy \/ plugReading.at \in 0..MaxTime
  BY DEF EnergyInv, ReadingSet
<1>4. plugCounter.reset \in 0..MaxTime /\ plugCounter.seen \in Energy!Never..MaxTime
  BY DEF EnergyInv, CounterSet
<1> QED BY <1>1, <1>2, <1>3, <1>4 DEF EnergyInv, Energy!TypeOK

\* For any plug: what it counted, saved and pushed, and what was booked of it,
\* are numbers, and a reset is never later than the readings (models/
\* energy_counter.py 60-180).
THEOREM EnergyTyped == Energy!Spec => []Energy!TypeOK
<1> QED BY EnergyStarts, EnergyGoesOn, EnergyTypes, PTL DEF Energy!Spec

-----------------------------------------------------------------------------
(* The sum: a step of one part leaves the variables of the others alone.    *)

LEMMA LinkParts ==
    ASSUME [PartsNext]_partsVars
    PROVE  /\ [Next]_vars /\ [Raw!Next]_(Raw!vars) /\ [Health!Next]_(Health!vars) /\ [Thermo!Next]_(Thermo!vars)
           /\ [Probe!Next]_(Probe!vars) /\ [Kettle!Next]_(Kettle!vars) /\ [Energy!Next]_(Energy!vars)
<1>1. CASE UNCHANGED partsVars
  BY <1>1 DEF partsVars, lanVars, rawVars, healthVars, thermoVars, probeVars, kettleVars, energyVars,
     Raw!vars, Raw!link, Raw!radio, Health!vars, Health!entries, Health!links, Thermo!vars, Thermo!govee, Thermo!account, Thermo!meter,
     Probe!vars, Probe!polling, Probe!limits, Probe!counts, Kettle!vars, Kettle!kcounts, Energy!vars, Energy!external,
     Energy!history
<1>2. CASE PartsNext
  BY <1>2 DEF PartsNext, lanVars, rawVars, healthVars, thermoVars, probeVars, kettleVars, energyVars,
     Raw!vars, Raw!link, Raw!radio, Health!vars, Health!entries, Health!links, Thermo!vars, Thermo!govee, Thermo!account, Thermo!meter,
     Probe!vars, Probe!polling, Probe!limits, Probe!counts, Kettle!vars, Kettle!kcounts, Energy!vars, Energy!external,
     Energy!history
<1> QED BY <1>1, <1>2

\* The LAN, the raw writes, the paths, the thermometers, the kettle and the plug
\* behave in the sum as their own specifications say.
THEOREM LinkPartsAreWhole ==
    PartsSpec => Spec /\ Raw!Spec /\ Health!Spec /\ Thermo!Spec /\ Probe!Spec /\ Kettle!Spec /\ Energy!Spec
<1>1. PartsInit => Init /\ Raw!Init /\ Health!Init /\ Thermo!Init /\ Probe!Init /\ Kettle!Init /\ Energy!Init
  BY DEF PartsInit
<1> QED BY <1>1, LinkParts, PTL
        DEF PartsSpec, Spec, Raw!Spec, Health!Spec, Thermo!Spec, Probe!Spec, Kettle!Spec, Energy!Spec

\* In the sum, the link of raw writes is let go, one pipe carries a paint, a
\* path that is gone is found out in time, and the limits of a probe and the
\* mode of a kettle are the device's own.
THEOREM LinksSound == PartsSpec => []LinksAreSound
<1>1. Raw!RawWritesAreRight /\ Health!GoneIsFoundOut /\ Probe!ProbesAreRight /\ Kettle!KettleIsRight => LinksAreSound
  BY DEF LinksAreSound
<1> QED BY <1>1, LinkPartsAreWhole, RawWritesRight, GoneFoundOut, LimitsShownRight, ModeKept, PTL

\* In the sum, a refusal and a reading stand until something newer replaces them.
THEOREM NothingTurnsBack == PartsSpec => NothingGoesBack
  BY LinkPartsAreWhole, RefusalKept, ReadingsForward DEF NothingGoesBack

\* In the sum, every part keeps its types.
THEOREM LinksTyped == PartsSpec => []AllTypeOK
<1>1. RawInv => Raw!TypeOK
  BY DEF RawInv
<1>2. HealthInv => Health!TypeOK
  BY DEF HealthInv
<1>3. ThermoInv => Thermo!TypeOK
  BY DEF ThermoInv
<1>4. HealthInv /\ [Health!Next]_(Health!vars) => HealthInv'
  BY HealthGoesOn
<1>5. ThermoInv /\ [Thermo!Next]_(Thermo!vars) => ThermoInv'
  BY ThermoGoesOn
<1>6. Raw!Spec => []Raw!TypeOK
  BY RawStarts, RawGoesOn, <1>1, PTL DEF Raw!Spec
<1>7. Health!Spec => []Health!TypeOK
  BY HealthStarts, <1>2, <1>4, PTL DEF Health!Spec
<1>8. Thermo!Spec => []Thermo!TypeOK
  BY ThermoStarts, <1>3, <1>5, PTL DEF Thermo!Spec
<1>9. Probe!Spec => []Probe!TypeOK
  BY ProbeStarts, ProbeGoesOn, ProbeIsRight, PTL DEF Probe!Spec
<1>10. Kettle!Spec => []Kettle!TypeOK
  BY KettleStarts, KettleGoesOn, KettleIsKept, PTL DEF Kettle!Spec
<1>11. TypeOK /\ Raw!TypeOK /\ Health!TypeOK /\ Thermo!TypeOK /\ Probe!TypeOK /\ Kettle!TypeOK /\ Energy!TypeOK => AllTypeOK
  BY DEF AllTypeOK
<1> QED BY <1>6, <1>7, <1>8, <1>9, <1>10, <1>11, LanTyped, EnergyTyped, LinkPartsAreWhole, PTL
=============================================================================
