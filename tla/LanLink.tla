------------------------------- MODULE LanLink -------------------------------
(***************************************************************************)
(* The LAN link: which device is at which address, the polls that scan and *)
(* read, the statuses that come unasked, and the reads a cloud push nudges.*)
(* A status carries no identity: its sender is known by address only, and  *)
(* DHCP moves addresses.                                                   *)
(* External: the devices, their leases and the datagrams.  A lease moves   *)
(* in seconds: no datagram outlives the move of its sender, and no address *)
(* is handed on during the scan that found its holder.  What a status says *)
(* is StateMerge's; here only the address it comes from matters.           *)
(***************************************************************************)
EXTENDS Naturals, FiniteSets

CONSTANTS
    Devices,
    Addresses,
    Leases,         \* the addresses at set-up
    PinSets,        \* device=ip options: sets of <<device, address>>
    WriteOnly,      \* devices pinned with a "!": they never answer a read
    OffScan,        \* devices a scan does not reach (another VLAN)
    Nudged,         \* devices the cloud pushes for
    Threshold,      \* LAN_READ_MISS_DEMOTE_THRESHOLD
    MaxMoves,       \* bound: leases that move
    MaxLost,        \* bound: answers that are lost, or late
    None

ASSUME LanAssumption ==
    /\ IsFiniteSet(Devices) /\ WriteOnly \cup OffScan \cup Nudged \subseteq Devices
    /\ Leases \subseteq [Devices -> Addresses]
    /\ \A leases \in Leases : \A d, e \in Devices : d # e => leases[d] # leases[e]
    /\ \A pins \in PinSets : /\ pins \subseteq Devices \X Addresses
                             /\ \A p, q \in pins : p[1] = q[1] => p = q
    /\ Threshold \in Nat \ {0} /\ MaxMoves \in Nat /\ MaxLost \in Nat
    /\ None \notin Devices \cup Addresses

VARIABLES
    where,          \* the world: each device's address
    net,            \* addresses a status is under way from
    pins,           \* the overrides of this set-up
    lan,            \* _lan_devices: the address of each correlated device
    misses,         \* _lan_read_misses
    due,            \* the rescan throttle is open
    poll,           \* of the poll's tail: idle, scan, read
    found,          \* the scan's answers so far
    batch, got,     \* ip_to_device of the read under way; the addresses that answered
    nudge, nudgeAt, \* the nudge's position and the address it reads
    moves, lost,
    owner,          \* history: the device the last merged scan found at the address
    asked,          \* history: a rescan was requested since the last one began
    spoke,          \* history: addresses heard from since the read began
    silent          \* history: reads in a row in which its address was not heard

world  == <<where, moves>>
map    == <<pins, lan, misses, owner>>
scan   == <<due, found, asked>>
read   == <<batch, got, spoke, silent>>
nudges == <<nudge, nudgeAt>>
vars   == <<world, net, map, scan, poll, read, nudges, lost>>

TypeOK ==
    /\ where \in [Devices -> Addresses] /\ net \subseteq Addresses
    /\ pins \in PinSets
    /\ lan \in [Devices -> Addresses \cup {None}]
    /\ misses \in [Devices -> 0..(Threshold - 1)] /\ due \in BOOLEAN
    /\ poll \in {"idle", "scan", "read"}
    /\ found \in [Devices -> Addresses \cup {None}]
    /\ batch \in [Addresses -> Devices \cup {None}] /\ got \subseteq Addresses
    /\ nudge \in [Nudged -> {"none", "pending", "first", "rest", "second"}]
    /\ nudgeAt \in [Nudged -> Addresses \cup {None}]
    /\ moves \in 0..MaxMoves /\ lost \in 0..MaxLost
    /\ owner \in [Addresses -> Devices \cup {None}]
    /\ asked \in BOOLEAN /\ spoke \subseteq Addresses /\ silent \in [Devices -> 0..Threshold]

Nowhere == [d \in Devices |-> None]
Unread  == [x \in Addresses |-> None]

\* Bug: the pin wins over what the scan found.
MatchedPinned(answers) ==
    [d \in Devices |->
        IF \E x \in Addresses : <<d, x>> \in pins THEN CHOOSE x \in Addresses : <<d, x>> \in pins ELSE answers[d]]

\* _resolve_lan_overrides and correlate_scan: an answer wins over a pin.
Matched(answers) ==
    [d \in Devices |->
        IF answers[d] # None THEN answers[d]
        ELSE IF \E x \in Addresses : <<d, x>> \in pins THEN CHOOSE x \in Addresses : <<d, x>> \in pins
        ELSE None]

Holder(table, x) == IF \E d \in Devices : table[d] = x THEN CHOOSE d \in Devices : table[d] = x ELSE None

\* _async_setup_lan: the first scan.  With nothing correlated there is no link.
Init ==
    /\ where \in Leases
    /\ net = {} /\ moves = 0 /\ lost = 0
    /\ pins \in PinSets
    /\ \E heard \in SUBSET (Devices \ OffScan) :
         LET answers == [d \in Devices |-> IF d \in heard THEN where[d] ELSE None]
         IN  lan = Matched(answers) /\ owner = [x \in Addresses |-> Holder(answers, x)]
    /\ lan # Nowhere
    /\ misses = [d \in Devices |-> 0] /\ silent = misses
    /\ due = FALSE /\ asked = FALSE /\ poll = "idle" /\ found = Nowhere
    /\ batch = Unread /\ got = {} /\ spoke = {}
    /\ nudge = [d \in Nudged |-> "none"] /\ nudgeAt = [d \in Nudged |-> None]
-----------------------------------------------------------------------------
(* The poll's tail: a scan when one is due, then one batch of reads.        *)

\* Addresses whose holder answers a status query.
Answering == {where[d] : d \in Devices \ WriteOnly}

\* ip_to_device: of two devices at one address the later in the map wins, and
\* those held by their pin come last.
Batch(table) ==
    [x \in Addresses |->
        LET readable == {d \in Devices \ WriteOnly : table[d] = x}
            pinned   == {d \in readable : <<d, x>> \in pins}
        IN  IF readable = {} THEN None
            ELSE IF pinned = {} THEN CHOOSE d \in readable : TRUE ELSE CHOOSE d \in pinned : TRUE]

\* async_read_batch: a collector and a query for every address.
StartRead(table) ==
    LET ips == Batch(table)
    IN  /\ batch' = ips /\ got' = {} /\ spoke' = {}
        /\ net' = net \cup {x \in Answering : ips[x] # None}
        /\ poll' = IF ips = Unread THEN "idle" ELSE "read"

PollReads ==
    /\ poll = "idle" /\ ~due
    /\ StartRead(lan)
    /\ UNCHANGED <<world, map, scan, silent, nudges, lost>>

\* The throttle is stamped before the scan, so a request made during it stands.
StartScan ==
    /\ poll = "idle" /\ due
    /\ poll' = "scan" /\ due' = FALSE /\ asked' = FALSE
    /\ UNCHANGED <<world, net, map, found, read, nudges, lost>>

ScanReply(d) ==
    /\ poll = "scan" /\ d \notin OffScan
    /\ found' = [found EXCEPT ![d] = where[d]]
    /\ UNCHANGED <<world, net, map, due, asked, poll, read, nudges, lost>>

\* Bug: a device the scan missed keeps its address, whoever has it now.
MergeKeepsMissed(matched) ==
    /\ lan' = [d \in Devices |-> IF matched[d] # None THEN matched[d] ELSE lan[d]]
    /\ misses' = [d \in Devices |-> IF matched[d] # None THEN 0 ELSE misses[d]]

\* _merge_lan_correlation: a device that was missed is kept where it was,
\* unless its address has been claimed.
Merge(matched) ==
    LET claimed == {matched[d] : d \in Devices} \ {None}
        dropped == {d \in Devices : matched[d] = None /\ lan[d] \in claimed}
    IN  /\ lan' = [d \in Devices |->
             IF matched[d] # None THEN matched[d] ELSE IF d \in dropped THEN None ELSE lan[d]]
        /\ misses' = [d \in Devices |-> IF matched[d] # None \/ d \in dropped THEN 0 ELSE misses[d]]

\* Bug: the throttle is stamped when the scan is over.
StampsAgain == found' = Nowhere /\ due' = FALSE /\ UNCHANGED asked

KeepsRequests == found' = Nowhere /\ UNCHANGED <<due, asked>>

\* The scan's window closes; the devices that were not heard cost a loss.
ScanEnds ==
    LET matched == Matched(found)
        unheard == {d \in Devices \ OffScan : found[d] # where[d]}
    IN  /\ poll = "scan"
        /\ lost + Cardinality(unheard) <= MaxLost
        /\ lost' = lost + Cardinality(unheard)
        /\ Merge(matched)
        /\ owner' = [x \in Addresses |-> IF Holder(found, x) # None THEN Holder(found, x) ELSE owner[x]]
        /\ silent' = [d \in Devices |-> IF matched[d] # None THEN 0 ELSE silent[d]]
        /\ StartRead(lan')
        /\ KeepsRequests
        /\ UNCHANGED <<world, pins, nudges>>

\* The port is held by another application: no scan, only the read.
ScanFails ==
    /\ poll = "scan" /\ lost < MaxLost
    /\ lost' = lost + 1
    /\ StartRead(lan)
    /\ KeepsRequests
    /\ UNCHANGED <<world, map, silent, nudges>>

\* Bug: one read more than the threshold.
DemotesLate(d) == misses[d] >= Threshold

Demotes(d) == misses[d] + 1 >= Threshold

\* The batch's window closes: silence is counted, and a device silent too
\* often is dropped from the map.
WindowEnds ==
    LET heard   == {d \in Devices : \E x \in got : batch[x] = d}
        unheard == {d \in Devices : \E x \in Addresses \ got : batch[x] = d}
        demoted == {d \in unheard : Demotes(d)}
        late    == {x \in net \ got : batch[x] # None}
    IN  /\ poll = "read"
        /\ lost + Cardinality(late) <= MaxLost /\ lost' = lost + Cardinality(late)
        /\ misses' = [d \in Devices |->
             IF d \in heard \cup demoted THEN 0 ELSE IF d \in unheard THEN misses[d] + 1 ELSE misses[d]]
        /\ lan' = [d \in Devices |-> IF d \in demoted THEN None ELSE lan[d]]
        /\ poll' = "idle" /\ batch' = Unread /\ got' = {} /\ spoke' = {}
        /\ silent' = [d \in Devices |->
             IF \E x \in spoke : batch[x] = d THEN 0
             ELSE IF \E x \in Addresses : batch[x] = d /\ silent[d] < Threshold THEN silent[d] + 1 ELSE silent[d]]
        /\ UNCHANGED <<world, net, pins, owner, scan, nudges>>

\* Bug: with an empty map there is nothing to scan for.
RescanFallsDueIfMapped ==
    /\ poll # "scan" /\ ~due /\ lan # Nowhere
    /\ due' = TRUE
    /\ UNCHANGED <<world, net, map, found, asked, poll, read, nudges, lost>>

\* LAN_RESCAN_INTERVAL has passed.
RescanFallsDue ==
    /\ poll # "scan" /\ ~due
    /\ due' = TRUE
    /\ UNCHANGED <<world, net, map, found, asked, poll, read, nudges, lost>>
-----------------------------------------------------------------------------
(* Statuses, asked for or not, and the reads of one device.                 *)

Reading(d, x) == nudge[d] \in {"first", "second"} /\ nudgeAt[d] = x

\* Bug: of the readers waiting for an address one is served.
ServesOne(x, readers) == got' = IF batch[x] # None /\ readers = {} THEN got \cup {x} ELSE got

\* Every collector waiting for the address is served.
Serves(x, readers) == got' = IF batch[x] # None THEN got \cup {x} ELSE got

\* A nudge whose read ends: the first read's answer asks for a second.
Answered(readers) ==
    [d \in Nudged |-> IF d \notin readers THEN nudge[d] ELSE IF nudge[d] = "first" THEN "rest" ELSE "none"]

\* _on_lan_dev_status: a status nobody waits for is applied when its address is
\* one device's and was correlated lately; else a rescan is requested.
Unsolicited(x, lately) ==
    IF lately /\ Cardinality({d \in Devices : lan[d] = x}) = 1
    THEN UNCHANGED <<due, asked>>
    ELSE due' = TRUE /\ asked' = TRUE

\* _handle_datagram.
Deliver(x) ==
    LET readers == {d \in Nudged : Reading(d, x)}
    IN  /\ x \in net
        /\ net' = net \ {x}
        /\ Serves(x, readers)
        /\ spoke' = IF poll = "read" THEN spoke \cup {x} ELSE spoke
        /\ nudge' = Answered(readers)
        /\ nudgeAt' = [d \in Nudged |-> IF d \in readers THEN None ELSE nudgeAt[d]]
        /\ IF batch[x] # None \/ readers # {} THEN UNCHANGED <<due, asked>> ELSE \E lately \in BOOLEAN : Unsolicited(x, lately)
        /\ UNCHANGED <<world, map, found, poll, batch, silent, lost>>

Lose(x) ==
    /\ x \in net /\ lost < MaxLost
    /\ net' = net \ {x} /\ lost' = lost + 1
    /\ UNCHANGED <<world, map, scan, poll, read, nudges>>

\* A push of the cloud for a correlated device; others coalesce or are dropped.
CloudPush(d) ==
    /\ nudge[d] = "none" /\ lan[d] # None
    /\ nudge' = [nudge EXCEPT ![d] = "pending"]
    /\ UNCHANGED <<world, net, map, scan, poll, read, nudgeAt, lost>>

\* _async_read_once, the address taken from the map.
ReadOnce(d, step) ==
    /\ nudge' = [nudge EXCEPT ![d] = IF lan[d] = None THEN "none" ELSE step]
    /\ nudgeAt' = [nudgeAt EXCEPT ![d] = lan[d]]
    /\ net' = net \cup ({lan[d]} \cap Answering)
    /\ UNCHANGED <<world, map, scan, poll, read, lost>>

NudgeFires(d)    == nudge[d] = "pending" /\ ReadOnce(d, "first")
NudgeConfirms(d) == nudge[d] = "rest" /\ ReadOnce(d, "second")

\* Bug: a nudge's miss counts as one of the poll's.
MissCounts(d) ==
    misses' = [misses EXCEPT ![d] = IF @ + 1 < Threshold THEN @ + 1 ELSE @]

MissIsForgotten(d) == UNCHANGED misses

NudgeTimesOut(d) ==
    /\ nudge[d] \in {"first", "second"}
    /\ nudge' = [nudge EXCEPT ![d] = "none"] /\ nudgeAt' = [nudgeAt EXCEPT ![d] = None]
    /\ MissIsForgotten(d)
    /\ UNCHANGED <<world, net, pins, lan, owner, scan, poll, read, lost>>

\* A command of one's own in between makes the second read moot.
NudgeEnds(d) ==
    /\ nudge[d] = "rest"
    /\ nudge' = [nudge EXCEPT ![d] = "none"]
    /\ UNCHANGED <<world, net, map, scan, poll, read, nudgeAt, lost>>

\* A device changes and says so.
Announce(d) ==
    /\ where[d] \notin net
    /\ net' = net \cup {where[d]}
    /\ UNCHANGED <<world, map, scan, poll, read, nudges, lost>>

Move(d, x) ==
    /\ moves < MaxMoves /\ moves' = moves + 1
    /\ \A e \in Devices : where[e] # x
    /\ where[d] \notin net /\ (poll = "scan" => \A e \in Devices : found[e] # x)
    /\ where' = [where EXCEPT ![d] = x]
    /\ UNCHANGED <<net, map, scan, poll, read, nudges, lost>>

Poll == PollReads \/ StartScan \/ ScanEnds \/ ScanFails \/ WindowEnds

Next ==
    \/ Poll
    \/ RescanFallsDue
    \/ \E d \in Devices : ScanReply(d) \/ Announce(d)
    \/ \E d \in Nudged : CloudPush(d) \/ NudgeFires(d) \/ NudgeConfirms(d) \/ NudgeTimesOut(d) \/ NudgeEnds(d)
    \/ \E x \in Addresses : Deliver(x) \/ Lose(x) \/ \E d \in Devices : Move(d, x)

Spec == Init /\ [][Next]_vars

\* The poll is on a timer, as is the rescan; what is not lost arrives.
FairSpec ==
    /\ Spec /\ WF_vars(Poll) /\ WF_vars(RescanFallsDue)
    /\ \A d \in Devices : WF_vars(ScanReply(d))
    /\ \A x \in Addresses : WF_vars(Deliver(x))
-----------------------------------------------------------------------------
\* A device that is not held by its pin is where the last scan found it: the
\* address of another is never kept for it, in the map or in the batch that is
\* being read, so a DHCP change misroutes no read after the scan that saw it.
RoutesFollowScans ==
    /\ \A d \in Devices : lan[d] # None => owner[lan[d]] = d \/ <<d, lan[d]>> \in pins
    /\ \A x \in Addresses : batch[x] # None => owner[x] = batch[x] \/ <<batch[x], x>> \in pins

\* A device leaves the map at the end of a read only when nothing came from its
\* address in Threshold reads in a row, though reads of one device share the
\* address and answers come late.
DemotedOnlySilent ==
    [][\A d \in Devices : poll = "read" /\ lan[d] # None /\ lan'[d] = None => silent'[d] >= Threshold]_vars

\* A rescan requested during a scan is not answered by that scan, which may have
\* heard the device before it moved.
RequestNotLost == asked => due

\* Together: routes follow the scans, and the scans the requests.
RoutesAreKept == RoutesFollowScans /\ RequestNotLost

\* Leases that stay put are found: every device a scan reaches ends up in the
\* map at its own address, demoted or displaced though it was.
Relocated == \A d \in Devices \ OffScan : <>[](lan[d] = where[d])
=============================================================================
