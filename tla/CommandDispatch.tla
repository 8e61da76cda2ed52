--------------------------- MODULE CommandDispatch ---------------------------
(***************************************************************************)
(* The control path of the coordinator: async_control_device and the       *)
(* transport tiers below it, BLE > LAN > MQTT > REST.  Any number of calls *)
(* interleave at their awaits.  A copy of a command that left over a       *)
(* transport sits in wire[c] until the device takes it (Arrives); a lost   *)
(* copy stays there.  Whether the gate of a tier is open (client up,       *)
(* device correlated, health fresh, topic known) is chosen where the code  *)
(* reads it: no await separates that read from its use.                    *)
(***************************************************************************)
EXTENDS Naturals, Sequences, FiniteSets

CONSTANTS
    Lamps,
    Calls,          \* identities of control calls; each is made at most once
    Commands,       \* records [kind, value]
    Deferrable,     \* the commands some caller sends with defer_lan_confirm
    WriteOnly,      \* devices with a "device=ip!" override: they never answer a read
    Threshold,      \* LAN_WRITE_SUPPRESS_THRESHOLD
    Boot,           \* [Kinds -> Values]: what every device holds at start-up
    NoJob

Kinds  == {cmd.kind : cmd \in Commands}
Unset  == "unset"
Values == {cmd.value : cmd \in Commands} \cup {Boot[k] : k \in DOMAIN Boot} \cup {Unset}

\* command_to_lan maps the four fields devStatus reports; BLE and MQTT carry three.
LanKinds    == {"power", "brightness", "color", "colorTemp"}
NativeKinds == {"power", "brightness", "color"}
ColorKinds  == {"color", "colorTemp"}
Transports  == {"ble", "lan", "mqtt", "rest"}

Jobs == [dev : Lamps, cmd : Commands, defer : BOOLEAN, gen : Nat]

ASSUME CommandsAssumption ==
    /\ Commands \subseteq [kind : STRING, value : STRING]
    /\ Deferrable \subseteq Commands
    /\ Kinds \subseteq DOMAIN Boot
    /\ "power" \in DOMAIN Boot /\ Boot \in [DOMAIN Boot -> STRING]
ASSUME NumbersAssumption == Threshold \in Nat \ {0} /\ WriteOnly \subseteq Lamps
ASSUME NoJobAssumption == NoJob \notin Jobs

VARIABLES
    pc,             \* where each call's code is suspended
    answer,         \* what its caller was told; a deferred call is told early
    job,            \* its arguments and the generation it was stamped with
    captured,       \* the generation its deferred confirm was made under
    tried,          \* the transports it sent on (the recent_commands log)
    wire,           \* the transports on which a copy is still under way
    gens,           \* _command_generations
    pendingOff,     \* _pending_power_off
    deferredOff,    \* _deferred_power_off
    misses,         \* _lan_write_misses
    cooldown,       \* _lan_write_suppressed_until: unset, in the future, or elapsed
    latch,          \* child_power: a power-on was sent under POWER_LATCH_SECONDS ago
    lockQ,          \* _segment_locks: holder first, waiters in order
    view,           \* _states: the value shown for each kind
    online,
    actual          \* what the device itself holds (external)

calls == <<pc, answer, job, captured, tried>>
flags == <<pendingOff, deferredOff>>
lan   == <<misses, cooldown>>
dispatchVars == <<calls, wire, gens, flags, lan, latch, lockQ, view, online, actual>>

Pcs == {"idle", "ble", "confirm", "mqtt", "rest", "locked", "segment", "pacing", "done"}

DispatchTypeOK ==
    /\ pc \in [Calls -> Pcs]
    /\ answer \in [Calls -> {"none", "true", "false", "raised"}]
    /\ job \in [Calls -> Jobs \cup {NoJob}]
    /\ \A c \in Calls : job[c] = NoJob <=> pc[c] = "idle"
    /\ captured \in [Calls -> Nat]
    /\ tried \in [Calls -> SUBSET Transports]
    /\ wire \in [Calls -> SUBSET Transports]
    /\ gens \in [Lamps -> [Kinds -> Nat]]
    /\ pendingOff \subseteq Lamps
    /\ deferredOff \subseteq Lamps
    /\ misses \in [Lamps -> Nat]
    /\ cooldown \in [Lamps -> {"none", "running", "over"}]
    /\ latch \in [Lamps -> BOOLEAN]
    /\ lockQ \in [Lamps -> Seq(Calls)]
    /\ view \in [Lamps -> [DOMAIN Boot -> Values]]
    /\ online \in [Lamps -> BOOLEAN]
    /\ actual \in [Lamps -> [DOMAIN Boot -> Values]]

PowerOff(cmd) == cmd.kind = "power" /\ cmd.value = "off"
PowerOn(cmd)  == cmd.kind = "power" /\ cmd.value = "on"
Active(c)     == pc[c] \notin {"idle", "done"}
Answered(c)   == answer[c] # "none"

DispatchInit ==
    /\ pc = [c \in Calls |-> "idle"]
    /\ answer = [c \in Calls |-> "none"]
    /\ job = [c \in Calls |-> NoJob]
    /\ captured = [c \in Calls |-> 0]
    /\ tried = [c \in Calls |-> {}]
    /\ wire = [c \in Calls |-> {}]
    /\ gens = [d \in Lamps |-> [k \in Kinds |-> 0]]
    /\ pendingOff = {} /\ deferredOff = {}
    /\ misses = [d \in Lamps |-> 0]
    /\ cooldown = [d \in Lamps |-> "none"]
    /\ latch = [d \in Lamps |-> FALSE]
    /\ lockQ = [d \in Lamps |-> <<>>]
    /\ view = [d \in Lamps |-> Boot]
    /\ online = [d \in Lamps |-> TRUE]
    /\ actual = [d \in Lamps |-> Boot]

-----------------------------------------------------------------------------
(* Fragments.  Each stands for the code up to the next await; `off` is      *)
(* _pending_power_off as the code before it, in the same step, left it.     *)

Send(c, t) ==
    /\ wire' = [wire EXCEPT ![c] = @ \cup {t}]
    /\ tried' = [tried EXCEPT ![c] = @ \cup {t}]
NoSend == UNCHANGED <<wire, tried>>

\* What one kind of command makes meaningless: a lamp has one colour mode.
Clears(kind) ==
    CASE kind = "color"     -> {"colorTemp", "scene"}
      [] kind = "colorTemp" -> {"color", "scene"}
      [] kind = "scene"     -> {"color", "colorTemp"}
      [] OTHER              -> {}

\* _apply_optimistic_update
Show(d, cmd) ==
    view' = [view EXCEPT ![d] = [k \in DOMAIN Boot |->
                IF k = cmd.kind THEN cmd.value ELSE IF k \in Clears(cmd.kind) THEN Unset ELSE @[k]]]

\* Bug: the flag is dropped after the tiers instead of in a `finally`.
ReturnWithoutFinally(c, j, r, off) ==
    /\ pc' = [pc EXCEPT ![c] = "done"] /\ captured' = captured
    /\ answer' = IF Answered(c) THEN answer ELSE [answer EXCEPT ![c] = r]
    /\ deferredOff' = IF Answered(c) THEN deferredOff \ {j.dev} ELSE deferredOff
    /\ pendingOff' = IF r # "raised" /\ PowerOff(j.cmd) THEN off \ {j.dev} ELSE off

\* The call returns r: `finally` drops the power-off flag unless a deferred
\* task owns it; the end of a deferred task drops both.
Return(c, j, r, off) ==
    /\ pc' = [pc EXCEPT ![c] = "done"] /\ captured' = captured
    /\ IF Answered(c)
       THEN /\ answer' = answer
            /\ deferredOff' = deferredOff \ {j.dev}
            /\ pendingOff' = IF j.dev \in deferredOff THEN off \ {j.dev} ELSE off
       ELSE /\ answer' = [answer EXCEPT ![c] = r]
            /\ deferredOff' = deferredOff
            /\ pendingOff' = IF PowerOff(j.cmd) /\ j.dev \notin deferredOff
                             THEN off \ {j.dev} ELSE off

Suspend(c, where, off) ==
    /\ pc' = [pc EXCEPT ![c] = where]
    /\ UNCHANGED <<answer, captured, deferredOff>> /\ pendingOff' = off

\* The caller is answered and the confirm goes on in a background task, which
\* takes over the power-off flag and keeps the generation as it stands now: a
\* call that came while BLE was tried has moved it already.
Detach(c, j, off) ==
    /\ pc' = [pc EXCEPT ![c] = "confirm"]
    /\ answer' = [answer EXCEPT ![c] = "true"]
    /\ captured' = [captured EXCEPT ![c] = gens'[j.dev][j.cmd.kind]]
    /\ pendingOff' = off
    /\ deferredOff' = IF PowerOff(j.cmd) THEN deferredOff \cup {j.dev} ELSE deferredOff

\* REST, the last tier.
ToRest(c, off) == Suspend(c, "rest", off) /\ Send(c, "rest") /\ UNCHANGED <<view, lockQ>>

\* _async_control_via_cloud: a segment command shows its colour, then queues
\* for the device's lock; a native one may go to MQTT; the rest go to REST.
ToCloud(c, j, off) ==
    IF j.cmd.kind = "segment"
    THEN /\ Suspend(c, "locked", off) /\ NoSend
         /\ Show(j.dev, j.cmd)
         /\ lockQ' = [lockQ EXCEPT ![j.dev] = Append(@, c)]
    ELSE \/ ToRest(c, off)
         \/ /\ j.cmd.kind \in NativeKinds
            /\ Suspend(c, "mqtt", off) /\ NoSend /\ UNCHANGED <<view, lockQ>>

\* Bug: a confirmed write takes one miss back instead of clearing the streak.
ForgiveOne(d) ==
    /\ misses' = [misses EXCEPT ![d] = @ - 1]
    /\ cooldown' = [cooldown EXCEPT ![d] = "none"]

\* Bug: suppression starts one miss late.
NoteMissLate(d) ==
    /\ misses' = [misses EXCEPT ![d] = @ + 1]
    /\ cooldown' = [cooldown EXCEPT ![d] = IF misses[d] + 1 > Threshold THEN "running" ELSE @]

ClearMisses(d) ==       \* _clear_lan_write_misses
    /\ misses' = [misses EXCEPT ![d] = 0]
    /\ cooldown' = [cooldown EXCEPT ![d] = "none"]
NoteMiss(d) ==          \* _note_lan_write_miss
    /\ misses' = [misses EXCEPT ![d] = @ + 1]
    /\ cooldown' = [cooldown EXCEPT ![d] = IF misses[d] + 1 >= Threshold THEN "running" ELSE @]

\* _lan_writes_suppressed: FALSE past the deadline, which it then forgets.
SuppressionOver(d) ==
    /\ cooldown[d] # "running"
    /\ IF cooldown[d] = "over" THEN ClearMisses(d) ELSE UNCHANGED lan

\* The datagram left: show the value, then answer or await the readback.
LanSent(c, j, off) ==
    /\ Send(c, "lan") /\ Show(j.dev, j.cmd) /\ UNCHANGED lockQ
    /\ IF j.dev \in WriteOnly THEN Return(c, j, "true", off)
       ELSE IF j.defer THEN Detach(c, j, off) ELSE Suspend(c, "confirm", off)

\* _try_lan_command and, when it does not send, the tiers below it.
TryLan(c, j, off) ==
    \/ UNCHANGED lan /\ ToCloud(c, j, off)                   \* an earlier gate is shut, or the cooldown runs
    \/ SuppressionOver(j.dev) /\ ToCloud(c, j, off)          \* not a LAN command, or sendto failed
    \/ SuppressionOver(j.dev) /\ j.cmd.kind \in LanKinds /\ LanSent(c, j, off)

-----------------------------------------------------------------------------
(* One action per entry point, resumption or outside event.                 *)

\* _async_control_device up to its first await: the flag and the generation
\* are stamped before anything is dispatched.
Start(c, d, cmd, defer) ==
    LET j   == [dev |-> d, cmd |-> cmd, defer |-> defer, gen |-> gens[d][cmd.kind] + 1]
        off == IF PowerOff(cmd) THEN pendingOff \cup {d} ELSE pendingOff
    IN  /\ pc[c] = "idle"
        /\ job' = [job EXCEPT ![c] = j]
        /\ gens' = [gens EXCEPT ![d][cmd.kind] = @ + 1]
        /\ UNCHANGED <<online, actual>>
        /\ \/ /\ cmd.kind \in NativeKinds                    \* BLE device in range
              /\ Suspend(c, "ble", off) /\ NoSend /\ UNCHANGED <<lan, lockQ, view>>
           \/ TryLan(c, j, off)

UserCommand(c, d, cmd) ==
    /\ ~(cmd.kind = "segment" /\ cmd.value = "black")
    /\ Start(c, d, cmd, FALSE)
    /\ UNCHANGED latch

\* A segment entity turned off: skipped when the device is off or going off.
SegmentTurnOff(c, d, cmd) ==
    /\ cmd.kind = "segment" /\ cmd.value = "black"
    /\ view[d]["power"] # "off" /\ d \notin pendingOff
    /\ Start(c, d, cmd, FALSE)
    /\ UNCHANGED latch

\* A zone or segment entity turned on powers its lamp first.
ChildPowerOn(c, d, cmd) ==
    /\ PowerOn(cmd) /\ cmd \in Deferrable
    /\ view[d]["power"] = "off" /\ ~latch[d]
    /\ latch' = [latch EXCEPT ![d] = TRUE]
    /\ Start(c, d, cmd, TRUE)

BleWritten(c) ==
    /\ pc[c] = "ble"
    /\ Send(c, "ble") /\ Show(job[c].dev, job[c].cmd)
    /\ online' = [online EXCEPT ![job[c].dev] = TRUE]
    /\ Return(c, job[c], "true", pendingOff)
    /\ UNCHANGED <<job, gens, lan, latch, lockQ, actual>>

BleFailed(c) ==
    /\ pc[c] = "ble"
    /\ UNCHANGED <<job, gens, latch, online, actual>>
    /\ TryLan(c, job[c], pendingOff)

\* The readback shows the value that was sent; inside the optimistic grace
\* the overlay leaves power and brightness alone.
LanConfirmed(c) ==
    LET d == job[c].dev IN
    /\ pc[c] = "confirm"
    /\ actual[d][job[c].cmd.kind] = job[c].cmd.value
    /\ ClearMisses(d)
    /\ \E overlaid \in {LanKinds, ColorKinds} :
         view' = [view EXCEPT ![d] =
                     [k \in DOMAIN Boot |-> IF k \in overlaid THEN actual[d][k] ELSE @[k]]]
    /\ online' = [online EXCEPT ![d] = TRUE]
    /\ Return(c, job[c], "true", pendingOff)
    /\ NoSend /\ UNCHANGED <<job, gens, latch, lockQ, actual>>

\* _async_confirm_lan_write_deferred: the counter moved since the task was made.
Superseded(c) == gens[job[c].dev][job[c].cmd.kind] # captured[c]

\* Bug: the task falls back without looking at the generation again.
LanUnconfirmedAlwaysResends(c) ==
    /\ pc[c] = "confirm"
    /\ NoteMiss(job[c].dev)
    /\ ToCloud(c, job[c], pendingOff)
    /\ UNCHANGED <<job, gens, latch, online, actual>>

\* Bug: an unconfirmed write is reported as failed, with no fallback.
LanUnconfirmedStrands(c) ==
    /\ pc[c] = "confirm"
    /\ NoteMiss(job[c].dev)
    /\ Return(c, job[c], "false", pendingOff)
    /\ NoSend /\ UNCHANGED <<job, gens, latch, lockQ, view, online, actual>>

\* No reply in time, or (echo lag, lost datagram) another value: a miss unless
\* the read fell into the echo window, and the cloud tiers, unless the write
\* was deferred and a newer one was made.
LanUnconfirmed(c) ==
    /\ pc[c] = "confirm"
    /\ NoteMiss(job[c].dev) \/ UNCHANGED lan
    /\ IF Answered(c) /\ Superseded(c)
       THEN Return(c, job[c], "false", pendingOff) /\ NoSend /\ UNCHANGED <<lockQ, view>>
       ELSE ToCloud(c, job[c], pendingOff)
    /\ UNCHANGED <<job, gens, latch, online, actual>>

MqttPublished(c) ==
    /\ pc[c] = "mqtt"
    /\ Send(c, "mqtt") /\ Show(job[c].dev, job[c].cmd)
    /\ Return(c, job[c], "true", pendingOff)
    /\ UNCHANGED <<job, gens, lan, latch, lockQ, online, actual>>

\* Bug: a refused publish starts over from the first tier.
MqttStartsOver(c) ==
    /\ pc[c] = "mqtt"
    /\ Suspend(c, "ble", pendingOff) /\ NoSend
    /\ UNCHANGED <<job, gens, lan, latch, lockQ, view, online, actual>>

MqttRefused(c) ==           \* no topic, or the publish failed
    /\ pc[c] = "mqtt"
    /\ ToRest(c, pendingOff)
    /\ UNCHANGED <<job, gens, lan, latch, online, actual>>

\* The request is over: a copy the cloud has not delivered by now is dropped.
RestReply(c, outcome) ==
    /\ pc[c] = "rest"
    /\ wire' = [wire EXCEPT ![c] = @ \ {"rest"}]
    /\ IF outcome = "ok" THEN Show(job[c].dev, job[c].cmd) ELSE UNCHANGED view
    /\ online' = IF outcome = "offline" THEN [online EXCEPT ![job[c].dev] = FALSE] ELSE online
    /\ Return(c, job[c], CASE outcome = "ok" -> "true" [] outcome = "auth" -> "raised" [] OTHER -> "false",
              pendingOff)
    /\ UNCHANGED <<job, tried, gens, lan, latch, lockQ, actual>>

\* Bug: segment requests do not wait for the device's lock.
SegmentSkipsLock(c) ==
    /\ pc[c] = "locked"
    /\ Suspend(c, "segment", pendingOff) /\ Send(c, "rest")
    /\ UNCHANGED <<job, gens, lan, latch, lockQ, view, online, actual>>

\* _dispatch_segment_command: the FIFO lock is held over the request and the pacing gap.
SegmentAcquires(c) ==
    /\ pc[c] = "locked" /\ lockQ[job[c].dev] # <<>> /\ Head(lockQ[job[c].dev]) = c
    /\ Suspend(c, "segment", pendingOff) /\ Send(c, "rest")
    /\ UNCHANGED <<job, gens, lan, latch, lockQ, view, online, actual>>

\* Bug: the lock is released before the pacing gap.
SegmentReplyUnlocks(c) ==
    /\ pc[c] = "segment"
    /\ wire' = [wire EXCEPT ![c] = @ \ {"rest"}]
    /\ lockQ' = [lockQ EXCEPT ![job[c].dev] = Tail(@)]
    /\ Suspend(c, "pacing", pendingOff)
    /\ UNCHANGED <<job, tried, gens, lan, latch, view, online, actual>>

SegmentReply(c) ==
    /\ pc[c] = "segment"
    /\ wire' = [wire EXCEPT ![c] = @ \ {"rest"}]
    /\ Suspend(c, "pacing", pendingOff)
    /\ UNCHANGED <<job, tried, gens, lan, latch, lockQ, view, online, actual>>

ReleaseLock(c) == lockQ' = [lockQ EXCEPT ![job[c].dev] = Tail(@)]

\* Bug: the colour is shown again when the request returns.
SegmentPacedShows(c, r) ==
    /\ pc[c] = "pacing"
    /\ ReleaseLock(c) /\ Show(job[c].dev, job[c].cmd)
    /\ Return(c, job[c], r, pendingOff)
    /\ NoSend /\ UNCHANGED <<job, gens, lan, latch, online, actual>>

SegmentPaced(c, r) ==       \* r: what control_device returned
    /\ pc[c] = "pacing"
    /\ ReleaseLock(c)
    /\ Return(c, job[c], r, pendingOff)
    /\ NoSend /\ UNCHANGED <<job, gens, lan, latch, view, online, actual>>

SegmentError(c, outcome) == \* an exception leaves the lock at once
    /\ pc[c] = "segment"
    /\ wire' = [wire EXCEPT ![c] = @ \ {"rest"}]
    /\ ReleaseLock(c)
    /\ online' = IF outcome = "offline" THEN [online EXCEPT ![job[c].dev] = FALSE] ELSE online
    /\ Return(c, job[c], IF outcome = "auth" THEN "raised" ELSE "false", pendingOff)
    /\ UNCHANGED <<job, tried, gens, lan, latch, view, actual>>

-----------------------------------------------------------------------------
(* The clock, the poll's demotion of a silent LAN device, and the network.  *)

CooldownElapses(d) ==
    /\ cooldown[d] = "running"
    /\ cooldown' = [cooldown EXCEPT ![d] = "over"]
    /\ UNCHANGED <<calls, wire, gens, flags, misses, latch, lockQ, view, online, actual>>

LatchExpires(d) ==
    /\ latch[d]
    /\ latch' = [latch EXCEPT ![d] = FALSE]
    /\ UNCHANGED <<calls, wire, gens, flags, lan, lockQ, view, online, actual>>

LanForgotten(d) ==          \* _demote_lan_device, _drop_lan_correlation
    /\ misses[d] > 0
    /\ ClearMisses(d)
    /\ UNCHANGED <<calls, wire, gens, flags, latch, lockQ, view, online, actual>>

Arrives(c, t) ==
    /\ t \in wire[c]
    /\ wire' = [wire EXCEPT ![c] = @ \ {t}]
    /\ actual' = [actual EXCEPT ![job[c].dev][job[c].cmd.kind] = job[c].cmd.value]
    /\ UNCHANGED <<calls, gens, flags, lan, latch, lockQ, view, online>>

Resume(c) ==
    \/ BleWritten(c) \/ BleFailed(c)
    \/ LanConfirmed(c) \/ LanUnconfirmed(c)
    \/ MqttPublished(c) \/ MqttRefused(c)
    \/ \E o \in {"ok", "error", "offline", "auth"} : RestReply(c, o)
    \/ SegmentAcquires(c) \/ SegmentReply(c)
    \/ \E r \in {"true", "false"} : SegmentPaced(c, r)
    \/ \E o \in {"error", "offline", "auth"} : SegmentError(c, o)

DispatchNext ==
    \/ \E c \in Calls, d \in Lamps, cmd \in Commands :
         UserCommand(c, d, cmd) \/ SegmentTurnOff(c, d, cmd) \/ ChildPowerOn(c, d, cmd)
    \/ \E c \in Calls : Resume(c)
    \/ \E d \in Lamps : CooldownElapses(d) \/ LatchExpires(d) \/ LanForgotten(d)
    \/ \E c \in Calls, t \in Transports : Arrives(c, t)

DispatchSpec == DispatchInit /\ [][DispatchNext]_dispatchVars

\* Every await of the control path is bounded by a timeout, so a suspended
\* call goes on; nothing obliges a user to command or the network to deliver.
DispatchFairSpec == DispatchSpec /\ \A c \in Calls : WF_dispatchVars(Resume(c))
-----------------------------------------------------------------------------
(* What the control path owes its callers.                                  *)

\* _pending_power_off never leaks: whatever way every power-off of a device
\* ended (answer, exception, deferred task), a flag still set belongs to one
\* that is still running.  A leaked flag would mute the device's segments.
PowerOffFlagHasOwner ==
    \A d \in pendingOff : \E c \in Calls :
        Active(c) /\ job[c].dev = d /\ PowerOff(job[c].cmd)

\* "Never stranded" (_try_lan_command): a caller is told FALSE only after the
\* last tier, REST, was tried, whatever the tiers above it did.
FailureMeansRestTried ==
    \A c \in Calls : answer[c] = "false" => "rest" \in tried[c]

\* Together: however a call ends, it leaves no flag and has tried every tier.
CallsEndCleanly == PowerOffFlagHasOwner /\ FailureMeansRestTried

\* The asyncio.Lock of a device has one holder, at the head of its queue.
LockHolderIsHead ==
    \A c \in Calls : pc[c] \in {"segment", "pacing"} =>
        lockQ[job[c].dev] # <<>> /\ Head(lockQ[job[c].dev]) = c

\* Issue #53: of two segment commands to one device the later one is sent
\* only when the request of the earlier one is over, so they land in order.
SegmentsLandInOrder ==
    \A c1, c2 \in Calls :
        (/\ pc[c1] # "idle" /\ pc[c2] # "idle"
         /\ job[c1].cmd.kind = "segment" /\ job[c2].cmd.kind = "segment"
         /\ job[c1].dev = job[c2].dev /\ job[c1].gen < job[c2].gen
         /\ "rest" \in tried[c2])
        => "rest" \in tried[c1] /\ wire[c1] = {}

\* The colour shown for a segment is the one asked for last, however the
\* requests before it are still queued, answered or refused.
SegmentViewIsNewest ==
    \A c \in Calls :
        (/\ pc[c] # "idle" /\ job[c].cmd.kind = "segment"
         /\ job[c].gen = gens[job[c].dev]["segment"])
        => view[job[c].dev]["segment"] = job[c].cmd.value

\* The three together: what a burst of segment commands leaves is their order.
SegmentsKeepOrder == LockHolderIsHead /\ SegmentsLandInOrder /\ SegmentViewIsNewest

\* Issue #57: once Threshold LAN writes in a row went unconfirmed, no LAN
\* write leaves before a confirmed one or the end of the cooldown, even when
\* the misses were counted by calls that overlapped.
StreakSilencesLan ==
    [][\A c \in Calls :
         "lan" \in tried'[c] \ tried[c] =>
            \/ misses[job'[c].dev] < Threshold
            \/ cooldown[job'[c].dev] = "over"]_dispatchVars

Newer(n, c) ==
    /\ pc[n] # "idle" /\ job[n].gen > captured[c]
    /\ job[n].dev = job[c].dev /\ job[n].cmd.kind = job[c].cmd.kind

\* A deferred write whose confirm fails takes neither cloud tier when another
\* call gave its device a command of its kind after the datagram left.  (Of a
\* call that came before, while BLE was tried, the code does not know here.)
StaleDeferredStaysSilent ==
    [][\A c, n \in Calls :
         (pc[c] = "confirm" /\ Answered(c) /\ Newer(n, c)) => pc'[c] \in {"confirm", "done"}]_dispatchVars

\* Every control call returns, and with it every power-off flag is dropped.
EveryCallReturns == \A c \in Calls : Active(c) ~> pc[c] = "done"
PowerOffFlagClears == \A d \in Lamps : d \in pendingOff ~> d \notin pendingOff

\* async_control_via_cloud's fallback "must abort when the counter has moved:
\* a newer command of the same kind would be overridden" (docstring of
\* _async_confirm_lan_write_deferred).  The code tests the counter once and
\* then awaits the request, so this fails.
DeferredNeverOverridesNewer ==
    [][\A c \in Calls :
         (/\ Active(c) /\ Answered(c) /\ "rest" \in wire[c] /\ wire'[c] = wire[c] \ {"rest"}
          /\ actual' # actual)
         => \A newer \in Calls :
              (/\ answer[newer] = "true" /\ job[newer].dev = job[c].dev
               /\ job[newer].cmd.kind = job[c].cmd.kind)
              => job[newer].gen <= job[c].gen]_dispatchVars
=============================================================================
