# Verification of the Govee integration for Home Assistant

TLA+ models of `custom_components/govee`, the TLC runs that check them on small
instances, and TLAPS proofs of what matters most for every instance.  Paths below
are relative to `src/custom_components/govee/`; a bare line number is a line of
`coordinator.py`.  `PROJECT.json` lists the components, the runs, the mutants that
each property catches, the source lines each definition stands for, the hazards
and the theorems.

## 1. The system

The integration is one asyncio program.  Nothing runs in parallel, so a race always
has the same shape: a coroutine reads shared state, awaits, and acts on what it
read.  The hard behaviours are therefore interleavings at awaits, answers that come
late or never, counters and caches that several coroutines keep, and a cloud that
refuses (429), rations (a daily request budget) or hangs up (AWS IoT closes the
session instead of answering a publish it refuses).

| Part | State it keeps | Operations | Who it talks to | What makes it correct |
|---|---|---|---|---|
| Control path (5466-6360, `child_power.py`, `lan_confirm.py`, `api/*_control.py`) | generation per device and kind, power-off flags, LAN miss streaks and their cooldown, segment lock, shown state | `async_control_device`, deferred confirm task, optimistic update | BLE, LAN, MQTT, REST clients; entities | every call returns; failure is told only after REST was tried; an older command never overrides a newer one; segments land in order; flags do not leak |
| Command confirmer (`command_confirm.py`) | one pending confirm per device and field, each with a task | `prepare`, `start`, `on_report`, `cancel_all`, the confirm task | control path, MQTT pushes, status query, budget | one confirm per field, one resend at most, decided by the newest report, never for a superseded command |
| Polling (4401-5213) | shown states, skip counters, interval, back-off | the poll cycle, a kettle's read beside it | REST client, LAN reads, budget | back-offs end, nothing polls faster under one, every device is read in time, an outage is reported only when it is total |
| Request budget (`request_budget.py`, counters of `api/client.py`) | requests made today, rate-limit headers | pacing and back-off functions, save and restore | polling, confirmer | the day fits the budget, the count survives reloads, the wait for the reset ends after it and not long after |
| State merge (`models/state.py`, 4908-5154) | the state of each device, the optimistic grace period | optimistic update, push, LAN read, merge of a cloud answer | every source of state | a command is not undone by a slower read; what only pushes report is kept; a scene gives back the look from before it |
| LAN link (1632-1914), LAN client and nudges (`api/lan_client.py`, `api/lan_nudge.py`) | device to address correlation, demotion counters, waiting readers, nudge cooldowns | scan answers, pushes, reads, nudges | LAN sockets, MQTT pushes | a reply is applied to the device that sent it, or to none; a silent device is demoted and comes back |
| Transport health (`transport_health.py`) | per device and transport success and failure | record, expire | every tier | "healthy" means heard from recently |
| Status queries and silence watchdog (3545-4400, `status_burst.py`) | in-flight marker, strikes, quarantine, account refusal, silence counters | sweep, query, disconnect blame, reconnect | MQTT client | a drop is charged to the device that caused it; the churn ends; devices stay asked |
| MQTT client (`api/mqtt.py`) | connection, reconnect back-off, ptReal queue | connect loop, publish, message | coordinator | one loop at most, none after unload, a restart does not lose its session |
| Login (`api/auth.py`, 2205-2290) | tokens, 2FA | login, refresh, re-login | MQTT client, config flow | one login at a time, throttled; new credentials reach the client that needs them |
| Leak sensors, probe thermometers (3180-3300, `api/probe_thermometer.py`) | wetness, generation of the last clear | polls, pushes, clear | account API | a clear is not undone by an answer from before it |
| Bridged and standalone sensors (3700-4130, 4160-4330) | last readings and where each came from, the warning history | gateway frames, list polls, Developer poll, lift | account API | a frame's reading is not replaced by an older one unless the list has no times or the Developer read began before the take-over; an alert is shown and goes away |
| OpenAPI events (`api/openapi_events.py`, 2066-2200) | the tank alert, a detector's wet flag | event, clear, restore | Home Assistant's store | the alert is the last event or the clear after it |
| Caches and drafts (`scene_cache.py`, `zone_state.py`, `diy_state.py`) | catalogs and the time of their fetch; zones recorded lit; the draft of an effect | fetch, write, stage, upload, restore | entities, storage | one fetch at a time; the record is what the lamp holds; an upload is one whole document |
| Energy counter (`models/energy_counter.py`) | last reset, reboot wait | update, restore | energy sensor | a reboot is not booked as a reset, a reset is not missed |
| Raw frames (`api/raw_router.py`, `lan_raw.py`, `ble_raw_write.py`) | the on-demand Bluetooth link, its lock and idle timer | write, disconnect, unload | LAN, radio, MQTT | the link is let go; one pipe carries a paint |
| Segments (`platforms/segment*.py`, `grouped_segment.py`, 1250-1310) | colours each entity shows, the ring's tracked colours | paint, group call, push, replay | control path | what is shown is what was last given or read |
| Kettle (`kettle/manager.py`) | mode, stored slot, protection, follow-up reads | command, push, read, restart | poll, control path | a slower read does not take back a mode; one chain of reads |
| Setup and unload (`__init__.py`, 1395-2571), flows (`config_flow.py`) | the entry, its data and options, open dialogs | setup stages, reload, flow steps | everything | what setup starts, unload stops; nothing wanted is removed; no dialog loses what another saved |

## 2. The modules

| Module | Models | Kind |
|---|---|---|
| `CommandDispatch` | the control path: all calls, all tiers, interleaved at their awaits | detailed |
| `ConfirmPromise` | what the confirmer promises, without tasks, reports or queries | abstract specification |
| `CommandConfirm` | the confirmer, its tasks, pushes and the unload; implements `ConfirmPromise` | detailed |
| `RequestBudget` | the arithmetic of `request_budget.py` | operators |
| `BudgetDay` | days of polling on that arithmetic, with the counter's file, reloads and crashes | detailed |
| `PollCycle` | the poll cycle, on that arithmetic | detailed |
| `StateMerge` | one light's state and all that write it | detailed |
| `StatusQuery` | sweeps, queries, blame, quarantine and reconnects | detailed |
| `LanLink` | who is at which LAN address: scans, reads, unasked statuses, nudges | detailed |
| `MqttSession` | the connection loop, and the three callers that stop it | detailed |
| `EntryLifecycle` | setup, reload, restart, discovery and the orphan cleanup | detailed |
| `ConfigFlow`, `OptionsFlow` | flows and dialogs side by side | detailed |
| `LeakSensor`, `WaterDetector`, `BridgedThermometer`, `ProbeThermometer`, `TankAlert` | a sensor each, with all that write its state | detailed |
| `CeilingRing`, `SegmentReadback`, `ZoneLight`, `DiyDraft` | what is kept of segments, zones and effects no channel, or a late one, reports | detailed |
| `RawFrames`, `TransportHealth`, `KettleState`, `EnergyCounter`, `SceneCache` | the component of the name | detailed |
| `MCLamps`, `MCLinks`, `MCQueries`, `MCSafety`, `MCProgress` | several components as parts of one run | for TLC |
| `MCCommandConfirm`, `MCStateMerge`, `MCCommandDispatch`, `MCMqttSession`, `MCEntryLifecycle` | one component | for TLC |
| `MCLamps_proof`, `MCLinks_proof`, `MCQueries_proof`, `MCSafety_proof`, `MCProgress_proof` | theorems of the components of a sum, and of the sum | proofs |
| `CommandConfirm_proof`, `CommandDispatch_proof`, `StateMerge_proof` | theorems of one component | proofs |

Each action stands for the code from one await to the next, whole: its early
returns are guards, and what the code does in `finally` is part of the step that
leaves.  A definition whose comment begins with `Bug:` is not part of a specification:
it is a mutated form of the one that follows it, and each property is known to catch
one (`PROJECT.json`, "mutants").

### CommandDispatch

`pc[c]` is where call `c` is suspended, `job[c]` its device, command, `defer` flag
and the generation it took.  `UserCommand`, `SegmentTurnOff` and `ChildPowerOn` are
the three ways a call starts; from there `Start`, `TryLan`,
`ToCloud` and `ToRest` fall through BLE, LAN, MQTT and REST as `async_control_device` does (5466-5745).  `BleWritten`/`BleFailed`,
`LanConfirmed`/`LanUnconfirmed`, `MqttPublished`/`MqttRefused` and `RestReply` resume
a call; `SegmentAcquires`, `SegmentReply`, `SegmentPaced` and `SegmentError` are the
path under `_segment_locks`.  A deferred call (5897-6101) answers its caller and goes
on as a task; `captured[c]` is the generation that task keeps, read when it is made
(6042).  A call that came while BLE was tried (5581-5586) has moved the counter by then,
so the older power-on takes itself for the newest: `StaleDeferredStaysSilent` speaks of
calls made after the datagram left, the violation run `dispatch_override` of all.  `wire[c]` holds the transports on which a copy of the command is still
under way and `actual` what the device holds, so "overridden" can be told from
"sent late".  Whether a tier's gate is open is chosen where it is read: no await
separates that read from its use.

Left out: a REST copy is delivered between request and reply only; the ptReal
special cases (H8057, H1232, music, ripple zones), which bypass the tiers; the
confirm's own timing, which is `CommandConfirm`'s.

### CommandConfirm and ConfirmPromise

`phase[c]` follows a call and then its confirm task (`_confirm`, 245-315);
`pending` is `_pending`; a cancelled task is in `unwind` until its `finally` has run,
which is where a careless `pop` would take the successor's registration with it.
`Push` and `Report` are two steps, so a report can be older than the command.  A wait
may end at any moment, so no clock is needed.  `Shutdown` and `Unloaded` are
`cancel_all` and Home Assistant's own cancellation.

`ConfirmPromise` has three variables: the commands issued, the one under watch for
each field, and those sent twice.  The refinement maps `watch` to `pending` and
`again` to `resent`; that it is an implementation is checked (`PromiseKept`) and
proved (`KeepsPromise`).

### RequestBudget and BudgetDay

`RequestBudget` is pure arithmetic on seconds and requests.  `BudgetDay` advances a
clock to the next event: `DayPoll(n)` asks `n` devices and paces, `Other` is any request
that is not paced, `Save` is the delayed save, `Reload` flushes and rebuilds the
client, `Crash` rebuilds it from what was last saved.  `Early` is how much sooner
than asked a timer may fire.  `spent` is the world's count, `requestsToday` the
code's.

Left out: a request counts when its response is handled; quotients are exact, not
floats; a request of an unloaded client that ends after the flush.

### PollCycle

`StartPoll` is `_async_poll_all` up to the gather: who is enabled, who has a fresh
local reading (4725-4815), who is idle and held back (4691-4723), and whether the
headers defer the cycle.  `ReadEnds` is one `_fetch_device_state_bounded`, which
commits at once; `Gathered`, `GatherRefused` and `CycleEnds` are the rest, in the
code's order; `StartExtra`/`ExtraEnds` are a kettle's read beside the poll, which
shares the cycle's records.  `since` counts the cycles a device was not asked in, from
the last time it was asked or a cycle was deferred: a deferral starts the skip run and
the idle beat of every device over (4480, 4747, 4812), so no bound spans one.

Chosen anew each cycle: which devices are fresh and idle, the pacing (`BudgetDay`
models it), and the headers.  Left out: rediscovery; a device leaves only by being
disabled.

### StateMerge

The state of one light (fields of `GoveeDeviceState`), the optimistic stamp, and the
object's identity as far as a coroutine holds it over an await (`dreamOff`).  Reports
are arbitrary, so any delay and any order is covered: a report of any age is one of
them.  `Poll` is the merge and the commit in one step, as in the code, which awaits
before the merge and not inside it.  `sent`, `sentAge` and `seen` are history.

Left out: brightness, the clear path of HDMI and ripple zones, the frames of single
models.

### StatusQuery

`at[a]` is where the sweep or a service caller stands, `queue` the lock's waiters,
`marker` is `_status_query_in_flight`.  `Drop` is the disconnect handler with
`Blame` inside it; `Refuse` is a drop a query caused, `NetworkDrop` one that nothing
caused, `Restart` a stop and start, which calls no handler.  `Tick` is the clock; it
moves only when nothing that is ready waits, as an event loop's timers do.

Assumed: the broker's refusal arrives in the window of the query that caused it, as
const.py 444-448 says (const.py 493 reports drops "within ~5s", for which no charge
could be right); the reconnect back-off at its base, the worst case here.  Left out:
the silence watchdog (`MqttSession` has it), the growth of the back-off, the per-caller
throttle of the service (a throttled request is one not made).

### LanLink

`lan` and `owner` are the two directions of the correlation map, `found` what the scan
under way has heard, `batch` the addresses a read round waits on; `where` is the truth.
A status carries no identity, so every hazard is one of addresses: a lease that moves
between the scan and the read, a pinned address (`pins`) another device holds, an
unsolicited status that asks for a rescan while one runs (`asked`, `due`).  `misses` is
the code's count and `silent` the world's.  `StartScan`/`ScanReply`/`ScanEnds` are the
throttled rescan and its merge, `StartRead`/`Deliver`/`ReadEnds` a batch read,
`NudgeRead` the read that follows a push.  Assumed: a lease moves in seconds, so no
datagram outlives its sender's move.  What a status says is `StateMerge`'s.

### MqttSession

`at[l]` is where connection loop `l` is suspended; `waiters` are the callers that await
the cancelled loop, `ready` those its end has woken, which asyncio resumes first in,
first out before anything else runs.  Re-login, silence handler and shutdown all end in
`StopBegins`/`StopEnds`.  `crossed` records that one stop began within another: then the
code's fields may name the wrong loop (run `mqtt_unload`), so the safety properties speak
of behaviours without it.  A repair withdrawn by a session too short to count is not
raised again while `_unhealthy_reported` is still set (the code; the model follows it).
`Login` does not ask whether the entry is loaded, as the code does not: an unload cancels
no BFF call in flight, and its token may be refused after it.  `LoginRenews` is such a
re-login while `_mqtt_client` is there, `LoginStartsClient` one that finds it gone (7013)
and starts another client (2283).  That client is not followed, so `UnloadedIsSilent`
is about the client the entry unloaded.
The branch at 2282 (a client that is there but not running) is never reached.

### Sensors

* `LeakSensor`: `stamps` are the frames' times, which outlive reloads; `Probe` reads the
  account's list after each frame and on a timer.  A leak whose frame is lost just after
  a poll waits for the next; a wet sensor reloaded before its stamp is saved forgets it.
* `WaterDetector`: `PushTaken` is `bodyAppearedEvent` (2130-2144), wet or dry, of the
  pushes `onTheWay` or lost; `TakesUp`, `Warned` and `Lifted` are the steps between the
  requests of a tick and of a lift.  The push looks at no generation and stamps nothing, so
  a wet one sent before a lift shows wet again (`ClearSticks` is about the ticks), a dry one
  takes down an alert that the ticks have looked into already (`dried`; the docstring at
  2066 has the trip latch), and an older answer undoes a pushed leak until the next tick.
  `missed` marks an alert whose history could not be read, which the code gives up until the
  next report.  So `AlertsAreFollowed` is about what holds in the end.
* `BridgedThermometer`: three writers, their times, and the promotion from the Developer
  poll to the list.  Frames come in order.  A list without `lastTime` is never stale
  (2605-2607), and a Developer read that was asked before the take-over is stored when it
  answers, whatever is newer (5085): both can take a reading back, and
  `ReadingsMoveForward` names them.  The account's unit is fixed; `carried` marks a reading
  kept, or written by such a read, across that promotion.
* `ProbeThermometer`: a device stands for one probe, its packets go out in one step; a
  limit write carries over from state what it does not change (`number.py` 106-109), so
  `unsure` excepts a limit changed since the last reply applied was made.
* `TankAlert`: events are lost while the listener is down; the store is written only for
  an entity that is loaded and available.

### Entry and flows

* `EntryLifecycle`: setup as one coroutine of stages, each of which may fail; what is
  removed is compared with what the account held.  `topics`, `leaks`, `thermometers` and
  `water` are the account's steps (1428-1476), the last only with a detector.  Thermometers
  the account lists (`Hygrometers`) join `_devices` (`ThermometersListed`, 2669-2802), whose
  emptiness is what the cleanup's guard tests (`__init__.py` 574, 585): with one, an empty
  Developer list removes the other devices, and `OnlyUnwantedRemoved` excepts that.  One
  that is added later shows after the next reload only, so `Shown` is about the Developer
  API's devices.  API-key failures, what the topics are for and the registry's save delay
  are left out.
* `ConfigFlow`: user, re-authentication and reconfiguration flows at once; `crossed` and
  `overlapped` mark logins of an account that was replaced meanwhile, and keys two flows
  were busy with.  `typed` is what a code that could not be sent leaves behind (299-310):
  skipping the account then still stores its e-mail and password.
* `OptionsFlow`: dialogs seeded when shown and saved whole at the end; a mode stands for
  a light's mode, groups and segment count.

### Lamps

* `CeilingRing`: the panel channel wipes the ring, the coordinator replays what it
  tracked.  A paint is recorded when it is dispatched (`Dispatched`, 5562-5565) and waits in
  `queue`, the lamp's lock; a turn-off is recorded once more when its call returns
  (`EntityReturns`, `segment.py` 189-197, `grouped_segment.py` 192-197), or at once when
  nothing is sent (`LeftOut`).  `spoilt` marks segments whose last command was refused, left
  out or recorded over, `overtaken` a call that met another one or a replay (1297).  H1270
  has neither raw profile nor readback.
* `SegmentReadback`: entities for a segment, a group and all; a call powers the bar, paints,
  and tells; it may raise at any await (`Raises`) and sends nothing to a dark bar (`LeftOut`,
  `segment_group.py` 204-214).  A push carries some of the frames and may be older than a
  paint by less than the grace window, whose time is abstracted (`GraceEnds`).  `unsure`
  marks an entity whose segments others changed since it was told, or whose call told
  nothing sure; `raced` one that was told something during its own call.  One call per
  entity at a time; group entities start lit.  A request that arrives after its timeout is
  left out.
* `ZoneLight`: the registry, displacement, both entity models; two copies of a frame
  stand for three.  A dark lamp ignores frames.  `overlapped` marks calls at once.
* `DiyDraft`: one colour and one named mode; `Any` marks a field or a document nobody
  can say the intended value of (two uploads at once).

### The rest

* `RawFrames`: the on-demand link with its lock, idle timer and disconnect callback,
  and the LAN copies.  `failing` are clients given up whose disconnect failed; `stray` are the
  links a superseded client's late drop made the code forget (271), and the one a cancelled
  write left without its timer.
* `TransportHealth`: one device and one unit of time; ages stop at `Cap`.
* `KettleState`: the cloud reports the work mode, at most `Lag` late; `unheard` is a
  kettle loaded while the cloud lags, or unloaded before its first read (its slot is
  then forgotten: `extra_restore_state_data` returns None), `reordered` two overlapping
  reads.  `Lag + 1 <= Protect`: a read that met a lagging cloud is answered while the
  protection of the commanded mode lasts.
* `EnergyCounter`: seconds and tenths of a watt-hour, the code's own thresholds; a push
  is delayed by less than `RESTORE_TIMEOUT`.
* `SceneCache`: shared fetches as numbered tasks, the cancellation of an asker, failures.

## 3. The runs

Every run enumerates all its states.  Five passing runs are sums: a constant history
variable `part` says which component the behaviour is one of, the other components'
variables stay as they began, and each fairness condition is guarded by its part, so a
sum checks its components one by one in a single run.  They share no state in the code
either, at the granularity modelled.  Some components are extended by their sum; where
two of them meet in one sum, the names both would have carry the component's
(`DispatchInit`, `DayInit`, `SessionInit`, `CycleCost`, `Lamps`).  The others are
instances over renamed variables, and the sum states the assumptions on their
constants.  A run checks the very definition a theorem proves, and evaluates the
assumptions it rests on.

| Run | Parts | What it shows |
|---|---|---|
| `lamps` | `CommandDispatch`, `CeilingRing`, `SegmentReadback`, `ZoneLight`, `DiyDraft` | calls end, leave no power-off flag and fail only after REST (`CallsEndCleanly`, `EveryCallEnds`); a superseded deferred write is silent; ring, strip, zones and draft are kept as the lamp has them (`LampsAreRight`) |
| `links` | `LanLink`, `RawFrames`, `TransportHealth`, `ProbeThermometer`, `KettleState`, `EnergyCounter`, `BridgedThermometer` | replies are routed by the last scan and requests stand (`RoutesAreKept`), demotion is for silence only, a move is found; links are let go, a gone device is found out, limits and mode are the device's (`LinksAreSound`); energy is booked once (`EnergyIsBookedOnce`); no reading goes back |
| `queries` | `StatusQuery`, `LeakSensor`, `SceneCache`, `TankAlert` | charges are right and rationed (`QueriesAreFair`), the account is not blamed for few models, the churn ends; leaks are told once; alerts and catalogs are current |
| `safety` | `BudgetDay`, `PollCycle`, `CommandDispatch` (segments), `ConfigFlow`, `OptionsFlow` | the day fits and is evenly spent, the reset is met, each device is read in time, segments keep their order, a streak silences the LAN, no flow or dialog takes data back |
| `progress` | `PollCycle`, `MqttSession`, `CommandConfirm`, `EntryLifecycle`, `WaterDetector` | back-offs end, an outage reported is total, one sound session that comes back, confirms end, the entry settles on the account, alerts are followed, and what is withdrawn was over |
| `confirm_light` | `CommandConfirm` against `ConfirmPromise` | tasks are reachable, the newest report decides, the promise is kept |
| `state_light` | `StateMerge` | a commanded power holds, scenes and readings are remembered, readers win in the end |

Five runs end in a violation: `dispatch_override`, `confirm_stale`, `state_dreamview`,
`mqtt_unload`, `entry_discovery` (section 4).

### Bounds, and why they are enough

What the bounds leave out in number, the theorems of section 5 take back for the
components that have them.

* Control path: 2 lamps, one write-only, 2 calls, threshold 1 (any pair of kinds in
  every tier); for segments 1 lamp, 3 calls, threshold 2: a queue behind a holder is
  three, and two overlapping misses reach the threshold before a third write.
* Ring: 2 segments, 1 colour beside white and black, 2 panel calls, `MaxTurns` 3 (calls
  that may overlap: a paint, a panel write and a power-off), `MaxLosses` 1 (a refusal, a
  resend, a replay left out or a restart), both options.  Strip: `Count` 2 with one
  segment in a frame, 2 colours, `MaxPushes` 1, `MaxEvents` 2 (calls, losses and the
  app's changes together), both options, one colour at first.  Zones: 2 copies,
  `MaxZoneCalls` 3 (two to fill the lamp and one to displace), one fault, power cut and
  boot.  Draft: 2 zones, 2 copies, one staging, one upload, one boot.
* LAN: 2 devices, 3 addresses, leases that may swap, threshold 2, `MaxMoves` 2,
  `MaxLost` 1, one pin.  Raw: 2 paints, 2 copies, `MaxClients` 2, `MaxUnloads` 1.
  Health: windows of 0 and 1, `Cap` 3.  Probe: 1 meter and limit, `MaxPasses` 2,
  `MaxReplies` 2, one write, app change, drop and reload.  Kettle: `Followups` 2,
  `Protect` 2, `Lag` 1, 2 moves, 2 boots.  Energy: the code's noise and timeouts, steps
  of 120 and 600 s, `MaxTime` 960, 1 reboot - here the bound matters: with a second
  power failure the energy can be booked twice (section 4).  Thermometer: `MaxTaken` 3, 1 reload.
* Queries: 3 devices of 2 models, 1 service caller, `Strikes` 2, `Spacing` 1,
  `Reconnect` 3, `MaxDrops` and `MaxRestarts` 1: two strikes need two sessions, and two
  units of one model are what could be miscounted.  Leak: `Window` 3, `Margin` 1,
  `MaxTime` 9, `MaxLeaks` 2, 1 reload.  Scenes: 1 kind, 3 askers, `MaxFetches` 2.
  Tank: 2 events, 1 clear, 2 outages, 2 boots.
* Budget: a day of 12 s from any start second, budget 6, 2 devices, 1 reload or crash.
  House: the same day and budget, 2 devices, one a kettle, `MaxSkips` 1, `Divisor` 2, allowances and resets that
  defer cycles, one failure; the 429s are in `progress` (1 refusal, 1 other failure, a
  group and a device that may be disabled).
* Flows: 2 entries, 2 flows, 2 keys, 2 accounts, 2 logins.  Options: 2 dialogs, 2
  lights, 1 kettle, 2 modes, 1 label, 1 reload.
* Session: 2 loops, `GiveUp` 2, `MaxMishaps` 2, `MaxLogins` 1; `Spare` bounds restarts
  by the loops there are.  Confirm: 2 calls, 1 push.  Entry: a thermometer, a group, a
  water detector, a leak sensor and a thermometer only the account lists, all in the
  account at first or none; one change, edit, fault and boot.
  Water: 2 alerts, 2 reports, 2 pushes on their way, one failure, lift and reload.
* State: 3 commands, one colour, one white, two readings, grace of 2 ticks.

Deadlock is not checked: a behaviour ends where its bounded calls, moves, days or
commands run out, and in the queries where nothing is asked after an account refusal.

### Fairness

* `CommandDispatch`: weak fairness of each call's `Resume`: every await there has a
  timeout.  None for users or the network.
* `CommandConfirm`: weak fairness of each task's steps: both waits are `wait_for`, the
  query sleeps one second, the resend is a request with a timeout.
* `PollCycle`: weak fairness of the poll and of each read: the timer fires and
  `STATE_FETCH_TIMEOUT` bounds a read.  Failures are bounded; that the API stops
  refusing at some time is the premise of recovery.
* `StateMerge`: time passes, and the light is polled again and again.
* `StatusQuery`: weak fairness of the sweep's steps, the windows, the reconnect loop
  and the clock; strong fairness of the full sweep: it becomes due by a counter of
  timer ticks, and once due the next tick that finds a session makes it.
* `LanLink`: the poll's timer, the answers of a scan and of a read whose datagram was
  not lost, the rescan timer; losses and moves are bounded.
* `MqttSession`: each loop's own steps (bounded by `CONNECTION_TIMEOUT` and
  `RECONNECT_MAX`), woken callers, the silence timer, the end of a login.
* `EntryLifecycle`: setup, its retries and rediscovery are Home Assistant's and the
  coordinator's timers; answers are bounded by timeouts.
* `WaterDetector`: the poll's timer and the answers to its requests.  None for a push,
  which may never come.

"Must come in the end" is stated as `[]<>` or `<>[]` of a condition wherever that says
as much as `~>` (no refusal, wait, running confirm or hidden alert lasts for ever): TLC
then needs no tableau for it, and the sum of five components stays small.

## 4. Where the code and its words differ

Five runs end in a violation:

* `dispatch_override`: `_async_confirm_lan_write_deferred` compares the generation
  (6084) and then awaits the cloud tiers; a newer command answered meanwhile is
  overridden.  Its docstring (6070) says it aborts when the counter has moved.
* `confirm_stale`: `start` (`command_confirm.py` 232) does not ask whether a newer
  command was prepared while its own was being sent.  The module's docstring (28) says
  the latest command supersedes.
* `state_dreamview`: `async_send_dreamview(False)` (6561-6570) clears the flag on the
  object it held before its await; the comment says the switch settles to off.
* `mqtt_unload`: `async_stop` (`api/mqtt.py` 519) awaits the cancelled loop and only
  then drops `_task`.  A shutdown that waits behind a re-login's restart overwrites the
  task that restart has started, and the loop outlives the entry.
* `entry_discovery`: `_discover_leak_sensors` (2458) catches its own errors, so the
  cleanup's guard against failed steps does not see them and leak sensors' entities go.

Seen while modelling, and followed by the models as the code has them, without a run:

* `_pending_power_off` is one flag per device (5616): of two overlapping power-offs the
  first to end clears it for both.  `PowerOffFlagHasOwner` (in `CallsEndCleanly`) is the direction that holds.
* A header back-off is computed from the configured interval (4684) and may shorten a
  paced one; `request_budget.py` 225 says it never shortens.
* A device the API does not know is always answered from held state (5176), so on its own
  it never ends a 429 back-off; 4443-4446 has only groups in mind.
* A first read that drew a 429 commits an empty state (5209), which then counts as read
  (4777).
* The run of local skips is reset when a read is due (4812), and then a hold-back or a
  deferral may drop that read; const.py 396 speaks of a forced read.
* A setpoint of `configured_humidity` is not on the merge's list, though 6764-6766 says it
  is kept.
* A poll that agrees on the power takes an older brightness along (5009), though the
  docstring at 1703 names brightness.
* `{0,0,0}` from a light switched to white in the app leaves the old colour beside the new
  temperature (5047-5056).
* A colour command leaves a DIY scene, music mode or DreamView flagged
  (`models/state.py` 934-941).
* `async_request_status` says at most one query per `REQUEST_STATUS_MIN_INTERVAL` "whichever
  caller sent the last"; the sweep does not stamp that time.
* Strikes are never taken back by a query that is answered, so two drops of the network
  weeks apart quarantine a device; `ChargesAreRight` (in `QueriesAreFair`) bounds what the
  network alone can do.

* LAN: the docstring of `_merge_lan_correlation` says a stale entry "can never misroute a
  future read", but a solicited read is not checked against the owner; a pinned address
  stays with its device when another device holds it; a nudge keeps the address it began with.
* `lan_udp_health.py`: "Only note_send clears that latch", but leaving the LAN does too.
* `_on_disconnected` (`ble_raw_write.py` 272-274) drops the client whichever client left;
  with three writes the docstring at 224-229 does not hold; a write that waits past the
  unload connects again.  LAN copies of two paints interleave, though the docstring of
  `_async_send_repeated` says redundancy, not a sequence.
* A BLE advertisement is matched to the one device of its model without its MAC
  (`ble_advertisement.py` 196-206).
* `_bff_poll_callback` (3045-3051) arms its timer again after the unload, and a call in
  flight whose token is refused logs in again and starts an MQTT client after it
  (2209-2284): `async_shutdown` (6972-7012) stops the timer and the client of the moment.
* An older power-on whose BLE attempt outlasts a newer power-off reads the counter that
  the latter has moved (6042), confirms as the newest and goes on to the cloud.
* An empty Developer list beside a thermometer of the account's list (H5301, 2669-2802)
  is no empty `devices` to the cleanup (`__init__.py` 574, 585), which then removes every
  other device, though its docstring (551-554) keeps all when discovery "came back empty".
* A `bodyAppearedEvent` (2130-2144) is applied without the generation of the last clear:
  a delayed wet one shows wet again after a lift, a dry one takes down an alert nobody read.
* A thermometer's Developer read asked before the list took it over, and a list without
  `lastTime`, put an older reading in place of a frame's (5085, 2605-2607).
* A write cancelled half way leaves the Bluetooth link without an idle timer
  (`ble_raw_write.py` 236-243) until the next write or the unload.
* Options edited while setup runs are missed, though the docstring says it reloads when
  they change; "it will retry on the next poll" (1411, 1421) is not so for the account's steps.
* Two user flows past the duplicate check make two entries of one key; a transient login
  error at boot is stored as `login_failed`; the integration's own login answered after a
  reconfiguration stores the old account's credentials.
* Promotion of a thermometer keeps degrees F as C (docstring 3768), and
  `_bff_reading_is_stale` always divides `lastTime` by 1000.
* Two limit writes at once lose one (`number.py` 106-109 and 3722-3762).
* `refresh_scenes` fills a cache the entities have already read.
* A push delayed beyond `RESTORE_TIMEOUT` books a plug's energy twice; so does a second
  power failure after a reading told of the first and before the copy came back, when
  it lasts past that timeout (`energy_counter.py` 128-134 then ends the wait at the
  first reading).
* A paint made during a ring's replay is overwritten (1297); a segment reads its colour
  after the await (`segment.py` 141-150); group entities neither record black on a
  skipped turn-off nor seed the tracking on restore; two groups whose names share a slug
  share a unique id.
* A zone's turn-on that is latched behind a power-on under way sends frames to a dark
  lamp; raw paints are recorded after the await.
* The draft is replaced before the service's record is encoded and sent
  (`services.py` 353-374), so a refused record still changes it.
* A kettle reloaded within the cloud's lag spends the stored slot on the old mode;
  `water_heater.async_set_operation_mode` reads state before its await.
* A tank alert is forgotten when the entity was unavailable at the stop, though the
  docstring (`binary_sensor.py` 179) says it is restored.
* An account whose only sensor is an H5054 keeps polling with an expired token.

## 5. The proofs

All are for every value of the constants that the named assumptions allow.  Each
invariant theorem has the same three facts: the initial states satisfy the inductive
invariant, every step keeps it (one step of the proof per action, one below it per
conjunct the action disturbs), and it implies what the theorem states.

| Theorem | Assumptions | Inductive invariant, and why the property alone is not one |
|---|---|---|
| `DispatchCorrect` | `CommandsAssumption`, `NumbersAssumption`, `NoJobAssumption` | `DispatchInv`: types, lock order, only calls that were made have copies or answers, and a call at REST has it in its log - a failure is told one await after the request, so the log at that point must be known |
| `NoFlagLeaks`, `CallsEnd` | the same | `TypeInv` and, for each flag, the running power-off that owns it, deferred or not |
| `SegmentsInOrder` | the same | `SegmentInv`: a lamp's queue holds exactly its unfinished segment commands, in the order of their generations, and its head alone may have sent.  The order of what was sent says nothing of those still waiting |
| `StreakSilences` | the same | `StreakInv`: a streak as long as the threshold has a cooldown running or over; a call past the LAN gate has read it in its own step |
| `StaleStaysSilent` | the same | `GenInv`: no call has a generation the counter of its device and kind has not reached, so a call newer than the task's `captured` value has moved the counter |
| `ConfirmCorrect`, `TasksReached`, `NewestDecides` | `CommandsAssumption`, `SentinelAssumption` | `ConfirmInv`: registrations and running tasks agree both ways, a confirm's report is the newest of its field, a resent command is past deciding |
| `KeepsPromise` | the same | each step maps to a step of `ConfirmPromise` or a stutter; `Report`, `Unwind` and the world's steps stutter, cancellations are `Forget` |
| `BudgetKept`, `ResetKept` | `BudgetAssumption`, `DayAssumption` | `DayInv`: the pending poll still fits the day it was armed on (`Affordable`), the file and the counter are floors (`Counts`), a waiting poll is aimed past the reset (`Aimed`); rounding rests on `CeilDivBounds` |
| `SlowedByRefusal`, `ReportedOutageIsTotal`, `CloudRead` | `BudgetAssumption`, `PollAssumption` | `Counts` (interval and headers are counts) for the first; `Total` for the second: unless the cycle saw a 429, whatever was answered from held state had no cloud read to fail, and what the gather found stays true until the cycle ends, though a read beside the poll adds to `cached` |
| `ReconciledWithCloud` | the same | `Excused`: the cycles a device has missed and those it may still miss (`ExcusesLeft`: beats left to its idle turn, with a skip left for each turn) stay within `Divisor * (MaxSkips + 1) - 1` |
| `StateInvariant`, `ReadingsStayKnown`, `ScenesKeepTarget`, `NothingForgotten` | `StateAssumption` | `GraceInv` ties the stamp to the age of the command; `TargetInv` says that saving the look again would change nothing |
| `QueriesAreRationed` | `QueryAssumption` | `LockInv` (waiters, open queries, marker), `BarredInv` (enough strikes bar a device), and `StaleInv`: a sweep that still has a barred device on its list belongs to a session that is down, and ends before the loop connects again, unless a restart pays for it |
| `AccountNotBlamed` | the same | `BlameInv`: the unanswered models without a refused device are at most the network's drops; cardinalities rest on the library's `FS_` theorems |
| `Routed`, `RequestsStand`, `RoutesKept` | `LanAssumption` | `RouteInv`: map, batch and scan agree with one holder per address; an address heard in a scan is not handed on while it runs |
| `Demoted` | the same | `SilenceInv`: every miss the code counts was a silence of the device itself, as a batch reads a device at one address and notes each address of its own that it hears |
| `LanTyped` | the same | `AirType` beside those: statuses are under way from finitely many addresses, or the answers lost could not be counted |
| `SoundSession` | `NamedLoops` | `SessionInv`: without crossed stops the client is in one of three phases - nobody stops it (and it runs until the entry has unloaded), one caller awaits the one cancelled loop, one caller is about to go on with none alive; a re-login may be in flight in each, before and after the unload; in each, the fields name the loop there is, and the cached TLS context is of the credentials in force |
| `RepairWithdrawn` | none | `LoopType`; each action but `Suback` leaves the repair or raises it |
| `SpendingIsEven` | `BudgetAssumption`, `DayAssumption` | `DayInv` and `Even`: the poll that uses up the budget began less than two cycles short of it, so its interval was half of what was left of the day and the wait is the other half (`PollSpendsEvenly`, which keeps the products out of the rest) |
| `PollTyped` | `BudgetAssumption`, `PollAssumption` | the type invariant with whole seconds; that intervals are counts rests on the lemmas of `RequestBudget` |
| `FlowDataSound` | `FlowAssumption` | `FlowInv`: what a flow carries at each step (`FlowStaged`), the key it is busy with is no other's (`FlowKeysApart`), no credentials are of a login not answered yet (`CredsArePast`) |
| `DialogEditsKept` | `OptionsAssumption` | `DialogsInv`: a dialog's edits are of lights its user went through (`EditsAreOwn`), so saving the whole draft overwrites nothing else |
| `AlertKept` | `TankAssumption` | `TankInv`: what is held is the last event heard once the entity is there, and may before only lack what is stored |
| `CatalogsCurrent` | `SceneAssumption` | `SceneInv`: the cache knows the one fetch of its kind that is under way (`OneFetchOfAKind`), and what an asker waits for is no older than it may be (`AskersServed`) |
| `LeaksTold` | `LeakAssumption` | `LeakInv`: leaks are numbered, no stamp is of the future, and while none was lost the stamps tell of the last leak shown and of its end (`StampsTell`); an answer under way may tell of that leak too |
| `EntryKept` | `EntryAssumption` | `EntryInv`: what was found was in the account (`AccountOnce`), a list that was heard is the account's and after an empty one only the account's own devices are found (`DevicesKnown`), after the account's steps sensors and thermometers are known or the step did not get through (`SensorsKnown`), and they are only found signed in (`SignedInFirst`) |
| `ClearsStick` | `WaterAssumption` | `WaterInv`: a tick is of no later clear than there was (`ClearsCounted`), and one that says wet tells of a later alert, unless a clear overtook it (`LiftsWereRead`) |
| `GoneFoundOut`, `RefusalKept` | `HealthAssumption` | `HealthInv`: once the device is gone no sign is younger than its absence, and a channel that is up had a sign within its window at the last poll (`SignsAge`); up means no failure on record (`UpIsClean`) |
| `ReadingsForward` | `ThermoAssumption` | `ThermoInv`: frames under way are in order and newer than the last one that came, whose number a frame's reading has (`FramesNumbered`); units are right, and no Developer read is asked for a device the list has (`AsksOfPending`) |
| `RawWritesRight` | `RawAssumption` | `RawInv`: who waits for the link is a write at Bluetooth, once, or the drop (`WritersWait`), it goes on to the next pipe with nothing sent (`NothingSentYet`), the client held is none that was given up (`ClientsKnown`), and an open client that is neither given up nor stray is the link's, in use or timed |
| `LimitsShownRight` | `ProbeAssumption` | `ProbeInv`: where the limits shown are sure, every reply still under way is the last word (`MeterKept`) |
| `ModeKept` | `KettleAssumption` | `KettleInv`: a chain that waits is the newest command's, whose canceller is stored (`OneChain`); as long as the cloud says otherwise the mode is protected, no longer than the cloud has lagged (`ModeRight`), and an open read says what the cloud did, or is older than the protection (`ReadRight`) |
| `EnergyTyped` | `EnergyAssumption` | `EnergyInv`: a restore is due only of a copy that is there |
| `RingKept` | `RingAssumption` | `RingInv`: the last command queued for a segment is what is tracked, and one with nothing to come shows it, or the colour of a panel whose replay is still to begin (`SegmentKept`); a segment whose call met no other has at most one call, whose colour is tracked and held, and with none what is tracked is what is shown (`Told`) |
| `ReadbackTrue` | `ReadbackAssumption` | `StripInv`: for each entity what its call will send, what it painted last, that outside its window no reading under way is too old, and what it shows (`EntityKept`); a push misses what changed since, and a later one misses less (`PushesHold`) |
| `ZonesRight` | `CopiesAssumption` | `ZoneInv`: what is between two copies waits once with a copy left (`WireWaits`), and the lamp has what is recorded or what will be once the copies are out (`ZonesKept`) |
| `DraftKept` | `CopiesAssumption` | `DiyInv`: every document on its way or in the lamp is whole (`DocsWhole`), and each field of the draft is what was meant, or its default where the record was lost |

A sum behaves, part by part, as the components' own specifications say
(`LampPartsAreWhole`, `LinkPartsAreWhole`, `QueryPartsAreWhole`, `SafetyPartsAreWhole`,
`ProgressPartsAreWhole`: a step of one part leaves the others' variables alone).  From
that and the theorems above follow the properties the runs of the sums check, in their
own words: `LampsRight`, `LinksSound`, `NothingTurnsBack`, `AnswersHeld`,
`LeaksToldInTheSum`, `EntryDataKept`, `WithdrawalsRight`.

Types are proved with the invariants of every component but the MQTT session, and put
together for four of the sums (`LampsTyped`, `LinksTyped`, `QueriesTyped`,
`SafetyTyped`: `AllTypeOK`).  In `progress` `AllTypeOK` stays model-checked: the types of
the poll and of the confirmer are proved where their other theorems are, of their own
specifications, and of the session only the lines the proofs need.

The parameters called `Max...` bound how often the world does something; the theorems
hold for every value of them, so nothing proved rests on the bounds of the runs.  The
other assumptions say what the code's constants and identifiers are: that `None` is no
device, that a window is a number of seconds, that the LAN's staleness window is no
longer than the radio's.

Only model-checked: liveness under fairness (`EveryCallEnds`, `EveryConfirmEnds`,
`EveryMoveIsFound`, `QueriesKeepGoing`, `CloudKeepsGoing`, `SessionComesBack`,
`AccountIsFollowed`, `ReadersWin`), which this prover has no rules for;
`EnergyIsBookedOnce`, which is not so for every value of its constants: one reboot and
pushes that are not too late are what it needs (section 4); and the `AllTypeOK` of
`progress`.

## 6. What is not modelled

* Byte tables, checksums and encoders of the frames (`api/protocol/`), and the
  encrypted Bluetooth session: data and cryptography, with no order of steps to get wrong.
* Parsing of capability dictionaries (`models/device.py`) and of REST answers
  (`api/client.py`): pure functions of external data.
* Wording, registration and redaction (`services.py`, `diagnostics.py`, `repairs.py`),
  and the entities that only project what the coordinator holds.
* The growth of the reconnect back-off, throttles and debounces that only space calls,
  and socket setup: a call not made or made later is a behaviour the models already have.
* ptReal commands that bypass the tiers (H8057, H1232, music, ripple zones), the legacy
  hub device, the v1 migration, Bluetooth discovery (which joins the user step).
* The development scripts under `src/scripts/`, which the integration does not run.
