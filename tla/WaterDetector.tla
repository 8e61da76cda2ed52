--------------------------- MODULE WaterDetector ---------------------------
(***************************************************************************)
(* A standalone water detector (H5054).  Its leaks come by the event push  *)
(* of Govee's open API, late or not at all; the fallback is a timer that   *)
(* reads the account's device list and, when the detector has reported     *)
(* since, or shows wet, its warning history.  The user may lift the        *)
(* warnings.  External: the detector, its pushes on their way, Govee's     *)
(* history of its alerts, Govee's app.                                     *)
(***************************************************************************)
EXTENDS Naturals, Sequences

CONSTANTS
    MaxAlerts,      \* bound: alerts raised
    MaxReports,     \* bound: reports of the detector, alerts or not
    MaxOnTheWay,    \* bound: pushes on their way at once
    MaxFailures,    \* bound: account calls that fail
    MaxLifts,       \* bound: lifts the user asks for
    MaxReloads      \* bound

VARIABLES
    alert, read,    \* external: the last alert's number, and the last one read
    report,         \* external: lastTime of the list
    onTheWay,       \* external: pushes sent, oldest first: wet or dry
    water,          \* state.water_leak
    known,          \* _water_leak_last_time (0: none)
    gen,            \* _water_leak_clear_gen
    poll,           \* the tick under way: where it is and what it holds
    lift,           \* the lift under way
    lifted,         \* history: the last alert Govee had read for a lift that took effect here
    missed,         \* history: the last alert whose warning history could not be read
    dried,          \* history: the last alert a late dry push took down
    failures, lifts, reloads

govee  == <<alert, read, report, onTheWay>>
ours   == <<water, known, gen>>
hist   == <<lifted, missed, dried>>
bounds == <<failures, lifts, reloads>>
vars   == <<govee, ours, poll, lift, hist, bounds>>

NoPoll == [at |-> "idle", report |-> 0, gen |-> 0, wet |-> FALSE, alert |-> 0]
NoLift == [at |-> "idle", alert |-> 0]

TypeOK ==
    /\ alert \in 0..MaxAlerts /\ read \in 0..alert /\ report \in 0..MaxReports
    /\ water \in BOOLEAN /\ known \in 0..report /\ gen \in 0..MaxLifts
    /\ poll \in [at : {"idle", "list", "listed", "warning", "warned"}, report : 0..MaxReports,
                 gen : 0..MaxLifts, wet : BOOLEAN, alert : 0..MaxAlerts]
    /\ lift \in [at : {"idle", "sent", "accepted"}, alert : 0..MaxAlerts]
    /\ onTheWay \in Seq(BOOLEAN) /\ Len(onTheWay) <= MaxOnTheWay
    /\ lifted \in 0..MaxAlerts /\ missed \in 0..MaxAlerts /\ dried \in 0..MaxAlerts
    /\ failures \in 0..MaxFailures /\ lifts \in 0..MaxLifts /\ reloads \in 0..MaxReloads

Init ==
    /\ alert = 0 /\ read = 0 /\ report = 0 /\ onTheWay = <<>>
    /\ water = FALSE /\ known = 0 /\ gen = 0
    /\ poll = NoPoll /\ lift = NoLift /\ lifted = 0 /\ missed = 0 /\ dried = 0
    /\ failures = 0 /\ lifts = 0 /\ reloads = 0

Unread == read < alert
-----------------------------------------------------------------------------
(* The detector and the app.                                                *)

\* The push of a report is on its way, or was lost: the channel was down.
Pushes(wet) ==
    \/ Len(onTheWay) < MaxOnTheWay /\ onTheWay' = Append(onTheWay, wet)
    \/ UNCHANGED onTheWay

Alarms ==
    /\ alert < MaxAlerts /\ report < MaxReports
    /\ alert' = alert + 1 /\ report' = report + 1 /\ Pushes(TRUE)
    /\ UNCHANGED <<read, ours, poll, lift, hist, bounds>>

\* A report without an alert: the probes may have dried up.
Reports ==
    /\ report < MaxReports /\ report' = report + 1 /\ Pushes(FALSE)
    /\ UNCHANGED <<alert, read, ours, poll, lift, hist, bounds>>

ReadInApp ==
    /\ Unread /\ read' = alert
    /\ UNCHANGED <<alert, report, onTheWay, ours, poll, lift, hist, bounds>>
-----------------------------------------------------------------------------
(* _on_openapi_event, bodyAppearedEvent: wet or dry, whatever is known of   *)
(* reports, ticks and lifts.                                                *)

PushTaken ==
    /\ onTheWay # <<>> /\ onTheWay' = Tail(onTheWay)
    /\ water' = Head(onTheWay)
    /\ dried' = IF ~Head(onTheWay) /\ known = report THEN alert ELSE dried
    /\ UNCHANGED <<alert, read, report, known, gen, poll, lift, lifted, missed, bounds>>
-----------------------------------------------------------------------------
(* One tick of the timer.                                                   *)

PollStarts ==
    /\ poll.at = "idle" /\ poll' = [NoPoll EXCEPT !.at = "list"]
    /\ UNCHANGED <<govee, ours, lift, hist, bounds>>

ListAnswered ==
    /\ poll.at = "list" /\ poll' = [poll EXCEPT !.at = "listed", !.report = report]
    /\ UNCHANGED <<govee, ours, lift, hist, bounds>>

\* A failed list ends the tick with nothing learnt.
ListFails ==
    /\ poll.at = "list" /\ failures < MaxFailures
    /\ poll' = NoPoll /\ failures' = failures + 1
    /\ UNCHANGED <<govee, ours, lift, hist, lifts, reloads>>

\* Bug: only a fresh report is worth a look.
AsksWhenFresh == poll.report > known

\* Something new to learn: a fresh report, or an alert that may have been read.
WorthAsking == poll.report > known \/ water

\* The list's answer is taken up, and the warning history asked for.
TakesUp ==
    /\ poll.at = "listed"
    /\ IF WorthAsking
       THEN poll' = [poll EXCEPT !.at = "warning", !.gen = gen] /\ known' = known
       ELSE poll' = NoPoll /\ known' = IF poll.report > 0 THEN poll.report ELSE known
    /\ UNCHANGED <<govee, water, gen, lift, hist, bounds>>

WarningAnswered ==
    /\ poll.at = "warning" /\ poll' = [poll EXCEPT !.at = "warned", !.wet = Unread, !.alert = alert]
    /\ UNCHANGED <<govee, ours, lift, hist, bounds>>

\* Bug: the answer is applied whatever was lifted meanwhile.
AppliesAnyway(wet) ==
    /\ water' = wet
    /\ known' = IF poll.report > 0 THEN poll.report ELSE known

\* A clear that landed while the question was out wins.
Applies(wet) ==
    IF gen = poll.gen
    THEN /\ water' = wet
         /\ known' = IF poll.report > 0 THEN poll.report ELSE known
    ELSE UNCHANGED <<water, known>>

Warned ==
    /\ poll.at = "warned" /\ Applies(poll.wet) /\ poll' = NoPoll
    /\ UNCHANGED <<govee, gen, lift, hist, bounds>>

\* No answer: what is shown stays, and the report counts as looked into.
WarningFails ==
    /\ poll.at = "warning" /\ failures < MaxFailures /\ failures' = failures + 1
    /\ Applies(water) /\ poll' = NoPoll /\ missed' = alert
    /\ UNCHANGED <<govee, gen, lift, lifted, dried, lifts, reloads>>
-----------------------------------------------------------------------------
(* async_clear_water_leak.                                                  *)

LiftAsked ==
    /\ lift.at = "idle" /\ lifts < MaxLifts /\ lifts' = lifts + 1
    /\ lift' = [NoLift EXCEPT !.at = "sent"]
    /\ UNCHANGED <<govee, ours, poll, hist, failures, reloads>>

LiftFails ==
    /\ lift.at = "sent" /\ failures < MaxFailures /\ failures' = failures + 1
    /\ lift' = NoLift
    /\ UNCHANGED <<govee, ours, poll, hist, lifts, reloads>>

LiftAccepted ==
    /\ lift.at = "sent" /\ read' = alert /\ lift' = [at |-> "accepted", alert |-> alert]
    /\ UNCHANGED <<alert, report, onTheWay, ours, poll, hist, bounds>>

\* Bug: the last report is kept.
KeepsReport == gen' = gen + 1 /\ known' = known

\* The next tick looks again, and one under way is void.
Forgets == gen' = gen + 1 /\ known' = 0

Lifted ==
    /\ lift.at = "accepted" /\ lift' = NoLift
    /\ Forgets /\ water' = FALSE /\ lifted' = lift.alert
    /\ UNCHANGED <<govee, poll, missed, dried, bounds>>

\* A reload starts with no state, and with neither a tick nor a lift of its own.
Reload ==
    /\ reloads < MaxReloads /\ reloads' = reloads + 1
    /\ water' = FALSE /\ known' = 0 /\ gen' = 0
    /\ poll' = NoPoll /\ lift' = NoLift
    /\ UNCHANGED <<govee, hist, failures, lifts>>

Next ==
    \/ Alarms \/ Reports \/ ReadInApp \/ PushTaken
    \/ PollStarts \/ ListAnswered \/ ListFails \/ TakesUp \/ WarningAnswered \/ Warned \/ WarningFails
    \/ LiftAsked \/ LiftFails \/ LiftAccepted \/ Lifted \/ Reload

Spec == Init /\ [][Next]_vars

\* The timer is armed again after every tick, and a request is answered or times out.
PollGoesOn ==
    PollStarts \/ ListAnswered \/ ListFails \/ TakesUp \/ WarningAnswered \/ WarningFails \/ Warned
LiftGoesOn == LiftAccepted \/ LiftFails \/ Lifted

FairSpec == Spec /\ WF_vars(PollGoesOn) /\ WF_vars(LiftGoesOn)
-----------------------------------------------------------------------------
\* A tick never shows wet again what was lifted: its answer tells of an alert
\* raised since Govee took the lift, for a clear voids an answer it overtook.
\* (A push has no such guard: a wet one sent before the lift shows wet again,
\* until the next tick.)
ClearSticks == [][~water /\ water' => poll.alert > lifted \/ PushTaken]_vars

\* An unread alert does not stay hidden: it is shown, and shown again when an
\* older answer or a dry push took it down, unless its history could not be
\* read, or the push came after the tick that had its report.
AlertSurfaces == []<>(Unread /\ missed < alert /\ dried < alert => water)

\* What is shown without an unread alert goes away here: the alert was read in
\* the app or lifted, or a wet push was late.
ReadAlertClears == []<>(water => Unread)

\* So what the detector shows follows its alerts.
AlertsAreFollowed == AlertSurfaces /\ ReadAlertClears
=============================================================================
