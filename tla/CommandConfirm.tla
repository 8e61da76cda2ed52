--------------------------- MODULE CommandConfirm ---------------------------
(***************************************************************************)
(* The command confirmer (#245) of one light: the keys other devices have  *)
(* in _pending are disjoint from its own.  Control calls overlap; each     *)
(* confirm is a task of its own, interleaved with the calls, the AWS IoT   *)
(* pushes and the unload of the entry.  Time is not modelled: a wait for a *)
(* report may end at any moment, with or without one, so the event that    *)
(* cuts it short does not appear.  The control path below prepare and      *)
(* start is CommandDispatch; here it sends, sends locally, or fails.       *)
(***************************************************************************)
EXTENDS Naturals, Sequences, FiniteSets

CONSTANTS
    Calls,
    Commands,       \* records [field, value]: the confirmable commands
    Tolerance,      \* [Fields -> Nat]: how far a report may be off
    Readings,       \* [Fields -> SUBSET Nat]: what the device may hold
    Initial,        \* [Fields -> Nat]
    Carried,        \* the sets of fields a push may carry
    MaxPushes,      \* pushes under way at once
    None,           \* no value: unknown, or not reported
    Absent,         \* a push says nothing of the field
    NoCall

Fields  == {"power", "brightness", "color", "color_temp"}
Running == {"first", "query", "second", "resend"}

\* Bug: only the command's own field is looked at.
SupersedesItself(f) == {f}

\* Power changes what everything means; the colour channels are one.
Supersedes(f) ==
    IF f = "power" THEN Fields ELSE IF f = "brightness" THEN {f} ELSE {"color", "color_temp"}

ASSUME CommandsAssumption ==
    /\ Commands \subseteq [field : Fields, value : Nat]
    /\ Tolerance \in [Fields -> Nat]
    /\ Initial \in [Fields -> Nat] /\ Readings \in [Fields -> SUBSET Nat]
    /\ Carried \subseteq SUBSET Fields
ASSUME SentinelAssumption == None \notin Nat /\ Absent \notin Nat \cup {None} /\ NoCall \notin Calls /\ MaxPushes \in Nat

Reading == Nat \cup {None}

VARIABLES
    phase,          \* where each call, then its confirm task, is suspended
    cmd,            \* what the call asks for
    armed,          \* the calls prepare() made a PendingConfirm for
    previous, reported,     \* its fields; None while it has no report
    pending,        \* _pending
    resent,         \* the commands the confirmer sent again
    view,           \* what the coordinator shows
    heard,          \* the device has pushed this session
    lastPush,       \* the value of each field in the last push that had one
    alive,          \* the entry: up, in async_shutdown, unloaded
    issued,         \* the calls in the order they were made
    pushes, wire, actual    \* pushes and copies under way, and the device (external)

confirm == <<cmd, armed, previous>>
world   == <<pushes, wire, actual>>
vars    == <<phase, confirm, reported, pending, resent, view, heard, lastPush, alive, issued, world>>

Phases == {"idle", "dispatch", "lan"} \cup Running \cup {"unwind", "done"}

TypeOK ==
    /\ phase \in [Calls -> Phases]
    /\ cmd \in [Calls -> Commands \cup {NoCall}]
    /\ \A c \in Calls : phase[c] # "idle" => cmd[c] \in Commands
    /\ armed \subseteq Calls
    /\ previous \in [Calls -> Reading] /\ reported \in [Calls -> Reading]
    /\ pending \in [Fields -> Calls \cup {NoCall}]
    /\ resent \subseteq Calls
    /\ view \in [Fields -> Reading] /\ lastPush \in [Fields -> Reading]
    /\ heard \in BOOLEAN
    /\ alive \in {"up", "closing", "gone"}
    /\ issued \in Seq(Calls)
    /\ pushes \in Seq([Fields -> Reading \cup {Absent}])
    /\ wire \subseteq Calls \X {"first", "again"}
    /\ actual \in [Fields -> Reading]

Init ==
    /\ phase = [c \in Calls |-> "idle"]
    /\ cmd = [c \in Calls |-> NoCall]
    /\ armed = {}
    /\ previous = [c \in Calls |-> None] /\ reported = [c \in Calls |-> None]
    /\ pending = [f \in Fields |-> NoCall]
    /\ resent = {}
    /\ view = Initial /\ lastPush = [f \in Fields |-> None]
    /\ heard = FALSE
    /\ alive = "up"
    /\ issued = <<>>
    /\ pushes = <<>> /\ wire = {}
    /\ actual = Initial

-----------------------------------------------------------------------------
Matches(f, a, b) ==
    IF None \in {a, b} THEN a = b ELSE a <= b + Tolerance[f] /\ b <= a + Tolerance[f]

\* Lights only, and never a power-on.
Eligible(command) == ~(command.field = "power" /\ command.value = 1)

\* A value as a command leaves it: setting one colour channel unsets the other.
With(values, command) ==
    [f \in Fields |->
        IF f = command.field THEN command.value
        ELSE IF {f, command.field} = {"color", "color_temp"} THEN None ELSE values[f]]

\* The confirms registered under the keys in S.
Registered(S) == {pending[f] : f \in S} \ {NoCall}

-----------------------------------------------------------------------------
(* A control call.                                                          *)

\* Bug: the command is kept only when it is going to be confirmed.
PrepareForgets(c, command) ==
    /\ alive = "up" /\ phase[c] = "idle"
    /\ issued' = Append(issued, c)
    /\ phase' = [phase EXCEPT ![c] = "dispatch"]
    /\ IF Eligible(command) /\ heard
       THEN cmd' = [cmd EXCEPT ![c] = command] /\ armed' = armed \cup {c}
       ELSE UNCHANGED <<cmd, armed>>
    /\ wire' = wire \cup {<<c, "first">>}
    /\ UNCHANGED <<previous, reported, pending, resent, view, heard, lastPush, alive, pushes, actual>>

\* prepare(), before anything is dispatched; the first copy leaves after it.
Prepare(c, command) ==
    LET f     == command.field
        stale == Registered(Supersedes(f))
    IN  /\ alive = "up" /\ phase[c] = "idle"
        /\ issued' = Append(issued, c)
        /\ phase' = [x \in Calls |-> IF x = c THEN "dispatch" ELSE IF x \in stale THEN "unwind" ELSE phase[x]]
        /\ pending' = [g \in Fields |-> IF g \in Supersedes(f) THEN NoCall ELSE pending[g]]
        /\ cmd' = [cmd EXCEPT ![c] = command]
        /\ IF Eligible(command) /\ heard /\ ~Matches(f, view[f], command.value)
           THEN armed' = armed \cup {c} /\ previous' = [previous EXCEPT ![c] = view[f]]
           ELSE UNCHANGED <<armed, previous>>
        /\ wire' = wire \cup {<<c, "first">>}
        /\ UNCHANGED <<reported, resent, view, heard, lastPush, alive, pushes, actual>>

\* A LAN datagram left: the value is shown while its readback is awaited.
LanShown(c) ==
    /\ phase[c] = "dispatch"
    /\ phase' = [phase EXCEPT ![c] = "lan"]
    /\ view' = With(view, cmd[c])
    /\ UNCHANGED <<confirm, reported, pending, resent, heard, lastPush, alive, issued, world>>

\* BLE wrote it, the LAN read it back, or every tier failed: nothing to confirm.
DispatchEnds(c, shown) ==
    /\ phase[c] \in {"dispatch", "lan"}
    /\ phase' = [phase EXCEPT ![c] = "done"]
    /\ view' = IF shown THEN With(view, cmd[c]) ELSE view
    /\ UNCHANGED <<confirm, reported, pending, resent, heard, lastPush, alive, issued, world>>

\* Bug: a confirm already running for the field is left to itself.
SentBeside(c) ==
    /\ phase[c] \in {"dispatch", "lan"}
    /\ view' = With(view, cmd[c])
    /\ IF c \in armed
       THEN /\ pending' = [pending EXCEPT ![cmd[c].field] = c]
            /\ phase' = [phase EXCEPT ![c] = "first"]
       ELSE phase' = [phase EXCEPT ![c] = "done"] /\ UNCHANGED pending
    /\ UNCHANGED <<confirm, reported, resent, heard, lastPush, alive, issued, world>>

\* MQTT published it or REST accepted it: start().
Sent(c) ==
    LET f == cmd[c].field  old == Registered({f}) IN
    /\ phase[c] \in {"dispatch", "lan"}
    /\ view' = With(view, cmd[c])
    /\ IF c \in armed
       THEN /\ pending' = [pending EXCEPT ![f] = c]
            /\ phase' = [x \in Calls |-> IF x = c THEN "first" ELSE IF x \in old THEN "unwind" ELSE phase[x]]
       ELSE phase' = [phase EXCEPT ![c] = "done"] /\ UNCHANGED pending
    /\ wire' = wire \cup {<<c, "first">>}          \* a tier above may have left one too
    /\ UNCHANGED <<confirm, reported, resent, heard, lastPush, alive, issued, pushes, actual>>

-----------------------------------------------------------------------------
(* The confirm task.                                                        *)

\* Bug: the task ends without dropping its key.
FinishKeepsKey(c) ==
    /\ phase' = [phase EXCEPT ![c] = "done"]
    /\ UNCHANGED pending

\* The task ends; `finally` drops its own key only.
Finish(c) ==
    /\ phase' = [phase EXCEPT ![c] = "done"]
    /\ pending' = [f \in Fields |-> IF pending[f] = c THEN NoCall ELSE pending[f]]

StillOld(c) ==
    LET f == cmd[c].field IN
    /\ reported[c] # None
    /\ ~Matches(f, reported[c], cmd[c].value) /\ Matches(f, reported[c], previous[c])

\* _settle: only a report of the value from before the command leads to a
\* resend, if the budget has room for one; anything else is left alone.
Settle(c) ==
    \/ Finish(c) /\ UNCHANGED <<resent, wire>>
    \/ /\ StillOld(c)
       /\ phase' = [phase EXCEPT ![c] = "resend"]
       /\ resent' = resent \cup {c}
       /\ wire' = wire \cup {<<c, "again">>}
       /\ UNCHANGED pending

\* The first wait is over: settle, or ask for a status if no report came.
FirstWaitEnds(c) ==
    /\ phase[c] = "first"
    /\ IF reported[c] # None /\ Matches(cmd[c].field, reported[c], cmd[c].value)
       THEN Settle(c)
       ELSE /\ phase' = [phase EXCEPT ![c] = IF reported[c] = None THEN "query" ELSE "second"]
            /\ UNCHANGED <<pending, resent, wire>>
    /\ UNCHANGED <<confirm, reported, view, heard, lastPush, alive, issued, pushes, actual>>

\* Bug: the confirm goes back to the first wait after asking for a status.
QueryRestarts(c) ==
    /\ phase[c] = "query"
    /\ phase' = [phase EXCEPT ![c] = "first"]
    /\ UNCHANGED <<confirm, reported, pending, resent, view, heard, lastPush, alive, issued, world>>

\* The query went out, or might not; its result is not looked at.
QueryReturns(c) ==
    /\ phase[c] = "query"
    /\ phase' = [phase EXCEPT ![c] = "second"]
    /\ UNCHANGED <<confirm, reported, pending, resent, view, heard, lastPush, alive, issued, world>>

SecondWaitEnds(c) ==
    /\ phase[c] = "second"
    /\ Settle(c)
    /\ UNCHANGED <<confirm, reported, view, heard, lastPush, alive, issued, pushes, actual>>

ResendReturns(c, ok) ==     \* _async_resend_command
    /\ phase[c] = "resend"
    /\ Finish(c)
    /\ view' = IF ok THEN With(view, cmd[c]) ELSE view
    /\ UNCHANGED <<confirm, reported, resent, heard, lastPush, alive, issued, world>>

\* CancelledError reaches the task's `finally`.
Unwind(c) ==
    /\ phase[c] = "unwind"
    /\ Finish(c)
    /\ UNCHANGED <<confirm, reported, resent, view, heard, lastPush, alive, issued, world>>

-----------------------------------------------------------------------------
(* Pushes, the unload, and the device.                                      *)

\* Bug: the first report of a confirm is the one that counts.
ReportKeepsFirst ==
    /\ alive # "gone" /\ pushes # <<>>
    /\ LET push  == Head(pushes)
           named == {f \in Fields : push[f] \in Nat}
       IN  /\ reported' = [c \in Calls |->
                 IF c \in Registered(named) /\ reported[c] = None THEN push[cmd[c].field] ELSE reported[c]]
           /\ view' = [f \in Fields |-> IF push[f] # Absent THEN push[f] ELSE view[f]]
           /\ lastPush' = [f \in Fields |-> IF f \in named THEN push[f] ELSE lastPush[f]]
    /\ heard' = TRUE
    /\ pushes' = Tail(pushes)
    /\ UNCHANGED <<phase, confirm, pending, resent, alive, issued, wire, actual>>

\* _on_mqtt_state_update: on_report first, then the shown state.
Report ==
    /\ alive # "gone" /\ pushes # <<>>
    /\ LET push  == Head(pushes)
           named == {f \in Fields : push[f] \in Nat}     \* report_values
       IN  /\ reported' = [c \in Calls |->
                 IF c \in Registered(named) THEN push[cmd[c].field] ELSE reported[c]]
           /\ view' = [f \in Fields |-> IF push[f] # Absent THEN push[f] ELSE view[f]]
           /\ lastPush' = [f \in Fields |-> IF f \in named THEN push[f] ELSE lastPush[f]]
    /\ heard' = TRUE
    /\ pushes' = Tail(pushes)
    /\ UNCHANGED <<phase, confirm, pending, resent, alive, issued, wire, actual>>

Shutdown ==                 \* cancel_all
    /\ alive = "up"
    /\ alive' = "closing"
    /\ phase' = [c \in Calls |-> IF c \in Registered(Fields) THEN "unwind" ELSE phase[c]]
    /\ pending' = [f \in Fields |-> NoCall]
    /\ UNCHANGED <<confirm, reported, resent, view, heard, lastPush, issued, world>>

\* MQTT is stopped; Home Assistant cancels the entry's background tasks.
Unloaded ==
    /\ alive = "closing"
    /\ alive' = "gone"
    /\ phase' = [c \in Calls |-> IF phase[c] \in Running THEN "unwind" ELSE phase[c]]
    /\ UNCHANGED <<confirm, reported, pending, resent, view, heard, lastPush, issued, world>>

Arrives(copy) ==
    /\ copy \in wire
    /\ wire' = wire \ {copy}
    /\ actual' = With(actual, cmd[copy[1]])
    /\ UNCHANGED <<phase, confirm, reported, pending, resent, view, heard, lastPush, alive, issued, pushes>>

\* The app, a button, an automation.
OutsideChange(f, v) ==
    /\ actual' = With(actual, [field |-> f, value |-> v])
    /\ actual' # actual
    /\ UNCHANGED <<phase, confirm, reported, pending, resent, view, heard, lastPush, alive, issued, pushes, wire>>

Push(S) ==
    /\ Len(pushes) < MaxPushes
    /\ pushes' = Append(pushes, [f \in Fields |-> IF f \in S THEN actual[f] ELSE Absent])
    /\ UNCHANGED <<phase, confirm, reported, pending, resent, view, heard, lastPush, alive, issued, wire, actual>>

Task(c) ==
    \/ FirstWaitEnds(c) \/ QueryReturns(c) \/ SecondWaitEnds(c)
    \/ \E ok \in BOOLEAN : ResendReturns(c, ok)
    \/ Unwind(c)

Next ==
    \/ \E c \in Calls :
         \/ \E command \in Commands : Prepare(c, command)
         \/ LanShown(c) \/ Sent(c) \/ \E shown \in BOOLEAN : DispatchEnds(c, shown)
         \/ Task(c)
    \/ Report \/ Shutdown \/ Unloaded
    \/ \E copy \in wire : Arrives(copy)
    \/ \E f \in Fields : \E v \in Readings[f] : OutsideChange(f, v)
    \/ \E S \in Carried : Push(S)

Spec == Init /\ [][Next]_vars

\* A task's awaits are all bounded: two wait_for timeouts, a query that sleeps
\* one second, a request with a timeout.
FairSpec == Spec /\ \A c \in Calls : WF_vars(Task(c))
-----------------------------------------------------------------------------
\* The confirm tasks that run are exactly those registered under their field,
\* so a newer command can always reach and cancel them; a task that is still
\* unwinding must not take its successor's registration with it.
TasksAreRegistered ==
    \A c \in Calls : phase[c] \in Running => pending[cmd[c].field] = c

RegisteredTasksRun ==
    \A f \in Fields : pending[f] # NoCall =>
        cmd[pending[f]].field = f /\ phase[pending[f]] \in Running \cup {"unwind"}

\* Together: what runs and what is registered are the same tasks.
TasksAreReachable == TasksAreRegistered /\ RegisteredTasksRun

\* The confirmer keeps its promise: one watch per field, ended by every command
\* that makes it stale, and one resend at most, only under watch.
Asked == [i \in DOMAIN issued |-> cmd[issued[i]].field]

Promise == INSTANCE ConfirmPromise WITH
    asked <- Asked, watch <- pending, again <- resent

PromiseKept == Promise!Spec

\* "Someone else's change is not undone": what decides a resend is the newest
\* report of the field, and it shows the value from before the command.
NewestReportDecides ==
    [][\A c \in Calls :
         (phase[c] # "resend" /\ phase'[c] = "resend")
         => Matches(cmd[c].field, lastPush[cmd[c].field], previous[c])]_vars

\* Every confirm ends, whether or not the device ever reports: no call keeps its
\* task running.
EveryConfirmEnds == \A c \in Calls : []<>(phase[c] \notin Running)

\* "The latest command for a field supersedes a pending confirm before it is
\* dispatched; power supersedes every field" (module docstring).  prepare
\* cancels what has started; an older call whose send returns later starts its
\* confirm after that, cancels the newer one, and can resend.  So this fails.
LatestCommandSupersedes ==
    [][\A c \in Calls :
         (phase[c] # "resend" /\ phase'[c] = "resend")
         => \A i, k \in DOMAIN issued :
              (issued[i] = c /\ i < k) => cmd[c].field \notin Supersedes(cmd[issued[k]].field)]_vars
=============================================================================
