----------------------------- MODULE MqttSession -----------------------------
(***************************************************************************)
(* The life of the AWS IoT client: its connection loop, and the three      *)
(* callers that stop it -- a re-login that rotated the certificate, the    *)
(* reconnect of a silent session, and the shutdown of the entry.           *)
(*                                                                         *)
(* async_stop awaits the cancelled loop and writes the client's fields     *)
(* after that, so a second caller may wait on the same loop; the loop's    *)
(* end wakes them in the order they came, before any other task runs.      *)
(* External: the broker and the network, and the account login.            *)
(***************************************************************************)
EXTENDS Naturals, Sequences, FiniteSets

CONSTANTS
    Loops,          \* bound: connection loops alive at a time
    GiveUp,         \* MAX_RECONNECT_ATTEMPTS
    MaxMishaps,     \* bound: failed attempts and lost sessions
    MaxLogins,      \* bound: re-logins
    NoLoop          \* for the task or the client that is none

ASSUME NamedLoops == Loops # {} /\ NoLoop \notin Loops

VARIABLES
    running, connected, client, task,   \* the client's fields; a loop each, or NoLoop
    creds, ssl,     \* the credentials in use, and those of the cached TLS context
    connectFailures, reported,          \* _consecutive_failures, _unhealthy_reported
    at,             \* where each loop is: free, tls, build, connect, subscribe, up, leave, sleep
    cancelled, stable,      \* loops cancelled; loops whose session is old enough
    material,       \* the credentials each loop's TLS context was built from
    waiters, ready, \* callers awaiting the cancelled loop, and those about to go on
    relogin, wasRunning, silence, shut, \* where the callers are
    timer, evidence, heard,             \* the silence check of this session
    silentReconnected, silentReported,
    issue,          \* the disconnect repair
    mishaps, logins,
    crossed         \* history: a stop began while another, or a re-login, was under way

fields   == <<running, connected, client, task>>
loops    == <<at, cancelled, stable, material>>
streak   == <<connectFailures, reported, issue>>
callers  == <<relogin, wasRunning, silence, shut>>
stopping == <<waiters, ready>>
watch    == <<timer, evidence, heard, silentReconnected, silentReported>>
bounds   == <<mishaps, logins>>
sessionVars ==
    <<fields, creds, ssl, connectFailures, reported, loops, stopping, callers, watch, issue, bounds, crossed>>

Callers  == {"relogin", "silence", "shut"}
Versions == 1..(MaxLogins + 1)
NoContext == 0

SessionTypeOK ==
    /\ running \in BOOLEAN /\ connected \in BOOLEAN
    /\ client \in Loops \cup {NoLoop} /\ task \in Loops \cup {NoLoop}
    /\ creds \in Versions /\ ssl \in Versions \cup {NoContext}
    /\ connectFailures \in 0..GiveUp /\ reported \in BOOLEAN /\ issue \in BOOLEAN
    /\ at \in [Loops -> {"free", "tls", "build", "connect", "subscribe", "up", "leave", "sleep"}]
    /\ cancelled \subseteq Loops /\ stable \subseteq Loops
    /\ material \in [Loops -> Versions \cup {NoContext}]
    /\ waiters \in Seq(Callers) /\ ready \in Seq(Callers)
    /\ relogin \in {"idle", "login", "stopping"} /\ wasRunning \in BOOLEAN
    /\ silence \in {"idle", "stopping"} /\ shut \in {"no", "stopping", "rest", "over"}
    /\ timer \in BOOLEAN /\ evidence \in {"none", "queries", "pushes"} /\ heard \in BOOLEAN
    /\ silentReconnected \in BOOLEAN /\ silentReported \in BOOLEAN
    /\ mishaps \in 0..MaxMishaps /\ logins \in 0..MaxLogins
    /\ crossed \in BOOLEAN

\* The coordinator has just started its client.
SessionInit ==
    /\ running = TRUE /\ connected = FALSE /\ client = NoLoop
    /\ creds = 1 /\ ssl = NoContext
    /\ connectFailures = 0 /\ reported = FALSE /\ issue = FALSE
    /\ task = CHOOSE l \in Loops : TRUE
    /\ at = [l \in Loops |-> IF l = task THEN "tls" ELSE "free"]
    /\ cancelled = {} /\ stable = {} /\ material = [l \in Loops |-> NoContext]
    /\ waiters = <<>> /\ ready = <<>>
    /\ relogin = "idle" /\ wasRunning = FALSE /\ silence = "idle" /\ shut = "no"
    /\ timer = FALSE /\ evidence = "none" /\ heard = FALSE
    /\ silentReconnected = FALSE /\ silentReported = FALSE
    /\ mishaps = 0 /\ logins = 0 /\ crossed = FALSE
-----------------------------------------------------------------------------
(* The connection loop.                                                     *)

Live(l)  == at[l] # "free"
Steps(l) == ready = <<>> /\ l \notin cancelled

\* The loop's task has ended.
Ends(l) ==
    /\ at' = [at EXCEPT ![l] = "free"]
    /\ stable' = stable \ {l} /\ cancelled' = cancelled \ {l}
    /\ material' = [material EXCEPT ![l] = NoContext]

\* Bug: the loop ends with the report.
LoopGivesUp(l) ==
    IF running /\ ~reported
    THEN /\ at' = [at EXCEPT ![l] = "tls"]
         /\ UNCHANGED <<cancelled, stable, material, connected>>
    ELSE Ends(l) /\ connected' = FALSE

\* The head of "while self._running".
LoopHead(l) ==
    IF running
    THEN /\ at' = [at EXCEPT ![l] = "tls"]
         /\ UNCHANGED <<cancelled, stable, material, connected>>
    ELSE Ends(l) /\ connected' = FALSE

\* _create_ssl_context: cached, or built in an executor from the credentials
\* of the moment it starts.
UseContext(l) ==
    /\ Steps(l) /\ at[l] = "tls"
    /\ at' = [at EXCEPT ![l] = IF ssl = NoContext THEN "build" ELSE "connect"]
    /\ material' = [material EXCEPT ![l] = IF ssl = NoContext THEN creds ELSE ssl]
    /\ UNCHANGED <<fields, creds, ssl, streak, cancelled, stable, stopping, callers, watch, bounds, crossed>>

ContextBuilt(l) ==
    /\ Steps(l) /\ at[l] = "build"
    /\ at' = [at EXCEPT ![l] = "connect"] /\ ssl' = material[l]
    /\ UNCHANGED <<fields, creds, streak, cancelled, stable, material, stopping, callers, watch, bounds, crossed>>

\* Bug: the repair goes with the CONNACK, whatever the subscription brings.
ConnackClears(l) ==
    /\ Steps(l) /\ at[l] = "connect"
    /\ at' = [at EXCEPT ![l] = "subscribe"] /\ client' = l /\ issue' = FALSE
    /\ UNCHANGED <<running, connected, task, creds, ssl, connectFailures, reported, cancelled, stable, material>>
    /\ UNCHANGED <<stopping, callers, watch, bounds, crossed>>

Connack(l) ==
    /\ Steps(l) /\ at[l] = "connect"
    /\ at' = [at EXCEPT ![l] = "subscribe"] /\ client' = l
    /\ UNCHANGED <<running, connected, task, creds, ssl, streak, cancelled, stable, material>>
    /\ UNCHANGED <<stopping, callers, watch, bounds, crossed>>

\* The session is up: the repair goes, and the silence check is armed.
Suback(l) ==
    /\ Steps(l) /\ at[l] = "subscribe"
    /\ at' = [at EXCEPT ![l] = "up"] /\ connected' = TRUE
    /\ issue' = FALSE
    /\ timer' = TRUE /\ evidence' = "none" /\ heard' = FALSE
    /\ UNCHANGED <<running, client, task, creds, ssl, connectFailures, reported, cancelled, stable, material>>
    /\ UNCHANGED <<silentReconnected, silentReported, stopping, callers, bounds, crossed>>

\* STABLE_SESSION_SECONDS have gone by.
Settles(l) ==
    /\ Steps(l) /\ at[l] = "up" /\ stable' = stable \cup {l} /\ l \notin stable
    /\ UNCHANGED <<fields, creds, ssl, streak, at, cancelled, material, stopping, callers, watch, bounds, crossed>>

\* Bug: the count goes on past the report.
CountsPastGiveUp(l) ==
    /\ connectFailures' = connectFailures + 2
    /\ reported' = (reported \/ connectFailures' >= GiveUp) /\ issue' = issue /\ relogin' = relogin

\* The except branch: one more failure, or the end of a session that had
\* lasted.  The GiveUp-th in a row raises the repair and tries a re-login.
CountsFailure(l) ==
    IF at[l] = "up" /\ l \in stable
    THEN connectFailures' = 0 /\ reported' = FALSE /\ UNCHANGED <<issue, relogin>>
    ELSE /\ connectFailures' = IF connectFailures < GiveUp THEN connectFailures + 1 ELSE connectFailures
         /\ IF connectFailures' >= GiveUp /\ ~reported
            THEN /\ reported' = TRUE /\ issue' = TRUE
                 /\ relogin' \in {relogin} \cup
                      (IF relogin = "idle" /\ logins < MaxLogins THEN {"login"} ELSE {})
            ELSE UNCHANGED <<reported, issue, relogin>>

\* A failed attempt, a refused subscription, or a lost session.
Fails(l) ==
    /\ Steps(l) /\ at[l] \in {"build", "connect", "subscribe", "up"}
    /\ mishaps < MaxMishaps /\ mishaps' = mishaps + 1
    /\ client' = NoLoop /\ connected' = FALSE
    /\ IF running
       THEN /\ at' = [at EXCEPT ![l] = "sleep"] /\ stable' = stable \ {l}
            /\ CountsFailure(l) /\ UNCHANGED <<cancelled, material>>
       ELSE Ends(l) /\ UNCHANGED <<streak, relogin>>
    /\ UNCHANGED <<running, task, creds, ssl, wasRunning, silence, shut, stopping, watch, logins, crossed>>

\* The back-off is over.
Wakes(l) ==
    /\ Steps(l) /\ at[l] = "sleep" /\ LoopHead(l)
    /\ UNCHANGED <<running, client, task, creds, ssl, streak, stopping, callers, watch, bounds, crossed>>

\* _note_mqtt_inbound
Heard == silentReconnected' = FALSE /\ silentReported' = FALSE

\* A message; the parser accepts it or not.  A client that is no longer to run
\* leaves its session on the next one.
Message(l) ==
    /\ Steps(l) /\ at[l] = "up"
    /\ IF running
       THEN /\ heard' = TRUE
            /\ Heard \/ UNCHANGED <<silentReconnected, silentReported>>
            /\ IF l \in stable THEN connectFailures' = 0 /\ reported' = (reported /\ connectFailures = 0)
                               ELSE UNCHANGED <<connectFailures, reported>>
            /\ UNCHANGED <<client, at>>
       ELSE /\ client' = NoLoop /\ at' = [at EXCEPT ![l] = "leave"]
            /\ UNCHANGED <<connectFailures, reported, heard, silentReconnected, silentReported>>
    /\ UNCHANGED <<running, connected, task, creds, ssl, issue, cancelled, stable, material>>
    /\ UNCHANGED <<timer, evidence, stopping, callers, bounds, crossed>>

Leaves(l) ==
    /\ Steps(l) /\ at[l] = "leave" /\ LoopHead(l)
    /\ UNCHANGED <<running, client, task, creds, ssl, streak, stopping, callers, watch, bounds, crossed>>

\* The cancelled loop is out of its session; those awaiting it go on.
CancelDone(l) ==
    /\ ready = <<>> /\ l \in cancelled /\ Ends(l)
    /\ ready' = waiters /\ waiters' = <<>>
    /\ UNCHANGED <<fields, creds, ssl, streak, callers, watch, bounds, crossed>>
-----------------------------------------------------------------------------
(* async_stop and async_start.                                              *)

\* Bound: there is a loop for the restart to use.
Spare == task # NoLoop \/ \E l \in Loops : ~Live(l)

\* Bug: the cancelled loop is not awaited.
StopDoesNotWait(p) ==
    /\ running' = FALSE /\ crossed' = (crossed \/ waiters # <<>>)
    /\ cancelled' = cancelled \cup ({task} \cap {l \in Loops : Live(l)})
    /\ ready' = <<p>>
    /\ UNCHANGED <<waiters, connected, client, task, at, stable, material>>

\* Up to the await.  A loop that has ended, or none, is not awaited.
StopBegins(p) ==
    /\ running' = FALSE
    /\ crossed' = (crossed \/ waiters # <<>> \/ (p = "shut" /\ relogin # "idle"))
    /\ IF task # NoLoop /\ Live(task)
       THEN /\ cancelled' = cancelled \cup {task}
            /\ waiters' = Append(waiters, p) /\ UNCHANGED ready
       ELSE ready' = <<p>> /\ UNCHANGED <<cancelled, waiters>>
    /\ UNCHANGED <<connected, client, task, at, stable, material>>

\* Bug: the fields keep the ended session.
StopForgetsFields == UNCHANGED <<client, connected>>

\* From the await on.
StopEnds == client' = NoLoop /\ connected' = FALSE

\* A name for the new task; which one does not matter.
FreeLoop == CHOOSE l \in Loops : ~Live(l)

\* async_start, after a stop: a client that runs already is left alone.
Starts(really) ==
    IF ~running /\ really
    THEN /\ running' = TRUE /\ task' = FreeLoop
         /\ at' = [at EXCEPT ![FreeLoop] = "tls"]
         /\ UNCHANGED <<cancelled, stable, material>>
    ELSE running' = running /\ task' = NoLoop /\ UNCHANGED loops

\* Bug: the restart keeps the TLS context built from the old credentials.
RestartKeepsContext ==
    /\ StopEnds /\ Starts(wasRunning)
    /\ creds' = creds + 1 /\ ssl' = ssl /\ connectFailures' = 0 /\ reported' = FALSE
    /\ relogin' = "idle" /\ UNCHANGED <<silence, shut>>

\* async_restart goes on with the new credentials.
Restarts ==
    /\ StopEnds /\ Starts(wasRunning)
    /\ creds' = creds + 1 /\ ssl' = NoContext /\ connectFailures' = 0 /\ reported' = FALSE
    /\ relogin' = "idle" /\ UNCHANGED <<silence, shut>>

\* Bug: the handler's flag stays set.
ReconnectsHandling ==
    /\ StopEnds /\ Starts(TRUE)
    /\ silence' = silence /\ UNCHANGED <<creds, ssl, connectFailures, reported, relogin, shut>>

\* The silence handler goes on.
Reconnects ==
    /\ StopEnds /\ Starts(TRUE)
    /\ silence' = "idle" /\ UNCHANGED <<creds, ssl, connectFailures, reported, relogin, shut>>

\* async_shutdown goes on: the coordinator forgets its client.
Forgets ==
    /\ StopEnds /\ Starts(FALSE)
    /\ shut' = "rest" /\ UNCHANGED <<creds, ssl, connectFailures, reported, relogin, silence>>

Resume ==
    /\ ready # <<>> /\ ready' = Tail(ready)
    /\ \/ Head(ready) = "relogin" /\ Restarts
       \/ Head(ready) = "silence" /\ Reconnects
       \/ Head(ready) = "shut" /\ Forgets
    /\ UNCHANGED <<issue, waiters, wasRunning, watch, bounds, crossed>>
-----------------------------------------------------------------------------
(* The callers.                                                             *)

\* A BFF call's token was refused, and the last attempt is long enough ago.
\* Unloading does not end the calls: the one under way re-arms the poll's timer.
Login ==
    /\ ready = <<>> /\ relogin = "idle" /\ logins < MaxLogins
    /\ relogin' = "login"
    /\ UNCHANGED <<fields, creds, ssl, streak, loops, stopping, wasRunning, silence, shut, watch, bounds, crossed>>

LoginFails ==
    /\ ready = <<>> /\ relogin = "login" /\ relogin' = "idle"
    /\ logins' = logins + 1
    /\ UNCHANGED <<fields, creds, ssl, streak, loops, stopping, wasRunning, silence, shut, watch, mishaps, crossed>>

\* The client there is gets the new material: a restart, unless only the token
\* differs.
LoginRenews ==
    /\ ready = <<>> /\ relogin = "login" /\ shut \in {"no", "stopping"} /\ Spare
    /\ logins' = logins + 1
    /\ relogin' = "stopping" /\ wasRunning' = running /\ StopBegins("relogin")
    /\ UNCHANGED <<creds, ssl, streak, silence, shut, watch, mishaps>>

\* With no client any more, the re-login starts another one: this module does
\* not follow it.
LoginStartsClient ==
    /\ ready = <<>> /\ relogin = "login" /\ shut \in {"rest", "over"}
    /\ relogin' = "idle" /\ logins' = logins + 1
    /\ UNCHANGED <<fields, creds, ssl, streak, loops, stopping, wasRunning, silence, shut, watch, mishaps, crossed>>

\* Status queries sent, or gateway readings that came by the cloud only.
Evidence ==
    /\ ready = <<>> /\ connected /\ shut \in {"no", "stopping"}
    /\ evidence' \in {"queries", "pushes"} \ {evidence} /\ evidence # "pushes"
    /\ UNCHANGED <<fields, creds, ssl, streak, loops, stopping, callers, timer, heard>>
    /\ UNCHANGED <<silentReconnected, silentReported, bounds, crossed>>

\* _async_handle_silent_session: reconnect once, then tell the user.
SilentSession ==
    IF ~silentReconnected
    THEN /\ silentReconnected' = TRUE /\ UNCHANGED silentReported
         /\ silence' = "stopping" /\ StopBegins("silence")
    ELSE /\ silentReported' = TRUE
         /\ UNCHANGED <<silentReconnected, silence, fields, loops, stopping, crossed>>

\* The check of this session, half an hour after it came up; missed readings of
\* a gateway are checked from then on too.
CheckSilence ==
    /\ ready = <<>> /\ shut \in {"no", "stopping"} /\ Spare /\ timer' = FALSE
    /\ IF connected /\ ~heard /\ silence = "idle" /\ evidence # "none" /\ (timer \/ evidence = "pushes")
       THEN SilentSession
       ELSE /\ timer
            /\ IF connected /\ heard THEN Heard ELSE UNCHANGED <<silentReconnected, silentReported>>
            /\ UNCHANGED <<silence, fields, loops, stopping, crossed>>
    /\ UNCHANGED <<creds, ssl, streak, relogin, wasRunning, shut, evidence, heard, bounds>>

\* The entry unloads.
Shutdown ==
    /\ ready = <<>> /\ shut = "no"
    /\ shut' = "stopping" /\ timer' = FALSE
    /\ StopBegins("shut")
    /\ UNCHANGED <<creds, ssl, streak>>
    /\ UNCHANGED <<relogin, wasRunning, silence, evidence, heard, silentReconnected, silentReported, bounds>>

\* Unloaded: Home Assistant cancels the entry's background tasks.  A re-login
\* on the give-up's task ends there, one on a poll's timer does not.
Unloaded ==
    /\ ready = <<>> /\ shut = "rest" /\ shut' = "over"
    /\ relogin' \in {relogin} \cup (IF relogin = "login" THEN {"idle"} ELSE {})
    /\ UNCHANGED <<fields, creds, ssl, streak, loops, stopping, wasRunning, silence, watch, bounds, crossed>>
-----------------------------------------------------------------------------
LoopStep(l) ==
    \/ UseContext(l) \/ ContextBuilt(l) \/ Connack(l) \/ Suback(l) \/ Settles(l)
    \/ Fails(l) \/ Wakes(l) \/ Message(l) \/ Leaves(l) \/ CancelDone(l)

SessionNext ==
    \/ \E l \in Loops : LoopStep(l)
    \/ Resume
    \/ Login \/ LoginFails \/ LoginRenews \/ LoginStartsClient
    \/ Evidence \/ CheckSilence
    \/ Shutdown \/ Unloaded

SessionSpec == SessionInit /\ [][SessionNext]_sessionVars

\* The event loop runs what is ready, the TLS and broker round-trips are
\* bounded by CONNECTION_TIMEOUT, and the back-off by RECONNECT_MAX.  Nothing
\* makes a message arrive, or a login or an unload begin.
LoopGoesOn(l) == UseContext(l) \/ ContextBuilt(l) \/ Connack(l) \/ Suback(l) \/ Wakes(l) \/ CancelDone(l)

SessionFairness ==
    /\ \A l \in Loops : WF_sessionVars(LoopGoesOn(l))
    /\ WF_sessionVars(Resume) /\ WF_sessionVars(CheckSilence)
    /\ WF_sessionVars(LoginFails \/ LoginRenews \/ LoginStartsClient) /\ WF_sessionVars(Unloaded)

SessionFairSpec == SessionSpec /\ SessionFairness
-----------------------------------------------------------------------------
\* async_publish_command and the status query have something to publish on.
Publishable == connected /\ client # NoLoop

Under(l) == Live(l) /\ l \notin cancelled

\* As long as no stop began during another, the loop that async_stop would
\* cancel is the only one there is (async_restart, the silence handler and
\* async_shutdown each leave _task naming the loop that runs).
OneLoop == ~crossed => \A l \in Loops : Live(l) => l = task

\* ... a client that takes a publish has a session that is up, or is on its
\* way out: nothing is published on a connection not yet subscribed.
PublishableIsLive ==
    ~crossed /\ ready = <<>> /\ Publishable =>
        client \in cancelled \/ (at[client] = "up" /\ running)

\* ... and every connection is made with the credentials now in force: the
\* TLS context of a rotated certificate does not outlive the restart.
ConnectsWithCurrent ==
    ~crossed => \A l \in Loops : Under(l) /\ at[l] \in {"build", "connect", "subscribe", "up"} => material[l] = creds

\* ... and the client the entry unloaded leaves no loop behind, whatever calls
\* and re-logins outlive the entry.
UnloadedIsSilent == ~crossed /\ shut \in {"rest", "over"} => ~running /\ \A l \in Loops : ~Live(l)

\* The four together: one loop, live, current, and none after the unload.
SessionIsSound == OneLoop /\ PublishableIsLive /\ ConnectsWithCurrent /\ UnloadedIsSilent

\* The connection loop retries until "the client is stopped", and async_stop
\* "cancels the connection loop": with the entry unloaded none is left.
UnloadStops == shut = "over" => \A l \in Loops : ~Live(l)

\* The repair of an endless outage: from the report on it is only withdrawn by
\* a session that came up.
RepairWithdrawnBySession ==
    [][issue /\ ~issue' => \E l \in Loops : at[l] = "subscribe" /\ at'[l] = "up"]_sessionVars

\* A session that misses readings the cloud has is dealt with: reconnected, or
\* the user is told.
SilenceIsFound ==
    connected /\ ~heard /\ evidence = "pushes" ~>
        silentReported \/ heard \/ ~connected \/ shut # "no" \/ crossed

\* The network comes back in the end: until the entry unloads there is always
\* another session, whatever failed, was silenced or rotated before.
Recovered == connected \/ shut # "no" \/ crossed
SessionRecovers == []<>Recovered
=============================================================================
