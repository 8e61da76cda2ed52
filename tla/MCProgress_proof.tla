-------------------------- MODULE MCProgress_proof --------------------------
(* Theorems of the parts that promise progress: what one stop of the MQTT   *)
(* client at a time guarantees and when the repair of an outage goes, what  *)
(* an entry removes and reloads, and that a cleared alert stays cleared,    *)
(* for any loops, devices, sensors and bounds; and of the sum, whose        *)
(* behaviours are one of one part.                                          *)
EXTENDS MCProgress, TLAPS

-----------------------------------------------------------------------------
(* The session: one loop, and a repair that goes with a session that is up. *)

LoopStates == {"free", "tls", "build", "connect", "subscribe", "up", "leave", "sleep"}

\* Lines of the type invariant that hold whatever stops within what.
LoopType ==
    /\ at \in [Loops -> LoopStates] /\ material \in [Loops -> Nat]
    /\ creds \in Nat /\ ssl \in Nat /\ running \in BOOLEAN

\* Of the three callers only p is stopping the client, which was running.
Stops(p) ==
    /\ relogin = "stopping" <=> p = "relogin"
    /\ silence = "stopping" <=> p = "silence"
    /\ shut = "stopping" <=> p = "shut"
    /\ p = "relogin" => wasRunning

Gone  == shut \in {"rest", "over"}
Still == \A l \in Loops : ~Live(l)

\* Nobody stops the client: it runs until the entry has unloaded.
Quiet ==
    /\ waiters = <<>> /\ ready = <<>> /\ cancelled = {} /\ Stops("nobody")
    /\ (running <=> ~Gone) /\ (Gone => Still)

\* p awaits the one loop, or is about to go on with none alive.
Awaits(p) ==
    /\ waiters = <<p>> /\ ready = <<>> /\ Stops(p)
    /\ task \in Loops /\ Live(task) /\ cancelled = {task}
    /\ ~running /\ ~Gone

GoesOn(p) ==
    /\ waiters = <<>> /\ ready = <<p>> /\ Stops(p)
    /\ Still /\ cancelled = {}
    /\ ~running /\ ~Gone

Phase == Quiet \/ \E p \in Callers : Awaits(p) \/ GoesOn(p)

\* The fields name the session there is.
FieldsFit ==
    ready = <<>> =>
        /\ client \in {NoLoop, task}
        /\ client # NoLoop => at[client] \in {"subscribe", "up"}
        /\ connected => task \in Loops /\ at[task] = "up"

AloneInv ==
    /\ Phase
    /\ task \in Loops \cup {NoLoop} /\ \A l \in Loops : Live(l) => l = task
    /\ FieldsFit
    /\ ssl \in {NoContext, creds} /\ ConnectsWithCurrent

SessionInv == LoopType /\ (~crossed => AloneInv)

LEMMA SessionStarts == SessionInit => SessionInv
  <1> SUFFICES ASSUME SessionInit PROVE SessionInv
      OBVIOUS
  <1>1. task \in Loops /\ task # NoLoop
      BY NamedLoops DEF SessionInit
  <1>2. LoopType
      BY DEF SessionInit, LoopType, LoopStates, NoContext
  <1>3. Quiet
      BY DEF SessionInit, Quiet, Stops, Gone
  <1>4. (\A l \in Loops : Live(l) => l = task) /\ ConnectsWithCurrent
      BY DEF SessionInit, Live, ConnectsWithCurrent, Under
  <1> QED
      BY <1>1, <1>2, <1>3, <1>4 DEF SessionInit, SessionInv, AloneInv, Phase, FieldsFit

\* A caller that goes on is all there is; otherwise one waits, or nobody stops.
LEMMA Phases ==
  ASSUME SessionInv, ~crossed
  PROVE  IF ready # <<>> THEN \E p \in Callers : GoesOn(p)
         ELSE Quiet \/ \E p \in Callers : Awaits(p)
  <1>1. \A p : <<p>> # <<>>
      OBVIOUS
  <1> QED
      BY <1>1 DEF SessionInv, AloneInv, Phase, Quiet, Awaits, GoesOn

\* A step of the connection loop is one of the loop that runs.
LEMMA LoopRuns ==
  ASSUME SessionInv, ~crossed, NEW l \in Loops, Steps(l), Live(l)
  PROVE  Quiet /\ running /\ ~Gone /\ l = task
  <1>1. l = task
      BY DEF SessionInv, AloneInv
  <1>2. \A p \in Callers : ~Awaits(p)
      BY <1>1 DEF Awaits, Steps
  <1>3. Quiet
      BY <1>2, Phases DEF Steps
  <1> QED
      BY <1>1, <1>3 DEF Quiet, Still

\* A stop with no other under way is the caller's own.
LEMMA StopAlone ==
  ASSUME SessionInv, ~crossed, ready = <<>>, NEW p \in Callers, StopBegins(p), ~crossed',
         Stops(p)', ~Gone', creds' = creds, ssl' = ssl
  PROVE  /\ LoopType' /\ (Awaits(p)' \/ GoesOn(p)') /\ task' = task
         /\ (\A l \in Loops : Live(l)' => l = task') /\ FieldsFit' /\ ConnectsWithCurrent'
  <1>1. waiters = <<>> /\ Quiet
    <2>1. waiters = <<>>
        BY DEF StopBegins
    <2>2. \A q : <<q>> # <<>>
        OBVIOUS
    <2> QED
        BY <2>1, <2>2, Phases DEF Awaits
  <1>2. LoopType' /\ (\A l \in Loops : Live(l)' => l = task') /\ task' = task
      BY DEF SessionInv, AloneInv, LoopType, StopBegins, Live
  <1>3. ConnectsWithCurrent'
      BY DEF SessionInv, AloneInv, ConnectsWithCurrent, StopBegins, Under, Live
  <1>4. CASE task # NoLoop /\ Live(task)
    <2>1. task \in Loops /\ waiters' = <<p>> /\ ready' = <<>> /\ cancelled' = {task} /\ running' = FALSE /\ Live(task)'
        BY <1>4, <1>1 DEF SessionInv, AloneInv, StopBegins, Quiet, Live
    <2>2. Awaits(p)'
        BY <2>1, <1>2 DEF Awaits
    <2>3. FieldsFit'
        BY <2>1 DEF FieldsFit, SessionInv, AloneInv, StopBegins
    <2> QED
        BY <2>2, <2>3, <1>2, <1>3
  <1>5. CASE ~(task # NoLoop /\ Live(task))
    <2>1. waiters' = <<>> /\ ready' = <<p>> /\ cancelled' = {} /\ running' = FALSE /\ at' = at
        BY <1>5, <1>1 DEF StopBegins, Quiet
    <2>2. Still'
        BY <1>5, <2>1, NamedLoops DEF SessionInv, AloneInv, Still, Live
    <2>3. GoesOn(p)'
        BY <2>1, <2>2 DEF GoesOn
    <2>4. FieldsFit'
        BY <2>1 DEF FieldsFit
    <2> QED
        BY <2>3, <2>4, <1>2, <1>3
  <1> QED
      BY <1>4, <1>5

LEMMA LoopTypeStep == LoopType /\ [SessionNext]_sessionVars => LoopType'
  <1> SUFFICES ASSUME LoopType, [SessionNext]_sessionVars PROVE LoopType'
      OBVIOUS
  <1>1. ASSUME NEW l \in Loops, LoopStep(l) PROVE LoopType'
      BY <1>1
        DEF LoopType, LoopStates, LoopStep, UseContext, ContextBuilt, Connack, Suback, Settles,
            Fails, Wakes,
         Message, Leaves, CancelDone, LoopHead, Ends, CountsFailure, Heard, fields, loops, callers, NoContext
  <1>2. CASE Resume
    <2>1. \A go : Starts(go) => at' \in [Loops -> LoopStates] /\ material' \in [Loops -> Nat] /\ running' \in BOOLEAN
      <3> SUFFICES ASSUME NEW go, Starts(go)
                   PROVE  at' \in [Loops -> LoopStates] /\ material' \in [Loops -> Nat] /\ running' \in BOOLEAN
          OBVIOUS
      <3>1. "tls" \in LoopStates
          BY DEF LoopStates
      <3>2. CASE ~running /\ go
          BY <3>1, <3>2 DEF LoopType, Starts
      <3>3. CASE ~(~running /\ go)
          BY <3>3 DEF LoopType, Starts, loops
      <3> QED
          BY <3>2, <3>3
    <2>2. CASE Restarts
        BY <2>1, <2>2 DEF LoopType, Restarts, NoContext
    <2>3. CASE Reconnects \/ Forgets
        BY <2>1, <2>3 DEF LoopType, Reconnects, Forgets
    <2> QED
        BY <1>2, <2>2, <2>3 DEF Resume
  <1>3. ASSUME NEW p \in Callers, StopBegins(p), UNCHANGED <<creds, ssl>> PROVE LoopType'
      BY <1>3 DEF LoopType, StopBegins
  <1>4. CASE Login \/ LoginFails \/ LoginStartsClient \/ Evidence \/ Unloaded \/ UNCHANGED sessionVars
      BY <1>4
        DEF LoopType, Login, LoginFails, LoginStartsClient, Evidence, Unloaded, sessionVars, fields,
            loops
  <1>5. CASE LoginRenews \/ Shutdown
      BY <1>5, <1>3 DEF LoginRenews, Shutdown, Callers
  <1>6. CASE CheckSilence
      BY <1>6, <1>3 DEF LoopType, CheckSilence, SilentSession, Callers, fields, loops
  <1> QED
      BY <1>1, <1>2, <1>4, <1>5, <1>6 DEF SessionNext

\* A history that a stop began within another stays.
LEMMA CrossedStays == [SessionNext]_sessionVars /\ ~crossed' => ~crossed
  BY DEF SessionNext, LoopStep, UseContext, ContextBuilt, Connack, Suback, Settles, Fails, Wakes, Message, Leaves, CancelDone,
     Resume, Login, LoginFails, LoginRenews, LoginStartsClient, Evidence, CheckSilence, SilentSession, Shutdown,
     Unloaded, StopBegins, sessionVars

\* The connection loop at work leaves everyone as quiet as it found them.
LEMMA LoopKeeps ==
  ASSUME SessionInv, ~crossed, NEW l \in Loops, LoopStep(l), ~CancelDone(l)
  PROVE  AloneInv'
  <1>1. Steps(l) /\ Live(l)
      BY DEF LoopStep, UseContext, ContextBuilt, Connack, Suback, Settles, Fails, Wakes, Message, Leaves, Live
  <1>2. Quiet /\ running /\ ~Gone /\ l = task /\ l \in Loops
      BY <1>1, LoopRuns
  <1>3. at \in [Loops -> LoopStates] /\ material \in [Loops -> Nat]
      BY DEF SessionInv, LoopType
  <1>4. /\ UNCHANGED <<running, creds, task, wasRunning, silence, shut, waiters, ready, cancelled>>
        /\ relogin' = relogin \/ (relogin' = "login" /\ relogin = "idle")
    <2>1. CASE UseContext(l) \/ ContextBuilt(l) \/ Connack(l) \/ Suback(l) \/ Settles(l)
        BY <2>1 DEF UseContext, ContextBuilt, Connack, Suback, Settles, fields, callers, stopping
    <2>2. CASE Fails(l)
      <3>1. CountsFailure(l) /\ cancelled' = cancelled
          BY <2>2, <1>2 DEF Fails
      <3>2. relogin' = relogin \/ (relogin' = "login" /\ relogin = "idle")
          BY <3>1 DEF CountsFailure
      <3> QED
          BY <2>2, <3>1, <3>2 DEF Fails, stopping
    <2>3. CASE Wakes(l) \/ Leaves(l)
        BY <2>3, <1>2 DEF Wakes, Leaves, LoopHead, callers, stopping
    <2>4. CASE Message(l)
        BY <2>4 DEF Message, callers, stopping
    <2> QED
        BY <2>1, <2>2, <2>3, <2>4 DEF LoopStep
  <1>5. Quiet'
      BY <1>2, <1>4 DEF Quiet, Stops, Gone
  <1>6. \A k \in Loops : k # l => at'[k] = at[k]
      BY <1>2, <1>3
        DEF LoopStep, UseContext, ContextBuilt, Connack, Suback, Settles, Fails, Wakes, Message,
            Leaves, LoopHead
  <1>7. \A k \in Loops : Live(k)' => k = task'
      BY <1>2, <1>4, <1>6 DEF SessionInv, AloneInv, Live
  <1>8. FieldsFit' /\ ssl' \in {NoContext, creds'} /\ ConnectsWithCurrent'
    <2>1. CASE UseContext(l)
        BY <2>1, <1>2, <1>3, <1>4, <1>7
          DEF UseContext, SessionInv, AloneInv, FieldsFit, ConnectsWithCurrent, Under, fields, Live
    <2>2. CASE ContextBuilt(l)
        BY <2>2, <1>1, <1>2, <1>3, <1>4, <1>7
          DEF ContextBuilt, SessionInv, AloneInv, FieldsFit, ConnectsWithCurrent, Under, fields,
              Live, Steps
    <2>3. CASE Connack(l)
        BY <2>3, <1>1, <1>2, <1>3, <1>4, <1>7
          DEF Connack, SessionInv, AloneInv, FieldsFit, ConnectsWithCurrent, Under, Live, Steps
    <2>4. CASE Suback(l)
        BY <2>4, <1>1, <1>2, <1>3, <1>4, <1>7
          DEF Suback, SessionInv, AloneInv, FieldsFit, ConnectsWithCurrent, Under, Live, Steps
    <2>5. CASE Settles(l)
        BY <2>5, <1>4
          DEF Settles, SessionInv, AloneInv, FieldsFit, ConnectsWithCurrent, Under, fields, Live
    <2>6. CASE Fails(l)
        BY <2>6, <1>2, <1>3, <1>4, <1>7
          DEF Fails, SessionInv, AloneInv, FieldsFit, ConnectsWithCurrent, Under, Live
    <2>7. CASE Wakes(l) \/ Leaves(l)
        BY <2>7, <1>2, <1>3, <1>4, <1>7
          DEF Wakes, Leaves, LoopHead, SessionInv, AloneInv, FieldsFit, ConnectsWithCurrent, Under,
              Live
    <2>8. CASE Message(l)
        BY <2>8, <1>2, <1>4
          DEF Message, SessionInv, AloneInv, FieldsFit, ConnectsWithCurrent, Under, Live
    <2> QED
        BY <2>1, <2>2, <2>3, <2>4, <2>5, <2>6, <2>7, <2>8 DEF LoopStep
  <1> QED
      BY <1>4, <1>5, <1>7, <1>8 DEF AloneInv, SessionInv, Phase

\* The one that awaited the cancelled loop is the one that goes on.
LEMMA CancelledEnds ==
  ASSUME SessionInv, ~crossed, NEW l \in Loops, CancelDone(l)
  PROVE  AloneInv'
  <1>1. PICK p \in Callers : Awaits(p)
      BY Phases DEF CancelDone, Quiet
  <1>2. l = task /\ at' = [at EXCEPT ![l] = "free"] /\ cancelled' = {} /\ ready' = <<p>> /\ waiters' = <<>>
      BY <1>1 DEF Awaits, CancelDone, Ends
  <1>3. Still'
      BY <1>2 DEF SessionInv, AloneInv, LoopType, Still, Live
  <1>4. GoesOn(p)'
      BY <1>1, <1>2, <1>3 DEF Awaits, GoesOn, CancelDone, Stops, Gone, fields, callers
  <1>5. FieldsFit' /\ ConnectsWithCurrent' /\ \A k \in Loops : Live(k)' => k = task'
      BY <1>2, <1>3 DEF FieldsFit, ConnectsWithCurrent, Under, Still
  <1> QED
      BY <1>1, <1>4, <1>5 DEF AloneInv, SessionInv, Phase, CancelDone, fields, callers

\* The caller that goes on starts the one loop of the client, or none.
LEMMA ResumeQuiet ==
  ASSUME SessionInv, ~crossed, Resume
  PROVE  AloneInv'
  <1>1. PICK p \in Callers : GoesOn(p)
      BY Phases DEF Resume
  <1>2. Head(ready) = p /\ ready' = <<>> /\ waiters' = <<>>
      BY <1>1 DEF GoesOn, Resume
  <1>3. at \in [Loops -> LoopStates] /\ material \in [Loops -> Nat] /\ FreeLoop \in Loops
      BY <1>1, NamedLoops DEF SessionInv, LoopType, FreeLoop, GoesOn, Still
  <1>4. client' = NoLoop /\ connected' = FALSE /\ cancelled' = {} /\ wasRunning' = wasRunning
      BY <1>1 DEF Resume, Restarts, Reconnects, Forgets, StopEnds, Starts, GoesOn, loops
  <1>5. CASE p = "shut"
    <2>1. Forgets
        BY <1>2, <1>5 DEF Resume
    <2>2. running' = FALSE /\ task' = NoLoop /\ at' = at /\ shut' = "rest"
        BY <2>1, <1>1 DEF Forgets, Starts, loops, GoesOn
    <2>3. Quiet' /\ Still'
        BY <2>1, <2>2, <1>1, <1>2, <1>4, <1>5 DEF Quiet, Stops, Gone, Still, Live, GoesOn, Forgets
    <2> QED
        BY <2>1, <2>2, <2>3, <1>1, <1>4, <1>5
          DEF AloneInv, SessionInv, Phase, FieldsFit, Forgets, ConnectsWithCurrent, Under, Still,
              GoesOn, Stops
  <1>6. CASE p \in {"relogin", "silence"}
    <2>1. Restarts \/ Reconnects
        BY <1>2, <1>6 DEF Resume
    <2>2. /\ running' = TRUE /\ task' = FreeLoop /\ at' = [at EXCEPT ![FreeLoop] = "tls"] /\ shut' = shut
          /\ material' = material
        BY <2>1, <1>1, <1>2, <1>6 DEF Restarts, Reconnects, Starts, GoesOn, Stops, Resume
    <2>3. ~Gone'
        BY <2>2, <1>1 DEF GoesOn, Gone
    <2>4. Quiet'
        BY <2>1, <2>2, <2>3, <1>1, <1>2, <1>4, <1>6 DEF Quiet, Stops, GoesOn, Restarts, Reconnects, Resume
    <2>5. \A k \in Loops : Live(k)' => k = task' /\ at'[k] = "tls"
        BY <2>2, <1>1, <1>3 DEF Live, GoesOn, Still
    <2>6. ssl' \in {NoContext, creds'} /\ ConnectsWithCurrent'
        BY <2>1, <2>5 DEF Restarts, Reconnects, SessionInv, AloneInv, ConnectsWithCurrent, Under
    <2> QED
        BY <2>2, <2>4, <2>5, <2>6, <1>3, <1>4 DEF AloneInv, SessionInv, Phase, FieldsFit
  <1> QED
      BY <1>5, <1>6 DEF Callers

\* What the callers do while no other stop is under way.
LEMMA CallerKeeps ==
  ASSUME SessionInv, ~crossed, ready = <<>>, ~crossed',
         Login \/ LoginFails \/ LoginRenews \/ LoginStartsClient \/ Evidence \/ CheckSilence \/ Shutdown \/ Unloaded
  PROVE  AloneInv'
  <1>1. Quiet \/ \E p \in Callers : Awaits(p)
      BY Phases
  <1>2. Quiet /\ shut \in {"no", "stopping"} => shut = "no"
      BY DEF Quiet, Stops
  <1>3. ASSUME NEW p \in Callers, StopBegins(p), Stops(p)', ~Gone', UNCHANGED <<creds, ssl>>
        PROVE  AloneInv'
    <2>1. task' = task /\ (Awaits(p)' \/ GoesOn(p)') /\ (\A l \in Loops : Live(l)' => l = task') /\ FieldsFit' /\ ConnectsWithCurrent'
        BY <1>3, StopAlone
    <2> QED
        BY <2>1, <1>3 DEF AloneInv, SessionInv, Phase
  <1>4. ASSUME UNCHANGED <<fields, loops, stopping, creds, ssl, wasRunning, silence>>,
               relogin = "stopping" <=> relogin' = "stopping", shut = "stopping" <=> shut' = "stopping",
               Gone' <=> Gone
        PROVE  AloneInv'
    <2>1. \A p : Stops(p) <=> Stops(p)'
        BY <1>4 DEF Stops
    <2>2. Phase'
        BY <1>1, <1>4, <2>1 DEF Phase, Quiet, Awaits, Still, Live, fields, loops, stopping
    <2> QED
        BY <1>4, <2>2
          DEF AloneInv, SessionInv, FieldsFit, ConnectsWithCurrent, Under, Live, fields, loops,
              stopping
  <1>5. CASE Login
      BY <1>4, <1>5 DEF Login, SessionInv, AloneInv, Gone
  <1>6. CASE LoginFails
      BY <1>4, <1>6 DEF LoginFails, SessionInv, AloneInv, Gone
  <1>7. CASE LoginRenews
    <2>1. StopBegins("relogin") /\ waiters = <<>>
        BY <1>7 DEF LoginRenews, StopBegins
    <2>2. Quiet /\ shut = "no"
      <3>1. \A p : <<p>> # <<>>
          OBVIOUS
      <3> QED
          BY <1>1, <1>2, <1>7, <2>1, <3>1 DEF Awaits, LoginRenews
    <2>3. Stops("relogin")'
        BY <1>7, <2>2 DEF Quiet, Stops, LoginRenews, Gone
    <2> QED
        BY <1>3, <1>7, <2>1, <2>2, <2>3 DEF LoginRenews, Gone, Callers
  <1>8. CASE LoginStartsClient
      BY <1>4, <1>8 DEF LoginStartsClient, Gone
  <1>9. CASE Evidence
      BY <1>4, <1>9 DEF Evidence, SessionInv, AloneInv, Gone, callers
  <1>10. CASE CheckSilence
    <2>1. CASE connected /\ ~heard /\ silence = "idle" /\ evidence # "none" /\ (timer \/ evidence = "pushes") /\ ~silentReconnected
      <3>1. StopBegins("silence") /\ waiters = <<>> /\ silence' = "stopping" /\ UNCHANGED <<relogin, shut, wasRunning>>
             /\ shut \in {"no", "stopping"}
          BY <1>10, <2>1 DEF CheckSilence, SilentSession, StopBegins
      <3>2. Quiet
        <4>1. \A p : <<p>> # <<>>
            OBVIOUS
        <4> QED
            BY <1>1, <3>1, <4>1 DEF Awaits
      <3>3. Stops("silence")'
          BY <3>1, <3>2 DEF Quiet, Stops
      <3> QED
          BY <1>2, <1>3, <1>10, <3>1, <3>2, <3>3 DEF CheckSilence, Gone, Callers
    <2>2. CASE ~(connected /\ ~heard /\ silence = "idle" /\ evidence # "none" /\ (timer \/ evidence = "pushes") /\ ~silentReconnected)
      <3>1. UNCHANGED <<fields, loops, stopping, creds, ssl, wasRunning, silence, relogin, shut>>
          BY <1>10, <2>2 DEF CheckSilence, SilentSession
      <3> QED
          BY <1>4, <3>1 DEF SessionInv, AloneInv, Gone
    <2> QED
        BY <2>1, <2>2
  <1>11. CASE Shutdown
    <2>1. StopBegins("shut") /\ waiters = <<>> /\ relogin = "idle" /\ shut = "no" /\ shut' = "stopping" /\ UNCHANGED <<relogin, silence, wasRunning>>
        BY <1>11 DEF Shutdown, StopBegins
    <2>2. Quiet
      <3>1. \A p : <<p>> # <<>>
          OBVIOUS
      <3> QED
          BY <1>1, <2>1, <3>1 DEF Awaits
    <2>3. Stops("shut")'
        BY <2>1, <2>2 DEF Quiet, Stops
    <2> QED
        BY <1>3, <1>11, <2>1, <2>3 DEF Shutdown, Gone, Callers
  <1>12. CASE Unloaded
      BY <1>4, <1>12 DEF Unloaded, SessionInv, AloneInv, Gone
  <1> QED
      BY <1>5, <1>6, <1>7, <1>8, <1>9, <1>10, <1>11, <1>12

LEMMA SessionStep == SessionInv /\ [SessionNext]_sessionVars => SessionInv'
  <1> SUFFICES ASSUME SessionInv, [SessionNext]_sessionVars, ~crossed' PROVE AloneInv'
      BY LoopTypeStep DEF SessionInv
  <1>1. ~crossed
      BY CrossedStays
  <1>2. CASE \E l \in Loops : LoopStep(l)
      BY <1>1, <1>2, LoopKeeps, CancelledEnds
  <1>3. CASE Resume
      BY <1>1, <1>3, ResumeQuiet
  <1>4. CASE Login \/ LoginFails \/ LoginRenews \/ LoginStartsClient \/ Evidence \/ CheckSilence \/ Shutdown \/ Unloaded
    <2>1. ready = <<>>
        BY <1>4
          DEF Login, LoginFails, LoginRenews, LoginStartsClient, Evidence, CheckSilence, Shutdown,
              Unloaded
    <2> QED
        BY <1>1, <1>4, <2>1, CallerKeeps
  <1>5. CASE UNCHANGED sessionVars
      BY <1>1, <1>5
        DEF SessionInv, AloneInv, Phase, Quiet, Awaits, GoesOn, Stops, Gone, Still, Live, FieldsFit,
         ConnectsWithCurrent, Under, sessionVars, fields, loops, stopping, callers
  <1> QED
      BY <1>2, <1>3, <1>4, <1>5 DEF SessionNext

LEMMA SessionSound == SessionInv => SessionIsSound
  <1> SUFFICES ASSUME SessionInv PROVE SessionIsSound
      OBVIOUS
  <1>1. OneLoop /\ ConnectsWithCurrent
      BY DEF SessionInv, AloneInv, OneLoop, ConnectsWithCurrent
  <1>2. PublishableIsLive
    <2> SUFFICES ASSUME ~crossed, ready = <<>>, Publishable, client \notin cancelled
                 PROVE  at[client] = "up" /\ running
        BY DEF PublishableIsLive
    <2>1. client = task /\ client \in Loops /\ at[client] = "up"
        BY DEF SessionInv, AloneInv, FieldsFit, Publishable
    <2>2. Steps(client) /\ Live(client)
        BY <2>1 DEF Steps, Live
    <2> QED
        BY <2>1, <2>2, LoopRuns
  <1>3. UnloadedIsSilent
    <2> SUFFICES ASSUME ~crossed, Gone PROVE ~running /\ Still
        BY DEF UnloadedIsSilent, Gone, Still
    <2>1. Quiet
        BY DEF SessionInv, AloneInv, Phase, Awaits, GoesOn
    <2> QED
        BY <2>1 DEF SessionInv, AloneInv, Quiet
  <1> QED
      BY <1>1, <1>2, <1>3 DEF SessionIsSound

\* For any number of loops, connectFailures and logins: as long as no stop of the
\* client began within another (api/mqtt.py 404-440, 513-528; coordinator.py
\* 2230-2290), one connection loop is alive at most, only a live session takes
\* a publish, every connection is made with the credentials in force, and an
\* unloaded entry leaves none behind.
THEOREM SoundSession == SessionSpec => []SessionIsSound
  <1>1. SessionInit => SessionInv
      BY SessionStarts
  <1>2. SessionInv /\ [SessionNext]_sessionVars => SessionInv'
      BY SessionStep
  <1>3. SessionInv => SessionIsSound
      BY SessionSound
  <1> QED
      BY <1>1, <1>2, <1>3, PTL DEF SessionSpec

\* A step of the loops that takes the repair of an outage back is a SUBACK.
LEMMA OnlySubackWithdraws ==
  ASSUME LoopType, [SessionNext]_sessionVars, issue, ~issue'
  PROVE  \E l \in Loops : at[l] = "subscribe" /\ at'[l] = "up"
  <1>1. PICK l \in Loops : Suback(l)
      BY DEF SessionNext, LoopStep, UseContext, ContextBuilt, Connack, Settles, Fails, CountsFailure, Wakes, Message, Leaves,
         CancelDone, Resume, Login, LoginFails, LoginRenews, LoginStartsClient, Evidence, CheckSilence, Shutdown,
         Unloaded, streak, sessionVars
  <1> QED
      BY <1>1 DEF Suback, LoopType

\* The repair raised after MAX_RECONNECT_ATTEMPTS is only ever withdrawn by a
\* session that came up (api/mqtt.py 480-505, 629-650).
THEOREM RepairWithdrawn == SessionSpec => RepairWithdrawnBySession
  <1>1. SessionInit => LoopType
      BY DEF SessionInit, LoopType, LoopStates, NoContext
  <1>2. LoopType /\ [SessionNext]_sessionVars => LoopType'
      BY LoopTypeStep
  <1>3. LoopType /\ [SessionNext]_sessionVars => [issue /\ ~issue' => \E l \in Loops : at[l] = "subscribe" /\ at'[l] = "up"]_sessionVars
      BY OnlySubackWithdraws
  <1> QED
      BY <1>1, <1>2, <1>3, PTL DEF SessionSpec, RepairWithdrawnBySession

-----------------------------------------------------------------------------
(* The entry: the account's devices, the registry and the reloads.          *)

\* What was found and registered was in the account, and what left it stays away.
AccountOnce ==
    /\ accountHolds \cap accountGone = {} /\ entryFound \subseteq accountHolds \cup accountGone
    /\ \A e \in registry : e.owner \in accountHolds \cup accountGone

\* The account's devices are only found signed in, and a sign-in that was
\* accepted stays so.
SignedInFirst ==
    /\ signIn # "cached" \/ entryStage = "sign-in" =>
         entryFound \subseteq EntryDevices /\ \A e \in registry : e.owner \in EntryDevices
    /\ entryStage \in Entry!Steps => signIn = "cached"

\* A list that was heard is the account's: an entity's device is on it, or the
\* entry does without groups.  After an empty one, what is found is the account's.
DevicesKnown ==
    /\ entryStage \in {"sign-in", "devices"} => unheard = {}
    /\ entryStage \in Entry!Steps \cup {"refresh"} =>
         /\ "devices" \notin unheard =>
              \A e \in registry : e.owner \in accountHolds \cap EntryDevices =>
                e.owner \in entryFound \/ (e.owner \in EntryGroups /\ ~snapshot.groups)
         /\ "devices" \in unheard => entryFound \subseteq EntrySensors \cup EntryHygrometers

\* After the account's steps its sensors and thermometers are known, or the step
\* did not get through.
SensorsKnown ==
    /\ entryStage \in {"thermometers", "water", "refresh"} =>
         \A e \in registry : e.owner \in accountHolds \cap EntrySensors => e.owner \in entryFound \/ "leaks" \in unheard
    /\ entryStage \in {"water", "refresh"} =>
         \A e \in registry : e.owner \in (accountHolds \cap EntryHygrometers) \ EntryDevices =>
           e.owner \in entryFound \/ "thermometers" \in unheard

Rationed == entryRefusals <= 1 /\ (signIn = "untried" \/ entryStage = "sign-in" => entryRefusals = 0)

EntryInv == Entry!TypeOK /\ AccountOnce /\ SignedInFirst /\ DevicesKnown /\ SensorsKnown /\ Rationed

EntryStep == Entry!OnlyUnwantedRemoved /\ Entry!ReloadsBringSomething /\ Entry!SignInsAreRationed

LEMMA EntryStarts == Entry!Init => EntryInv
<1> SUFFICES ASSUME Entry!Init PROVE EntryInv
  OBVIOUS
<1>1. {bffPoll, entryListening, entryReload} \subseteq BOOLEAN
  BY Zenon DEF Entry!Init
<1>2. entryOptions \in Entry!Options
  <2>1. PICK g \in BOOLEAN : entryOptions = [groups |-> g, scenes |-> TRUE]
    BY DEF Entry!Init
  <2>2. TRUE \in BOOLEAN
    BY Zenon
  <2> QED BY <2>1, <2>2 DEF Entry!Options
<1>3. Entry!TypeOK
  BY <1>1, <1>2, EntryAssumption DEF Entry!Init, Entry!TypeOK, Entry!Stages
<1> QED
  BY <1>3 DEF Entry!Init, Entry!Steps, EntryInv, AccountOnce, SignedInFirst, DevicesKnown, SensorsKnown, Rationed

\* A step that removes no entity, and reloads nothing that is up.
LEMMA QuietStep ==
    ASSUME registry \subseteq registry', EntryInv',
           entryStage # "up" \/ ~entryReload' \/ entryReload' = entryReload \/ entryEdits' # entryEdits
    PROVE  EntryStep
  BY DEF EntryStep, Entry!OnlyUnwantedRemoved, Entry!ReloadsBringSomething, Entry!SignInsAreRationed, EntryInv, Rationed

LEMMA AccountChangesKeep ==
    ASSUME EntryInv, NEW o \in Entry!Owners, Entry!AccountChanges(o)
    PROVE  EntryInv' /\ EntryStep
<1> USE EntryAssumption DEF Entry!entry, Entry!session
<1>1. /\ o \notin accountGone /\ entryChanges' = entryChanges + 1 /\ entryChanges < MaxEntryChanges
      /\ \/ o \in accountHolds /\ accountHolds' = accountHolds \ {o} /\ accountGone' = accountGone \cup {o}
         \/ o \notin accountHolds /\ accountHolds' = accountHolds \cup {o} /\ accountGone' = accountGone
      /\ UNCHANGED <<entryOptions, signIn, entryRefusals, entryEdits, registry, entryShown, snapshot, entryFound,
                     batteries, failedSteps, bffPoll, entryListening, entryTold, unheard, entryStage, entryReload,
                     entryFaults, entryBoots>>
  BY DEF Entry!AccountChanges
<1>2. Entry!TypeOK'
  BY <1>1 DEF EntryInv, Entry!TypeOK, Entry!Owners
<1>3. AccountOnce' /\ SignedInFirst' /\ Rationed'
  BY <1>1 DEF EntryInv, AccountOnce, SignedInFirst, Rationed, Entry!Steps
<1>4. DevicesKnown' /\ SensorsKnown'
  BY <1>1 DEF EntryInv, AccountOnce, DevicesKnown, SensorsKnown, Entry!Steps
<1> QED BY <1>1, <1>2, <1>3, <1>4, QuietStep DEF EntryInv

\* The user: the options, the credentials and the repair.
LEMMA UserKeeps ==
    ASSUME EntryInv, (\E o \in Entry!Options : Entry!UserEdits(o)) \/ Entry!Reconfigured \/ Entry!Repaired
    PROVE  EntryInv' /\ EntryStep
<1> USE EntryAssumption DEF Entry!world, Entry!session
<1>1. /\ UNCHANGED <<accountHolds, accountGone, entryChanges, registry, entryShown, snapshot, entryFound, batteries,
                     failedSteps, bffPoll, entryListening, entryTold, unheard, entryStage, entryFaults, entryBoots>>
      /\ entryEdits' = entryEdits + 1 /\ entryEdits < MaxEntryEdits /\ entryOptions' \in Entry!Options
  BY DEF Entry!UserEdits, Entry!Reconfigured, Entry!Repaired, EntryInv, Entry!TypeOK
<1>2. entryReload' \in BOOLEAN
  <2>1. entryReload \in BOOLEAN
    BY DEF EntryInv, Entry!TypeOK
  <2> QED BY ONLY <2>1, (\E o \in Entry!Options : Entry!UserEdits(o)) \/ Entry!Reconfigured \/ Entry!Repaired, Zenon
          DEF Entry!UserEdits, Entry!Reconfigured, Entry!Repaired, Entry!Notified
<1>3. \/ UNCHANGED <<signIn, entryRefusals>>
      \/ signIn' = "cached" /\ entryRefusals' = 0
      \/ signIn = "failed" /\ entryStage \in {"up", "down"} /\ signIn' = "untried" /\ entryRefusals' = 0
  BY DEF Entry!UserEdits, Entry!Reconfigured, Entry!Repaired
<1>4. Entry!TypeOK'
  BY <1>1, <1>2, <1>3 DEF EntryInv, Entry!TypeOK
<1>5. AccountOnce' /\ SignedInFirst' /\ Rationed' /\ DevicesKnown' /\ SensorsKnown'
  BY <1>1, <1>3 DEF EntryInv, AccountOnce, SignedInFirst, DevicesKnown, SensorsKnown, Rationed, Entry!Steps
<1>6. entryEdits' # entryEdits
  BY <1>1 DEF EntryInv, Entry!TypeOK
<1> QED BY <1>1, <1>4, <1>5, <1>6, QuietStep DEF EntryInv

LEMMA RestartsKeep ==
    ASSUME EntryInv, Entry!Reload \/ Entry!Boot
    PROVE  EntryInv' /\ EntryStep
<1> USE EntryAssumption DEF Entry!world, Entry!entry
<1>1. /\ UNCHANGED <<accountHolds, accountGone, entryChanges, entryOptions, signIn, entryRefusals, entryEdits, registry,
                     entryFaults>>
      /\ entryShown' = {} /\ entryFound' = {} /\ batteries' = {} /\ failedSteps' = {} /\ entryTold' = {}
      /\ unheard' = {} /\ bffPoll' = FALSE /\ entryListening' = FALSE /\ entryReload' = FALSE
      /\ IF signIn = "untried" THEN entryStage' = "sign-in" /\ snapshot' = snapshot
         ELSE snapshot' = entryOptions /\ entryStage' = "devices"
      /\ entryBoots' \in 0..MaxEntryBoots
  BY DEF Entry!Reload, Entry!Boot, Entry!Restart, Entry!Cleared, Entry!Build, EntryInv, Entry!TypeOK
<1>2. {bffPoll', entryListening', entryReload'} \subseteq BOOLEAN
  BY ONLY <1>1, Zenon
<1>3. Entry!TypeOK'
  BY <1>1, <1>2 DEF EntryInv, Entry!TypeOK, Entry!Stages, Entry!Steps
<1>4. AccountOnce' /\ SignedInFirst' /\ Rationed' /\ DevicesKnown' /\ SensorsKnown'
  BY <1>1 DEF EntryInv, AccountOnce, SignedInFirst, DevicesKnown, SensorsKnown, Rationed, Entry!Steps
<1> QED BY <1>1, <1>3, <1>4, QuietStep DEF EntryInv

LEMMA SignInKeeps ==
    ASSUME EntryInv, Entry!SignsIn \/ Entry!SignInFails
    PROVE  EntryInv' /\ EntryStep
<1> USE EntryAssumption DEF Entry!world
<1>1. /\ UNCHANGED <<accountHolds, accountGone, entryChanges, entryOptions, entryEdits, registry, entryShown, entryFound,
                     batteries, failedSteps, bffPoll, entryListening, entryTold, unheard, entryReload, entryBoots>>
      /\ entryStage = "sign-in" /\ entryStage' = "devices" /\ snapshot' = entryOptions
      /\ entryFaults' \in 0..MaxEntryFaults
      /\ \/ signIn' = "cached" /\ entryRefusals' = entryRefusals
         \/ signIn' = "failed" /\ entryRefusals' = entryRefusals + 1
  BY DEF Entry!SignsIn, Entry!SignInFails, Entry!Fault, Entry!Build, EntryInv, Entry!TypeOK
<1>2. Entry!TypeOK'
  BY <1>1 DEF EntryInv, Entry!TypeOK, Entry!Stages, Entry!Steps
<1>3. AccountOnce' /\ SignedInFirst' /\ Rationed' /\ DevicesKnown' /\ SensorsKnown'
  BY <1>1 DEF EntryInv, Entry!TypeOK, AccountOnce, SignedInFirst, DevicesKnown, SensorsKnown, Rationed, Entry!Steps
<1> QED BY <1>1, <1>2, <1>3, QuietStep DEF EntryInv

LEMMA ListsKeep ==
    ASSUME EntryInv, Entry!DevicesListed \/ Entry!NothingListed
    PROVE  EntryInv' /\ EntryStep
<1> USE EntryAssumption DEF Entry!world, Entry!entry
<1>1. /\ UNCHANGED <<accountHolds, accountGone, entryChanges, entryOptions, signIn, entryRefusals, entryEdits, registry,
                     entryShown, snapshot, batteries, failedSteps, bffPoll, entryListening, entryTold, entryReload,
                     entryBoots>>
      /\ entryStage = "devices" /\ entryStage' = Entry!AfterDevices
      /\ \/ entryFound' = Entry!Listed(accountHolds) /\ unheard' = unheard
         \/ entryFound' = {} /\ unheard' = unheard \cup {"devices"}
      /\ entryFaults' \in 0..MaxEntryFaults
  BY DEF Entry!DevicesListed, Entry!NothingListed, Entry!Fault, EntryInv, Entry!TypeOK
<1>2. Entry!Listed(accountHolds) \subseteq accountHolds \cap EntryDevices
  BY DEF Entry!Listed
<1>3. Entry!TypeOK'
  BY <1>1, <1>2 DEF EntryInv, Entry!TypeOK, Entry!Stages, Entry!Steps, Entry!AfterDevices
<1>4. AccountOnce' /\ SignedInFirst' /\ Rationed'
  BY <1>1, <1>2 DEF EntryInv, AccountOnce, SignedInFirst, Rationed, Entry!AfterDevices, Entry!Steps
<1>5. DevicesKnown'
  <2>1. unheard = {} /\ entryStage' \notin {"sign-in", "devices"}
    BY <1>1 DEF EntryInv, DevicesKnown, Entry!AfterDevices
  <2> QED BY <1>1, <2>1 DEF DevicesKnown, Entry!Listed
<1>6. SensorsKnown'
  BY <1>1 DEF EntryInv, SensorsKnown, SignedInFirst, Entry!AfterDevices, Entry!Steps
<1> QED BY <1>1, <1>3, <1>4, <1>5, <1>6, QuietStep DEF EntryInv

LEMMA StepsKeep ==
    ASSUME EntryInv,
           Entry!SetupFails \/ Entry!StepEnds \/ Entry!StepTimesOut \/ Entry!StepFails
    PROVE  EntryInv' /\ EntryStep
<1> USE EntryAssumption DEF Entry!world, Entry!entry, Entry!session
<1>1. /\ UNCHANGED <<accountHolds, accountGone, entryChanges, entryOptions, signIn, entryRefusals, entryEdits, registry,
                     entryShown, snapshot, entryFound, batteries, bffPoll, entryListening, entryTold, entryBoots>>
      /\ entryStage # "up" /\ entryFaults' \in 0..MaxEntryFaults /\ entryReload' \in {entryReload, TRUE}
      /\ \/ entryStage' = "down" /\ UNCHANGED <<failedSteps, unheard>>
         \/ /\ \/ entryStage = "topics" /\ entryStage' = "leaks"
               \/ entryStage = "leaks" /\ entryStage' = "thermometers"
               \/ entryStage = "thermometers" /\ entryStage' \in {"water", "refresh"}
               \/ entryStage = "water" /\ entryStage' = "refresh"
            /\ failedSteps' \in {failedSteps, failedSteps \cup {entryStage}}
            /\ unheard' \in {unheard, unheard \cup {entryStage}}
            /\ entryStage \in {"leaks", "thermometers"} => unheard' = unheard \cup {entryStage}
  <2>1. entryFaults \in 0..MaxEntryFaults
    BY DEF EntryInv, Entry!TypeOK
  <2>2. CASE Entry!SetupFails
    <3>1. entryReload' = TRUE
      BY <2>2 DEF Entry!SetupFails
    <3> QED BY <2>1, <2>2, <3>1 DEF Entry!SetupFails, Entry!Fault
  <2>3. CASE Entry!StepEnds
    BY <2>1, <2>3 DEF Entry!StepEnds, Entry!NextStep
  <2>4. CASE Entry!StepTimesOut
    BY <2>1, <2>4 DEF Entry!StepTimesOut, Entry!NextStep, Entry!Fault
  <2>5. CASE Entry!StepFails
    BY <2>1, <2>5 DEF Entry!StepFails, Entry!NextStep, Entry!Fault
  <2> QED BY <2>2, <2>3, <2>4, <2>5
<1>2. entryReload' \in BOOLEAN
  <2>1. entryReload \in BOOLEAN
    BY DEF EntryInv, Entry!TypeOK
  <2> QED BY ONLY <1>1, <2>1, Zenon
<1>3. Entry!TypeOK'
  BY <1>1, <1>2 DEF EntryInv, Entry!TypeOK, Entry!Stages, Entry!Steps
<1>4. AccountOnce' /\ SignedInFirst' /\ Rationed' /\ DevicesKnown' /\ SensorsKnown'
  BY <1>1 DEF EntryInv, AccountOnce, SignedInFirst, DevicesKnown, SensorsKnown, Rationed, Entry!Steps
<1> QED BY <1>1, <1>3, <1>4, QuietStep DEF EntryInv

LEMMA LeaksListedKeeps ==
    ASSUME EntryInv, NEW whole \in BOOLEAN, Entry!LeaksListed(whole)
    PROVE  EntryInv' /\ EntryStep
<1> USE EntryAssumption DEF Entry!world, Entry!entry
<1>1. /\ UNCHANGED <<accountHolds, accountGone, entryChanges, entryOptions, signIn, entryRefusals, entryEdits, registry,
                     entryShown, snapshot, failedSteps, entryListening, entryTold, entryReload, entryBoots>>
      /\ entryStage = "leaks" /\ entryStage' = "thermometers"
      /\ entryFound' = entryFound \cup (accountHolds \cap EntrySensors)
      /\ batteries' = Entry!Reported(accountHolds \cap entryFound, whole)
      /\ unheard' \in {unheard, unheard \cup {"battery"}} /\ entryFaults' \in 0..MaxEntryFaults
  BY DEF Entry!LeaksListed, Entry!NextStep, Entry!Fault, EntryInv, Entry!TypeOK
<1>2. bffPoll' \in BOOLEAN
  BY ONLY Entry!LeaksListed(whole), Zenon DEF Entry!LeaksListed
<1>3. batteries' \subseteq EntryMeters
  BY <1>1 DEF Entry!Reported
<1>4. Entry!TypeOK'
  BY <1>1, <1>2, <1>3 DEF EntryInv, Entry!TypeOK, Entry!Stages, Entry!Steps, Entry!Owners
<1>5. AccountOnce' /\ SignedInFirst' /\ Rationed' /\ SensorsKnown'
  BY <1>1 DEF EntryInv, AccountOnce, SignedInFirst, SensorsKnown, Rationed, Entry!Steps
<1>6. DevicesKnown'
  <2>1. entryFound' \subseteq entryFound \cup EntrySensors /\ entryFound \subseteq entryFound'
    BY <1>1
  <2> QED BY <1>1, <2>1 DEF EntryInv, DevicesKnown, Entry!Steps
<1> QED BY <1>1, <1>4, <1>5, <1>6, QuietStep DEF EntryInv

LEMMA ThermometersListedKeeps ==
    ASSUME EntryInv, Entry!ThermometersListed
    PROVE  EntryInv' /\ EntryStep
<1> USE EntryAssumption DEF Entry!world, Entry!entry
<1>1. /\ UNCHANGED <<accountHolds, accountGone, entryChanges, entryOptions, signIn, entryRefusals, entryEdits, registry,
                     entryShown, snapshot, batteries, failedSteps, entryListening, entryTold, unheard, entryReload,
                     entryFaults, entryBoots>>
      /\ entryStage = "thermometers" /\ entryStage' \in {"water", "refresh"}
      /\ entryFound' = entryFound \cup (accountHolds \cap EntryHygrometers)
  BY DEF Entry!ThermometersListed, Entry!NextStep
<1>2. bffPoll' \in BOOLEAN
  <2>1. bffPoll \in BOOLEAN
    BY DEF EntryInv, Entry!TypeOK
  <2> QED BY ONLY <2>1, Entry!ThermometersListed, Zenon DEF Entry!ThermometersListed
<1>3. Entry!TypeOK'
  BY <1>1, <1>2 DEF EntryInv, Entry!TypeOK, Entry!Stages, Entry!Steps, Entry!Owners
<1>4. AccountOnce' /\ SignedInFirst' /\ SensorsKnown' /\ Rationed'
  BY <1>1 DEF EntryInv, AccountOnce, SignedInFirst, SensorsKnown, Rationed, Entry!Steps
<1>5. DevicesKnown'
  <2>1. entryFound' \subseteq entryFound \cup EntryHygrometers /\ entryFound \subseteq entryFound'
    BY <1>1
  <2> QED BY <1>1, <2>1 DEF EntryInv, DevicesKnown, Entry!Steps
<1> QED BY <1>1, <1>3, <1>4, <1>5, QuietStep DEF EntryInv

\* The orphan cleanup: what it removes is not in the account, or not wanted.
LEMMA RefreshedKeeps ==
    ASSUME EntryInv, Entry!Refreshed
    PROVE  EntryInv' /\ EntryStep
<1> USE EntryAssumption DEF Entry!world, Entry!entry, Entry!session
<1>1. /\ UNCHANGED <<accountHolds, accountGone, entryChanges, entryOptions, signIn, entryRefusals, entryEdits,
                     entryShown, snapshot, entryFound, batteries, failedSteps, bffPoll, entryListening, entryTold,
                     unheard, entryReload, entryFaults, entryBoots>>
      /\ entryStage = "refresh" /\ entryStage' = "platforms"
      /\ registry' = IF entryFound \ EntrySensors = {} THEN registry ELSE registry \ Entry!Orphans
  BY DEF Entry!Refreshed
<1>2. registry' \subseteq registry
  BY <1>1
<1>3. Entry!TypeOK'
  BY <1>1, <1>2 DEF EntryInv, Entry!TypeOK, Entry!Stages, Entry!Steps
<1>4. AccountOnce' /\ SignedInFirst' /\ Rationed' /\ DevicesKnown' /\ SensorsKnown'
  BY <1>1, <1>2 DEF EntryInv, AccountOnce, SignedInFirst, DevicesKnown, SensorsKnown, Rationed, Entry!Steps
<1>5. ASSUME NEW e \in registry \ registry'
      PROVE  \/ e.owner \notin accountHolds
             \/ e.owner \in EntryGroups /\ ~snapshot.groups
             \/ e.part = "scene" /\ ~entryOptions.scenes
             \/ e.owner \in EntrySensors \ entryFound /\ "leaks" \in unheard \ failedSteps
             \/ e.owner \in EntryHygrometers \ entryFound /\ "thermometers" \in unheard \ failedSteps
             \/ /\ e.owner \in EntryDevices \ entryFound /\ failedSteps = {}
                /\ "devices" \in unheard /\ entryFound \cap EntryHygrometers # {}
  <2>1. e \in Entry!Orphans /\ entryFound \ EntrySensors # {} /\ e \in registry
    BY <1>1, <1>5
  <2>2. CASE e.part = "scene" /\ ~entryOptions.scenes
    BY <2>2
  <2>3. CASE e.owner \notin entryFound /\ failedSteps = {}
    <3>1. e.owner \in EntryDevices \cup EntrySensors \cup EntryHygrometers \/ e.owner \notin accountHolds
      BY DEF EntryInv, Entry!TypeOK, Entry!Owners
    <3>2. e.owner \in accountHolds \cap EntryDevices /\ "devices" \notin unheard
            => e.owner \in EntryGroups /\ ~snapshot.groups
      BY <1>1, <2>1, <2>3 DEF EntryInv, DevicesKnown, Entry!Steps
    <3>3. "devices" \in unheard => entryFound \cap EntryHygrometers # {}
      BY <1>1, <2>1 DEF EntryInv, DevicesKnown, Entry!Steps
    <3>4. e.owner \in accountHolds \cap EntrySensors => "leaks" \in unheard
      BY <1>1, <2>1, <2>3 DEF EntryInv, SensorsKnown, Entry!Steps
    <3>5. e.owner \in (accountHolds \cap EntryHygrometers) \ EntryDevices => "thermometers" \in unheard
      BY <1>1, <2>1, <2>3 DEF EntryInv, SensorsKnown, Entry!Steps
    <3> QED BY <2>3, <3>1, <3>2, <3>3, <3>4, <3>5
  <2> QED BY <2>1, <2>2, <2>3 DEF Entry!Orphans
<1>6. EntryStep
  BY <1>1, <1>4, <1>5 DEF EntryStep, Entry!OnlyUnwantedRemoved, Entry!ReloadsBringSomething, Entry!SignInsAreRationed,
     Rationed
<1> QED BY <1>3, <1>4, <1>6 DEF EntryInv

LEMMA PlatformsKeep ==
    ASSUME EntryInv, Entry!PlatformsUp
    PROVE  EntryInv' /\ EntryStep
<1> USE EntryAssumption DEF Entry!world, Entry!entry
<1>1. /\ UNCHANGED <<accountHolds, accountGone, entryChanges, entryOptions, signIn, entryRefusals, entryEdits,
                     snapshot, entryFound, batteries, failedSteps, bffPoll, entryTold, unheard, entryReload,
                     entryFaults, entryBoots>>
      /\ entryStage = "platforms" /\ entryStage' = "up" /\ entryListening' = TRUE
      /\ entryShown' = Entry!Wanted /\ registry' = registry \cup Entry!Wanted
  BY DEF Entry!PlatformsUp
<1>2. Entry!Wanted \subseteq Entry!Entities /\ \A e \in Entry!Wanted : e.owner \in entryFound
  BY DEF Entry!Wanted
<1>3. entryListening' \in BOOLEAN
  BY ONLY <1>1, Zenon
<1>4. Entry!TypeOK'
  BY <1>1, <1>2, <1>3 DEF EntryInv, Entry!TypeOK, Entry!Stages, Entry!Steps
<1>5. AccountOnce' /\ SignedInFirst' /\ Rationed' /\ DevicesKnown' /\ SensorsKnown'
  BY <1>1, <1>2 DEF EntryInv, AccountOnce, SignedInFirst, DevicesKnown, SensorsKnown, Rationed, Entry!Steps
<1> QED BY <1>1, <1>4, <1>5, QuietStep DEF EntryInv

\* What the loaded entry does: it reloads only for something to show.
LEMMA LoadedKeeps ==
    ASSUME EntryInv, Entry!Rediscover \/ Entry!BffAnswers \/ Entry!TokenRenewed
    PROVE  EntryInv' /\ EntryStep
<1> USE EntryAssumption DEF Entry!world, Entry!entry, Entry!session
<1>1. /\ UNCHANGED <<accountHolds, accountGone, entryChanges, entryOptions, signIn, entryRefusals, entryEdits, registry,
                     entryShown, snapshot, entryFound, failedSteps, bffPoll, entryListening, unheard, entryStage,
                     entryFaults, entryBoots>>
      /\ entryStage = "up"
  BY DEF Entry!Rediscover, Entry!BffAnswers, Entry!TokenRenewed
<1>2. entryReload' \in BOOLEAN
  <2>1. entryReload \in BOOLEAN
    BY DEF EntryInv, Entry!TypeOK
  <2>2. CASE Entry!Rediscover \/ Entry!TokenRenewed
    BY ONLY <2>1, <2>2, Zenon DEF Entry!Rediscover, Entry!TokenRenewed, Entry!Notified
  <2>3. CASE Entry!BffAnswers
    <3>1. entryReload' = TRUE \/ entryReload' = entryReload
      BY <2>3 DEF Entry!BffAnswers
    <3> QED BY ONLY <2>1, <3>1, Zenon
  <2> QED BY <2>2, <2>3
<1>3. batteries' \subseteq EntryMeters /\ entryTold' \subseteq {"sensor", "battery"}
  BY DEF Entry!Rediscover, Entry!BffAnswers, Entry!TokenRenewed, Entry!Reported, EntryInv, Entry!TypeOK
<1>4. Entry!TypeOK'
  BY <1>1, <1>2, <1>3 DEF EntryInv, Entry!TypeOK
<1>5. AccountOnce' /\ SignedInFirst' /\ Rationed' /\ DevicesKnown' /\ SensorsKnown'
  BY <1>1 DEF EntryInv, AccountOnce, SignedInFirst, DevicesKnown, SensorsKnown, Rationed, Entry!Steps
<1>6. ASSUME entryReload', ~entryReload
      PROVE  \/ snapshot # entryOptions
             \/ \E o \in (accountHolds \cap (EntryDevices \cup EntrySensors)) \ entryFound :
                  o \in EntryGroups => snapshot.groups
             \/ batteries' # batteries
  <2>1. CASE Entry!Rediscover
    BY <2>1 DEF Entry!Rediscover, Entry!NewDevices, Entry!Listed
  <2>2. CASE Entry!TokenRenewed
    BY <1>1, <1>6, <2>2 DEF Entry!TokenRenewed, Entry!Notified
  <2>3. CASE Entry!BffAnswers
    <3> DEFINE first == Entry!Reported(accountHolds \cap entryFound, TRUE) \ batteries
    <3>1. CASE ~(accountHolds \cap EntrySensors \subseteq entryFound)
      <4>1. PICK o \in accountHolds \cap EntrySensors : o \notin entryFound
        BY <3>1
      <4>2. o \notin EntryGroups
        BY <4>1
      <4> QED BY <4>1, <4>2
    <3>2. CASE first # {} /\ batteries' = batteries \cup first
      BY <3>2
    <3> QED BY <1>6, <2>3, <3>1, <3>2 DEF Entry!BffAnswers
  <2> QED BY <2>1, <2>2, <2>3
<1>7. EntryStep
  BY <1>1, <1>5, <1>6 DEF EntryStep, Entry!OnlyUnwantedRemoved, Entry!ReloadsBringSomething, Entry!SignInsAreRationed,
     Rationed
<1> QED BY <1>4, <1>5, <1>7 DEF EntryInv

LEMMA EntryGoesOn == EntryInv /\ [Entry!Next]_(Entry!vars) => EntryInv' /\ [EntryStep]_(Entry!vars)
<1> SUFFICES ASSUME EntryInv, [Entry!Next]_(Entry!vars) PROVE EntryInv' /\ [EntryStep]_(Entry!vars)
  OBVIOUS
<1>1. CASE UNCHANGED Entry!vars
  BY <1>1 DEF Entry!vars, Entry!world, Entry!entry, Entry!session, EntryInv, Entry!TypeOK, AccountOnce, SignedInFirst,
     DevicesKnown, SensorsKnown, Rationed, Entry!Steps
<1>2. TRUE \in BOOLEAN /\ FALSE \in BOOLEAN
  BY Zenon
<1>3. CASE Entry!Next
  BY <1>2, <1>3, AccountChangesKeep, UserKeeps, RestartsKeep, SignInKeeps, ListsKeep, StepsKeep, LeaksListedKeeps,
     ThermometersListedKeeps, RefreshedKeeps,
     PlatformsKeep, LoadedKeeps DEF Entry!Next, Entry!Setup
<1> QED BY <1>1, <1>3

\* For any devices, groups, sensors and thermometers: an entity is removed only
\* when its device has left the account, when the options do without it, for a
\* leak sensor or a thermometer of the account after its step failed without
\* being cut off, and for any device after an empty list, if the account lists a
\* thermometer besides; a loaded entry reloads itself only for options, devices
\* or readings it does not have; a refused sign-in is not tried again
\* (__init__.py 268-296, 535-681; coordinator.py 1467-1473, 1981-2020, 2669-2802).
THEOREM EntryKept == Entry!Spec => Entry!EntryIsKept
<1>1. Entry!Init => EntryInv
  BY EntryStarts
<1>2. EntryInv /\ [Entry!Next]_(Entry!vars) => EntryInv'
  BY EntryGoesOn
<1>3. EntryInv /\ [Entry!Next]_(Entry!vars)
        => [Entry!OnlyUnwantedRemoved /\ Entry!ReloadsBringSomething /\ Entry!SignInsAreRationed]_(Entry!vars)
  BY EntryGoesOn DEF EntryStep
<1> QED BY <1>1, <1>2, <1>3, PTL DEF Entry!Spec, Entry!EntryIsKept

-----------------------------------------------------------------------------
(* The water detector: a tick, and the clears that overtake it.             *)

TickRecord == [at : {"idle", "list", "listed", "warning", "warned"}, report : 0..MaxReports,
               gen : 0..MaxLifts, wet : BOOLEAN, alert : 0..MaxAlerts]
LiftRecord == [at : {"idle", "sent", "accepted"}, alert : 0..MaxAlerts]

\* The clears are counted among the lifts asked for, and a tick is of no later one.
ClearsCounted ==
    /\ gen <= lifts /\ (lift.at # "idle" => gen < lifts)
    /\ tick.gen <= gen /\ tick.report <= report

\* Govee had read the alerts of the lifts it took, and a tick that says wet tells
\* of a later alert, if no clear overtook it.
LiftsWereRead ==
    /\ lifted <= read /\ (lift.at = "accepted" => lift.alert <= read)
    /\ tick.at = "warned" /\ gen = tick.gen /\ tick.wet => tick.alert > lifted

WaterInv == Water!TypeOK /\ ClearsCounted /\ LiftsWereRead

WaterStep == ~water /\ water' => tick.alert > lifted \/ Water!PushTaken

LEMMA WaterTypes ==
    ASSUME WaterInv
    PROVE  /\ alert \in Nat /\ read \in Nat /\ report \in Nat /\ read <= alert /\ gen \in Nat /\ lifts \in Nat
           /\ tick \in TickRecord /\ lift \in LiftRecord /\ lifted \in Nat /\ lastReport \in 0..report
           /\ water \in BOOLEAN /\ report \in 0..MaxReports /\ alert \in 0..MaxAlerts
  BY WaterAssumption DEF WaterInv, Water!TypeOK, TickRecord, LiftRecord

LEMMA WaterBooleans == TRUE \in BOOLEAN /\ FALSE \in BOOLEAN
  BY Zenon

\* A queue of pushes that takes or loses one stays a queue.
LEMMA QueueKeeps ==
    ASSUME NEW S, NEW q \in Seq(S), NEW n \in Nat, Len(q) <= n
    PROVE  /\ \A x \in S : Len(q) < n => Append(q, x) \in Seq(S) /\ Len(Append(q, x)) <= n
           /\ q # <<>> => Head(q) \in S /\ Tail(q) \in Seq(S) /\ Len(Tail(q)) <= n
  OBVIOUS

LEMMA WaterStarts == Water!Init => WaterInv
<1> SUFFICES ASSUME Water!Init PROVE WaterInv
  OBVIOUS
<1> USE WaterAssumption DEF Water!Init, Water!NoPoll, Water!NoLift
<1>1. water \in BOOLEAN /\ FALSE \in BOOLEAN
  BY Zenon
<1>2. tick \in TickRecord /\ lift \in LiftRecord
  BY <1>1 DEF TickRecord, LiftRecord
<1>5. onTheWay \in Seq(BOOLEAN) /\ Len(onTheWay) <= MaxOnTheWay
  BY ONLY Water!Init, WaterAssumption DEF Water!Init
<1>3. Water!TypeOK
  BY <1>1, <1>2, <1>5 DEF Water!TypeOK, TickRecord, LiftRecord
<1>4. ClearsCounted /\ LiftsWereRead
  BY DEF ClearsCounted, LiftsWereRead
<1> QED BY <1>3, <1>4 DEF WaterInv

\* The detector, the app and the lifts.
LEMMA WorldKeeps ==
    ASSUME WaterInv,
           Water!Alarms \/ Water!Reports \/ Water!ReadInApp \/ Water!PushTaken
             \/ Water!LiftAsked \/ Water!LiftFails \/ Water!LiftAccepted \/ Water!Lifted \/ Water!Reload
    PROVE  WaterInv' /\ WaterStep
<1> USE WaterAssumption DEF Water!govee, Water!ours, Water!hist, Water!bounds
<1>1. /\ alert \in Nat /\ read \in Nat /\ report \in Nat /\ read <= alert /\ gen \in Nat /\ lifts \in Nat
      /\ tick \in TickRecord /\ lift \in LiftRecord /\ lifted \in Nat /\ lastReport \in 0..report
      /\ water \in BOOLEAN /\ report \in 0..MaxReports /\ alert \in 0..MaxAlerts
  BY WaterTypes
<1>2. CASE Water!Alarms \/ Water!Reports \/ Water!ReadInApp
  <2>1. /\ alert' \in 0..MaxAlerts /\ report' \in 0..MaxReports /\ alert' >= alert /\ report' >= report
        /\ read' >= read /\ read' \in 0..alert'
        /\ UNCHANGED <<water, lastReport, gen, tick, lift, lifted, missed, dried, listFailures, lifts, reloads>>
    <3>1. CASE Water!Alarms
      BY <1>1, <3>1 DEF Water!Alarms
    <3>2. CASE Water!Reports
      BY <1>1, <3>2 DEF Water!Reports
    <3>3. CASE Water!ReadInApp
      BY <1>1, <3>3 DEF Water!ReadInApp, Water!Unread
    <3> QED BY <1>2, <3>1, <3>2, <3>3
  <2>4. onTheWay' \in Seq(BOOLEAN) /\ Len(onTheWay') <= MaxOnTheWay
    <3>1. onTheWay \in Seq(BOOLEAN) /\ Len(onTheWay) <= MaxOnTheWay /\ TRUE \in BOOLEAN /\ FALSE \in BOOLEAN
      BY WaterBooleans DEF WaterInv, Water!TypeOK
    <3>2. \/ onTheWay' = onTheWay
          \/ Len(onTheWay) < MaxOnTheWay /\ \E wet \in BOOLEAN : onTheWay' = Append(onTheWay, wet)
      BY <1>2, <3>1 DEF Water!Alarms, Water!Reports, Water!ReadInApp, Water!Pushes
    <3> QED BY ONLY <3>1, <3>2, QueueKeeps, WaterAssumption, Zenon
  <2>2. Water!TypeOK'
    BY <1>1, <2>1, <2>4 DEF WaterInv, Water!TypeOK
  <2>3. ClearsCounted' /\ LiftsWereRead'
    BY <1>1, <2>1 DEF WaterInv, ClearsCounted, LiftsWereRead, TickRecord, LiftRecord
  <2> QED BY <2>1, <2>2, <2>3 DEF WaterInv, WaterStep
<1>3. CASE Water!LiftAsked
  <2>1. /\ lift.at = "idle" /\ lifts < MaxLifts /\ lifts' = lifts + 1 /\ lift' = [at |-> "sent", alert |-> 0]
        /\ UNCHANGED <<alert, read, report, onTheWay, water, lastReport, gen, tick, lifted, missed, dried, listFailures, reloads>>
    BY <1>3 DEF Water!LiftAsked, Water!NoLift
  <2>2. lift' \in LiftRecord /\ lifts' \in 0..MaxLifts
    BY <1>1, <2>1 DEF LiftRecord, WaterInv, Water!TypeOK
  <2>3. Water!TypeOK'
    BY <2>1, <2>2 DEF WaterInv, Water!TypeOK, LiftRecord
  <2>4. ClearsCounted' /\ LiftsWereRead'
    BY <1>1, <2>1 DEF WaterInv, ClearsCounted, LiftsWereRead
  <2> QED BY <2>1, <2>3, <2>4 DEF WaterInv, WaterStep
<1>4. CASE Water!LiftFails
  <2>1. /\ listFailures' \in 0..MaxListFailures /\ lift' = [at |-> "idle", alert |-> 0]
        /\ UNCHANGED <<alert, read, report, onTheWay, water, lastReport, gen, tick, lifted, missed, dried, lifts, reloads>>
    BY <1>4 DEF Water!LiftFails, Water!NoLift, WaterInv, Water!TypeOK
  <2>2. lift' \in LiftRecord
    BY <2>1 DEF LiftRecord
  <2>3. Water!TypeOK'
    BY <2>1, <2>2 DEF WaterInv, Water!TypeOK, LiftRecord
  <2>4. ClearsCounted' /\ LiftsWereRead'
    BY <1>1, <2>1 DEF WaterInv, ClearsCounted, LiftsWereRead
  <2> QED BY <2>1, <2>3, <2>4 DEF WaterInv, WaterStep
<1>5. CASE Water!LiftAccepted
  <2>1. /\ lift.at = "sent" /\ read' = alert /\ lift' = [at |-> "accepted", alert |-> alert]
        /\ UNCHANGED <<alert, report, onTheWay, water, lastReport, gen, tick, lifted, missed, dried, listFailures, lifts, reloads>>
    BY <1>5 DEF Water!LiftAccepted
  <2>2. lift' \in LiftRecord
    BY <1>1, <2>1 DEF LiftRecord
  <2>3. Water!TypeOK'
    BY <1>1, <2>1, <2>2 DEF WaterInv, Water!TypeOK, LiftRecord
  <2>4. ClearsCounted' /\ LiftsWereRead'
    BY <1>1, <2>1 DEF WaterInv, ClearsCounted, LiftsWereRead
  <2> QED BY <2>1, <2>3, <2>4 DEF WaterInv, WaterStep
<1>6. CASE Water!Lifted
  <2>1. /\ lift.at = "accepted" /\ lift' = [at |-> "idle", alert |-> 0] /\ gen' = gen + 1 /\ lastReport' = 0
        /\ water' = FALSE /\ lifted' = lift.alert
        /\ UNCHANGED <<alert, read, report, onTheWay, tick, missed, dried, listFailures, lifts, reloads>>
    BY <1>6 DEF Water!Lifted, Water!Forgets, Water!NoLift
  <2>2. lift' \in LiftRecord
    BY <2>1 DEF LiftRecord
  <2>3. water' \in BOOLEAN
    BY ONLY <2>1, Zenon
  <2>4. lift.alert \in 0..MaxAlerts /\ gen' \in 0..MaxLifts
    BY <1>1, <2>1 DEF LiftRecord, WaterInv, ClearsCounted, Water!TypeOK
  <2>5. Water!TypeOK'
    BY <1>1, <2>1, <2>2, <2>3, <2>4 DEF WaterInv, Water!TypeOK, LiftRecord
  <2>6. ClearsCounted' /\ LiftsWereRead'
    BY <1>1, <2>1 DEF WaterInv, ClearsCounted, LiftsWereRead, TickRecord, LiftRecord
  <2> QED BY <2>1, <2>5, <2>6 DEF WaterInv, WaterStep
<1>7. CASE Water!Reload
  <2>1. /\ reloads' \in 0..MaxWaterReloads /\ lift' = [at |-> "idle", alert |-> 0] /\ gen' = 0 /\ lastReport' = 0
        /\ water' = FALSE /\ tick' = Water!NoPoll
        /\ UNCHANGED <<alert, read, report, onTheWay, missed, lifted, dried, listFailures, lifts>>
    BY <1>7 DEF Water!Reload, Water!NoLift, WaterInv, Water!TypeOK
  <2>2. lift' \in LiftRecord
    BY <2>1 DEF LiftRecord
  <2>3. water' \in BOOLEAN /\ FALSE \in BOOLEAN
    BY ONLY <2>1, Zenon
  <2>4. tick' \in TickRecord /\ tick'.at = "idle" /\ tick'.gen = 0 /\ tick'.report = 0
    BY <2>1, <2>3 DEF TickRecord, Water!NoPoll
  <2>5. Water!TypeOK'
    BY <1>1, <2>1, <2>2, <2>3, <2>4 DEF WaterInv, Water!TypeOK, LiftRecord, TickRecord
  <2>6. ClearsCounted' /\ LiftsWereRead'
    BY <1>1, <2>1, <2>4 DEF WaterInv, ClearsCounted, LiftsWereRead
  <2> QED BY <2>1, <2>5, <2>6 DEF WaterInv, WaterStep
<1>8. CASE Water!PushTaken
  <2>1. /\ onTheWay # <<>> /\ onTheWay' = Tail(onTheWay) /\ water' = Head(onTheWay) /\ dried' \in {alert, dried}
        /\ UNCHANGED <<alert, read, report, lastReport, gen, tick, lift, lifted, missed, listFailures, lifts, reloads>>
    <3>1. onTheWay # <<>> /\ onTheWay' = Tail(onTheWay) /\ water' = Head(onTheWay)
      BY ONLY <1>8, Zenon DEF Water!PushTaken
    <3>2. dried' \in {alert, dried}
      BY ONLY <1>8, Zenon DEF Water!PushTaken
    <3>3. UNCHANGED <<alert, read, report, lastReport, gen, tick, lift, lifted, missed, listFailures, lifts, reloads>>
      BY ONLY <1>8, Zenon DEF Water!PushTaken, Water!bounds
    <3> QED BY ONLY <3>1, <3>2, <3>3, Zenon
  <2>2. onTheWay \in Seq(BOOLEAN) /\ Len(onTheWay) <= MaxOnTheWay
    BY DEF WaterInv, Water!TypeOK
  <2>3. onTheWay' \in Seq(BOOLEAN) /\ Len(onTheWay') <= MaxOnTheWay /\ water' \in BOOLEAN
    <3>1. Head(onTheWay) \in BOOLEAN /\ Tail(onTheWay) \in Seq(BOOLEAN) /\ Len(Tail(onTheWay)) <= MaxOnTheWay
      BY ONLY <2>1, <2>2, QueueKeeps, WaterAssumption, Zenon
    <3> QED BY ONLY <2>1, <3>1, Zenon
  <2>4. Water!TypeOK'
    BY <1>1, <2>1, <2>3 DEF WaterInv, Water!TypeOK
  <2>5. ClearsCounted' /\ LiftsWereRead'
    BY <1>1, <2>1 DEF WaterInv, ClearsCounted, LiftsWereRead
  <2> QED BY <1>8, <2>4, <2>5 DEF WaterInv, WaterStep
<1> QED BY <1>2, <1>3, <1>4, <1>5, <1>6, <1>7, <1>8

\* A tick of the timer.
LEMMA TickKeeps ==
    ASSUME WaterInv,
           Water!PollStarts \/ Water!ListAnswered \/ Water!ListFails \/ Water!TakesUp
             \/ Water!WarningAnswered \/ Water!Warned \/ Water!WarningFails
    PROVE  WaterInv' /\ WaterStep
<1> USE WaterAssumption DEF Water!govee, Water!ours, Water!hist, Water!bounds
<1>1. /\ alert \in Nat /\ read \in Nat /\ report \in Nat /\ read <= alert /\ gen \in Nat /\ lifts \in Nat
      /\ tick \in TickRecord /\ lift \in LiftRecord /\ lifted \in Nat /\ lastReport \in 0..report
      /\ water \in BOOLEAN /\ report \in 0..MaxReports /\ alert \in 0..MaxAlerts
  BY WaterTypes
<1>2. /\ UNCHANGED <<alert, read, report, onTheWay, gen, lift, lifted, dried, lifts, reloads>>
      /\ listFailures' \in 0..MaxListFailures /\ missed' \in {missed, alert}
  <2>1. listFailures \in 0..MaxListFailures
    BY DEF WaterInv, Water!TypeOK
  <2>2. CASE Water!PollStarts \/ Water!ListAnswered \/ Water!ListFails \/ Water!TakesUp
    BY <2>1, <2>2 DEF Water!PollStarts, Water!ListAnswered, Water!ListFails, Water!TakesUp
  <2>3. CASE Water!WarningAnswered \/ Water!Warned \/ Water!WarningFails
    BY <2>1, <2>3 DEF Water!WarningAnswered, Water!Warned, Water!WarningFails
  <2> QED BY <2>2, <2>3
<1>3. ASSUME tick' \in TickRecord, lastReport' \in 0..report, water' \in BOOLEAN,
             tick'.gen <= gen, tick'.report <= report,
             tick'.at = "warned" /\ gen = tick'.gen /\ tick'.wet => tick'.alert > lifted
      PROVE  WaterInv'
  <2>1. Water!TypeOK'
    BY <1>1, <1>2, <1>3 DEF WaterInv, Water!TypeOK, TickRecord
  <2>2. ClearsCounted' /\ LiftsWereRead'
    BY <1>1, <1>2, <1>3 DEF WaterInv, ClearsCounted, LiftsWereRead
  <2> QED BY <2>1, <2>2 DEF WaterInv
<1>4. ASSUME tick' = Water!NoPoll, lastReport' \in 0..report, water' \in BOOLEAN PROVE WaterInv'
  <2>1. FALSE \in BOOLEAN
    BY Zenon
  <2>2. tick' \in TickRecord /\ tick'.at = "idle" /\ tick'.gen = 0 /\ tick'.report = 0
    BY <1>4, <2>1 DEF TickRecord, Water!NoPoll
  <2> QED BY <1>1, <1>3, <1>4, <2>2
<1>5. CASE Water!PollStarts
  <2>1. tick' = [Water!NoPoll EXCEPT !.at = "list"] /\ UNCHANGED <<water, lastReport>>
    BY <1>5 DEF Water!PollStarts
  <2>2. FALSE \in BOOLEAN
    BY Zenon
  <2>3. tick' \in TickRecord /\ tick'.at = "list" /\ tick'.gen = 0 /\ tick'.report = 0
    <3>1. Water!NoPoll \in TickRecord /\ Water!NoPoll.gen = 0 /\ Water!NoPoll.report = 0
      BY <2>2 DEF TickRecord, Water!NoPoll
    <3> QED BY <2>1, <3>1 DEF TickRecord
  <2> QED BY <1>1, <1>3, <2>1, <2>3 DEF WaterStep
<1>6. CASE Water!ListAnswered
  <2>1. tick' = [tick EXCEPT !.at = "listed", !.report = report] /\ UNCHANGED <<water, lastReport>>
    BY <1>6 DEF Water!ListAnswered
  <2>2. tick' \in TickRecord /\ tick'.at = "listed" /\ tick'.gen = tick.gen /\ tick'.report = report
    BY <1>1, <2>1 DEF TickRecord
  <2>3. tick.gen <= gen
    BY DEF WaterInv, ClearsCounted
  <2> QED BY <1>1, <1>3, <2>1, <2>2, <2>3 DEF WaterStep
<1>7. CASE Water!ListFails
  BY <1>1, <1>4, <1>7 DEF Water!ListFails, WaterStep
<1>8. CASE Water!TakesUp
  <2>1. water' = water
    BY <1>8 DEF Water!TakesUp
  <2>2. CASE Water!WorthAsking
    <3>1. tick' = [tick EXCEPT !.at = "warning", !.gen = gen] /\ lastReport' = lastReport
      BY <1>8, <2>2 DEF Water!TakesUp
    <3>2. gen \in 0..MaxLifts
      BY DEF WaterInv, Water!TypeOK
    <3>3. tick' \in TickRecord /\ tick'.at = "warning" /\ tick'.gen = gen /\ tick'.report = tick.report
      BY <1>1, <3>1, <3>2 DEF TickRecord
    <3>4. tick.report <= report
      BY DEF WaterInv, ClearsCounted
    <3> QED BY <1>1, <1>3, <2>1, <3>1, <3>3, <3>4 DEF WaterStep
  <2>3. CASE ~Water!WorthAsking
    <3>1. tick' = Water!NoPoll /\ lastReport' \in {tick.report, lastReport}
      BY <1>8, <2>3 DEF Water!TakesUp
    <3>2. tick.report \in 0..report
      BY <1>1 DEF WaterInv, ClearsCounted, TickRecord
    <3> QED BY <1>1, <1>4, <2>1, <3>1, <3>2 DEF WaterStep
  <2> QED BY <2>2, <2>3
<1>9. CASE Water!WarningAnswered
  <2>1. tick' = [tick EXCEPT !.at = "warned", !.wet = Water!Unread, !.alert = alert] /\ UNCHANGED <<water, lastReport>>
    BY <1>9 DEF Water!WarningAnswered
  <2>2. Water!Unread \in BOOLEAN
    BY <1>1 DEF Water!Unread
  <2>3. /\ tick' \in TickRecord /\ tick'.at = "warned" /\ tick'.gen = tick.gen /\ tick'.report = tick.report
        /\ tick'.wet = Water!Unread /\ tick'.alert = alert
    BY <1>1, <2>1, <2>2 DEF TickRecord
  <2>4. tick.gen <= gen /\ tick.report <= report /\ lifted <= read
    BY DEF WaterInv, ClearsCounted, LiftsWereRead
  <2>5. Water!Unread => alert > lifted
    BY <1>1, <2>4 DEF Water!Unread
  <2> QED BY <1>1, <1>3, <2>1, <2>3, <2>4, <2>5 DEF WaterStep
<1>10. CASE Water!Warned
  <2>1. tick.report \in 0..report /\ tick.wet \in BOOLEAN
    BY <1>1 DEF WaterInv, ClearsCounted, TickRecord
  <2>2. /\ tick.at = "warned" /\ tick' = Water!NoPoll
        /\ \/ gen = tick.gen /\ water' = tick.wet /\ lastReport' \in {tick.report, lastReport}
           \/ UNCHANGED <<water, lastReport>>
    BY <1>10 DEF Water!Warned, Water!Applies
  <2>3. water' \in BOOLEAN /\ lastReport' \in 0..report
    BY <1>1, <2>1, <2>2
  <2>4. WaterStep
    BY <2>2 DEF WaterStep, WaterInv, LiftsWereRead
  <2> QED BY <1>4, <2>2, <2>3, <2>4
<1>11. CASE Water!WarningFails
  <2>1. tick.report \in 0..report
    BY <1>1 DEF WaterInv, ClearsCounted, TickRecord
  <2>2. tick' = Water!NoPoll /\ water' = water /\ lastReport' \in {tick.report, lastReport}
    BY <1>11 DEF Water!WarningFails, Water!Applies
  <2> QED BY <1>1, <1>4, <2>1, <2>2 DEF WaterStep
<1> QED BY <1>5, <1>6, <1>7, <1>8, <1>9, <1>10, <1>11

LEMMA WaterGoesOn == WaterInv /\ [Water!Next]_(Water!vars) => WaterInv' /\ WaterStep
<1> SUFFICES ASSUME WaterInv, [Water!Next]_(Water!vars) PROVE WaterInv' /\ WaterStep
  OBVIOUS
<1>1. CASE UNCHANGED Water!vars
  <2>1. UNCHANGED <<alert, read, report, onTheWay, water, lastReport, gen, tick, lift, lifted, missed, dried, listFailures, lifts, reloads>>
    BY <1>1 DEF Water!vars, Water!govee, Water!ours, Water!hist, Water!bounds
  <2> QED BY <2>1 DEF WaterInv, Water!TypeOK, ClearsCounted, LiftsWereRead, WaterStep
<1> QED BY <1>1, WorldKeeps, TickKeeps DEF Water!Next

\* For any alerts, reports, pushes and lifts: a tick shows wet only for an alert
\* raised since Govee took the last lift, whatever was lifted while it ran; any
\* other wet after a clear is a push (coordinator.py 2130-2144, 3228-3329).
THEOREM ClearsStick == Water!Spec => Water!ClearSticks
<1>1. Water!Init => WaterInv
  BY WaterStarts
<1>2. WaterInv /\ [Water!Next]_(Water!vars) => WaterInv'
  BY WaterGoesOn
<1>3. WaterInv /\ [Water!Next]_(Water!vars) => [~water /\ water' => tick.alert > lifted \/ Water!PushTaken]_(Water!vars)
  BY WaterGoesOn DEF WaterStep
<1> QED BY <1>1, <1>2, <1>3, PTL DEF Water!Spec, Water!ClearSticks

-----------------------------------------------------------------------------
(* The sum: a step of one part leaves the variables of the others alone.    *)

LEMMA ProgressParts ==
    ASSUME [PartsNext]_partsVars
    PROVE  [SessionNext]_sessionVars /\ [Entry!Next]_(Entry!vars) /\ [Water!Next]_(Water!vars)
  BY DEF PartsNext, partsVars, sessionVars, entryVars, waterVars, Entry!vars, Entry!world, Entry!entry, Entry!session,
     Water!vars, Water!govee, Water!ours, Water!hist, Water!bounds

\* The session, the entry and the water detector behave in the sum as their own
\* specifications say.
THEOREM ProgressPartsAreWhole == PartsSpec => SessionSpec /\ Entry!Spec /\ Water!Spec
<1>1. PartsInit => SessionInit /\ Entry!Init /\ Water!Init
  BY DEF PartsInit
<1> QED BY <1>1, ProgressParts, PTL DEF PartsSpec, SessionSpec, Entry!Spec, Water!Spec

\* What is withdrawn was over, in the sum.
THEOREM WithdrawalsRight == PartsSpec => WithdrawalsAreRight
  BY ProgressPartsAreWhole, RepairWithdrawn, EntryKept, ClearsStick DEF WithdrawalsAreRight
=============================================================================
