------------------------ MODULE CommandConfirm_proof ------------------------
(***************************************************************************)
(* TLAPS proofs about CommandConfirm: the running confirms are the         *)
(* registered ones, the newest report decides, and the confirmer           *)
(* implements ConfirmPromise, for any number of overlapping commands.      *)
(***************************************************************************)
EXTENDS CommandConfirm, TLAPS

\* A resend is over or under way: its confirm will not decide again.
ResentIsPast == \A c \in resent : phase[c] \in {"resend", "unwind", "done"}

\* A confirm that has not started knows no report; one that is running knows
\* the newest.
ReportIsNewest == \A c \in Calls :
    /\ phase[c] \in {"idle", "dispatch", "lan"} => reported[c] = None
    /\ phase[c] \in {"first", "query", "second"} /\ reported[c] # None
       => reported[c] = lastPush[cmd[c].field]

CopiesWereIssued == \A copy \in wire : phase[copy[1]] # "idle"

ConfirmInv ==
    /\ TypeOK /\ CopiesWereIssued
    /\ TasksAreRegistered /\ RegisteredTasksRun
    /\ ResentIsPast /\ ReportIsNewest

USE DEF Reading

\* Setting a commanded value keeps a map of readings one.
LEMMA WithTypes ==
    ASSUME NEW values \in [Fields -> Reading], NEW command \in [field : Fields, value : Nat]
    PROVE  With(values, command) \in [Fields -> Reading]
BY DEF With

\* prepare() ends the tasks it supersedes together with their registration.
LEMMA PrepareKeeps ==
    ASSUME ConfirmInv, NEW c \in Calls, NEW command \in Commands, Prepare(c, command)
    PROVE  ConfirmInv'
<1> USE CommandsAssumption, SentinelAssumption
<1>1. /\ phase[c] = "idle" /\ phase \in [Calls -> Phases] /\ cmd' = [cmd EXCEPT ![c] = command]
      /\ cmd \in [Calls -> Commands \cup {NoCall}]
      /\ view[command.field] \in Reading /\ command \in [field : Fields, value : Nat]
  BY DEF ConfirmInv, TypeOK, Prepare
<1> DEFINE stale == Registered(Supersedes(command.field))
<1>2. phase' = [x \in Calls |-> IF x = c THEN "dispatch" ELSE IF x \in stale THEN "unwind" ELSE phase[x]]
  BY DEF Prepare
<1>3. pending' = [g \in Fields |-> IF g \in Supersedes(command.field) THEN NoCall ELSE pending[g]]
  BY DEF Prepare
<1>4. \A x \in stale : x \in Calls /\ x # c /\ phase[x] \in Running \cup {"unwind"} /\ cmd[x] \in Commands
  <2>1. \A f \in Supersedes(command.field) : f \in Fields
    BY <1>1 DEF Supersedes, Fields
  <2>2. ASSUME NEW x \in stale PROVE x \in Calls /\ x # c /\ phase[x] \in Running \cup {"unwind"} /\ cmd[x] \in Commands
    <3>1. PICK f \in Supersedes(command.field) : pending[f] = x /\ x # NoCall
      BY DEF Registered
    <3>2. x \in Calls /\ phase[x] \in Running \cup {"unwind"}
      BY <2>1, <3>1 DEF ConfirmInv, TypeOK, RegisteredTasksRun
    <3> QED BY <3>2, <1>1 DEF ConfirmInv, TypeOK, Running
  <2> QED BY <2>2
<1>5. TypeOK'
  <2>1. issued' \in Seq(Calls)
    BY DEF ConfirmInv, TypeOK, Prepare
  <2>2. armed' \subseteq Calls /\ previous' \in [Calls -> Reading]
    <3>1. \/ armed' = armed \cup {c} /\ previous' = [previous EXCEPT ![c] = view[command.field]]
          \/ armed' = armed /\ previous' = previous
      BY DEF Prepare
    <3> QED BY <1>1, <3>1 DEF ConfirmInv, TypeOK
  <2>3. phase' \in [Calls -> Phases]
    BY <1>1, <1>2 DEF Phases
  <2>4. pending' \in [Fields -> Calls \cup {NoCall}]
    BY <1>3 DEF ConfirmInv, TypeOK
  <2>5. cmd' \in [Calls -> Commands \cup {NoCall}] /\ \A x \in Calls : phase'[x] # "idle" => cmd'[x] \in Commands
    BY <1>1, <1>2, <1>4 DEF ConfirmInv, TypeOK
  <2>6. wire' \subseteq Calls \X {"first", "again"}
    BY DEF ConfirmInv, TypeOK, Prepare
  <2> QED BY <2>1, <2>2, <2>3, <2>4, <2>5, <2>6 DEF ConfirmInv, TypeOK, Prepare
<1>6. CopiesWereIssued'
  <2>1. \A copy \in wire : copy[1] \in Calls
    BY DEF ConfirmInv, TypeOK
  <2> QED BY <2>1, <1>2 DEF ConfirmInv, CopiesWereIssued, Prepare
<1>7. TasksAreRegistered'
  <2> SUFFICES ASSUME NEW x \in Calls, phase'[x] \in Running PROVE pending'[cmd'[x].field] = x
    BY DEF TasksAreRegistered
  <2>1. x # c /\ x \notin stale /\ phase[x] \in Running
    BY <1>2 DEF Running
  <2>2. pending[cmd[x].field] = x /\ cmd[x].field \in Fields /\ x # NoCall
    BY <2>1 DEF ConfirmInv, TasksAreRegistered, TypeOK, Running
  <2>3. cmd[x].field \notin Supersedes(command.field)
    BY <2>1, <2>2 DEF Registered
  <2> QED BY <1>1, <1>3, <2>1, <2>2, <2>3
<1>8. RegisteredTasksRun'
  <2> SUFFICES ASSUME NEW g \in Fields, pending'[g] # NoCall
               PROVE  cmd'[pending'[g]].field = g /\ phase'[pending'[g]] \in Running \cup {"unwind"}
    BY DEF RegisteredTasksRun
  <2>1. pending'[g] = pending[g] /\ pending[g] # NoCall
    BY <1>3
  <2>2. /\ pending[g] \in Calls /\ cmd[pending[g]].field = g /\ phase[pending[g]] \in Running \cup {"unwind"}
    BY <2>1 DEF ConfirmInv, RegisteredTasksRun, TypeOK
  <2>3. pending[g] # c
    BY <2>2, <1>1 DEF Running
  <2> QED BY <1>1, <1>2, <2>1, <2>2, <2>3
<1>9. ResentIsPast' /\ ReportIsNewest'
  <2>1. resent' = resent /\ reported' = reported /\ lastPush' = lastPush /\ resent \subseteq Calls
    BY DEF Prepare, ConfirmInv, TypeOK
  <2>2. ResentIsPast'
    BY <2>1, <1>1, <1>2 DEF ConfirmInv, ResentIsPast
  <2>3. ReportIsNewest'
    BY <2>1, <1>1, <1>2 DEF ConfirmInv, ReportIsNewest
  <2> QED BY <2>2, <2>3
<1> QED BY <1>5, <1>6, <1>7, <1>8, <1>9 DEF ConfirmInv

\* A call that ends before anything is confirmed touches no registration.
LEMMA LocalKeeps ==
    ASSUME ConfirmInv, NEW c \in Calls, LanShown(c) \/ \E shown \in BOOLEAN : DispatchEnds(c, shown)
    PROVE  ConfirmInv'
<1> USE CommandsAssumption, SentinelAssumption
<1>1. /\ phase[c] \in {"dispatch", "lan"}
      /\ phase' = [phase EXCEPT ![c] = "lan"] \/ phase' = [phase EXCEPT ![c] = "done"]
      /\ view' = view \/ view' = With(view, cmd[c])
      /\ UNCHANGED <<confirm, reported, pending, resent, heard, lastPush, alive, issued, world>>
  BY DEF LanShown, DispatchEnds
<1>2. /\ phase \in [Calls -> Phases] /\ cmd[c] \in [field : Fields, value : Nat]
      /\ cmd' = cmd /\ pending' = pending /\ resent' = resent /\ reported' = reported
      /\ lastPush' = lastPush /\ wire' = wire
  BY <1>1 DEF ConfirmInv, TypeOK, confirm, world
<1>3. \A x \in Calls : x # c => phase'[x] = phase[x]
  BY <1>1, <1>2
<1>4. phase' \in [Calls -> Phases] /\ phase'[c] \in {"lan", "done"} /\ phase[c] \notin Running \cup {"unwind"}
  BY <1>1, <1>2 DEF Phases, Running
<1>5. TypeOK'
  <2>1. view' \in [Fields -> Reading]
    <3>1. view \in [Fields -> Reading]
      BY DEF ConfirmInv, TypeOK
    <3>2. With(view, cmd[c]) \in [Fields -> Reading]
      BY <3>1, <1>2, WithTypes
    <3> QED BY <1>1, <3>1, <3>2
  <2>2. \A x \in Calls : phase'[x] # "idle" => cmd[x] \in Commands
    BY <1>1, <1>3 DEF ConfirmInv, TypeOK
  <2> QED BY <1>1, <1>2, <1>4, <2>1, <2>2 DEF ConfirmInv, TypeOK, confirm, world
<1>6. CopiesWereIssued'
  <2>1. \A copy \in wire : copy[1] \in Calls
    BY DEF ConfirmInv, TypeOK
  <2> QED BY <2>1, <1>2, <1>3, <1>4 DEF ConfirmInv, CopiesWereIssued
<1>7. TasksAreRegistered' /\ RegisteredTasksRun'
  <2>1. TasksAreRegistered'
    BY <1>2, <1>3, <1>4 DEF ConfirmInv, TasksAreRegistered, Running
  <2>2. \A f \in Fields : pending[f] # NoCall => pending[f] \in Calls \ {c}
    BY <1>4 DEF ConfirmInv, TypeOK, RegisteredTasksRun
  <2> QED BY <1>2, <1>3, <2>1, <2>2 DEF ConfirmInv, RegisteredTasksRun
<1>8. ResentIsPast' /\ ReportIsNewest'
  <2>1. ResentIsPast'
    BY <1>1, <1>2, <1>3 DEF ConfirmInv, ResentIsPast, TypeOK
  <2> QED BY <1>1, <1>2, <1>3, <1>4, <2>1 DEF ConfirmInv, ReportIsNewest
<1> QED BY <1>5, <1>6, <1>7, <1>8 DEF ConfirmInv

\* start() registers its own task in the place of the one it cancels.
LEMMA SentKeeps ==
    ASSUME ConfirmInv, NEW c \in Calls, Sent(c)
    PROVE  ConfirmInv'
<1> USE CommandsAssumption, SentinelAssumption
<1> DEFINE f == cmd[c].field
           old == Registered({f})
<1>1. /\ phase[c] \in {"dispatch", "lan"} /\ phase \in [Calls -> Phases]
      /\ cmd[c] \in [field : Fields, value : Nat] /\ f \in Fields
      /\ cmd' = cmd /\ resent' = resent /\ reported' = reported /\ lastPush' = lastPush
      /\ view' = With(view, cmd[c]) /\ wire' = wire \cup {<<c, "first">>}
  BY DEF Sent, ConfirmInv, TypeOK, confirm
<1>2. \/ /\ pending' = [pending EXCEPT ![f] = c]
         /\ phase' = [x \in Calls |-> IF x = c THEN "first" ELSE IF x \in old THEN "unwind" ELSE phase[x]]
      \/ phase' = [phase EXCEPT ![c] = "done"] /\ pending' = pending
  BY DEF Sent
<1>3. \A x \in Calls : pending[f] = x => x # c /\ phase[x] \in Running \cup {"unwind"} /\ x # NoCall
  BY <1>1 DEF ConfirmInv, TypeOK, RegisteredTasksRun, Running
<1>4. \A x \in Calls : x \in old <=> pending[f] = x
  BY DEF Registered
<1> HIDE DEF f, old
<1>5. \A x \in Calls : x # c => phase'[x] = phase[x] \/ (phase'[x] = "unwind" /\ pending[f] = x)
  BY <1>1, <1>2, <1>4
<1>6. phase' \in [Calls -> Phases] /\ phase'[c] \in {"first", "done"} /\ phase[c] \notin Running \cup {"unwind", "idle"}
  BY <1>1, <1>2 DEF Phases, Running
<1>7. TypeOK'
  <2>1. view' \in [Fields -> Reading]
    BY <1>1, WithTypes DEF ConfirmInv, TypeOK
  <2>2. \A x \in Calls : phase'[x] # "idle" => cmd[x] \in Commands
    BY <1>3, <1>5, <1>6 DEF ConfirmInv, TypeOK, Running
  <2>3. pending' \in [Fields -> Calls \cup {NoCall}]
    <3>1. pending \in [Fields -> Calls \cup {NoCall}]
      BY DEF ConfirmInv, TypeOK
    <3>2. [pending EXCEPT ![f] = c] \in [Fields -> Calls \cup {NoCall}]
      BY <3>1
    <3> QED BY <1>2, <3>1, <3>2
  <2>4. wire' \subseteq Calls \X {"first", "again"}
    BY <1>1 DEF ConfirmInv, TypeOK
  <2> QED BY <1>1, <1>6, <2>1, <2>2, <2>3, <2>4 DEF ConfirmInv, TypeOK, Sent, confirm
<1>8. CopiesWereIssued'
  <2>1. \A copy \in wire : copy[1] \in Calls
    BY DEF ConfirmInv, TypeOK
  <2> QED BY <2>1, <1>1, <1>3, <1>5, <1>6 DEF ConfirmInv, CopiesWereIssued
<1>9. TasksAreRegistered'
  <2> SUFFICES ASSUME NEW x \in Calls, phase'[x] \in Running PROVE pending'[cmd'[x].field] = x
    BY DEF TasksAreRegistered
  <2>1. CASE x = c
    BY <2>1, <1>1, <1>2, <1>6 DEF ConfirmInv, TypeOK, Running, f
  <2>2. CASE x # c
    <3>1. phase[x] \in Running /\ phase'[x] = phase[x] /\ x # NoCall
      BY <2>2, <1>5 DEF Running
    <3>2. pending[cmd[x].field] = x
      BY <3>1 DEF ConfirmInv, TasksAreRegistered
    <3>3. CASE pending' = pending
      BY <3>2, <3>3, <1>1
    <3>4. CASE /\ pending' = [pending EXCEPT ![f] = c]
               /\ phase' = [y \in Calls |-> IF y = c THEN "first" ELSE IF y \in old THEN "unwind" ELSE phase[y]]
      <4>1. x \notin old
        BY <3>4, <2>2 DEF Running
      <4>2. pending[f] # x
        BY <4>1, <1>4
      <4> QED BY <3>2, <3>4, <4>2, <1>1 DEF ConfirmInv, TypeOK, Running
    <3> QED BY <3>3, <3>4, <1>2
  <2> QED BY <2>1, <2>2
<1>10. RegisteredTasksRun'
  <2> SUFFICES ASSUME NEW g \in Fields, pending'[g] # NoCall
               PROVE  cmd'[pending'[g]].field = g /\ phase'[pending'[g]] \in Running \cup {"unwind"}
    BY DEF RegisteredTasksRun
  <2>1. CASE pending'[g] = pending[g]
    <3>1. /\ pending[g] \in Calls \ {c} /\ cmd[pending[g]].field = g
          /\ phase[pending[g]] \in Running \cup {"unwind"}
      BY <2>1, <1>6 DEF ConfirmInv, RegisteredTasksRun, TypeOK
    <3> QED BY <3>1, <2>1, <1>1, <1>5
  <2>2. CASE pending'[g] # pending[g]
    <3>1. g = f /\ pending'[g] = c /\ phase'[c] = "first"
      BY <2>2, <1>1, <1>2 DEF ConfirmInv, TypeOK
    <3> QED BY <3>1, <1>1 DEF Running, f
  <2> QED BY <2>1, <2>2
<1>11. ResentIsPast'
  <2>1. c \notin resent /\ resent \subseteq Calls
    BY <1>1 DEF ConfirmInv, ResentIsPast, TypeOK
  <2> QED BY <2>1, <1>1, <1>5 DEF ConfirmInv, ResentIsPast
<1>12. ReportIsNewest'
  <2>1. reported[c] = None
    BY <1>1 DEF ConfirmInv, ReportIsNewest
  <2> QED BY <2>1, <1>1, <1>5, <1>6 DEF ConfirmInv, ReportIsNewest
<1> QED BY <1>7, <1>8, <1>9, <1>10, <1>11, <1>12 DEF ConfirmInv

\* What a step of a confirm task does: it ends, moves on, or sends again.
Ends(c)  == phase[c] \in Running \cup {"unwind"} /\ Finish(c) /\ UNCHANGED <<resent, wire>>
Moves(c) ==
    /\ phase[c] \in {"first", "query"} /\ UNCHANGED <<pending, resent, wire, view>>
    /\ \E to \in {"query", "second"} : phase' = [phase EXCEPT ![c] = to]
Again(c) ==
    /\ phase[c] \in {"first", "second"} /\ StillOld(c) /\ UNCHANGED <<pending, view>>
    /\ phase' = [phase EXCEPT ![c] = "resend"]
    /\ resent' = resent \cup {c} /\ wire' = wire \cup {<<c, "again">>}

\* Every step of a task has one of the three shapes.
LEMMA TaskShape ==
    ASSUME NEW c \in Calls, Task(c)
    PROVE  /\ Ends(c) \/ Moves(c) \/ Again(c)
           /\ view' \in {view, With(view, cmd[c])}
           /\ UNCHANGED <<confirm, reported, heard, lastPush, alive, issued, pushes, actual>>
<1>1. CASE FirstWaitEnds(c)
  <2>1. CASE Settle(c)
    BY <1>1, <2>1 DEF FirstWaitEnds, Settle, Ends, Again, Running
  <2>2. CASE /\ phase' = [phase EXCEPT ![c] = IF reported[c] = None THEN "query" ELSE "second"]
             /\ UNCHANGED <<pending, resent, wire>>
    BY <1>1, <2>2 DEF FirstWaitEnds, Moves
  <2> QED BY <1>1, <2>1, <2>2 DEF FirstWaitEnds
<1>2. CASE QueryReturns(c)
  BY <1>2 DEF QueryReturns, Moves, world
<1>3. CASE SecondWaitEnds(c)
  BY <1>3 DEF SecondWaitEnds, Settle, Ends, Again, Running
<1>4. ASSUME NEW ok \in BOOLEAN, ResendReturns(c, ok)
      PROVE  Ends(c) /\ view' \in {view, With(view, cmd[c])}
             /\ UNCHANGED <<confirm, reported, heard, lastPush, alive, issued, pushes, actual>>
  BY <1>4 DEF ResendReturns, Ends, Running, world
<1>5. CASE Unwind(c)
  BY <1>5 DEF Unwind, Ends, world
<1> QED BY <1>1, <1>2, <1>3, <1>4, <1>5 DEF Task

\* A task ends with its own registration, and decides once.
LEMMA TaskKeeps ==
    ASSUME ConfirmInv, NEW c \in Calls, Task(c)
    PROVE  ConfirmInv'
<1> USE CommandsAssumption, SentinelAssumption
<1>1. /\ Ends(c) \/ Moves(c) \/ Again(c)
      /\ view' \in {view, With(view, cmd[c])}
      /\ cmd' = cmd /\ armed' = armed /\ previous' = previous /\ reported' = reported
      /\ heard' = heard /\ lastPush' = lastPush /\ alive' = alive /\ issued' = issued
      /\ pushes' = pushes /\ actual' = actual
  BY TaskShape DEF confirm
<1>2. /\ phase \in [Calls -> Phases] /\ phase[c] \in Running \cup {"unwind"}
      /\ \A x \in Calls : x # c => phase'[x] = phase[x]
  BY <1>1 DEF ConfirmInv, TypeOK, Ends, Moves, Again, Finish, Running
<1>3. phase' \in [Calls -> Phases] /\ phase'[c] \in {"done", "query", "second", "resend"}
  BY <1>1, <1>2 DEF Ends, Moves, Again, Finish, Phases, Running
<1>4. /\ cmd[c] \in [field : Fields, value : Nat]
  BY <1>2 DEF ConfirmInv, TypeOK, Running
<1>5. \/ pending' = pending /\ phase'[c] \in Running /\ phase[c] \in Running
      \/ /\ pending' = [f \in Fields |-> IF pending[f] = c THEN NoCall ELSE pending[f]]
         /\ phase'[c] = "done"
  BY <1>1, <1>2 DEF Ends, Moves, Again, Finish, Running
<1>6. TypeOK'
  <2>1. view' \in [Fields -> Reading]
    <3>1. view \in [Fields -> Reading]
      BY DEF ConfirmInv, TypeOK
    <3>2. With(view, cmd[c]) \in [Fields -> Reading]
      BY <3>1, <1>4, WithTypes
    <3> QED BY <1>1, <3>1, <3>2
  <2>2. \A x \in Calls : phase'[x] # "idle" => cmd[x] \in Commands
    BY <1>2 DEF ConfirmInv, TypeOK, Running
  <2>3. pending' \in [Fields -> Calls \cup {NoCall}]
    BY <1>5 DEF ConfirmInv, TypeOK
  <2>4. wire' \subseteq Calls \X {"first", "again"} /\ resent' \subseteq Calls
    BY <1>1 DEF ConfirmInv, TypeOK, Ends, Moves, Again
  <2> QED BY <1>1, <1>3, <2>1, <2>2, <2>3, <2>4 DEF ConfirmInv, TypeOK
<1>7. CopiesWereIssued'
  <2>1. \A copy \in wire : copy[1] \in Calls
    BY DEF ConfirmInv, TypeOK
  <2>2. \A copy \in wire' : copy \in wire \/ copy[1] = c
    BY <1>1 DEF Ends, Moves, Again
  <2> QED BY <2>1, <2>2, <1>2, <1>3 DEF ConfirmInv, CopiesWereIssued
<1>8. TasksAreRegistered'
  <2> SUFFICES ASSUME NEW x \in Calls, phase'[x] \in Running PROVE pending'[cmd[x].field] = x
    BY <1>1 DEF TasksAreRegistered
  <2>1. phase[x] \in Running /\ x # NoCall /\ cmd[x].field \in Fields
    <3>1. phase[x] \in Running
      BY <1>2, <1>5 DEF Running
    <3>2. cmd[x] \in [field : Fields, value : Nat]
      BY <3>1 DEF ConfirmInv, TypeOK, Running
    <3> QED BY <3>1, <3>2
  <2>2. pending[cmd[x].field] = x
    BY <2>1 DEF ConfirmInv, TasksAreRegistered
  <2> QED BY <1>5, <2>1, <2>2 DEF Running
<1>9. RegisteredTasksRun'
  <2> SUFFICES ASSUME NEW g \in Fields, pending'[g] # NoCall
               PROVE  cmd[pending'[g]].field = g /\ phase'[pending'[g]] \in Running \cup {"unwind"}
    BY <1>1 DEF RegisteredTasksRun
  <2>1. pending'[g] = pending[g] /\ pending[g] \in Calls
    BY <1>5 DEF ConfirmInv, TypeOK
  <2>2. cmd[pending[g]].field = g /\ phase[pending[g]] \in Running \cup {"unwind"}
    BY <2>1 DEF ConfirmInv, RegisteredTasksRun
  <2>3. pending[g] = c => phase'[c] \in Running
    BY <1>5, <2>1
  <2> QED BY <2>1, <2>2, <2>3, <1>2
<1>10. ResentIsPast'
  <2>1. c \in resent' => phase'[c] \in {"resend", "unwind", "done"}
    BY <1>1, <1>2 DEF ConfirmInv, ResentIsPast, Ends, Moves, Again, Finish
  <2>2. \A x \in resent' : x # c => x \in resent /\ x \in Calls
    BY <1>1 DEF ConfirmInv, TypeOK, Ends, Moves, Again
  <2> QED BY <2>1, <2>2, <1>2 DEF ConfirmInv, ResentIsPast
<1>11. ReportIsNewest'
  <2>1. phase'[c] \in {"query", "second"} => phase[c] \in {"first", "query"}
    BY <1>1, <1>2 DEF Ends, Moves, Again, Finish
  <2> QED BY <2>1, <1>1, <1>2, <1>3 DEF ConfirmInv, ReportIsNewest
<1> QED BY <1>6, <1>7, <1>8, <1>9, <1>10, <1>11 DEF ConfirmInv

\* A push reaches every running confirm of a field it names.
LEMMA ReportKeeps == ASSUME ConfirmInv, Report PROVE ConfirmInv'
<1> USE CommandsAssumption, SentinelAssumption
<1> DEFINE push  == Head(pushes)
           named == {f \in Fields : push[f] \in Nat}
<1>1. /\ push \in [Fields -> Reading \cup {Absent}]
      /\ pushes' \in Seq([Fields -> Reading \cup {Absent}])
  BY DEF ConfirmInv, TypeOK, Report
<1>2. /\ reported' = [c \in Calls |-> IF c \in Registered(named) THEN push[cmd[c].field] ELSE reported[c]]
      /\ view' = [f \in Fields |-> IF push[f] # Absent THEN push[f] ELSE view[f]]
      /\ lastPush' = [f \in Fields |-> IF f \in named THEN push[f] ELSE lastPush[f]]
      /\ heard' = TRUE
      /\ UNCHANGED <<phase, confirm, pending, resent, alive, issued, wire, actual>>
  BY DEF Report
<1> HIDE DEF push
<1>3. \A c \in Registered(named) : c \in Calls /\ cmd[c].field \in named
                                  /\ phase[c] \in Running \cup {"unwind"}
  BY DEF Registered, ConfirmInv, TypeOK, RegisteredTasksRun
<1>4. \A c \in Calls : phase[c] \in Running /\ cmd[c].field \in named => c \in Registered(named)
  BY DEF Registered, ConfirmInv, TypeOK, TasksAreRegistered
<1>5. TypeOK'
  <2>1. reported' \in [Calls -> Reading]
    BY <1>1, <1>2, <1>3 DEF ConfirmInv, TypeOK
  <2>2. view' \in [Fields -> Reading] /\ lastPush' \in [Fields -> Reading]
    BY <1>1, <1>2 DEF ConfirmInv, TypeOK
  <2> QED BY <1>1, <1>2, <2>1, <2>2 DEF ConfirmInv, TypeOK, confirm
<1>6. CopiesWereIssued' /\ TasksAreRegistered' /\ RegisteredTasksRun' /\ ResentIsPast'
  BY <1>2 DEF ConfirmInv, CopiesWereIssued, TasksAreRegistered, RegisteredTasksRun, ResentIsPast, confirm
<1>7. ReportIsNewest'
  <2> SUFFICES ASSUME NEW c \in Calls
               PROVE  /\ phase[c] \in {"idle", "dispatch", "lan"} => reported'[c] = None
                      /\ phase[c] \in {"first", "query", "second"} /\ reported'[c] # None
                         => reported'[c] = lastPush'[cmd[c].field]
    BY <1>2 DEF ReportIsNewest, confirm
  <2>1. CASE c \in Registered(named)
    BY <2>1, <1>2, <1>3 DEF Running
  <2>2. CASE c \notin Registered(named)
    <3>1. reported'[c] = reported[c] /\ (phase[c] \in Running => cmd[c].field \notin named /\ cmd[c].field \in Fields)
      BY <2>2, <1>2, <1>4 DEF ConfirmInv, TypeOK, Running
    <3> QED BY <3>1, <1>2 DEF ConfirmInv, ReportIsNewest, Running
  <2> QED BY <2>1, <2>2
<1> QED BY <1>5, <1>6, <1>7 DEF ConfirmInv

\* cancel_all empties the registry; the unload ends what was started since.
LEMMA UnloadKeeps == ASSUME ConfirmInv, Shutdown \/ Unloaded PROVE ConfirmInv'
<1> USE CommandsAssumption, SentinelAssumption
<1>1. /\ phase \in [Calls -> Phases] /\ phase' \in [Calls -> Phases]
      /\ alive' \in {"closing", "gone"}
      /\ UNCHANGED <<confirm, reported, resent, view, heard, lastPush, issued, world>>
  BY DEF ConfirmInv, TypeOK, Shutdown, Unloaded, Phases
<1>2. \/ pending' = pending
      \/ /\ pending' = [f \in Fields |-> NoCall]
         /\ phase' = [c \in Calls |-> IF c \in Registered(Fields) THEN "unwind" ELSE phase[c]]
  BY DEF Shutdown, Unloaded
<1>3. \A c \in Registered(Fields) : c \in Calls /\ phase[c] \in Running \cup {"unwind"}
  BY DEF Registered, ConfirmInv, TypeOK, RegisteredTasksRun
<1>4. \A c \in Calls : phase'[c] = phase[c] \/ (phase'[c] = "unwind" /\ phase[c] \in Running \cup {"unwind"})
  BY <1>3 DEF Shutdown, Unloaded
<1>5. TypeOK'
  <2>1. pending' \in [Fields -> Calls \cup {NoCall}]
    BY <1>2 DEF ConfirmInv, TypeOK
  <2>2. \A c \in Calls : phase'[c] # "idle" => cmd[c] \in Commands
    BY <1>4 DEF ConfirmInv, TypeOK, Running
  <2> QED BY <1>1, <2>1, <2>2 DEF ConfirmInv, TypeOK, confirm, world
<1>6. CopiesWereIssued'
  <2>1. \A copy \in wire : copy[1] \in Calls
    BY DEF ConfirmInv, TypeOK
  <2> QED BY <2>1, <1>1, <1>4 DEF ConfirmInv, CopiesWereIssued, Running, world
<1>7. TasksAreRegistered'
  <2> SUFFICES ASSUME NEW c \in Calls, phase'[c] \in Running PROVE pending'[cmd[c].field] = c
    BY <1>1 DEF TasksAreRegistered, confirm
  <2>1. phase'[c] = phase[c] /\ c # NoCall
    BY <1>4 DEF Running
  <2>2. cmd[c] \in [field : Fields, value : Nat]
    BY <2>1 DEF ConfirmInv, TypeOK, Running
  <2>3. pending[cmd[c].field] = c
    BY <2>1 DEF ConfirmInv, TasksAreRegistered
  <2>4. c \in Registered(Fields)
    BY <2>1, <2>2, <2>3 DEF Registered
  <2> QED BY <1>2, <2>3, <2>4 DEF Running
<1>8. RegisteredTasksRun'
  <2> SUFFICES ASSUME NEW f \in Fields, pending'[f] # NoCall
               PROVE  cmd[pending'[f]].field = f /\ phase'[pending'[f]] \in Running \cup {"unwind"}
    BY <1>1 DEF RegisteredTasksRun, confirm
  <2>1. pending' = pending /\ pending[f] \in Calls
    BY <1>2 DEF ConfirmInv, TypeOK
  <2> QED BY <2>1, <1>4 DEF ConfirmInv, RegisteredTasksRun
<1>9. ResentIsPast'
  BY <1>1, <1>4 DEF ConfirmInv, TypeOK, ResentIsPast
<1>10. ReportIsNewest'
  BY <1>1, <1>4 DEF ConfirmInv, ReportIsNewest, confirm
<1> QED BY <1>5, <1>6, <1>7, <1>8, <1>9, <1>10 DEF ConfirmInv

\* The device and the network touch nothing of the confirmer.
LEMMA WorldKeeps ==
    ASSUME ConfirmInv,
           \/ \E copy \in wire : Arrives(copy)
           \/ \E f \in Fields : \E v \in Readings[f] : OutsideChange(f, v)
           \/ \E S \in Carried : Push(S)
    PROVE  ConfirmInv'
<1> USE CommandsAssumption, SentinelAssumption
<1>1. /\ UNCHANGED <<phase, confirm, reported, pending, resent, view, heard, lastPush, alive, issued>>
      /\ wire' \subseteq wire
  BY DEF Arrives, OutsideChange, Push
<1>2. actual' \in [Fields -> Reading]
  <2>1. ASSUME NEW copy \in wire, Arrives(copy) PROVE actual' \in [Fields -> Reading]
    <3>1. cmd[copy[1]] \in [field : Fields, value : Nat]
      BY DEF ConfirmInv, TypeOK, CopiesWereIssued
    <3> QED BY <3>1, <2>1, WithTypes DEF Arrives, ConfirmInv, TypeOK
  <2>2. ASSUME NEW f \in Fields, NEW v \in Readings[f], OutsideChange(f, v) PROVE actual' \in [Fields -> Reading]
    <3>1. [field |-> f, value |-> v] \in [field : Fields, value : Nat]
      OBVIOUS
    <3> QED BY <3>1, <2>2, WithTypes DEF OutsideChange, ConfirmInv, TypeOK
  <2>3. ASSUME NEW S \in Carried, Push(S) PROVE actual' \in [Fields -> Reading]
    BY <2>3 DEF Push, ConfirmInv, TypeOK
  <2> QED BY <2>1, <2>2, <2>3
<1>3. pushes' \in Seq([Fields -> Reading \cup {Absent}])
  <2>1. ASSUME NEW S \in Carried, Push(S) PROVE pushes' \in Seq([Fields -> Reading \cup {Absent}])
    <3>1. [f \in Fields |-> IF f \in S THEN actual[f] ELSE Absent] \in [Fields -> Reading \cup {Absent}]
      BY DEF ConfirmInv, TypeOK
    <3> QED BY <3>1, <2>1 DEF Push, ConfirmInv, TypeOK
  <2> QED BY <2>1 DEF Arrives, OutsideChange, ConfirmInv, TypeOK
<1>4. TypeOK'
  BY <1>1, <1>2, <1>3 DEF ConfirmInv, TypeOK, confirm
<1> QED BY <1>1, <1>4 DEF ConfirmInv, CopiesWereIssued, TasksAreRegistered, RegisteredTasksRun,
                          ResentIsPast, ReportIsNewest, confirm

\* Nothing is confirmed at the start.
LEMMA ConfirmInit == Init => ConfirmInv
<1> USE CommandsAssumption, SentinelAssumption
<1> SUFFICES ASSUME Init PROVE ConfirmInv
  OBVIOUS
<1>1. TypeOK
  <2>1. Initial \in [Fields -> Reading] /\ [f \in Fields |-> None] \in [Fields -> Reading]
    OBVIOUS
  <2>2. issued \in Seq(Calls) /\ pushes \in Seq([Fields -> Reading \cup {Absent}])
    BY DEF Init
  <2>3. wire \subseteq Calls \X {"first", "again"} /\ armed \subseteq Calls /\ resent \subseteq Calls
    BY DEF Init
  <2>4. cmd \in [Calls -> Commands \cup {NoCall}] /\ phase \in [Calls -> Phases]
    BY DEF Init, Phases
  <2>5. pending \in [Fields -> Calls \cup {NoCall}]
    BY DEF Init
  <2>6. previous \in [Calls -> Reading] /\ reported \in [Calls -> Reading]
    BY DEF Init
  <2>7. /\ view \in [Fields -> Reading] /\ lastPush \in [Fields -> Reading] /\ actual \in [Fields -> Reading]
        /\ heard \in BOOLEAN /\ alive \in {"up", "closing", "gone"}
    BY <2>1 DEF Init
  <2>8. \A c \in Calls : phase[c] = "idle"
    BY DEF Init
  <2> QED BY <2>2, <2>3, <2>4, <2>5, <2>6, <2>7, <2>8 DEF TypeOK
<1> QED BY <1>1 DEF Init, ConfirmInv, CopiesWereIssued, TasksAreRegistered, RegisteredTasksRun,
                    ResentIsPast, ReportIsNewest, Running

\* ConfirmInv is inductive.
LEMMA ConfirmNext == ConfirmInv /\ [Next]_vars => ConfirmInv'
<1> SUFFICES ASSUME ConfirmInv, [Next]_vars PROVE ConfirmInv'
  OBVIOUS
<1>1. CASE UNCHANGED vars
  BY <1>1 DEF vars, confirm, world, ConfirmInv, TypeOK, CopiesWereIssued, TasksAreRegistered,
              RegisteredTasksRun, ResentIsPast, ReportIsNewest
<1>2. CASE Next
  <2>1. ASSUME NEW c \in Calls,
               \/ \E command \in Commands : Prepare(c, command)
               \/ LanShown(c) \/ Sent(c) \/ \E shown \in BOOLEAN : DispatchEnds(c, shown)
               \/ Task(c)
        PROVE  ConfirmInv'
    BY <2>1, PrepareKeeps, LocalKeeps, SentKeeps, TaskKeeps
  <2>2. CASE Report \/ Shutdown \/ Unloaded
    BY <2>2, ReportKeeps, UnloadKeeps
  <2> QED BY <1>2, <2>1, <2>2, WorldKeeps DEF Next
<1> QED BY <1>1, <1>2

\* For any commands and any number of overlapping calls: the confirm tasks that
\* run are exactly the ones a newer command can find in _pending and cancel.
THEOREM ConfirmCorrect == Spec => [](TypeOK /\ TasksAreRegistered /\ RegisteredTasksRun)
<1>1. ConfirmInv => TypeOK /\ TasksAreRegistered /\ RegisteredTasksRun
  BY DEF ConfirmInv
<1> QED BY <1>1, ConfirmInit, ConfirmNext, PTL DEF Spec

\* For any commands: what decides a resend is the newest report of the field.
THEOREM NewestDecides == Spec => NewestReportDecides
<1>1. ConfirmInv /\ [Next]_vars =>
        [\A c \in Calls : (phase[c] # "resend" /\ phase'[c] = "resend")
           => Matches(cmd[c].field, lastPush[cmd[c].field], previous[c])]_vars
  <2> SUFFICES ASSUME ConfirmInv, Next, NEW c \in Calls, phase[c] # "resend", phase'[c] = "resend"
               PROVE  Matches(cmd[c].field, lastPush[cmd[c].field], previous[c])
    OBVIOUS
  <2>1. phase \in [Calls -> Phases]
    BY DEF ConfirmInv, TypeOK
  <2>2. ~Report /\ ~Shutdown /\ ~Unloaded
    BY <2>1 DEF Report, Shutdown, Unloaded
  <2>3. /\ ~\E copy \in wire : Arrives(copy)
        /\ ~\E f \in Fields : \E v \in Readings[f] : OutsideChange(f, v)
        /\ ~\E S \in Carried : Push(S)
    BY DEF Arrives, OutsideChange, Push
  <2>4. PICK x \in Calls :
          \/ \E command \in Commands : Prepare(x, command)
          \/ LanShown(x) \/ Sent(x) \/ \E shown \in BOOLEAN : DispatchEnds(x, shown)
          \/ Task(x)
    BY <2>2, <2>3 DEF Next
  <2>5. Task(x)
    <3>1. ASSUME NEW command \in Commands PROVE ~Prepare(x, command)
      BY <2>1 DEF Prepare
    <3>2. ~LanShown(x) /\ ~\E shown \in BOOLEAN : DispatchEnds(x, shown)
      BY <2>1 DEF LanShown, DispatchEnds
    <3>3. ~Sent(x)
      BY <2>1 DEF Sent
    <3> QED BY <2>4, <3>1, <3>2, <3>3
  <2>6. c = x /\ Again(c)
    BY <2>1, <2>5, TaskShape DEF Ends, Moves, Again, Finish
  <2>7. reported[c] # None /\ Matches(cmd[c].field, reported[c], previous[c])
    BY <2>6 DEF Again, StillOld
  <2> QED BY <2>6, <2>7 DEF ConfirmInv, ReportIsNewest, Again
<1> QED BY <1>1, ConfirmInit, ConfirmNext, PTL DEF Spec, NewestReportDecides

\* A call that was made is never unmade, and only prepare() makes one.
IssuedWereMade == \A i \in DOMAIN issued : phase[issued[i]] # "idle"

\* Every step but prepare() leaves what was asked so far alone.
Steady ==
    \/ \E c \in Calls : LanShown(c) \/ Sent(c) \/ (\E shown \in BOOLEAN : DispatchEnds(c, shown)) \/ Task(c)
    \/ Report \/ Shutdown \/ Unloaded \/ (\E copy \in wire : Arrives(copy))
    \/ (\E f \in Fields : \E v \in Readings[f] : OutsideChange(f, v))
    \/ (\E S \in Carried : Push(S)) \/ UNCHANGED vars

\* A call that was made is never unmade.
LEMMA AskedSteady ==
    ASSUME ConfirmInv, IssuedWereMade, Steady
    PROVE  IssuedWereMade' /\ Asked' = Asked
<1>1. /\ phase \in [Calls -> Phases] /\ issued \in Seq(Calls)
      /\ \A i \in DOMAIN issued : issued[i] \in Calls
  BY DEF ConfirmInv, TypeOK
<1>2. ASSUME issued' = issued, cmd' = cmd, \A x \in Calls : phase'[x] = "idle" => phase[x] = "idle"
      PROVE  IssuedWereMade' /\ Asked' = Asked
  BY <1>1, <1>2 DEF IssuedWereMade, Asked
<1>3. ASSUME NEW c \in Calls, LanShown(c) \/ Sent(c) \/ (\E shown \in BOOLEAN : DispatchEnds(c, shown))
      PROVE  IssuedWereMade' /\ Asked' = Asked
  <2>1. issued' = issued /\ cmd' = cmd
    BY <1>3 DEF LanShown, Sent, DispatchEnds, confirm
  <2>2. ASSUME NEW x \in Calls, phase'[x] = "idle" PROVE phase[x] = "idle"
    BY <1>1, <1>3, <2>2 DEF LanShown, Sent, DispatchEnds
  <2> QED BY <1>2, <2>1, <2>2
<1>4. ASSUME NEW c \in Calls, Task(c) PROVE IssuedWereMade' /\ Asked' = Asked
  <2>1. issued' = issued /\ cmd' = cmd
    BY <1>4, TaskShape DEF confirm
  <2>2. ASSUME NEW x \in Calls, phase'[x] = "idle" PROVE phase[x] = "idle"
    <3>1. Ends(c) \/ Moves(c) \/ Again(c)
      BY <1>4, TaskShape
    <3> QED BY <1>1, <2>2, <3>1 DEF Ends, Moves, Again, Finish
  <2> QED BY <1>2, <2>1, <2>2
<1>5. CASE Shutdown \/ Unloaded
  <2>1. issued' = issued /\ cmd' = cmd
    BY <1>5 DEF Shutdown, Unloaded, confirm
  <2>2. ASSUME NEW x \in Calls, phase'[x] = "idle" PROVE phase[x] = "idle"
    BY <1>1, <1>5, <2>2 DEF Shutdown, Unloaded
  <2> QED BY <1>2, <2>1, <2>2
<1>6. CASE UNCHANGED <<phase, confirm, issued>>
  BY <1>2, <1>6 DEF confirm
<1>7. ASSUME Report \/ (\E copy \in wire : Arrives(copy))
             \/ (\E f \in Fields : \E v \in Readings[f] : OutsideChange(f, v))
             \/ (\E S \in Carried : Push(S)) \/ UNCHANGED vars
      PROVE  UNCHANGED <<phase, confirm, issued>>
  BY <1>7 DEF Report, Arrives, OutsideChange, Push, vars
<1> QED BY <1>3, <1>4, <1>5, <1>6, <1>7 DEF Steady

\* prepare() appends the field of its command.
LEMMA AskedGrows ==
    ASSUME ConfirmInv, IssuedWereMade, NEW c \in Calls, NEW command \in Commands, Prepare(c, command)
    PROVE  IssuedWereMade' /\ Asked' = Append(Asked, command.field)
<1>1. /\ phase \in [Calls -> Phases] /\ issued \in Seq(Calls) /\ cmd \in [Calls -> Commands \cup {NoCall}]
      /\ \A i \in DOMAIN issued : issued[i] \in Calls
  BY DEF ConfirmInv, TypeOK
<1>2. /\ issued' = Append(issued, c) /\ cmd' = [cmd EXCEPT ![c] = command] /\ phase[c] = "idle"
      /\ phase' = [x \in Calls |-> IF x = c THEN "dispatch"
                      ELSE IF x \in Registered(Supersedes(command.field)) THEN "unwind" ELSE phase[x]]
  BY DEF Prepare
<1>3. /\ Len(issued) \in Nat /\ DOMAIN issued = 1..Len(issued) /\ DOMAIN issued' = 1..(Len(issued) + 1)
      /\ issued'[Len(issued) + 1] = c
      /\ \A i \in DOMAIN issued : issued'[i] = issued[i] /\ issued[i] # c
  BY <1>1, <1>2 DEF IssuedWereMade
<1>4. \A i \in DOMAIN issued : cmd'[issued'[i]] = cmd[issued[i]] /\ phase'[issued'[i]] # "idle"
  BY <1>1, <1>2, <1>3 DEF IssuedWereMade
<1>5. cmd'[c] = command /\ phase'[c] = "dispatch"
  BY <1>1, <1>2
<1>6. IssuedWereMade'
  <2> SUFFICES ASSUME NEW i \in DOMAIN issued' PROVE phase'[issued'[i]] # "idle"
    BY DEF IssuedWereMade
  <2>1. i \in DOMAIN issued \/ i = Len(issued) + 1
    BY <1>3
  <2> QED BY <2>1, <1>3, <1>4, <1>5
<1>7. Asked' = [i \in 1..(Len(issued) + 1) |-> IF i = Len(issued) + 1 THEN command.field ELSE cmd[issued[i]].field]
  <2>1. \A i \in 1..(Len(issued) + 1) : i # Len(issued) + 1 => i \in DOMAIN issued
    BY <1>3
  <2> QED BY <1>3, <1>4, <1>5, <2>1 DEF Asked
<1>8. DOMAIN Asked = 1..Len(issued) /\ \A i \in 1..Len(issued) : Asked[i] = cmd[issued[i]].field
  BY <1>3 DEF Asked
<1>9. Len(Asked) = Len(issued)
  BY <1>3, <1>8
<1>10. Append(Asked, command.field)
        = [i \in 1..(Len(issued) + 1) |-> IF i = Len(issued) + 1 THEN command.field ELSE cmd[issued[i]].field]
  <2>1. \A i \in DOMAIN issued : cmd[issued[i]] \in Commands
    BY <1>1 DEF IssuedWereMade, ConfirmInv, TypeOK
  <2>2. \A i \in 1..Len(issued) : cmd[issued[i]].field \in Fields
    <3>1. \A x \in Commands : x.field \in Fields
      BY CommandsAssumption
    <3> QED BY <1>3, <2>1, <3>1
  <2>3. Asked = [i \in 1..Len(issued) |-> cmd[issued[i]].field]
    BY <1>3 DEF Asked
  <2>4. Asked \in Seq(Fields)
    BY <1>3, <2>2, <2>3
  <2> QED BY <1>3, <1>8, <1>9, <2>4
<1> QED BY <1>6, <1>7, <1>10

\* For any commands: the confirmer implements ConfirmPromise.
THEOREM KeepsPromise == Spec => PromiseKept
<1>1. Init => Promise!Init /\ IssuedWereMade
  BY DEF Init, Promise!Init, Asked, IssuedWereMade
<1>2. ASSUME ConfirmInv, IssuedWereMade, [Next]_vars
      PROVE  [Promise!Next]_<<Asked, pending, resent>> /\ IssuedWereMade'
  <2> USE SentinelAssumption, CommandsAssumption
  <2>1. pending \in [Fields -> Calls \cup {NoCall}] /\ resent \subseteq Calls
    BY <1>2 DEF ConfirmInv, TypeOK
  <2>2. ASSUME NEW c \in Calls, NEW command \in Commands, Prepare(c, command)
        PROVE  Promise!Next /\ IssuedWereMade'
    <3>1. command.field \in Fields
      OBVIOUS
    <3>2. \A g \in Fields : g \in Supersedes(command.field) <=> g \in Promise!Stale(command.field)
      BY <3>1 DEF Supersedes, Promise!Stale, Fields
    <3>3. Asked' = Append(Asked, command.field) /\ IssuedWereMade'
      BY <1>2, <2>2, AskedGrows
    <3>4. Promise!Issue(command.field)
      BY <2>2, <3>2, <3>3 DEF Prepare, Promise!Issue, Promise!Forgotten
    <3> QED BY <3>1, <3>3, <3>4 DEF Promise!Next
  <2>3. ASSUME Steady PROVE Asked' = Asked /\ IssuedWereMade'
    BY <1>2, <2>3, AskedSteady
  <2>4. ASSUME NEW c \in Calls, Sent(c) PROVE [Promise!Next]_<<Asked, pending, resent>>
    <3>1. Asked' = Asked /\ resent' = resent
      BY <2>3, <2>4 DEF Steady, Sent
    <3>2. CASE pending' = pending
      BY <3>1, <3>2
    <3>3. CASE pending' = [pending EXCEPT ![cmd[c].field] = c]
      <4>0. phase[c] \in {"dispatch", "lan"}
        BY <2>4 DEF Sent
      <4>3. cmd[c] \in Commands
        BY <1>2, <4>0 DEF ConfirmInv, TypeOK
      <4>4. c \notin resent
        BY <1>2, <4>0 DEF ConfirmInv, ResentIsPast
      <4>1. c \notin resent /\ cmd[c].field \in Fields
        BY <4>3, <4>4
      <4>2. Promise!Watch(cmd[c].field, c)
        BY <3>1, <3>3, <4>1 DEF Promise!Watch
      <4> QED BY <4>1, <4>2 DEF Promise!Next
    <3> QED BY <2>4, <3>2, <3>3 DEF Sent
  <2>5. ASSUME NEW c \in Calls, Task(c) PROVE [Promise!Next]_<<Asked, pending, resent>>
    <3>1. Asked' = Asked
      BY <2>3, <2>5 DEF Steady
    <3>2. CASE Ends(c)
      <4>1. Promise!Forget({f \in Fields : pending[f] = c})
        BY <3>1, <3>2 DEF Ends, Finish, Promise!Forget, Promise!Forgotten
      <4>2. {f \in Fields : pending[f] = c} \in SUBSET Fields
        OBVIOUS
      <4> QED BY <4>1, <4>2 DEF Promise!Next
    <3>3. CASE Moves(c)
      BY <3>1, <3>3 DEF Moves
    <3>4. CASE Again(c)
      <4>1. phase[c] \in {"first", "second"}
        BY <3>4 DEF Again
      <4>2. c \notin resent
        BY <1>2, <4>1 DEF ConfirmInv, ResentIsPast
      <4>3. cmd[c].field \in Fields
        BY <1>2, <4>1 DEF ConfirmInv, TypeOK
      <4>4. pending[cmd[c].field] = c
        BY <1>2, <4>1 DEF ConfirmInv, TasksAreRegistered, Running
      <4>5. Promise!Resend(cmd[c].field)
        BY <3>1, <3>4, <4>2, <4>4 DEF Again, Promise!Resend
      <4> QED BY <4>3, <4>5 DEF Promise!Next
    <3> QED BY <2>5, <3>2, <3>3, <3>4, TaskShape
  <2>6. ASSUME Shutdown PROVE [Promise!Next]_<<Asked, pending, resent>>
    <3>1. Asked' = Asked
      BY <2>3, <2>6 DEF Steady
    <3>2. Promise!Forget(Fields)
      BY <2>6, <3>1 DEF Shutdown, Promise!Forget, Promise!Forgotten
    <3>3. Fields \in SUBSET Fields
      OBVIOUS
    <3> QED BY <3>2, <3>3 DEF Promise!Next
  <2>7. ASSUME \/ Report \/ Unloaded \/ (\E copy \in wire : Arrives(copy))
               \/ (\E f \in Fields : \E v \in Readings[f] : OutsideChange(f, v))
               \/ (\E S \in Carried : Push(S)) \/ UNCHANGED vars
               \/ \E c \in Calls : LanShown(c) \/ \E shown \in BOOLEAN : DispatchEnds(c, shown)
        PROVE  UNCHANGED <<Asked, pending, resent>>
    <3>1. Asked' = Asked
      BY <2>3, <2>7 DEF Steady
    <3>2. UNCHANGED <<pending, resent>>
      BY <2>7 DEF Report, Unloaded, Arrives, OutsideChange, Push, vars, LanShown, DispatchEnds
    <3> QED BY <3>1, <3>2
  <2>8. Steady \/ \E c \in Calls, command \in Commands : Prepare(c, command)
    BY <1>2 DEF Next, Steady
  <2>9. IssuedWereMade'
    BY <2>2, <2>3, <2>8
  <2>10. [Promise!Next]_<<Asked, pending, resent>>
    BY <2>2, <2>4, <2>5, <2>6, <2>7, <2>8 DEF Steady
  <2> QED BY <2>9, <2>10
<1> QED BY <1>1, <1>2, ConfirmInit, ConfirmNext, PTL DEF Spec, PromiseKept, Promise!Spec

\* For any number of overlapping commands: the tasks that run are those a newer
\* command can reach.
THEOREM TasksReached == Spec => []TasksAreReachable
BY ConfirmCorrect, PTL DEF TasksAreReachable
=============================================================================
