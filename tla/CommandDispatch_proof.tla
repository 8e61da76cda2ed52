------------------------ MODULE CommandDispatch_proof ------------------------
(***************************************************************************)
(* Theorems of CommandDispatch, for any number of devices, calls and        *)
(* commands: its types, no leaked power-off flag, no failure before REST    *)
(* was tried, segment commands in order, and LAN writes that a streak of    *)
(* misses silences.                                                         *)
(***************************************************************************)
EXTENDS CommandDispatch, TLAPS

Moving == Pcs \ {"idle", "done"}
Answers == {"none", "true", "false", "raised"}

\* What any step of call c does to its position, its answer and the flags.
Course(c, j, off) ==
    \/ \E r \in {"true", "false", "raised"} : Return(c, j, r, off)
    \/ \E where \in Moving : Suspend(c, where, off)
    \/ Detach(c, j, off)

\* A course leaves every other call where it was and keeps the types.
LEMMA CourseTypes ==
    ASSUME DispatchTypeOK, NEW c \in Calls, NEW j \in Jobs, NEW off \in SUBSET Lamps, Course(c, j, off)
    PROVE  /\ pc' \in [Calls -> Pcs] /\ pc'[c] # "idle"
           /\ answer' \in [Calls -> Answers]
           /\ \A x \in Calls \ {c} : pc'[x] = pc[x] /\ answer'[x] = answer[x]
           /\ pendingOff' \subseteq Lamps /\ deferredOff' \subseteq Lamps
<1>1. CASE \E r \in {"true", "false", "raised"} : Return(c, j, r, off)
  <2>1. PICK r \in {"true", "false", "raised"} : Return(c, j, r, off)
    BY <1>1
  <2> QED BY <2>1 DEF DispatchTypeOK, Return, Pcs, Answers, Jobs
<1>2. CASE \E where \in Moving : Suspend(c, where, off)
  BY <1>2 DEF DispatchTypeOK, Suspend, Pcs, Moving, Answers
<1>3. CASE Detach(c, j, off)
  BY <1>3 DEF DispatchTypeOK, Detach, Pcs, Answers, Jobs
<1> QED BY <1>1, <1>2, <1>3 DEF Course

\* What a course captures is a generation.
LEMMA CourseCaptures ==
    ASSUME DispatchTypeOK, NEW c \in Calls, NEW j \in Jobs, NEW off \in SUBSET Lamps, Course(c, j, off),
           gens' \in [Lamps -> [Kinds -> Nat]]
    PROVE  captured' \in [Calls -> Nat]
<1>1. gens'[j.dev][j.cmd.kind] \in Nat
  BY DEF Jobs, Kinds
<1>2. captured' = captured \/ captured' = [captured EXCEPT ![c] = gens'[j.dev][j.cmd.kind]]
  BY DEF Course, Return, Suspend, Detach
<1> QED BY <1>1, <1>2 DEF DispatchTypeOK

\* Setting what is shown for a command's kind keeps the type of view.
LEMMA ShowTypes ==
    ASSUME DispatchTypeOK, NEW d \in Lamps, NEW cmd \in Commands, Show(d, cmd)
    PROVE  view' \in [Lamps -> [DOMAIN Boot -> Values]]
<1>1. cmd.value \in Values /\ Unset \in Values
  BY DEF Values
<1>2. ASSUME NEW k \in DOMAIN Boot
      PROVE  (IF k = cmd.kind THEN cmd.value ELSE IF k \in Clears(cmd.kind) THEN Unset ELSE view[d][k]) \in Values
  BY <1>1 DEF DispatchTypeOK
<1> QED BY <1>1, <1>2 DEF DispatchTypeOK, Show

\* Sending adds a transport to both logs of the call.
LEMMA SendTypes ==
    ASSUME DispatchTypeOK, NEW c \in Calls, NEW t \in Transports, Send(c, t)
    PROVE  wire' \in [Calls -> SUBSET Transports] /\ tried' \in [Calls -> SUBSET Transports]
BY DEF DispatchTypeOK, Send

\* The miss counters keep their types.
LEMMA LanTypes ==
    ASSUME DispatchTypeOK, NEW d \in Lamps, UNCHANGED lan \/ SuppressionOver(d) \/ ClearMisses(d) \/ NoteMiss(d)
    PROVE  misses' \in [Lamps -> Nat] /\ cooldown' \in [Lamps -> {"none", "running", "over"}]
<1>1. CASE UNCHANGED lan
  BY <1>1 DEF DispatchTypeOK, lan
<1>2. CASE ClearMisses(d)
  BY <1>2 DEF DispatchTypeOK, ClearMisses
<1>3. CASE NoteMiss(d)
  BY <1>3 DEF DispatchTypeOK, NoteMiss
<1> QED BY <1>1, <1>2, <1>3 DEF SuppressionOver

\* The cloud tiers are a course, and keep the types of what they touch.
LEMMA CloudTypes ==
    ASSUME DispatchTypeOK, NEW c \in Calls, NEW j \in Jobs, NEW off \in SUBSET Lamps, ToCloud(c, j, off)
    PROVE  /\ Course(c, j, off)
           /\ wire' \in [Calls -> SUBSET Transports] /\ tried' \in [Calls -> SUBSET Transports]
           /\ lockQ' \in [Lamps -> Seq(Calls)]
           /\ view' \in [Lamps -> [DOMAIN Boot -> Values]]
<1> USE DEF Course, Moving, Pcs, NoSend, Transports
<1>0. j.dev \in Lamps /\ j.cmd \in Commands
  BY DEF Jobs
<1>1. CASE j.cmd.kind = "segment"
  <2>1. Suspend(c, "locked", off) /\ NoSend /\ Show(j.dev, j.cmd)
        /\ lockQ' = [lockQ EXCEPT ![j.dev] = Append(@, c)]
    BY <1>1 DEF ToCloud
  <2>2. lockQ' \in [Lamps -> Seq(Calls)]
    <3>1. Append(lockQ[j.dev], c) \in Seq(Calls)
      BY <1>0 DEF DispatchTypeOK
    <3> QED BY <2>1, <3>1 DEF DispatchTypeOK
  <2>3. view' \in [Lamps -> [DOMAIN Boot -> Values]]
    BY <2>1, <1>0, ShowTypes
  <2> QED BY <2>1, <2>2, <2>3 DEF DispatchTypeOK
<1>2. CASE ToRest(c, off)
  <2>1. Suspend(c, "rest", off) /\ Send(c, "rest") /\ UNCHANGED <<view, lockQ>>
    BY <1>2 DEF ToRest
  <2>2. wire' \in [Calls -> SUBSET Transports] /\ tried' \in [Calls -> SUBSET Transports]
    BY <2>1, SendTypes
  <2> QED BY <2>1, <2>2 DEF DispatchTypeOK
<1>3. CASE Suspend(c, "mqtt", off) /\ NoSend /\ UNCHANGED <<view, lockQ>>
  BY <1>3 DEF DispatchTypeOK
<1> QED BY <1>1, <1>2, <1>3 DEF ToCloud

\* So is the LAN tier with everything below it.
LEMMA LanTierTypes ==
    ASSUME DispatchTypeOK, NEW c \in Calls, NEW j \in Jobs, NEW off \in SUBSET Lamps, TryLan(c, j, off)
    PROVE  /\ Course(c, j, off)
           /\ wire' \in [Calls -> SUBSET Transports] /\ tried' \in [Calls -> SUBSET Transports]
           /\ lockQ' \in [Lamps -> Seq(Calls)]
           /\ view' \in [Lamps -> [DOMAIN Boot -> Values]]
           /\ misses' \in [Lamps -> Nat] /\ cooldown' \in [Lamps -> {"none", "running", "over"}]
<1>0. j.dev \in Lamps /\ j.cmd \in Commands
  BY DEF Jobs
<1>1. misses' \in [Lamps -> Nat] /\ cooldown' \in [Lamps -> {"none", "running", "over"}]
  BY <1>0, LanTypes DEF TryLan
<1>2. CASE ToCloud(c, j, off)
  BY <1>1, <1>2, CloudTypes
<1>3. CASE LanSent(c, j, off)
  <2>1. Send(c, "lan") /\ Show(j.dev, j.cmd) /\ lockQ' = lockQ
    BY <1>3 DEF LanSent
  <2>2. Course(c, j, off)
    BY <1>3 DEF LanSent, Course, Moving, Pcs
  <2>3. wire' \in [Calls -> SUBSET Transports] /\ tried' \in [Calls -> SUBSET Transports]
    BY <2>1, SendTypes DEF Transports
  <2>4. view' \in [Lamps -> [DOMAIN Boot -> Values]]
    BY <2>1, <1>0, ShowTypes
  <2> QED BY <1>1, <2>1, <2>2, <2>3, <2>4 DEF DispatchTypeOK
<1> QED BY <1>2, <1>3 DEF TryLan

\* Every resumption of a call is a course and keeps the types.
LEMMA ResumeTypes ==
    ASSUME DispatchTypeOK, LockHolderIsHead, NEW c \in Calls, Resume(c)
    PROVE  /\ pc[c] # "idle" /\ job[c] \in Jobs
           /\ UNCHANGED <<job, gens, latch, actual>>
           /\ Course(c, job[c], pendingOff)
           /\ wire' \in [Calls -> SUBSET Transports] /\ tried' \in [Calls -> SUBSET Transports]
           /\ lockQ' \in [Lamps -> Seq(Calls)]
           /\ view' \in [Lamps -> [DOMAIN Boot -> Values]]
           /\ misses' \in [Lamps -> Nat] /\ cooldown' \in [Lamps -> {"none", "running", "over"}]
           /\ online' \in [Lamps -> BOOLEAN]
<1>1. pc[c] # "idle" /\ job[c] \in Jobs /\ pendingOff \in SUBSET Lamps
  <2>1. pc[c] # "idle"
    BY DEF Resume, BleWritten, BleFailed, LanConfirmed, LanUnconfirmed, MqttPublished,
                MqttRefused, RestReply, SegmentAcquires, SegmentReply, SegmentPaced, SegmentError
  <2> QED BY <2>1 DEF DispatchTypeOK
<1>2. job[c].dev \in Lamps /\ job[c].cmd \in Commands /\ job[c].cmd.kind \in Kinds
  BY <1>1 DEF Jobs, Kinds
<1>3. /\ UNCHANGED <<job, gens, latch, actual>>
      /\ Course(c, job[c], pendingOff)
      /\ wire' \in [Calls -> SUBSET Transports] /\ tried' \in [Calls -> SUBSET Transports]
      /\ lockQ' \in [Lamps -> Seq(Calls)]
      /\ view' \in [Lamps -> [DOMAIN Boot -> Values]]
      /\ misses' \in [Lamps -> Nat] /\ cooldown' \in [Lamps -> {"none", "running", "over"}]
      /\ online' \in [Lamps -> BOOLEAN]
  <2> USE DEF lan
  <2>1. CASE BleWritten(c)
    <3>1. Course(c, job[c], pendingOff)
      BY <2>1 DEF BleWritten, Course
    <3>2. wire' \in [Calls -> SUBSET Transports] /\ tried' \in [Calls -> SUBSET Transports]
      BY <2>1, SendTypes DEF BleWritten, Transports
    <3>3. view' \in [Lamps -> [DOMAIN Boot -> Values]]
      BY <2>1, <1>2, ShowTypes DEF BleWritten
    <3> QED BY <2>1, <3>1, <3>2, <3>3 DEF DispatchTypeOK, BleWritten
  <2>2. CASE BleFailed(c)
    BY <2>2, <1>1, LanTierTypes DEF DispatchTypeOK, BleFailed
  <2>3. CASE LanConfirmed(c)
    <3>1. Course(c, job[c], pendingOff)
      BY <2>3 DEF LanConfirmed, Course
    <3>2. misses' \in [Lamps -> Nat] /\ cooldown' \in [Lamps -> {"none", "running", "over"}]
      BY <2>3, <1>2, LanTypes DEF LanConfirmed
    <3>3. view' \in [Lamps -> [DOMAIN Boot -> Values]]
      <4>1. PICK overlaid \in {LanKinds, ColorKinds} :
              view' = [view EXCEPT ![job[c].dev] =
                        [k \in DOMAIN Boot |-> IF k \in overlaid THEN actual[job[c].dev][k] ELSE @[k]]]
        BY <2>3 DEF LanConfirmed
      <4> QED BY <4>1, <1>2 DEF DispatchTypeOK
    <3> QED BY <2>3, <3>1, <3>2, <3>3 DEF DispatchTypeOK, LanConfirmed, NoSend
  <2>4. CASE LanUnconfirmed(c)
    <3>1. misses' \in [Lamps -> Nat] /\ cooldown' \in [Lamps -> {"none", "running", "over"}]
      BY <2>4, <1>2, LanTypes DEF LanUnconfirmed
    <3>2. CASE ToCloud(c, job[c], pendingOff)
      BY <2>4, <3>1, <3>2, <1>1, CloudTypes DEF DispatchTypeOK, LanUnconfirmed
    <3>3. CASE Return(c, job[c], "false", pendingOff) /\ NoSend /\ UNCHANGED <<lockQ, view>>
      BY <2>4, <3>1, <3>3 DEF DispatchTypeOK, LanUnconfirmed, NoSend, Course
    <3> QED BY <2>4, <3>2, <3>3 DEF LanUnconfirmed
  <2>5. CASE MqttPublished(c)
    <3>1. Course(c, job[c], pendingOff)
      BY <2>5 DEF MqttPublished, Course
    <3>2. wire' \in [Calls -> SUBSET Transports] /\ tried' \in [Calls -> SUBSET Transports]
      BY <2>5, SendTypes DEF MqttPublished, Transports
    <3>3. view' \in [Lamps -> [DOMAIN Boot -> Values]]
      BY <2>5, <1>2, ShowTypes DEF MqttPublished
    <3> QED BY <2>5, <3>1, <3>2, <3>3 DEF DispatchTypeOK, MqttPublished
  <2>6. CASE MqttRefused(c)
    <3>1. wire' \in [Calls -> SUBSET Transports] /\ tried' \in [Calls -> SUBSET Transports]
      BY <2>6, SendTypes DEF MqttRefused, ToRest, Transports
    <3> QED BY <2>6, <3>1 DEF DispatchTypeOK, MqttRefused, ToRest, Course, Moving, Pcs
  <2>7. ASSUME NEW o \in {"ok", "error", "offline", "auth"}, RestReply(c, o)
        PROVE  Course(c, job[c], pendingOff) /\ wire' \in [Calls -> SUBSET Transports]
               /\ view' \in [Lamps -> [DOMAIN Boot -> Values]] /\ online' \in [Lamps -> BOOLEAN]
    <3>1. Course(c, job[c], pendingOff)
      BY <2>7 DEF RestReply, Course
    <3>2. view' \in [Lamps -> [DOMAIN Boot -> Values]]
      <4>1. CASE o = "ok"
        BY <2>7, <4>1, <1>2, ShowTypes DEF RestReply
      <4>2. CASE o # "ok"
        BY <2>7, <4>2 DEF RestReply, DispatchTypeOK
      <4> QED BY <4>1, <4>2
    <3> QED BY <2>7, <3>1, <3>2 DEF RestReply, DispatchTypeOK
  <2>8. CASE \E o \in {"ok", "error", "offline", "auth"} : RestReply(c, o)
    BY <2>7, <2>8 DEF RestReply, DispatchTypeOK
  <2>9. CASE SegmentAcquires(c)
    <3>1. wire' \in [Calls -> SUBSET Transports] /\ tried' \in [Calls -> SUBSET Transports]
      BY <2>9, SendTypes DEF SegmentAcquires, Transports
    <3> QED BY <2>9, <3>1 DEF SegmentAcquires, DispatchTypeOK, Course, Moving, Pcs
  <2>10. CASE SegmentReply(c)
    BY <2>10 DEF SegmentReply, DispatchTypeOK, Course, Moving, Pcs
  <2>11. ASSUME ReleaseLock(c), lockQ[job[c].dev] # <<>>
         PROVE  lockQ' \in [Lamps -> Seq(Calls)]
    <3>1. Tail(lockQ[job[c].dev]) \in Seq(Calls)
      BY <2>11, <1>2 DEF DispatchTypeOK
    <3> QED BY <2>11, <3>1, <1>2 DEF ReleaseLock, DispatchTypeOK
  <2>12. CASE \E r \in {"true", "false"} : SegmentPaced(c, r)
    BY <2>11, <2>12 DEF SegmentPaced, LockHolderIsHead, DispatchTypeOK, Course, NoSend
  <2>13. CASE \E o \in {"error", "offline", "auth"} : SegmentError(c, o)
    BY <2>11, <2>13 DEF SegmentError, LockHolderIsHead, DispatchTypeOK, Course
  <2> QED BY <2>1, <2>2, <2>3, <2>4, <2>5, <2>6, <2>8, <2>9, <2>10, <2>12, <2>13 DEF Resume
<1> QED BY <1>1, <1>3

\* Nothing is under way for a call that was not made.
WireHasJob == \A c \in Calls : pc[c] = "idle" => wire[c] = {} /\ ~Answered(c)

TypeInv == DispatchTypeOK /\ LockHolderIsHead /\ WireHasJob

\* The types are preserved, given the lock's order and that only made calls send.
LEMMA NextTypes == TypeInv /\ [DispatchNext]_dispatchVars => DispatchTypeOK'
<1> SUFFICES ASSUME TypeInv, [DispatchNext]_dispatchVars PROVE DispatchTypeOK'
  OBVIOUS
<1> USE DEF TypeInv
<1>1. ASSUME NEW c \in Calls, NEW d \in Lamps, NEW cmd \in Commands, NEW defer \in BOOLEAN,
             Start(c, d, cmd, defer), latch' \in [Lamps -> BOOLEAN]
      PROVE  DispatchTypeOK'
  <2> DEFINE j   == [dev |-> d, cmd |-> cmd, defer |-> defer, gen |-> gens[d][cmd.kind] + 1]
             off == IF PowerOff(cmd) THEN pendingOff \cup {d} ELSE pendingOff
  <2>1. cmd.kind \in Kinds
    BY DEF Kinds
  <2>2. j \in Jobs
    BY <2>1 DEF Jobs, DispatchTypeOK
  <2>3. off \in SUBSET Lamps
    BY DEF DispatchTypeOK
  <2>4. /\ pc[c] = "idle"
        /\ job' = [job EXCEPT ![c] = j]
        /\ gens' = [gens EXCEPT ![d][cmd.kind] = @ + 1]
        /\ UNCHANGED <<online, actual>>
        /\ \/ Suspend(c, "ble", off) /\ NoSend /\ UNCHANGED <<lan, lockQ, view>>
           \/ TryLan(c, j, off)
    BY <1>1 DEF Start
  <2> HIDE DEF j, off
  <2>5. gens' \in [Lamps -> [Kinds -> Nat]]
    BY <2>1, <2>4 DEF DispatchTypeOK
  <2>6. /\ Course(c, j, off)
        /\ wire' \in [Calls -> SUBSET Transports] /\ tried' \in [Calls -> SUBSET Transports]
        /\ lockQ' \in [Lamps -> Seq(Calls)]
        /\ view' \in [Lamps -> [DOMAIN Boot -> Values]]
        /\ misses' \in [Lamps -> Nat] /\ cooldown' \in [Lamps -> {"none", "running", "over"}]
    <3>1. CASE Suspend(c, "ble", off) /\ NoSend /\ UNCHANGED <<lan, lockQ, view>>
      BY <3>1 DEF DispatchTypeOK, Course, Moving, Pcs, NoSend, lan
    <3>2. CASE TryLan(c, j, off)
      BY <3>2, <2>2, <2>3, LanTierTypes
    <3> QED BY <2>4, <3>1, <3>2
  <2>7. /\ pc' \in [Calls -> Pcs] /\ pc'[c] # "idle"
        /\ answer' \in [Calls -> Answers]
        /\ \A x \in Calls \ {c} : pc'[x] = pc[x] /\ answer'[x] = answer[x]
        /\ pendingOff' \subseteq Lamps /\ deferredOff' \subseteq Lamps
    BY <2>2, <2>3, <2>6, CourseTypes
  <2>8. job' \in [Calls -> Jobs \cup {NoJob}] /\ \A x \in Calls : job'[x] = NoJob <=> pc'[x] = "idle"
    BY <2>2, <2>4, <2>7, NoJobAssumption DEF DispatchTypeOK
  <2>9. captured' \in [Calls -> Nat]
    BY <2>2, <2>3, <2>5, <2>6, CourseCaptures
  <2> QED BY <1>1, <2>4, <2>5, <2>6, <2>7, <2>8, <2>9 DEF DispatchTypeOK, Answers
<1>2. ASSUME NEW c \in Calls, Resume(c) PROVE DispatchTypeOK'
  <2>1. /\ pc' \in [Calls -> Pcs] /\ pc'[c] # "idle"
        /\ answer' \in [Calls -> Answers]
        /\ \A x \in Calls \ {c} : pc'[x] = pc[x] /\ answer'[x] = answer[x]
        /\ pendingOff' \subseteq Lamps /\ deferredOff' \subseteq Lamps
    BY <1>2, ResumeTypes, CourseTypes DEF DispatchTypeOK
  <2>2. \A x \in Calls : job'[x] = NoJob <=> pc'[x] = "idle"
    BY <1>2, <2>1, ResumeTypes, NoJobAssumption DEF DispatchTypeOK
  <2>3. captured' \in [Calls -> Nat]
    BY <1>2, ResumeTypes, CourseCaptures DEF DispatchTypeOK
  <2> QED BY <1>2, <2>1, <2>2, <2>3, ResumeTypes DEF DispatchTypeOK, Answers
<1>3. ASSUME NEW d \in Lamps, CooldownElapses(d) \/ LatchExpires(d) \/ LanForgotten(d) PROVE DispatchTypeOK'
  <2>1. CASE CooldownElapses(d)
    BY <2>1 DEF DispatchTypeOK, CooldownElapses, calls, flags
  <2>2. CASE LatchExpires(d)
    BY <2>2 DEF DispatchTypeOK, LatchExpires, calls, flags, lan
  <2>3. CASE LanForgotten(d)
    BY <2>3 DEF DispatchTypeOK, LanForgotten, ClearMisses, calls, flags
  <2> QED BY <1>3, <2>1, <2>2, <2>3
<1>4. ASSUME NEW c \in Calls, NEW t \in Transports, Arrives(c, t) PROVE DispatchTypeOK'
  <2>1. job[c] \in Jobs
    BY <1>4 DEF DispatchTypeOK, WireHasJob, Arrives
  <2>2. job[c].dev \in Lamps /\ job[c].cmd.value \in Values
    BY <2>1 DEF Jobs, Values
  <2> QED BY <1>4, <2>2 DEF DispatchTypeOK, Arrives, calls, flags, lan
<1>5. CASE UNCHANGED dispatchVars
  BY <1>5 DEF DispatchTypeOK, dispatchVars, calls, flags, lan
<1> QED BY <1>1, <1>2, <1>3, <1>4, <1>5
          DEF DispatchNext, UserCommand, SegmentTurnOff, ChildPowerOn, DispatchTypeOK


\* "rest" is in the log of a call that is past the request.
RestLogged == \A c \in Calls : pc[c] \in {"rest", "segment", "pacing"} => "rest" \in tried[c]

DispatchInv == TypeInv /\ RestLogged /\ FailureMeansRestTried

\* A call's step touches no other call's copies, extends its own log, and
\* reaches a REST position or a failure only with REST in the log.
Frame(c) ==
    /\ \A x \in Calls \ {c} : wire'[x] = wire[x] /\ tried'[x] = tried[x]
    /\ tried[c] \subseteq tried'[c]
    /\ pc'[c] \in {"rest", "segment", "pacing"} => "rest" \in tried'[c]
    /\ answer'[c] = "false" => answer[c] = "false" \/ "rest" \in tried'[c]

\* The LAN tier and the cloud tiers only extend what one call has tried, and no
\* call reports failure there before its REST request was sent.
LEMMA TierFrame ==
    ASSUME DispatchTypeOK, NEW c \in Calls, NEW j \in Jobs, NEW off \in SUBSET Lamps,
           TryLan(c, j, off) \/ ToCloud(c, j, off)
    PROVE  /\ Frame(c) /\ pc'[c] \notin {"segment", "pacing"}
           /\ lockQ' \in {lockQ, [lockQ EXCEPT ![j.dev] = Append(@, c)]}
<1>1. CASE ToCloud(c, j, off)
  BY <1>1 DEF DispatchTypeOK, Frame, ToCloud, ToRest, Suspend, Send, NoSend
<1>2. CASE LanSent(c, j, off)
  <2>1. Send(c, "lan") /\ lockQ' = lockQ
    BY <1>2 DEF LanSent
  <2>2. pc'[c] \in {"done", "confirm"} /\ (answer'[c] = "false" => answer[c] = "false")
    BY <1>2 DEF LanSent, Return, Suspend, Detach, DispatchTypeOK
  <2> QED BY <2>1, <2>2 DEF DispatchTypeOK, Frame, Send
<1> QED BY <1>1, <1>2 DEF TryLan

\* The same of every resumption of a call: the other calls keep their place, and
\* an answer of failure has a REST request behind it.
LEMMA ResumeFrame ==
    ASSUME TypeInv, RestLogged, NEW c \in Calls, Resume(c)
    PROVE  Frame(c)
<1> USE DEF TypeInv, DispatchTypeOK, RestLogged
<1>0. pc[c] # "idle" /\ job[c] \in Jobs
  BY ResumeTypes
<1>1. CASE BleWritten(c)
  BY <1>1 DEF BleWritten, Send, Return, Frame
<1>2. CASE BleFailed(c)
  BY <1>0, <1>2, TierFrame DEF BleFailed
<1>3. CASE LanConfirmed(c)
  BY <1>3 DEF LanConfirmed, NoSend, Return, Frame
<1>4. CASE LanUnconfirmed(c)
  <2>1. CASE Answered(c) /\ Superseded(c)
    BY <1>4, <2>1 DEF LanUnconfirmed, NoSend, Return, Frame
  <2>2. CASE ToCloud(c, job[c], pendingOff)
    BY <1>0, <2>2, TierFrame
  <2> QED BY <1>4, <2>1, <2>2 DEF LanUnconfirmed
<1>5. CASE MqttPublished(c)
  BY <1>5 DEF MqttPublished, Send, Return, Frame
<1>6. CASE MqttRefused(c)
  BY <1>6 DEF MqttRefused, ToRest, Send, Suspend, Frame
<1>7. CASE \E o \in {"ok", "error", "offline", "auth"} : RestReply(c, o)
  BY <1>7 DEF RestReply, Return, Frame
<1>8. CASE SegmentAcquires(c)
  BY <1>8 DEF SegmentAcquires, Send, Suspend, Frame
<1>9. CASE SegmentReply(c)
  BY <1>9 DEF SegmentReply, Suspend, Frame
<1>10. CASE \E r \in {"true", "false"} : SegmentPaced(c, r)
  BY <1>10 DEF SegmentPaced, NoSend, Return, Frame
<1>11. CASE \E o \in {"error", "offline", "auth"} : SegmentError(c, o)
  BY <1>11 DEF SegmentError, Return, Frame
<1> QED BY <1>1, <1>2, <1>3, <1>4, <1>5, <1>6, <1>7, <1>8, <1>9, <1>10, <1>11 DEF Resume

\* The lock: a waiter is appended, only the head sends, and the head that
\* leaves is the holder.
LEMMA ResumeLock ==
    ASSUME TypeInv, NEW c \in Calls, Resume(c)
    PROVE  LockHolderIsHead'
<1> USE DEF TypeInv
<1>0. /\ pc[c] # "idle" /\ job[c] \in Jobs /\ job' = job
      /\ \A x \in Calls \ {c} : pc'[x] = pc[x]
  BY ResumeTypes, CourseTypes DEF DispatchTypeOK
<1>1. ASSUME lockQ' \in {lockQ, [lockQ EXCEPT ![job[c].dev] = Append(@, c)]},
             pc'[c] \notin {"segment", "pacing"}
      PROVE  LockHolderIsHead'
  <2>1. SUFFICES ASSUME NEW x \in Calls, pc'[x] \in {"segment", "pacing"}
                 PROVE  lockQ'[job[x].dev] # <<>> /\ Head(lockQ'[job[x].dev]) = x
    BY <1>0 DEF LockHolderIsHead
  <2>2. x # c /\ pc[x] = pc'[x] /\ job[x] \in Jobs /\ job[x].dev \in Lamps
    BY <1>0, <1>1, <2>1 DEF DispatchTypeOK, Jobs
  <2>3. lockQ[job[x].dev] \in Seq(Calls) /\ lockQ[job[x].dev] # <<>> /\ Head(lockQ[job[x].dev]) = x
    BY <2>1, <2>2 DEF LockHolderIsHead, DispatchTypeOK
  <2>4. /\ Append(lockQ[job[x].dev], c) # <<>>
        /\ Head(Append(lockQ[job[x].dev], c)) = x
    BY <2>3
  <2>5. lockQ'[job[x].dev] \in {lockQ[job[x].dev], Append(lockQ[job[x].dev], c)}
    BY <1>1, <2>2 DEF DispatchTypeOK
  <2> QED BY <2>2, <2>3, <2>4, <2>5
<1>2. ASSUME pc[c] \in {"segment", "pacing"}, ReleaseLock(c), pc'[c] = "done"
      PROVE  LockHolderIsHead'
  BY <1>0, <1>2 DEF LockHolderIsHead, ReleaseLock, DispatchTypeOK, Jobs
<1>3. CASE BleFailed(c)
  BY <1>0, <1>1, <1>3, TierFrame DEF BleFailed, DispatchTypeOK
<1>4. CASE LanUnconfirmed(c)
  <2>1. CASE Answered(c) /\ Superseded(c)
    BY <1>1, <1>4, <2>1 DEF LanUnconfirmed, Return, DispatchTypeOK
  <2>2. CASE ToCloud(c, job[c], pendingOff)
    BY <1>0, <1>1, <2>2, TierFrame DEF DispatchTypeOK
  <2> QED BY <1>4, <2>1, <2>2 DEF LanUnconfirmed
<1>5. CASE BleWritten(c) \/ LanConfirmed(c) \/ MqttPublished(c)
           \/ \E o \in {"ok", "error", "offline", "auth"} : RestReply(c, o)
  BY <1>1, <1>5 DEF BleWritten, LanConfirmed, MqttPublished, RestReply, Return, DispatchTypeOK
<1>6. CASE MqttRefused(c)
  BY <1>1, <1>6 DEF MqttRefused, ToRest, Suspend, DispatchTypeOK
<1>7. CASE SegmentAcquires(c) \/ SegmentReply(c)
  BY <1>0, <1>7 DEF SegmentAcquires, SegmentReply, Suspend, LockHolderIsHead, DispatchTypeOK
<1>8. CASE (\E r \in {"true", "false"} : SegmentPaced(c, r))
           \/ \E o \in {"error", "offline", "auth"} : SegmentError(c, o)
  BY <1>2, <1>8 DEF SegmentPaced, SegmentError, Return, DispatchTypeOK
<1> QED BY <1>3, <1>4, <1>5, <1>6, <1>7, <1>8 DEF Resume

\* DispatchInv is inductive.
LEMMA DispatchGoesOn == DispatchInv /\ [DispatchNext]_dispatchVars => DispatchInv'
<1> SUFFICES ASSUME DispatchInv, [DispatchNext]_dispatchVars PROVE DispatchInv'
  OBVIOUS
<1> USE DEF DispatchInv, TypeInv
<1>1. DispatchTypeOK'
  BY NextTypes
<1>2. ASSUME NEW c \in Calls, Frame(c), pc'[c] # "idle",
             \A x \in Calls \ {c} : pc'[x] = pc[x] /\ answer'[x] = answer[x]
      PROVE  (WireHasJob /\ RestLogged /\ FailureMeansRestTried)'
  BY <1>2 DEF WireHasJob, Answered, RestLogged, FailureMeansRestTried, Frame
<1>3. ASSUME NEW c \in Calls, NEW d \in Lamps, NEW cmd \in Commands, NEW defer \in BOOLEAN,
             Start(c, d, cmd, defer)
      PROVE  DispatchInv'
  <2> DEFINE j   == [dev |-> d, cmd |-> cmd, defer |-> defer, gen |-> gens[d][cmd.kind] + 1]
             off == IF PowerOff(cmd) THEN pendingOff \cup {d} ELSE pendingOff
  <2>1. j \in Jobs /\ off \in SUBSET Lamps
    <3>1. cmd.kind \in Kinds
      BY DEF Kinds
    <3> QED BY <3>1 DEF Jobs, DispatchTypeOK
  <2>2. /\ pc[c] = "idle" /\ job' = [job EXCEPT ![c] = j]
        /\ \/ Suspend(c, "ble", off) /\ NoSend /\ UNCHANGED <<lan, lockQ, view>>
           \/ TryLan(c, j, off)
    BY <1>3 DEF Start
  <2> HIDE DEF j, off
  <2>3. /\ Course(c, j, off) /\ Frame(c) /\ pc'[c] \notin {"segment", "pacing"}
        /\ lockQ' \in {lockQ, [lockQ EXCEPT ![j.dev] = Append(@, c)]}
    <3>1. CASE Suspend(c, "ble", off) /\ NoSend /\ UNCHANGED <<lan, lockQ, view>>
      BY <3>1 DEF DispatchTypeOK, Course, Moving, Pcs, NoSend, Suspend, Frame
    <3>2. CASE TryLan(c, j, off)
      BY <3>2, <2>1, LanTierTypes, TierFrame
    <3> QED BY <2>2, <3>1, <3>2
  <2>4. pc'[c] # "idle" /\ \A x \in Calls \ {c} : pc'[x] = pc[x] /\ answer'[x] = answer[x]
    BY <2>1, <2>3, CourseTypes
  <2>5. LockHolderIsHead'
    <3>1. SUFFICES ASSUME NEW x \in Calls, pc'[x] \in {"segment", "pacing"}
                   PROVE  lockQ'[job'[x].dev] # <<>> /\ Head(lockQ'[job'[x].dev]) = x
      BY DEF LockHolderIsHead
    <3>2. x # c /\ pc[x] = pc'[x] /\ job'[x] = job[x] /\ job[x] \in Jobs /\ job[x].dev \in Lamps
      BY <2>2, <2>3, <2>4, <3>1 DEF DispatchTypeOK, Jobs
    <3>3. lockQ[job[x].dev] \in Seq(Calls) /\ lockQ[job[x].dev] # <<>> /\ Head(lockQ[job[x].dev]) = x
      BY <3>1, <3>2 DEF LockHolderIsHead, DispatchTypeOK
    <3>4. Append(lockQ[job[x].dev], c) # <<>> /\ Head(Append(lockQ[job[x].dev], c)) = x
      BY <3>3
    <3>5. lockQ'[job[x].dev] \in {lockQ[job[x].dev], Append(lockQ[job[x].dev], c)}
      <4>1. lockQ \in [Lamps -> Seq(Calls)] /\ job[x].dev \in Lamps
        BY <3>2 DEF DispatchTypeOK
      <4>2. lockQ' \in {lockQ, [lockQ EXCEPT ![j.dev] = Append(@, c)]}
        BY <2>3
      <4> HIDE DEF j
      <4> QED BY <4>1, <4>2
    <3> QED BY <3>2, <3>3, <3>4, <3>5
  <2> QED BY <1>1, <1>2, <2>3, <2>4, <2>5
<1>4. ASSUME NEW c \in Calls, Resume(c) PROVE DispatchInv'
  <2>1. pc'[c] # "idle" /\ \A x \in Calls \ {c} : pc'[x] = pc[x] /\ answer'[x] = answer[x]
    BY <1>4, ResumeTypes, CourseTypes DEF DispatchTypeOK
  <2> QED BY <1>1, <1>2, <1>4, <2>1, ResumeFrame, ResumeLock
<1>5. ASSUME NEW d \in Lamps, CooldownElapses(d) \/ LatchExpires(d) \/ LanForgotten(d) PROVE DispatchInv'
  BY <1>1, <1>5
    DEF WireHasJob, Answered, RestLogged, FailureMeansRestTried, LockHolderIsHead, CooldownElapses,
                    LatchExpires, LanForgotten, calls
<1>6. ASSUME NEW c \in Calls, NEW t \in Transports, Arrives(c, t) PROVE DispatchInv'
  BY <1>1, <1>6
    DEF WireHasJob, Answered, RestLogged, FailureMeansRestTried, LockHolderIsHead, Arrives, calls,
        DispatchTypeOK
<1>7. CASE UNCHANGED dispatchVars
  BY <1>1, <1>7
    DEF WireHasJob, Answered, RestLogged, FailureMeansRestTried, LockHolderIsHead, dispatchVars,
        calls
<1> QED BY <1>3, <1>4, <1>5, <1>6, <1>7 DEF DispatchNext, UserCommand, SegmentTurnOff, ChildPowerOn

\* The empty coordinator satisfies the inductive invariant.
LEMMA DispatchStarts == DispatchInit => DispatchInv
<1> SUFFICES ASSUME DispatchInit PROVE DispatchInv
  OBVIOUS
<1>1. Boot \in [DOMAIN Boot -> Values]
  BY CommandsAssumption DEF Values
<1>2. DispatchTypeOK
  BY <1>1 DEF DispatchInit, DispatchTypeOK, Pcs
<1> QED BY <1>2
          DEF DispatchInit, DispatchInv, TypeInv, LockHolderIsHead, WireHasJob, Answered, RestLogged,
              FailureMeansRestTried

\* For any number of devices and calls: the state keeps its types, the segment
\* lock is served in order by its holder alone, and async_control_device answers
\* False only after the command was tried over the REST API.
THEOREM DispatchCorrect == DispatchSpec => [](DispatchTypeOK /\ LockHolderIsHead /\ FailureMeansRestTried)
<1>1. DispatchInv => DispatchTypeOK /\ LockHolderIsHead /\ FailureMeansRestTried
  BY DEF DispatchInv, TypeInv
<1> QED BY <1>1, DispatchStarts, DispatchGoesOn, PTL DEF DispatchSpec

-----------------------------------------------------------------------------
(* Ownership of the power-off flags.  A deferred flag belongs to a running  *)
(* background task; a pending flag to a power-off whose caller still waits, *)
(* or to such a task.                                                       *)

OffTask(c, d) == Active(c) /\ Answered(c) /\ job[c].dev = d /\ PowerOff(job[c].cmd)

PowerOffInFlight(c, d) == Active(c) /\ ~Answered(c) /\ job[c].dev = d /\ PowerOff(job[c].cmd)

FlagsOwned ==
    /\ \A d \in deferredOff : \E c \in Calls : OffTask(c, d)
    /\ \A d \in pendingOff : d \in deferredOff \/ \E c \in Calls : PowerOffInFlight(c, d)

\* A course of c, from a state where the flags in `off` other than c's own are
\* owned, leaves every flag owned.
LEMMA CourseOwns ==
    ASSUME DispatchTypeOK, DispatchTypeOK', NEW c \in Calls, NEW j \in Jobs, NEW off \in SUBSET Lamps,
           Course(c, j, off), job'[c] = j, Active(c) => job[c] = j,
           \A x \in Calls \ {c} : job'[x] = job[x],
           \A d \in deferredOff : \E x \in Calls : OffTask(x, d),
           \A d \in off : \/ d \in deferredOff \/ (\E x \in Calls : PowerOffInFlight(x, d))
                          \/ d = j.dev /\ PowerOff(j.cmd) /\ ~Answered(c)
    PROVE  FlagsOwned'
<1>1. \A x \in Calls \ {c} : pc'[x] = pc[x] /\ answer'[x] = answer[x]
  BY CourseTypes
<1>2. ASSUME NEW x \in Calls \ {c}, NEW d
      PROVE  (OffTask(x, d) => OffTask(x, d)') /\ (PowerOffInFlight(x, d) => PowerOffInFlight(x, d)')
  BY <1>1 DEF OffTask, PowerOffInFlight, Active, Answered
<1>3. CASE \E r \in {"true", "false", "raised"} : Return(c, j, r, off)
  <2>1. ASSUME NEW d \in deferredOff' PROVE \E x \in Calls : OffTask(x, d)'
    <3>1. PICK x \in Calls : d \in deferredOff /\ OffTask(x, d)
      BY <1>3, <2>1 DEF Return
    <3>2. x # c
      BY <1>3, <2>1, <3>1 DEF Return, OffTask
    <3> QED BY <1>2, <3>1, <3>2
  <2>2. ASSUME NEW d \in pendingOff' PROVE d \in deferredOff' \/ \E x \in Calls : PowerOffInFlight(x, d)'
    <3>1. d \in off
      BY <1>3, <2>2 DEF Return
    <3>2. CASE d \in deferredOff
      BY <1>3, <2>2, <3>2 DEF Return
    <3>3. ASSUME d \notin deferredOff, NEW x \in Calls, PowerOffInFlight(x, d)
          PROVE  \E y \in Calls : PowerOffInFlight(y, d)'
      <4>1. x # c
        BY <1>3, <2>2, <3>3 DEF Return, PowerOffInFlight
      <4> QED BY <1>2, <3>3, <4>1
    <3>4. ~(d \notin deferredOff /\ d = j.dev /\ PowerOff(j.cmd) /\ ~Answered(c))
      BY <1>3, <2>2 DEF Return
    <3> QED BY <3>1, <3>2, <3>3, <3>4
  <2> QED BY <2>1, <2>2 DEF FlagsOwned
<1>4. CASE \E where \in Moving : Suspend(c, where, off)
  <2>1. Active(c)' /\ (Answered(c)' <=> Answered(c)) /\ pendingOff' = off /\ deferredOff' = deferredOff
    BY <1>4 DEF Suspend, Active, Answered, Moving, DispatchTypeOK
  <2>2. ASSUME NEW d PROVE (OffTask(c, d) => OffTask(c, d)') /\ (PowerOffInFlight(c, d) => PowerOffInFlight(c, d)')
    BY <2>1 DEF OffTask, PowerOffInFlight
  <2>3. ASSUME NEW d, d = j.dev /\ PowerOff(j.cmd) /\ ~Answered(c) PROVE PowerOffInFlight(c, d)'
    BY <2>1, <2>3 DEF PowerOffInFlight
  <2> QED BY <1>2, <2>1, <2>2, <2>3 DEF FlagsOwned
<1>5. CASE Detach(c, j, off)
  <2>1. /\ Active(c)' /\ Answered(c)' /\ pendingOff' = off
        /\ deferredOff' = IF PowerOff(j.cmd) THEN deferredOff \cup {j.dev} ELSE deferredOff
    BY <1>5 DEF Detach, Active, Answered, DispatchTypeOK
  <2>2. ASSUME NEW d \in deferredOff' PROVE \E x \in Calls : OffTask(x, d)'
    <3>1. CASE PowerOff(j.cmd) /\ d = j.dev
      BY <2>1, <3>1 DEF OffTask
    <3>2. ASSUME NEW x \in Calls, OffTask(x, d) PROVE OffTask(x, d)'
      <4>1. CASE x = c
        BY <2>1, <3>2, <4>1 DEF OffTask
      <4> QED BY <1>2, <3>2, <4>1
    <3> QED BY <2>1, <2>2, <3>1, <3>2
  <2>3. ASSUME NEW d \in pendingOff' PROVE d \in deferredOff' \/ \E x \in Calls : PowerOffInFlight(x, d)'
    <3>1. ASSUME NEW x \in Calls, PowerOffInFlight(x, d)
          PROVE  d \in deferredOff' \/ PowerOffInFlight(x, d)'
      <4>1. CASE x = c
        BY <2>1, <3>1, <4>1 DEF PowerOffInFlight
      <4> QED BY <1>2, <3>1, <4>1
    <3> QED BY <2>1, <2>3, <3>1
  <2> QED BY <2>2, <2>3 DEF FlagsOwned
<1> QED BY <1>3, <1>4, <1>5 DEF Course

\* Every flag keeps an owner.
LEMMA FlagsOwnedNext == DispatchInv /\ FlagsOwned /\ [DispatchNext]_dispatchVars => FlagsOwned'
<1> SUFFICES ASSUME DispatchInv, FlagsOwned, [DispatchNext]_dispatchVars PROVE FlagsOwned'
  OBVIOUS
<1> USE DEF DispatchInv, TypeInv
<1>1. DispatchTypeOK'
  BY NextTypes
<1>2. ASSUME NEW c \in Calls, NEW d \in Lamps, NEW cmd \in Commands, NEW defer \in BOOLEAN,
             Start(c, d, cmd, defer)
      PROVE  FlagsOwned'
  <2> DEFINE j   == [dev |-> d, cmd |-> cmd, defer |-> defer, gen |-> gens[d][cmd.kind] + 1]
             off == IF PowerOff(cmd) THEN pendingOff \cup {d} ELSE pendingOff
  <2>1. j \in Jobs /\ off \in SUBSET Lamps
    <3>1. cmd.kind \in Kinds
      BY DEF Kinds
    <3> QED BY <3>1 DEF Jobs, DispatchTypeOK
  <2>2. /\ pc[c] = "idle" /\ job' = [job EXCEPT ![c] = j]
        /\ \/ Suspend(c, "ble", off) /\ NoSend /\ UNCHANGED <<lan, lockQ, view>>
           \/ TryLan(c, j, off)
    BY <1>2 DEF Start
  <2>3. Course(c, j, off)
    <3>1. CASE Suspend(c, "ble", off)
      BY <3>1 DEF Course, Moving, Pcs
    <3> QED BY <2>1, <2>2, <3>1, LanTierTypes
  <2>4. ~Active(c) /\ job'[c] = j /\ \A x \in Calls \ {c} : job'[x] = job[x]
    BY <2>2 DEF Active, DispatchTypeOK
  <2>5. ~Answered(c)
    BY <2>2 DEF WireHasJob
  <2>6. \A e \in off : \/ e \in deferredOff \/ (\E x \in Calls : PowerOffInFlight(x, e))
                       \/ e = j.dev /\ PowerOff(j.cmd) /\ ~Answered(c)
    BY <2>5 DEF FlagsOwned
  <2> HIDE DEF j, off
  <2> QED BY <1>1, <2>1, <2>3, <2>4, <2>6, CourseOwns DEF FlagsOwned
<1>3. ASSUME NEW c \in Calls, Resume(c) PROVE FlagsOwned'
  <2>1. /\ job[c] \in Jobs /\ job' = job /\ Course(c, job[c], pendingOff)
        /\ pendingOff \in SUBSET Lamps
    BY <1>3, ResumeTypes DEF DispatchTypeOK
  <2> QED BY <1>1, <2>1, CourseOwns DEF FlagsOwned
<1>4. CASE UNCHANGED <<calls, flags>>
  BY <1>4 DEF FlagsOwned, OffTask, PowerOffInFlight, Active, Answered, calls, flags
<1>5. ASSUME NEW d \in Lamps, CooldownElapses(d) \/ LatchExpires(d) \/ LanForgotten(d) PROVE FlagsOwned'
  BY <1>4, <1>5 DEF CooldownElapses, LatchExpires, LanForgotten
<1>6. ASSUME NEW c \in Calls, NEW t \in Transports, Arrives(c, t) PROVE FlagsOwned'
  BY <1>4, <1>6 DEF Arrives
<1>7. CASE UNCHANGED dispatchVars
  BY <1>4, <1>7 DEF dispatchVars
<1> QED BY <1>2, <1>3, <1>5, <1>6, <1>7 DEF DispatchNext, UserCommand, SegmentTurnOff, ChildPowerOn

\* For any number of devices and calls: a power-off flag that is set belongs to a
\* power-off that is still being dispatched, whatever path its call takes out of
\* the try block.
THEOREM NoFlagLeaks == DispatchSpec => []PowerOffFlagHasOwner
<1>1. DispatchInit => DispatchInv /\ FlagsOwned
  BY DispatchStarts DEF DispatchInit, FlagsOwned
<1>2. FlagsOwned => PowerOffFlagHasOwner
  BY DEF FlagsOwned, PowerOffFlagHasOwner, OffTask, PowerOffInFlight
<1> QED BY <1>1, <1>2, DispatchGoesOn, FlagsOwnedNext, PTL DEF DispatchSpec

\* For any number of devices and calls: however a call ends, it leaves no
\* power-off flag behind and reports failure only after REST was tried.
THEOREM CallsEnd == DispatchSpec => []CallsEndCleanly
BY DispatchCorrect, NoFlagLeaks, PTL DEF CallsEndCleanly
-----------------------------------------------------------------------------
(* The order of segment commands.                                           *)

Queueing == {"locked", "segment", "pacing"}
SegmentCall(c) == pc[c] # "idle" /\ job[c].cmd.kind = "segment"

\* The queue of a device's lock holds its segment commands that are not done,
\* each once, in the order they were made.
QueueInv ==
    /\ \A c \in Calls : SegmentCall(c) => pc[c] \in Queueing \cup {"done"}
    /\ \A c \in Calls : pc[c] \in Queueing =>
          /\ job[c].cmd.kind = "segment"
          /\ \E i \in DOMAIN lockQ[job[c].dev] : lockQ[job[c].dev][i] = c
    /\ \A d \in Lamps : \A i \in DOMAIN lockQ[d] : pc[lockQ[d][i]] \in Queueing /\ job[lockQ[d][i]].dev = d
    /\ \A d \in Lamps : \A i, k \in DOMAIN lockQ[d] : i < k => job[lockQ[d][i]].gen < job[lockQ[d][k]].gen
    /\ \A c \in Calls : SegmentCall(c) => job[c].gen <= gens[job[c].dev]["segment"]

\* A segment command is sent by the lock's holder alone, and over REST alone.
SentInv ==
    /\ \A c \in Calls : pc[c] \in {"idle", "locked"} => tried[c] = {} /\ wire[c] = {}
    /\ \A c \in Calls : pc[c] = "segment" => wire[c] \subseteq {"rest"}
    /\ \A c \in Calls : SegmentCall(c) /\ pc[c] \in {"pacing", "done"} => "rest" \in tried[c] /\ wire[c] = {}

SegmentInv == QueueInv /\ SentInv /\ SegmentsLandInOrder /\ SegmentViewIsNewest

\* What a call of another kind does: nothing to the queues, to the segments
\* shown or to any segment command.
Apart(c) ==
    /\ job'[c].cmd.kind # "segment" /\ pc'[c] \notin Queueing \cup {"idle"}
    /\ \A x \in Calls \ {c} : UNCHANGED <<pc[x], job[x], tried[x], wire[x]>>
    /\ UNCHANGED lockQ
    /\ \A d \in Lamps : "segment" \in DOMAIN Boot => view'[d]["segment"] = view[d]["segment"]
    /\ \A d \in Lamps : "segment" \in Kinds => gens'[d]["segment"] = gens[d]["segment"]

\* It keeps the order.
LEMMA ApartKeepsOrder ==
    ASSUME TypeInv, SegmentInv, NEW c \in Calls, Apart(c), ~SegmentCall(c)
    PROVE  SegmentInv'
<1> USE DEF Apart, TypeInv
<1>1. pc[c] \notin Queueing
  BY DEF SegmentInv, QueueInv, SegmentCall, Queueing
<1>2. ASSUME NEW x \in Calls, SegmentCall(x)'
      PROVE  /\ x # c /\ SegmentCall(x) /\ UNCHANGED <<pc[x], job[x], tried[x], wire[x]>>
             /\ job[x].dev \in Lamps
             /\ gens'[job[x].dev]["segment"] = gens[job[x].dev]["segment"]
             /\ view'[job[x].dev]["segment"] = view[job[x].dev]["segment"]
  <2>1. x # c /\ SegmentCall(x) /\ UNCHANGED <<pc[x], job[x], tried[x], wire[x]>>
    BY <1>2 DEF SegmentCall
  <2>2. job[x] \in Jobs /\ job[x].cmd.kind = "segment"
    BY <2>1 DEF SegmentCall, DispatchTypeOK
  <2>3. job[x].dev \in Lamps /\ "segment" \in Kinds /\ "segment" \in DOMAIN Boot
    BY <2>2, CommandsAssumption DEF Jobs, Kinds
  <2> QED BY <2>1, <2>3
<1>3. ASSUME NEW x \in Calls, pc'[x] \in Queueing \cup {"idle"}
      PROVE  x # c /\ UNCHANGED <<pc[x], job[x], tried[x], wire[x]>>
  BY <1>3
<1>4. ASSUME NEW d \in Lamps, NEW i \in DOMAIN lockQ[d]
      PROVE  lockQ[d][i] \in Calls \ {c}
  BY <1>1 DEF SegmentInv, QueueInv, DispatchTypeOK
<1>5. QueueInv'
  <2>1. \A x \in Calls : SegmentCall(x)' => pc'[x] \in Queueing \cup {"done"}
    BY <1>2 DEF SegmentInv, QueueInv
  <2>2. \A x \in Calls : pc'[x] \in Queueing =>
          /\ job'[x].cmd.kind = "segment"
          /\ \E i \in DOMAIN lockQ'[job'[x].dev] : lockQ'[job'[x].dev][i] = x
    BY <1>3 DEF SegmentInv, QueueInv
  <2>3. \A d \in Lamps : \A i \in DOMAIN lockQ'[d] : pc'[lockQ'[d][i]] \in Queueing /\ job'[lockQ'[d][i]].dev = d
    BY <1>4 DEF SegmentInv, QueueInv
  <2>4. \A d \in Lamps : \A i, k \in DOMAIN lockQ'[d] : i < k => job'[lockQ'[d][i]].gen < job'[lockQ'[d][k]].gen
    BY <1>4 DEF SegmentInv, QueueInv
  <2>5. \A x \in Calls : SegmentCall(x)' => job'[x].gen <= gens'[job'[x].dev]["segment"]
    BY <1>2 DEF SegmentInv, QueueInv
  <2> QED BY <2>1, <2>2, <2>3, <2>4, <2>5 DEF QueueInv
<1>6. SentInv'
  BY <1>2, <1>3 DEF SegmentInv, SentInv, Queueing
<1>7. SegmentsLandInOrder'
  BY <1>2 DEF SegmentInv, SegmentsLandInOrder, SegmentCall
<1>8. SegmentViewIsNewest'
  BY <1>2 DEF SegmentInv, SegmentViewIsNewest, SegmentCall
<1> QED BY <1>5, <1>6, <1>7, <1>8 DEF SegmentInv

\* Showing a command of another kind leaves the segments as they are shown.
LEMMA ShowApart ==
    ASSUME DispatchTypeOK, NEW e \in Lamps, NEW cmd \in Commands, cmd.kind # "segment", Show(e, cmd),
           "segment" \in DOMAIN Boot, NEW d \in Lamps
    PROVE  view'[d]["segment"] = view[d]["segment"]
<1>1. "segment" \notin Clears(cmd.kind)
  BY DEF Clears
<1> QED BY <1>1 DEF Show, DispatchTypeOK

\* A call of another kind stays apart in the tiers below BLE.
LEMMA TierApart ==
    ASSUME DispatchTypeOK, NEW c \in Calls, NEW j \in Jobs, NEW off \in SUBSET Lamps, j.cmd.kind # "segment",
           TryLan(c, j, off) \/ ToCloud(c, j, off)
    PROVE  /\ pc'[c] \notin Queueing \cup {"idle"} /\ UNCHANGED lockQ
           /\ \A x \in Calls \ {c} : UNCHANGED <<pc[x], tried[x], wire[x]>>
           /\ \A d \in Lamps : "segment" \in DOMAIN Boot => view'[d]["segment"] = view[d]["segment"]
<1>0. j.dev \in Lamps /\ j.cmd \in Commands
  BY DEF Jobs
<1>1. CASE ToCloud(c, j, off)
  BY <1>1 DEF DispatchTypeOK, ToCloud, ToRest, Suspend, Send, NoSend, Queueing
<1>2. CASE LanSent(c, j, off)
  <2>1. Send(c, "lan") /\ Show(j.dev, j.cmd) /\ UNCHANGED lockQ
    BY <1>2 DEF LanSent
  <2>2. pc'[c] \in {"done", "confirm"} /\ \A x \in Calls \ {c} : pc'[x] = pc[x]
    BY <1>2 DEF LanSent, Return, Suspend, Detach, DispatchTypeOK
  <2> QED BY <1>0, <2>1, <2>2, ShowApart DEF DispatchTypeOK, Send, Queueing
<1> QED BY <1>1, <1>2 DEF TryLan

\* So is every resumption of a call that is not queueing.
LEMMA ResumeApart ==
    ASSUME TypeInv, QueueInv, NEW c \in Calls, Resume(c), pc[c] \notin Queueing
    PROVE  Apart(c) /\ ~SegmentCall(c)
<1> USE DEF TypeInv, Queueing
<1>1. /\ pc[c] \notin {"idle", "done"} /\ job[c] \in Jobs /\ job' = job /\ gens' = gens
      /\ pendingOff \in SUBSET Lamps
  <2>1. pc[c] # "done"
    BY DEF Resume, BleWritten, BleFailed, LanConfirmed, LanUnconfirmed, MqttPublished,
                MqttRefused, RestReply, SegmentAcquires, SegmentReply, SegmentPaced, SegmentError
  <2> QED BY <2>1, ResumeTypes DEF DispatchTypeOK
<1>2. ~SegmentCall(c) /\ job[c].cmd.kind # "segment"
  BY <1>1 DEF QueueInv, SegmentCall
<1>3. job[c].dev \in Lamps /\ job[c].cmd \in Commands
  BY <1>1 DEF Jobs
<1>4. SUFFICES /\ pc'[c] \notin Queueing \cup {"idle"} /\ UNCHANGED lockQ
               /\ \A x \in Calls \ {c} : UNCHANGED <<pc[x], tried[x], wire[x]>>
               /\ \A d \in Lamps : "segment" \in DOMAIN Boot => view'[d]["segment"] = view[d]["segment"]
  BY <1>1, <1>2 DEF Apart
<1>5. CASE BleWritten(c)
  BY <1>2, <1>3, <1>5, ShowApart DEF BleWritten, Send, Return, DispatchTypeOK
<1>6. CASE BleFailed(c)
  BY <1>1, <1>2, <1>6, TierApart DEF BleFailed
<1>7. CASE LanConfirmed(c)
  <2>1. PICK overlaid \in {LanKinds, ColorKinds} :
          view' = [view EXCEPT ![job[c].dev] =
                    [k \in DOMAIN Boot |-> IF k \in overlaid THEN actual[job[c].dev][k] ELSE @[k]]]
    BY <1>7 DEF LanConfirmed
  <2>2. "segment" \notin overlaid
    BY DEF LanKinds, ColorKinds
  <2>3. \A d \in Lamps : "segment" \in DOMAIN Boot => view'[d]["segment"] = view[d]["segment"]
    BY <2>1, <2>2 DEF DispatchTypeOK
  <2> QED BY <1>7, <2>3 DEF LanConfirmed, NoSend, Return, DispatchTypeOK
<1>8. CASE LanUnconfirmed(c)
  <2>1. CASE Answered(c) /\ Superseded(c)
    BY <1>8, <2>1 DEF LanUnconfirmed, NoSend, Return, DispatchTypeOK
  <2>2. CASE ToCloud(c, job[c], pendingOff)
    BY <1>1, <1>2, <2>2, TierApart
  <2> QED BY <1>8, <2>1, <2>2 DEF LanUnconfirmed
<1>9. CASE MqttPublished(c)
  BY <1>2, <1>3, <1>9, ShowApart DEF MqttPublished, Send, Return, DispatchTypeOK
<1>10. CASE MqttRefused(c)
  BY <1>10 DEF MqttRefused, ToRest, Send, Suspend, DispatchTypeOK
<1>11. ASSUME NEW o \in {"ok", "error", "offline", "auth"}, RestReply(c, o)
       PROVE  /\ pc'[c] \notin Queueing \cup {"idle"} /\ UNCHANGED lockQ
              /\ \A x \in Calls \ {c} : UNCHANGED <<pc[x], tried[x], wire[x]>>
              /\ \A d \in Lamps : "segment" \in DOMAIN Boot => view'[d]["segment"] = view[d]["segment"]
  <2>1. \A d \in Lamps : "segment" \in DOMAIN Boot => view'[d]["segment"] = view[d]["segment"]
    <3>1. CASE o = "ok"
      BY <1>2, <1>3, <1>11, <3>1, ShowApart DEF RestReply
    <3>2. CASE o # "ok"
      BY <1>11, <3>2 DEF RestReply
    <3> QED BY <3>1, <3>2
  <2> QED BY <1>11, <2>1 DEF RestReply, Return, DispatchTypeOK
<1>12. ~SegmentAcquires(c) /\ ~SegmentReply(c) /\ (\A r \in {"true", "false"} : ~SegmentPaced(c, r))
       /\ \A o \in {"error", "offline", "auth"} : ~SegmentError(c, o)
  BY DEF SegmentAcquires, SegmentReply, SegmentPaced, SegmentError
<1> QED BY <1>5, <1>6, <1>7, <1>8, <1>9, <1>10, <1>11, <1>12 DEF Resume

\* The step of a queueing call: it is sent when it holds the lock, or it is
\* answered, or it leaves the lock to the next.
QueueStep(c) ==
    /\ pc[c] \in Queueing /\ UNCHANGED <<job, gens, view>>
    /\ \A x \in Calls \ {c} : UNCHANGED <<pc[x], tried[x], wire[x]>>
    /\ lockQ[job[c].dev] # <<>> /\ Head(lockQ[job[c].dev]) = c
    /\ \/ /\ pc[c] = "locked" /\ pc'[c] = "segment" /\ UNCHANGED lockQ
          /\ tried'[c] = tried[c] \cup {"rest"} /\ wire'[c] = wire[c] \cup {"rest"}
       \/ /\ pc[c] = "segment" /\ pc'[c] = "pacing" /\ UNCHANGED lockQ
          /\ tried'[c] = tried[c] /\ wire'[c] = wire[c] \ {"rest"}
       \/ /\ pc[c] \in {"segment", "pacing"} /\ pc'[c] = "done" /\ ReleaseLock(c)
          /\ tried'[c] = tried[c] /\ wire'[c] \in {wire[c] \ {"rest"}, IF pc[c] = "pacing" THEN wire[c] ELSE {}}

\* Every resumption of a queueing call is one.
LEMMA ResumeQueueing ==
    ASSUME TypeInv, NEW c \in Calls, Resume(c), pc[c] \in Queueing
    PROVE  QueueStep(c)
<1> USE DEF TypeInv, Queueing, QueueStep, DispatchTypeOK
<1>1. CASE SegmentAcquires(c)
  BY <1>1 DEF SegmentAcquires, Suspend, Send
<1>2. CASE SegmentReply(c)
  BY <1>2 DEF SegmentReply, Suspend, LockHolderIsHead
<1>3. CASE \E r \in {"true", "false"} : SegmentPaced(c, r)
  BY <1>3 DEF SegmentPaced, Return, NoSend, LockHolderIsHead
<1>4. CASE \E o \in {"error", "offline", "auth"} : SegmentError(c, o)
  BY <1>4 DEF SegmentError, Return, LockHolderIsHead
<1>5. ~(\/ BleWritten(c) \/ BleFailed(c) \/ LanConfirmed(c) \/ LanUnconfirmed(c)
        \/ MqttPublished(c) \/ MqttRefused(c)
        \/ \E o \in {"ok", "error", "offline", "auth"} : RestReply(c, o))
  BY DEF BleWritten, BleFailed, LanConfirmed, LanUnconfirmed, MqttPublished, MqttRefused, RestReply
<1> QED BY <1>1, <1>2, <1>3, <1>4, <1>5 DEF Resume

\* A queueing call's step keeps the queue.
LEMMA QueueStepKeepsQueue ==
    ASSUME TypeInv, QueueInv, NEW c \in Calls, QueueStep(c)
    PROVE  QueueInv'
<1> DEFINE e == job[c].dev
<1>1. /\ job[c] \in Jobs /\ e \in Lamps /\ lockQ[e] \in Seq(Calls) /\ SegmentCall(c)
      /\ lockQ[e] # <<>> /\ lockQ[e][1] = c
  BY DEF QueueStep, QueueInv, TypeInv, DispatchTypeOK, Jobs, Queueing, SegmentCall
<1>2. ASSUME NEW x \in Calls PROVE SegmentCall(x)' => SegmentCall(x) /\ UNCHANGED job[x]
  BY <1>1 DEF QueueStep, SegmentCall
<1>3. ASSUME NEW i \in DOMAIN lockQ[e], lockQ[e][i] = c PROVE i = 1
  <2>1. i \in Nat \ {0} /\ 1 \in DOMAIN lockQ[e] /\ job[c].gen \in Nat
    BY <1>1 DEF Jobs
  <2>2. ~(1 < i)
    BY <1>1, <1>3, <2>1 DEF QueueInv
  <2> QED BY <2>1, <2>2
<1>4. CASE pc'[c] \in Queueing /\ UNCHANGED lockQ
  <2>1. \A x \in Calls : (pc'[x] \in Queueing <=> pc[x] \in Queueing)
    BY <1>4 DEF QueueStep
  <2>2. \A x \in Calls : SegmentCall(x)' => pc'[x] \in Queueing \cup {"done"}
    BY <1>2, <1>4 DEF QueueInv, QueueStep
  <2>3. \A d \in Lamps : \A i \in DOMAIN lockQ[d] : lockQ[d][i] \in Calls
    BY DEF TypeInv, DispatchTypeOK
  <2>4. \A x \in Calls : pc'[x] \in Queueing =>
          /\ job'[x].cmd.kind = "segment"
          /\ \E i \in DOMAIN lockQ'[job'[x].dev] : lockQ'[job'[x].dev][i] = x
    BY <2>1, <1>4 DEF QueueInv, QueueStep
  <2>5. \A d \in Lamps : \A i \in DOMAIN lockQ'[d] : pc'[lockQ'[d][i]] \in Queueing /\ job'[lockQ'[d][i]].dev = d
    BY <2>1, <2>3, <1>4 DEF QueueInv, QueueStep
  <2>6. \A d \in Lamps : \A i, k \in DOMAIN lockQ'[d] : i < k => job'[lockQ'[d][i]].gen < job'[lockQ'[d][k]].gen
    BY <1>4 DEF QueueInv, QueueStep
  <2>7. \A x \in Calls : SegmentCall(x)' => job'[x].gen <= gens'[job'[x].dev]["segment"]
    BY <1>2 DEF QueueInv, QueueStep
  <2> QED BY <2>2, <2>4, <2>5, <2>6, <2>7 DEF QueueInv
<1>5. CASE pc'[c] = "done" /\ ReleaseLock(c)
  <2>1. /\ \A d \in Lamps \ {e} : lockQ'[d] = lockQ[d]
        /\ lockQ'[e] = Tail(lockQ[e])
    BY <1>1, <1>5 DEF ReleaseLock, TypeInv, DispatchTypeOK
  <2>2. /\ DOMAIN lockQ[e] = 1..Len(lockQ[e]) /\ Len(lockQ[e]) \in Nat \ {0}
        /\ DOMAIN lockQ'[e] = 1..(Len(lockQ[e]) - 1)
        /\ \A i \in DOMAIN lockQ'[e] : i + 1 \in DOMAIN lockQ[e] /\ lockQ'[e][i] = lockQ[e][i + 1]
    BY <1>1, <2>1
  <2>3. ASSUME NEW d \in Lamps, NEW i \in DOMAIN lockQ'[d]
        PROVE  /\ lockQ'[d][i] \in Calls \ {c} /\ pc[lockQ'[d][i]] \in Queueing
               /\ job[lockQ'[d][i]].dev = d
    <3>1. CASE d = e
      <4>1. i + 1 \in DOMAIN lockQ[e] /\ lockQ'[d][i] = lockQ[e][i + 1] /\ i \in Nat \ {0}
        BY <2>2, <2>3, <3>1
      <4>2. lockQ[e][i + 1] # c
        BY <1>3, <4>1
      <4> QED BY <1>1, <3>1, <4>1, <4>2 DEF QueueInv
    <3>2. CASE d # e
      <4>1. lockQ'[d] = lockQ[d] /\ lockQ[d] \in Seq(Calls)
        BY <2>1, <3>2 DEF TypeInv, DispatchTypeOK
      <4> QED BY <2>3, <3>2, <4>1 DEF QueueInv
    <3> QED BY <3>1, <3>2
  <2>4. \A x \in Calls : SegmentCall(x)' => pc'[x] \in Queueing \cup {"done"}
    BY <1>2, <1>5 DEF QueueInv, QueueStep
  <2>5. ASSUME NEW x \in Calls, pc'[x] \in Queueing
        PROVE  /\ job'[x].cmd.kind = "segment"
               /\ \E i \in DOMAIN lockQ'[job'[x].dev] : lockQ'[job'[x].dev][i] = x
    <3>1. x # c /\ pc[x] \in Queueing /\ job' = job
      BY <1>5, <2>5 DEF QueueStep, Queueing
    <3>2. job[x].dev \in Lamps
      BY <3>1 DEF TypeInv, DispatchTypeOK, Jobs, Queueing
    <3>3. PICK i \in DOMAIN lockQ[job[x].dev] : lockQ[job[x].dev][i] = x
      BY <3>1 DEF QueueInv
    <3>4. CASE job[x].dev = e
      <4>1. i # 1 /\ i \in 1..Len(lockQ[e])
        BY <1>1, <2>2, <3>1, <3>3, <3>4
      <4>2. i - 1 \in DOMAIN lockQ'[e] /\ (i - 1) + 1 = i
        BY <2>2, <4>1
      <4>3. lockQ'[e][i - 1] = x
        BY <2>2, <3>3, <3>4, <4>2
      <4> QED BY <3>1, <3>4, <4>2, <4>3 DEF QueueInv
    <3>5. CASE job[x].dev # e
      BY <2>1, <3>1, <3>2, <3>3, <3>5 DEF QueueInv
    <3> QED BY <3>4, <3>5
  <2>6. \A d \in Lamps : \A i \in DOMAIN lockQ'[d] : pc'[lockQ'[d][i]] \in Queueing /\ job'[lockQ'[d][i]].dev = d
    BY <2>3 DEF QueueStep
  <2>7. ASSUME NEW d \in Lamps, NEW i \in DOMAIN lockQ'[d], NEW k \in DOMAIN lockQ'[d], i < k
        PROVE  job'[lockQ'[d][i]].gen < job'[lockQ'[d][k]].gen
    <3>1. CASE d = e
      <4>1. i + 1 \in DOMAIN lockQ[e] /\ k + 1 \in DOMAIN lockQ[e] /\ i + 1 < k + 1
        BY <2>2, <2>7, <3>1
      <4>2. job[lockQ[e][i + 1]].gen < job[lockQ[e][k + 1]].gen
        BY <1>1, <4>1 DEF QueueInv
      <4> QED BY <2>2, <2>7, <3>1, <4>2 DEF QueueStep
    <3>2. CASE d # e
      BY <2>1, <2>7, <3>2 DEF QueueInv, QueueStep
    <3> QED BY <3>1, <3>2
  <2>8. \A x \in Calls : SegmentCall(x)' => job'[x].gen <= gens'[job'[x].dev]["segment"]
    BY <1>2 DEF QueueInv, QueueStep
  <2> QED BY <2>4, <2>5, <2>6, <2>7, <2>8 DEF QueueInv
<1> QED BY <1>4, <1>5 DEF QueueStep, Queueing

\* A queueing call's step keeps the order of what was sent.
LEMMA QueueStepKeepsOrder ==
    ASSUME TypeInv, RestLogged, SegmentInv, NEW c \in Calls, QueueStep(c)
    PROVE  SegmentInv'
<1> USE DEF SegmentInv
<1>1. QueueInv'
  BY QueueStepKeepsQueue
<1>2. ASSUME NEW x \in Calls PROVE SegmentCall(x)' => SegmentCall(x) /\ UNCHANGED job[x]
  BY DEF QueueStep, SegmentCall, Queueing
<1>3. job[c].cmd.kind = "segment" /\ SegmentCall(c)
  BY DEF QueueInv, QueueStep, SegmentCall, Queueing
<1>4. SentInv'
  BY <1>2, <1>3 DEF SentInv, QueueStep, RestLogged, SegmentCall, Queueing
<1>5. SegmentsLandInOrder'
  <2> SUFFICES ASSUME NEW c1 \in Calls, NEW c2 \in Calls, SegmentCall(c1)', SegmentCall(c2)',
                      job'[c1].dev = job'[c2].dev, job'[c1].gen < job'[c2].gen, "rest" \in tried'[c2]
               PROVE  "rest" \in tried'[c1] /\ wire'[c1] = {}
    BY DEF SegmentsLandInOrder, SegmentCall
  <2>1. SegmentCall(c1) /\ SegmentCall(c2) /\ job' = job /\ job[c1] \in Jobs /\ job[c2] \in Jobs
    BY <1>2 DEF QueueStep, SegmentCall, TypeInv, DispatchTypeOK
  <2>2. c1 # c2
    BY <2>1 DEF Jobs
  <2>3. CASE "rest" \in tried[c2]
    <3>1. "rest" \in tried[c1] /\ wire[c1] = {}
      BY <2>1, <2>3 DEF SegmentsLandInOrder, SegmentCall
    <3> QED BY <2>1, <3>1 DEF QueueStep, SentInv
  <2>4. CASE "rest" \notin tried[c2]
    <3>1. c2 = c /\ pc[c] = "locked"
      BY <2>4 DEF QueueStep
    <3>2. pc[c1] \notin Queueing
      <4> SUFFICES ASSUME pc[c1] \in Queueing PROVE FALSE
        OBVIOUS
      <4>1. PICK i \in DOMAIN lockQ[job[c1].dev] : lockQ[job[c1].dev][i] = c1
        BY DEF QueueInv
      <4>2. /\ job[c].dev \in Lamps /\ lockQ[job[c].dev] \in Seq(Calls) /\ job[c1].dev = job[c].dev
            /\ lockQ[job[c].dev] # <<>> /\ lockQ[job[c].dev][1] = c
        BY <2>1, <3>1 DEF TypeInv, DispatchTypeOK, Jobs, QueueStep
      <4>3. 1 \in DOMAIN lockQ[job[c].dev] /\ i \in Nat \ {0}
        BY <4>1, <4>2
      <4>4. i # 1
        BY <2>2, <3>1, <4>1, <4>2
      <4>5. job[c].gen < job[c1].gen
        BY <4>1, <4>2, <4>3, <4>4 DEF QueueInv
      <4> QED BY <2>1, <3>1, <4>5 DEF Jobs
    <3>3. pc[c1] = "done"
      BY <2>1, <3>2 DEF QueueInv
    <3> QED BY <2>1, <2>2, <3>1, <3>3 DEF SentInv, QueueStep
  <2> QED BY <2>3, <2>4
<1>6. SegmentViewIsNewest'
  BY <1>2 DEF SegmentViewIsNewest, QueueStep, SegmentCall
<1> QED BY <1>1, <1>4, <1>5, <1>6

\* A segment command is made with the newest generation, shown, and put last in
\* the queue.
LEMMA SegmentStarts ==
    ASSUME TypeInv, SegmentInv, NEW c \in Calls, NEW d \in Lamps, NEW cmd \in Commands,
           NEW defer \in BOOLEAN, Start(c, d, cmd, defer), cmd.kind = "segment"
    PROVE  SegmentInv'
<1> DEFINE j   == [dev |-> d, cmd |-> cmd, defer |-> defer, gen |-> gens[d][cmd.kind] + 1]
           off == IF PowerOff(cmd) THEN pendingOff \cup {d} ELSE pendingOff
<1> USE DEF TypeInv, SegmentInv
<1>1. "segment" \in Kinds /\ "segment" \in DOMAIN Boot /\ gens[d]["segment"] \in Nat
  <2>1. "segment" \in Kinds
    BY DEF Kinds
  <2> QED BY <2>1, CommandsAssumption DEF DispatchTypeOK
<1>2. /\ pc[c] = "idle"
      /\ job' = [job EXCEPT ![c] = j]
      /\ gens' = [gens EXCEPT ![d]["segment"] = @ + 1]
      /\ Suspend(c, "locked", off) /\ NoSend /\ Show(d, cmd)
      /\ lockQ' = [lockQ EXCEPT ![d] = Append(@, c)]
  <2>1. TryLan(c, j, off) /\ pc[c] = "idle" /\ job' = [job EXCEPT ![c] = j]
        /\ gens' = [gens EXCEPT ![d]["segment"] = @ + 1]
    BY DEF Start, NativeKinds
  <2>2. ToCloud(c, j, off)
    BY <2>1 DEF TryLan, LanKinds
  <2> QED BY <2>1, <2>2 DEF ToCloud
<1>3. /\ pc'[c] = "locked" /\ job'[c].dev = d /\ job'[c].cmd = cmd /\ job'[c].gen = gens[d]["segment"] + 1
      /\ \A x \in Calls \ {c} : UNCHANGED <<pc[x], job[x]>>
      /\ UNCHANGED <<tried, wire>>
  BY <1>2 DEF Suspend, NoSend, DispatchTypeOK
<1>4. ASSUME NEW x \in Calls, x # c
      PROVE  SegmentCall(x)' => SegmentCall(x) /\ job[x] \in Jobs /\ job[x].dev \in Lamps
                /\ job[x].gen <= gens[job[x].dev]["segment"] /\ job[x].gen \in Nat
  BY <1>3, <1>4 DEF SegmentCall, DispatchTypeOK, Jobs, QueueInv
<1>5. /\ \A e \in Lamps \ {d} : gens'[e]["segment"] = gens[e]["segment"] /\ lockQ'[e] = lockQ[e] /\ view'[e] = view[e]
      /\ gens'[d]["segment"] = gens[d]["segment"] + 1
      /\ lockQ'[d] = Append(lockQ[d], c)
      /\ view'[d]["segment"] = cmd.value
  BY <1>1, <1>2 DEF DispatchTypeOK, Show
<1>6. /\ lockQ[d] \in Seq(Calls) /\ DOMAIN lockQ[d] = 1..Len(lockQ[d]) /\ Len(lockQ[d]) \in Nat
      /\ DOMAIN lockQ'[d] = 1..(Len(lockQ[d]) + 1)
      /\ lockQ'[d][Len(lockQ[d]) + 1] = c
      /\ \A i \in 1..Len(lockQ[d]) : lockQ'[d][i] = lockQ[d][i]
  BY <1>5 DEF DispatchTypeOK
<1>7. ASSUME NEW e \in Lamps, NEW i \in DOMAIN lockQ[e]
      PROVE  /\ lockQ[e][i] \in Calls \ {c} /\ lockQ'[e][i] = lockQ[e][i] /\ i \in DOMAIN lockQ'[e]
             /\ pc[lockQ[e][i]] \in Queueing /\ job[lockQ[e][i]].dev = e
             /\ job[lockQ[e][i]].gen <= gens[e]["segment"]
  <2>1. lockQ[e][i] \in Calls /\ pc[lockQ[e][i]] \in Queueing /\ job[lockQ[e][i]].dev = e
    BY DEF QueueInv, DispatchTypeOK
  <2>2. lockQ[e][i] # c
    BY <1>2, <2>1 DEF Queueing
  <2>3. job[lockQ[e][i]].gen <= gens[e]["segment"]
    BY <2>1 DEF QueueInv, SegmentCall, Queueing
  <2>4. lockQ'[e][i] = lockQ[e][i] /\ i \in DOMAIN lockQ'[e]
    <3>1. CASE e = d
      BY <1>6, <3>1
    <3>2. CASE e # d
      BY <1>5, <3>2
    <3> QED BY <3>1, <3>2
  <2> QED BY <2>1, <2>2, <2>3, <2>4
<1>8. ASSUME NEW e \in Lamps, NEW i \in DOMAIN lockQ'[e]
      PROVE  i \in DOMAIN lockQ[e] \/ (e = d /\ i = Len(lockQ[d]) + 1 /\ lockQ'[e][i] = c)
  <2>1. CASE e = d
    BY <1>6, <1>8, <2>1
  <2>2. CASE e # d
    BY <1>5, <1>8, <2>2
  <2> QED BY <2>1, <2>2
<1>9. QueueInv'
  <2>1. \A x \in Calls : SegmentCall(x)' => pc'[x] \in Queueing \cup {"done"}
    BY <1>3, <1>4 DEF QueueInv, Queueing
  <2>2. ASSUME NEW x \in Calls, pc'[x] \in Queueing
        PROVE  /\ job'[x].cmd.kind = "segment"
               /\ \E i \in DOMAIN lockQ'[job'[x].dev] : lockQ'[job'[x].dev][i] = x
    <3>1. CASE x = c
      <4>1. Len(lockQ[d]) + 1 \in DOMAIN lockQ'[d]
        BY <1>6
      <4> QED BY <1>3, <1>6, <3>1, <4>1
    <3>2. CASE x # c
      <4>1. pc[x] \in Queueing /\ job'[x] = job[x] /\ job[x].dev \in Lamps /\ job[x].cmd.kind = "segment"
        BY <1>3, <2>2, <3>2 DEF DispatchTypeOK, Jobs, Queueing, QueueInv
      <4>2. PICK i \in DOMAIN lockQ[job[x].dev] : lockQ[job[x].dev][i] = x
        BY <4>1 DEF QueueInv
      <4> QED BY <1>7, <4>1, <4>2
    <3> QED BY <3>1, <3>2
  <2>3. ASSUME NEW e \in Lamps, NEW i \in DOMAIN lockQ'[e]
        PROVE  pc'[lockQ'[e][i]] \in Queueing /\ job'[lockQ'[e][i]].dev = e
    <3>1. CASE i \in DOMAIN lockQ[e]
      BY <1>3, <1>7, <3>1
    <3>2. CASE e = d /\ lockQ'[e][i] = c
      BY <1>3, <3>2 DEF Queueing
    <3> QED BY <1>8, <3>1, <3>2
  <2>4. ASSUME NEW e \in Lamps, NEW i \in DOMAIN lockQ'[e], NEW k \in DOMAIN lockQ'[e], i < k
        PROVE  job'[lockQ'[e][i]].gen < job'[lockQ'[e][k]].gen
    <3>1. i \in DOMAIN lockQ[e]
      <4>1. CASE e = d
        BY <1>6, <2>4, <4>1
      <4>2. CASE e # d
        BY <1>5, <2>4, <4>2
      <4> QED BY <4>1, <4>2
    <3>2. /\ lockQ[e][i] \in Calls \ {c} /\ lockQ'[e][i] = lockQ[e][i]
          /\ job'[lockQ'[e][i]] = job[lockQ[e][i]] /\ job[lockQ[e][i]].gen \in Nat
          /\ job[lockQ[e][i]].gen <= gens[e]["segment"]
      <4>1. lockQ[e][i] \in Calls \ {c} /\ lockQ'[e][i] = lockQ[e][i] /\ pc[lockQ[e][i]] # "idle"
            /\ job[lockQ[e][i]].gen <= gens[e]["segment"]
        BY <1>7, <3>1 DEF Queueing
      <4>2. job[lockQ[e][i]] \in Jobs
        BY <4>1 DEF DispatchTypeOK
      <4> QED BY <1>3, <4>1, <4>2 DEF Jobs
    <3>3. CASE k \in DOMAIN lockQ[e]
      <4>1. job[lockQ[e][i]].gen < job[lockQ[e][k]].gen
        BY <2>4, <3>1, <3>3 DEF QueueInv
      <4> QED BY <1>3, <1>7, <3>2, <3>3, <4>1
    <3>4. CASE e = d /\ lockQ'[e][k] = c
      BY <1>1, <1>3, <3>2, <3>4
    <3> QED BY <1>8, <3>3, <3>4
  <2>5. ASSUME NEW x \in Calls, SegmentCall(x)' PROVE job'[x].gen <= gens'[job'[x].dev]["segment"]
    <3>1. CASE x = c
      BY <1>1, <1>3, <1>5, <3>1
    <3>2. CASE x # c
      <4>1. job'[x] = job[x] /\ job[x].dev \in Lamps /\ job[x].gen \in Nat /\ job[x].gen <= gens[job[x].dev]["segment"]
        BY <1>3, <1>4, <2>5, <3>2
      <4>2. gens'[job[x].dev]["segment"] \in {gens[job[x].dev]["segment"], gens[job[x].dev]["segment"] + 1}
            /\ gens[job[x].dev]["segment"] \in Nat
        BY <1>1, <1>5, <4>1 DEF DispatchTypeOK
      <4> QED BY <4>1, <4>2
    <3> QED BY <3>1, <3>2
  <2> QED BY <2>1, <2>2, <2>3, <2>4, <2>5 DEF QueueInv
<1>10. SentInv'
  <2>1. \A x \in Calls : pc'[x] \in {"idle", "locked"} => tried'[x] = {} /\ wire'[x] = {}
    BY <1>2, <1>3 DEF SentInv
  <2>2. \A x \in Calls : pc'[x] = "segment" => wire'[x] \subseteq {"rest"}
    BY <1>3 DEF SentInv
  <2>3. ASSUME NEW x \in Calls, SegmentCall(x)', pc'[x] \in {"pacing", "done"}
        PROVE  "rest" \in tried'[x] /\ wire'[x] = {}
    <3>1. x # c /\ SegmentCall(x) /\ pc'[x] = pc[x]
      BY <1>3, <1>4, <2>3
    <3> QED BY <1>3, <2>3, <3>1 DEF SentInv
  <2> QED BY <2>1, <2>2, <2>3 DEF SentInv
<1>11. SegmentsLandInOrder'
  <2> SUFFICES ASSUME NEW c1 \in Calls, NEW c2 \in Calls, SegmentCall(c1)', SegmentCall(c2)',
                      job'[c1].dev = job'[c2].dev, job'[c1].gen < job'[c2].gen, "rest" \in tried'[c2]
               PROVE  "rest" \in tried'[c1] /\ wire'[c1] = {}
    BY DEF SegmentsLandInOrder, SegmentCall
  <2>1. c2 # c
    BY <1>2, <1>3 DEF SentInv
  <2>2. c1 # c
    <3>1. job'[c2] = job[c2] /\ job[c2].gen \in Nat /\ (job[c2].dev = d => job[c2].gen <= gens[d]["segment"])
      BY <1>3, <1>4, <2>1
    <3> QED BY <1>1, <1>3, <3>1
  <2> QED BY <1>3, <1>4, <2>1, <2>2 DEF SegmentsLandInOrder, SegmentCall
<1>12. SegmentViewIsNewest'
  <2> SUFFICES ASSUME NEW x \in Calls, SegmentCall(x)', job'[x].gen = gens'[job'[x].dev]["segment"]
               PROVE  view'[job'[x].dev]["segment"] = job'[x].cmd.value
    BY DEF SegmentViewIsNewest, SegmentCall
  <2>1. CASE x = c
    BY <1>3, <1>5, <2>1
  <2>2. CASE x # c
    <3>1. SegmentCall(x) /\ job'[x] = job[x] /\ job[x].dev \in Lamps /\ job[x].gen \in Nat
          /\ job[x].gen <= gens[job[x].dev]["segment"]
      BY <1>3, <1>4, <2>2
    <3>2. job[x].dev # d
      BY <1>1, <1>5, <3>1
    <3> QED BY <1>5, <3>1, <3>2 DEF SegmentViewIsNewest, SegmentCall
  <2> QED BY <2>1, <2>2
<1> QED BY <1>9, <1>10, <1>11, <1>12

\* SegmentInv is inductive, given the types and the lock's holder.
LEMMA SegmentInvNext == DispatchInv /\ SegmentInv /\ [DispatchNext]_dispatchVars => SegmentInv'
<1> SUFFICES ASSUME DispatchInv, SegmentInv, [DispatchNext]_dispatchVars PROVE SegmentInv'
  OBVIOUS
<1> USE DEF DispatchInv
<1>1. ASSUME NEW c \in Calls, NEW d \in Lamps, NEW cmd \in Commands, NEW defer \in BOOLEAN,
             Start(c, d, cmd, defer)
      PROVE  SegmentInv'
  <2>1. CASE cmd.kind = "segment"
    BY <1>1, <2>1, SegmentStarts
  <2>2. CASE cmd.kind # "segment"
    <3> DEFINE j   == [dev |-> d, cmd |-> cmd, defer |-> defer, gen |-> gens[d][cmd.kind] + 1]
               off == IF PowerOff(cmd) THEN pendingOff \cup {d} ELSE pendingOff
    <3>1. j \in Jobs /\ off \in SUBSET Lamps /\ j.cmd.kind # "segment"
      <4>1. cmd.kind \in Kinds
        BY DEF Kinds
      <4> QED BY <2>2, <4>1 DEF Jobs, TypeInv, DispatchTypeOK
    <3>2. /\ pc[c] = "idle" /\ job' = [job EXCEPT ![c] = j]
          /\ gens' = [gens EXCEPT ![d][cmd.kind] = @ + 1]
          /\ \/ Suspend(c, "ble", off) /\ NoSend /\ UNCHANGED <<lan, lockQ, view>>
             \/ TryLan(c, j, off)
      BY <1>1 DEF Start
    <3> HIDE DEF j, off
    <3>3. /\ pc'[c] \notin Queueing \cup {"idle"} /\ UNCHANGED lockQ
          /\ \A x \in Calls \ {c} : UNCHANGED <<pc[x], tried[x], wire[x]>>
          /\ \A e \in Lamps : "segment" \in DOMAIN Boot => view'[e]["segment"] = view[e]["segment"]
      <4>1. CASE Suspend(c, "ble", off) /\ NoSend /\ UNCHANGED <<lan, lockQ, view>>
        BY <4>1 DEF Suspend, NoSend, Queueing, TypeInv, DispatchTypeOK
      <4>2. CASE TryLan(c, j, off)
        BY <3>1, <4>2, TierApart DEF TypeInv
      <4> QED BY <3>2, <4>1, <4>2
    <3>4. \A e \in Lamps : "segment" \in Kinds => gens'[e]["segment"] = gens[e]["segment"]
      BY <2>2, <3>2 DEF TypeInv, DispatchTypeOK
    <3>5. job'[c] = j /\ \A x \in Calls \ {c} : UNCHANGED job[x]
      BY <3>2 DEF TypeInv, DispatchTypeOK
    <3>6. Apart(c) /\ ~SegmentCall(c)
      BY <3>1, <3>2, <3>3, <3>4, <3>5 DEF Apart, SegmentCall
    <3> QED BY <3>6, ApartKeepsOrder
  <2> QED BY <2>1, <2>2
<1>2. ASSUME NEW c \in Calls, Resume(c) PROVE SegmentInv'
  <2>1. CASE pc[c] \in Queueing
    BY <1>2, <2>1, ResumeQueueing, QueueStepKeepsOrder
  <2>2. CASE pc[c] \notin Queueing
    BY <1>2, <2>2, ResumeApart, ApartKeepsOrder DEF SegmentInv
  <2> QED BY <2>1, <2>2
<1>3. CASE UNCHANGED <<calls, gens, lockQ, view>> /\ \A c \in Calls : wire'[c] \subseteq wire[c]
  BY <1>3 DEF SegmentInv, QueueInv, SentInv, SegmentsLandInOrder, SegmentViewIsNewest, SegmentCall, calls
<1>4. ASSUME NEW d \in Lamps, CooldownElapses(d) \/ LatchExpires(d) \/ LanForgotten(d) PROVE SegmentInv'
  BY <1>3, <1>4 DEF CooldownElapses, LatchExpires, LanForgotten
<1>5. ASSUME NEW c \in Calls, NEW t \in Transports, Arrives(c, t) PROVE SegmentInv'
  BY <1>3, <1>5 DEF Arrives, TypeInv, DispatchTypeOK
<1>6. CASE UNCHANGED dispatchVars
  BY <1>3, <1>6 DEF dispatchVars
<1> QED BY <1>1, <1>2, <1>4, <1>5, <1>6 DEF DispatchNext, UserCommand, SegmentTurnOff, ChildPowerOn

\* For any number of devices and calls: a device's segment lock has one holder,
\* segment commands reach the device in the order they were made, and the colour
\* shown is the one asked for last.
THEOREM SegmentsInOrder == DispatchSpec => []SegmentsKeepOrder
<1>1. DispatchInit => DispatchInv /\ SegmentInv
  <2> SUFFICES ASSUME DispatchInit PROVE SegmentInv
    BY DispatchStarts
  <2>1. \A d \in Lamps : DOMAIN lockQ[d] = {}
    BY DEF DispatchInit
  <2> QED BY <2>1 DEF DispatchInit, SegmentInv, QueueInv, SentInv, SegmentsLandInOrder, SegmentViewIsNewest,
                      SegmentCall, Queueing
<1>2. DispatchInv /\ SegmentInv => SegmentsKeepOrder
  BY DEF DispatchInv, TypeInv, SegmentInv, SegmentsKeepOrder
<1> QED BY <1>1, <1>2, DispatchGoesOn, SegmentInvNext, PTL DEF DispatchSpec
-----------------------------------------------------------------------------
(* What the misses and a newer command hold back.                           *)

\* A streak as long as the threshold has a cooldown, running or elapsed.
StreakInv == \A d \in Lamps : cooldown[d] = "none" => misses[d] < Threshold

\* How a step may change the miss counters, at most one device's.
MissesCounted == UNCHANGED lan \/ \E d \in Lamps : SuppressionOver(d) \/ ClearMisses(d) \/ NoteMiss(d)

\* A LAN write leaves only past the gate.
PastGate(c, d) == "lan" \in tried'[c] \ tried[c] => SuppressionOver(d)

\* Counting keeps StreakInv.
LEMMA CountedKeepsStreak ==
    ASSUME DispatchTypeOK, StreakInv, MissesCounted
    PROVE  StreakInv'
<1>1. CASE UNCHANGED lan
  BY <1>1 DEF StreakInv, lan
<1>2. ASSUME NEW d \in Lamps, ClearMisses(d) PROVE StreakInv'
  BY <1>2, NumbersAssumption DEF StreakInv, ClearMisses, DispatchTypeOK
<1>3. ASSUME NEW d \in Lamps, NoteMiss(d) PROVE StreakInv'
  BY <1>3, NumbersAssumption DEF StreakInv, NoteMiss, DispatchTypeOK
<1>4. ASSUME NEW d \in Lamps, SuppressionOver(d) PROVE StreakInv'
  BY <1>1, <1>2, <1>4 DEF SuppressionOver
<1> QED BY <1>1, <1>2, <1>3, <1>4 DEF MissesCounted

\* Below the LAN tier nothing is sent over LAN.
LEMMA CloudSendsNoLan ==
    ASSUME DispatchTypeOK, NEW c \in Calls, NEW j \in Jobs, NEW off \in SUBSET Lamps, ToCloud(c, j, off)
    PROVE  \A x \in Calls : "lan" \in tried'[x] => "lan" \in tried[x]
<1>1. NoSend \/ Send(c, "rest")
  BY DEF ToCloud, ToRest
<1>2. CASE NoSend
  BY <1>2 DEF NoSend
<1>3. CASE Send(c, "rest")
  <2>1. \A x \in Calls : tried'[x] \subseteq tried[x] \cup {"rest"}
    BY <1>3 DEF Send, DispatchTypeOK
  <2> QED BY <2>1
<1> QED BY <1>1, <1>2, <1>3

\* The LAN tier counts, and sends past its gate.
LEMMA TierGate ==
    ASSUME DispatchTypeOK, NEW c \in Calls, NEW j \in Jobs, NEW off \in SUBSET Lamps, TryLan(c, j, off)
    PROVE  /\ MissesCounted /\ PastGate(c, j.dev)
           /\ \A x \in Calls \ {c} : tried'[x] = tried[x]
<1>1. j.dev \in Lamps
  BY DEF Jobs
<1>2. CASE UNCHANGED lan /\ ToCloud(c, j, off)
  BY <1>2, CloudSendsNoLan, TierFrame DEF MissesCounted, PastGate, Frame
<1>3. CASE SuppressionOver(j.dev) /\ (ToCloud(c, j, off) \/ LanSent(c, j, off))
  BY <1>1, <1>3, TierFrame DEF MissesCounted, PastGate, Frame
<1> QED BY <1>2, <1>3 DEF TryLan

\* Every resumption of a call counts, and only a call whose BLE write failed may
\* be sent over LAN.
LEMMA ResumeGate ==
    ASSUME TypeInv, RestLogged, NEW c \in Calls, Resume(c)
    PROVE  /\ MissesCounted /\ PastGate(c, job[c].dev)
           /\ \A x \in Calls \ {c} : tried'[x] = tried[x]
<1> USE DEF TypeInv
<1>1. /\ job[c] \in Jobs /\ job[c].dev \in Lamps /\ pendingOff \in SUBSET Lamps
      /\ \A x \in Calls \ {c} : tried'[x] = tried[x]
  BY ResumeTypes, ResumeFrame DEF Frame, DispatchTypeOK, Jobs
<1>2. CASE BleFailed(c)
  BY <1>1, <1>2, TierGate DEF BleFailed
<1>3. CASE LanConfirmed(c)
  BY <1>1, <1>3 DEF LanConfirmed, NoSend, MissesCounted, PastGate
<1>4. CASE LanUnconfirmed(c)
  <2>1. MissesCounted
    BY <1>1, <1>4 DEF LanUnconfirmed, MissesCounted
  <2>2. CASE NoSend
    BY <1>1, <2>1, <2>2 DEF NoSend, PastGate
  <2>3. CASE ToCloud(c, job[c], pendingOff)
    BY <1>1, <2>1, <2>3, CloudSendsNoLan DEF PastGate
  <2> QED BY <1>4, <2>2, <2>3 DEF LanUnconfirmed
<1>5. CASE BleWritten(c) \/ MqttPublished(c) \/ MqttRefused(c) \/ SegmentAcquires(c) \/ SegmentReply(c)
  BY <1>1, <1>5 DEF BleWritten, MqttPublished, MqttRefused, ToRest, SegmentAcquires, SegmentReply, Send,
                    MissesCounted, PastGate, DispatchTypeOK
<1>6. CASE \/ \E o \in {"ok", "error", "offline", "auth"} : RestReply(c, o)
           \/ \E r \in {"true", "false"} : SegmentPaced(c, r)
           \/ \E o \in {"error", "offline", "auth"} : SegmentError(c, o)
  BY <1>1, <1>6 DEF RestReply, SegmentPaced, SegmentError, NoSend, MissesCounted, PastGate
<1> QED BY <1>2, <1>3, <1>4, <1>5, <1>6 DEF Resume

\* What a step may do to the streaks and to a deferred call.
StreakStep ==
    /\ StreakInv'
    /\ \A c \in Calls : "lan" \in tried'[c] \ tried[c] =>
          misses[job'[c].dev] < Threshold \/ cooldown[job'[c].dev] = "over"
    /\ \A c \in Calls : pc[c] = "confirm" /\ Answered(c) /\ Superseded(c) => pc'[c] \in {"confirm", "done"}

\* Every step is one of those.
LEMMA StreakNext == DispatchInv /\ StreakInv /\ [DispatchNext]_dispatchVars => StreakStep
<1> SUFFICES ASSUME DispatchInv, StreakInv, [DispatchNext]_dispatchVars PROVE StreakStep
  OBVIOUS
<1> USE DEF DispatchInv, TypeInv
<1>1. ASSUME NEW c \in Calls, NEW d \in Lamps, PastGate(c, d), job'[c].dev = d, "lan" \in tried'[c] \ tried[c]
      PROVE  misses[job'[c].dev] < Threshold \/ cooldown[job'[c].dev] = "over"
  BY <1>1 DEF PastGate, SuppressionOver, StreakInv, DispatchTypeOK
<1>2. ASSUME NEW c \in Calls, NEW d \in Lamps, NEW cmd \in Commands, NEW defer \in BOOLEAN,
             Start(c, d, cmd, defer)
      PROVE  StreakStep
  <2> DEFINE j   == [dev |-> d, cmd |-> cmd, defer |-> defer, gen |-> gens[d][cmd.kind] + 1]
             off == IF PowerOff(cmd) THEN pendingOff \cup {d} ELSE pendingOff
  <2>1. j \in Jobs /\ off \in SUBSET Lamps /\ j.dev = d
    <3>1. cmd.kind \in Kinds
      BY DEF Kinds
    <3> QED BY <3>1 DEF Jobs, DispatchTypeOK
  <2>2. /\ pc[c] = "idle" /\ job' = [job EXCEPT ![c] = j]
        /\ \/ Suspend(c, "ble", off) /\ NoSend /\ UNCHANGED <<lan, lockQ, view>>
           \/ TryLan(c, j, off)
    BY <1>2 DEF Start
  <2> HIDE DEF j, off
  <2>3. /\ MissesCounted /\ PastGate(c, d) /\ \A x \in Calls \ {c} : tried'[x] = tried[x] /\ pc'[x] = pc[x]
    <3>1. CASE Suspend(c, "ble", off) /\ NoSend /\ UNCHANGED <<lan, lockQ, view>>
      BY <3>1 DEF MissesCounted, PastGate, NoSend, Suspend, DispatchTypeOK
    <3>2. CASE TryLan(c, j, off)
      BY <2>1, <3>2, TierGate, LanTierTypes, CourseTypes
    <3> QED BY <2>2, <3>1, <3>2
  <2>4. job'[c].dev = d
    BY <2>1, <2>2 DEF DispatchTypeOK
  <2> QED BY <1>1, <2>2, <2>3, <2>4, CountedKeepsStreak DEF StreakStep
<1>3. ASSUME NEW c \in Calls, Resume(c) PROVE StreakStep
  <2>1. /\ job[c] \in Jobs /\ job[c].dev \in Lamps /\ job' = job
        /\ \A x \in Calls \ {c} : pc'[x] = pc[x]
    BY <1>3, ResumeTypes, CourseTypes DEF DispatchTypeOK, Jobs
  <2>2. pc[c] = "confirm" /\ Answered(c) /\ Superseded(c) => pc'[c] \in {"confirm", "done"}
    <3> SUFFICES ASSUME pc[c] = "confirm", Answered(c), Superseded(c) PROVE pc'[c] = "done"
      OBVIOUS
    <3>1. LanConfirmed(c) \/ LanUnconfirmed(c)
      BY <1>3 DEF Resume, BleWritten, BleFailed, MqttPublished, MqttRefused, RestReply, SegmentAcquires,
                  SegmentReply, SegmentPaced, SegmentError
    <3> QED BY <3>1 DEF LanConfirmed, LanUnconfirmed, Return, DispatchTypeOK
  <2> QED BY <1>1, <1>3, <2>1, <2>2, ResumeGate, CountedKeepsStreak DEF StreakStep
<1>4. ASSUME UNCHANGED calls, StreakInv' PROVE StreakStep
  BY <1>4 DEF StreakStep, calls
<1>5. ASSUME NEW d \in Lamps, CooldownElapses(d) \/ LatchExpires(d) \/ LanForgotten(d) PROVE StreakStep
  <2>1. CASE CooldownElapses(d)
    BY <1>4, <2>1 DEF CooldownElapses, StreakInv, DispatchTypeOK
  <2>2. CASE LatchExpires(d) \/ LanForgotten(d)
    BY <1>4, <2>2, CountedKeepsStreak DEF LatchExpires, LanForgotten, MissesCounted
  <2> QED BY <1>5, <2>1, <2>2
<1>6. ASSUME NEW c \in Calls, NEW t \in Transports, Arrives(c, t) PROVE StreakStep
  BY <1>4, <1>6, CountedKeepsStreak DEF Arrives, MissesCounted
<1>7. CASE UNCHANGED dispatchVars
  BY <1>4, <1>7, CountedKeepsStreak DEF dispatchVars, MissesCounted
<1> QED BY <1>2, <1>3, <1>5, <1>6, <1>7 DEF DispatchNext, UserCommand, SegmentTurnOff, ChildPowerOn

\* For any number of devices and calls, however the counted writes overlapped:
\* no LAN write leaves after as many misses in a row as the threshold, before a
\* confirmed write or the end of the cooldown.
THEOREM StreakSilences == DispatchSpec => StreakSilencesLan
<1>1. DispatchInit => DispatchInv /\ StreakInv
  BY DispatchStarts, NumbersAssumption DEF DispatchInit, StreakInv
<1>2. DispatchInv /\ StreakInv /\ [DispatchNext]_dispatchVars =>
        [\A c \in Calls : "lan" \in tried'[c] \ tried[c] =>
            \/ misses[job'[c].dev] < Threshold
            \/ cooldown[job'[c].dev] = "over"]_dispatchVars
  BY StreakNext DEF StreakStep
<1>3. DispatchInv /\ StreakInv /\ [DispatchNext]_dispatchVars => StreakInv'
  BY StreakNext DEF StreakStep
<1> QED BY <1>1, <1>2, <1>3, DispatchGoesOn, PTL DEF DispatchSpec, StreakSilencesLan

\* The counter of a device and kind is at or above every call made of them.
GenInv == \A c \in Calls : pc[c] # "idle" => job[c].gen <= gens[job[c].dev][job[c].cmd.kind]

\* Only a call that is made moves a counter, and it takes the new value.
LEMMA GenGoesOn == DispatchInv /\ GenInv /\ [DispatchNext]_dispatchVars => GenInv'
<1> SUFFICES ASSUME DispatchInv, GenInv, [DispatchNext]_dispatchVars PROVE GenInv'
  OBVIOUS
<1> USE DEF DispatchInv, TypeInv
<1>0. ASSUME NEW x \in Calls, pc[x] # "idle"
      PROVE  /\ job[x].dev \in Lamps /\ job[x].cmd.kind \in Kinds /\ job[x].gen \in Nat
             /\ gens[job[x].dev][job[x].cmd.kind] \in Nat
  <2>1. job[x] \in Jobs
    BY <1>0 DEF DispatchTypeOK
  <2>2. job[x].dev \in Lamps /\ job[x].cmd.kind \in Kinds /\ job[x].gen \in Nat
    BY <2>1 DEF Jobs, Kinds
  <2> QED BY <2>2 DEF DispatchTypeOK
<1>1. ASSUME NEW c \in Calls, NEW d \in Lamps, NEW cmd \in Commands, NEW defer \in BOOLEAN,
             Start(c, d, cmd, defer)
      PROVE  GenInv'
  <2> DEFINE j   == [dev |-> d, cmd |-> cmd, defer |-> defer, gen |-> gens[d][cmd.kind] + 1]
             off == IF PowerOff(cmd) THEN pendingOff \cup {d} ELSE pendingOff
  <2>1. cmd.kind \in Kinds
    BY DEF Kinds
  <2>2. j \in Jobs /\ off \in SUBSET Lamps
    BY <2>1 DEF Jobs, DispatchTypeOK
  <2>3. /\ job' = [job EXCEPT ![c] = j] /\ gens' = [gens EXCEPT ![d][cmd.kind] = @ + 1]
        /\ \/ Suspend(c, "ble", off)
           \/ TryLan(c, j, off)
    BY <1>1 DEF Start
  <2>4. \A x \in Calls \ {c} : pc'[x] = pc[x] /\ job'[x] = job[x]
    <3>1. CASE Suspend(c, "ble", off)
      BY <2>3, <3>1 DEF Suspend, DispatchTypeOK
    <3>2. CASE TryLan(c, j, off)
      BY <2>2, <2>3, <3>2, LanTierTypes, CourseTypes DEF DispatchTypeOK
    <3> QED BY <2>3, <3>1, <3>2
  <2>5. job'[c] = j /\ gens'[d][cmd.kind] = gens[d][cmd.kind] + 1 /\ gens[d][cmd.kind] \in Nat
    BY <2>1, <2>3 DEF DispatchTypeOK
  <2>6. \A e \in Lamps, k \in Kinds : gens'[e][k] \in {gens[e][k], gens[e][k] + 1}
    BY <2>1, <2>3 DEF DispatchTypeOK
  <2> SUFFICES ASSUME NEW x \in Calls, pc'[x] # "idle" PROVE job'[x].gen <= gens'[job'[x].dev][job'[x].cmd.kind]
    BY DEF GenInv
  <2>7. CASE x = c
    BY <2>5, <2>7
  <2>8. CASE x # c
    <3>1. pc[x] # "idle" /\ job'[x] = job[x] /\ job[x].gen <= gens[job[x].dev][job[x].cmd.kind]
      BY <2>4, <2>8 DEF GenInv
    <3> HIDE DEF j, off
    <3> QED BY <1>0, <2>6, <3>1
  <2> QED BY <2>7, <2>8
<1>2. ASSUME NEW c \in Calls, Resume(c) PROVE GenInv'
  <2>1. pc[c] # "idle" /\ UNCHANGED <<job, gens>> /\ \A x \in Calls \ {c} : pc'[x] = pc[x]
    BY <1>2, ResumeTypes, CourseTypes DEF DispatchTypeOK
  <2> QED BY <2>1 DEF GenInv
<1>3. ASSUME UNCHANGED <<calls, gens>> PROVE GenInv'
  BY <1>3 DEF GenInv, calls
<1>4. ASSUME NEW d \in Lamps, CooldownElapses(d) \/ LatchExpires(d) \/ LanForgotten(d) PROVE GenInv'
  BY <1>3, <1>4 DEF CooldownElapses, LatchExpires, LanForgotten
<1>5. ASSUME NEW c \in Calls, NEW t \in Transports, Arrives(c, t) PROVE GenInv'
  BY <1>3, <1>5 DEF Arrives
<1>6. CASE UNCHANGED dispatchVars
  BY <1>3, <1>6 DEF dispatchVars
<1> QED BY <1>1, <1>2, <1>4, <1>5, <1>6 DEF DispatchNext, UserCommand, SegmentTurnOff, ChildPowerOn

\* For any number of devices and calls: a deferred write that went unconfirmed
\* takes neither cloud tier when its device was given a command of its kind
\* after the datagram left, whichever call gave it and however far that call is.
THEOREM StaleStaysSilent == DispatchSpec => StaleDeferredStaysSilent
<1>1. DispatchInit => DispatchInv /\ StreakInv /\ GenInv
  BY DispatchStarts, NumbersAssumption DEF DispatchInit, StreakInv, GenInv
<1>2. ASSUME DispatchInv, GenInv, NEW c \in Calls, NEW n \in Calls, pc[c] = "confirm", Newer(n, c)
      PROVE  Superseded(c)
  <2>1. job[n] \in Jobs /\ captured[c] \in Nat
    BY <1>2 DEF Newer, DispatchInv, TypeInv, DispatchTypeOK
  <2>2. job[n].gen \in Nat /\ job[n].dev \in Lamps /\ job[n].cmd.kind \in Kinds
    BY <2>1 DEF Jobs, Kinds
  <2>3. gens[job[n].dev][job[n].cmd.kind] \in Nat
    BY <1>2, <2>2 DEF DispatchInv, TypeInv, DispatchTypeOK
  <2>4. job[n].gen <= gens[job[n].dev][job[n].cmd.kind]
    BY <1>2 DEF Newer, GenInv
  <2> QED BY <1>2, <2>1, <2>2, <2>3, <2>4 DEF Newer, Superseded
<1>3. DispatchInv /\ StreakInv /\ GenInv /\ [DispatchNext]_dispatchVars =>
        [\A c, n \in Calls :
           (pc[c] = "confirm" /\ Answered(c) /\ Newer(n, c)) => pc'[c] \in {"confirm", "done"}]_dispatchVars
  BY <1>2, StreakNext DEF StreakStep
<1>4. DispatchInv /\ StreakInv /\ [DispatchNext]_dispatchVars => StreakInv'
  BY StreakNext DEF StreakStep
<1> QED BY <1>1, <1>3, <1>4, GenGoesOn, DispatchGoesOn, PTL DEF DispatchSpec, StaleDeferredStaysSilent
=============================================================================
