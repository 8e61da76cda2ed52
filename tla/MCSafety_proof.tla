---------------------------- MODULE MCSafety_proof ----------------------------
(* The request budget of a day, the cloud poll, the config flow and the       *)
(* options flow, for any values of their constants; and for the sum of them   *)
(* and the control path, what the safety run checks of its parts.             *)
EXTENDS MCSafety, CommandDispatch_proof, FiniteSetTheorems

(* The pacing and the request counter (BudgetDay).                            *)

\* Division with remainder.
LEMMA Division ==
    ASSUME NEW m \in Nat, NEW n \in Nat \ {0}
    PROVE  m \div n \in Nat /\ m % n \in 0..(n - 1) /\ m = n * (m \div n) + (m % n)
<1>1. m = n * (m \div n) + (m % n)
  OBVIOUS
<1>3. m % n \in 0..(n - 1)
  OBVIOUS
<1>4. m \div n \in Int
  OBVIOUS
<1>2. ASSUME NEW q \in Int, NEW r \in 0..(n - 1), m = n * q + r PROVE q >= 0
  BY <1>2
<1> QED BY <1>1, <1>2, <1>3, <1>4

\* A larger quotient is larger by a whole divisor.
LEMMA Multiples ==
    ASSUME NEW n \in Nat \ {0}, NEW q \in Int, NEW p \in Int, q < p
    PROVE  n * q + n <= n * p
  OBVIOUS

\* Rounding up: the quotient times the divisor covers the dividend, and no
\* smaller quotient would.
LEMMA CeilDivBounds ==
    ASSUME NEW m \in Nat, NEW n \in Nat \ {0}
    PROVE  /\ CeilDiv(m, n) \in Nat
           /\ m <= n * CeilDiv(m, n)
           /\ n * CeilDiv(m, n) < m + n
<1> DEFINE x == m + n - 1
<1>1. x \in Nat
  OBVIOUS
<1>2. x \div n \in Nat /\ x % n \in 0..(n - 1) /\ x = n * (x \div n) + (x % n)
  BY <1>1, Division
<1>3. CeilDiv(m, n) = x \div n
  BY DEF CeilDiv
<1>4. n * (x \div n) \in Int
  BY <1>2
<1> HIDE DEF x
<1>5. x = m + n - 1
  BY DEF x
<1> QED BY <1>2, <1>3, <1>4, <1>5

\* Two times by day and second: an earlier day means a whole day less.
LEMMA EarlierDay ==
    ASSUME NEW p \in Nat, NEW q \in Nat, p < q,
           NEW x \in Nat, NEW y \in Nat, NEW r \in 0..(DayLength - 1), NEW s \in 0..(DayLength - 1),
           x = DayLength * p + r, y = DayLength * q + s
    PROVE  y >= x - r + DayLength
<1>1. DayLength * p + DayLength <= DayLength * q
  BY Multiples, BudgetAssumption
<1>2. DayLength * p \in Nat /\ DayLength * q \in Nat /\ DayLength \in Nat
  BY BudgetAssumption
<1>3. ASSUME NEW P \in Nat, NEW Q \in Nat, P = DayLength * p, Q = DayLength * q
      PROVE  y >= x - r + DayLength
  BY <1>1, <1>2, <1>3
<1> QED BY <1>2, <1>3

\* A day is never left backwards, and one second reaches the next at most.
LEMMA DayStep ==
    ASSUME NEW t \in Nat
    PROVE  /\ Day(t) \in Nat /\ (t % DayLength) \in 0..(DayLength - 1)
           /\ t = DayLength * Day(t) + (t % DayLength)
           /\ Day(t + 1) \in {Day(t), Day(t) + 1}
<1>1. /\ Day(t) \in Nat /\ (t % DayLength) \in 0..(DayLength - 1)
      /\ t = DayLength * Day(t) + (t % DayLength)
  BY Division, BudgetAssumption DEF Day
<1>0. t + 1 \in Nat
  OBVIOUS
<1>2. /\ Day(t + 1) \in Nat /\ ((t + 1) % DayLength) \in 0..(DayLength - 1)
      /\ t + 1 = DayLength * Day(t + 1) + ((t + 1) % DayLength)
  <2>1. ASSUME NEW u \in Nat
        PROVE  Day(u) \in Nat /\ u % DayLength \in 0..(DayLength - 1) /\ u = DayLength * Day(u) + (u % DayLength)
    BY Division, BudgetAssumption DEF Day
  <2> QED BY <1>0, <2>1
<1>3. ASSUME Day(t + 1) < Day(t) PROVE FALSE
  <2>1. t >= t + 1 - ((t + 1) % DayLength) + DayLength
    BY <1>1, <1>2, <1>3, EarlierDay
  <2> QED BY <2>1, <1>2, BudgetAssumption
<1>4. ASSUME Day(t) + 1 < Day(t + 1) PROVE FALSE
  <2>1. PICK x \in Nat : x = DayLength * (Day(t) + 1) + 0
    BY <1>1, BudgetAssumption
  <2>2. x = t - (t % DayLength) + DayLength
    <3>1. DayLength * (Day(t) + 1) = DayLength * Day(t) + DayLength
      BY <1>1, BudgetAssumption
    <3>2. DayLength * Day(t) \in Nat /\ DayLength \in Nat
      BY <1>1, BudgetAssumption
    <3> QED BY <1>1, <2>1, <3>1, <3>2
  <2>3. 0 \in 0..(DayLength - 1) /\ Day(t) + 1 \in Nat
    BY <1>1, BudgetAssumption
  <2>4. t + 1 >= x - 0 + DayLength
    BY <1>0, <1>1, <1>2, <1>4, <2>1, <2>3, EarlierDay
  <2> QED BY <2>2, <2>4, <1>1, BudgetAssumption
<1> QED BY <1>1, <1>2, <1>3, <1>4

\* A time at or past a midnight is on the day that begins there, or later.
LEMMA PastMidnight ==
    ASSUME NEW t \in Nat, NEW d \in Nat, t >= DayLength * (d + 1)
    PROVE  Day(t) > d
<1>1. /\ Day(t) \in Nat /\ (t % DayLength) \in 0..(DayLength - 1)
      /\ t = DayLength * Day(t) + (t % DayLength)
  BY DayStep
<1>2. ASSUME Day(t) < d + 1 PROVE FALSE
  <2>1. DayLength * Day(t) + DayLength <= DayLength * (d + 1)
    BY <1>1, <1>2, Multiples, BudgetAssumption
  <2> QED BY <2>1, <1>1, BudgetAssumption
<1> QED BY <1>1, <1>2

\* A paced poll is never sooner than the configured interval, nor later than
\* the ceiling, nor past the reset by more than the margin or one interval;
\* one that waits for the reset waits past it.
LEMMA PacedBounds ==
    ASSUME NEW today \in Nat, NEW left \in Nat \ {0}
    PROVE  LET I == BudgetPacedInterval(ConfiguredInterval, today, CycleCost, left) IN
           /\ I \in ConfiguredInterval..MaxInterval
           /\ I <= left + Greatest(ConfiguredInterval, ResetMargin)
           /\ Budget - today < CycleCost /\ I < MaxInterval => I >= left + ResetMargin
<1> USE BudgetAssumption, DayAssumption DEF Least, Greatest
<1>1. CASE Budget - today < CycleCost
  BY <1>1 DEF BudgetPacedInterval
<1>2. CASE Budget - today >= CycleCost
  <2> DEFINE r == Budget - today
  <2> DEFINE q == CeilDiv(left * CycleCost, r)
  <2>1. r \in Nat \ {0} /\ r >= CycleCost /\ left * CycleCost \in Nat
    BY <1>2
  <2>2. q \in Nat /\ r * q < left * CycleCost + r
    BY <2>1, CeilDivBounds
  <2>3. q <= left
    <3>1. left * CycleCost <= left * r
      BY <2>1
    <3>2. ASSUME left < q PROVE FALSE
      <4>1. r * left + r <= r * q
        BY <2>1, <2>2, <3>2, Multiples
      <4>2. r * left = left * r /\ r * q \in Int /\ left * r \in Int
        BY <2>1, <2>2
      <4> HIDE DEF q, r
      <4> QED BY <2>1, <2>2, <3>1, <4>1, <4>2
    <3> QED BY <2>2, <3>2
  <2>4. BudgetPacedInterval(ConfiguredInterval, today, CycleCost, left) = Greatest(ConfiguredInterval, Least(q, MaxInterval))
    BY <1>2, <2>1 DEF BudgetPacedInterval
  <2> HIDE DEF q
  <2> QED BY <1>2, <2>2, <2>3, <2>4
<1> QED BY <1>1, <1>2

-----------------------------------------------------------------------------
\* The clock has passed every day that has been charged, saved or lost.
Past ==
    /\ Today \in Days /\ armedOn <= Today
    /\ requestDay <= Today /\ saved.day <= Today
    /\ \A d \in lost : d <= Today
    /\ \A d \in Days : d > Today => spent[d] = 0

\* The counter and its file never claim more than was spent today, and the
\* counter claims all of it unless a crash lost a part.
Counts ==
    /\ requestDay = Today => requestsToday <= spent[Today]
    /\ saved.day = Today => saved.today <= spent[Today]
    /\ Today \notin lost =>
         IF requestDay = Today THEN requestsToday = spent[Today] ELSE spent[Today] = 0

\* A poll that waits for the reset is due past it, and none far past it.
Aimed ==
    /\ awaited => due >= DayLength * (armedOn + 1)
    /\ due <= DayLength * (armedOn + 1) + Greatest(ConfiguredInterval, ResetMargin)

\* The pending poll still fits the budget of the day it was armed on.
Affordable ==
    \/ awaited \/ armedOn \in atCeiling \cup lost
    \/ spent[armedOn] + CycleCost <= Budget + others + reloads * CycleCost

\* Only what is not paced is spent on a day no poll was armed on.
Unpaced == \A d \in Days : d > armedOn => spent[d] <= others

DayInv == DayTypeOK /\ Past /\ Counts /\ Aimed /\ Affordable /\ Unpaced /\ DayFitsBudget

\* The seconds left reach the end of today exactly.
LEMMA EndOfToday ==
    ASSUME now \in Nat
    PROVE  SecondsLeft \in Nat \ {0} /\ now + SecondsLeft = DayLength * (Today + 1)
<1>1. Today \in Nat /\ now % DayLength \in 0..(DayLength - 1) /\ now = DayLength * Today + (now % DayLength)
  BY DayStep DEF Today
<1>2. DayLength * (Today + 1) = DayLength * Today + DayLength
  BY <1>1, BudgetAssumption
<1>3. DayLength * Today \in Nat /\ DayLength \in Nat
  BY <1>1, BudgetAssumption
<1> QED BY <1>1, <1>2, <1>3 DEF SecondsLeft

LEMMA DayStarts == DayInit => DayInv
<1> SUFFICES ASSUME DayInit PROVE DayInv
  OBVIOUS
<1> USE BudgetAssumption, DayAssumption DEF DayInit
<1>1. now \in Nat /\ Today = 0
  <2>1. now \in 0..(DayLength - 1) /\ now \in Nat
    OBVIOUS
  <2>2. Day(now) \in Nat /\ now % DayLength \in 0..(DayLength - 1) /\ now = DayLength * Day(now) + (now % DayLength)
    BY <2>1, DayStep
  <2>3. ASSUME 0 < Day(now) PROVE FALSE
    <3>1. DayLength * 0 + DayLength <= DayLength * Day(now)
      BY <2>2, <2>3, Multiples
    <3> QED BY <2>1, <2>2, <3>1
  <2> QED BY <2>1, <2>2, <2>3 DEF Today
<1>2. DayTypeOK
  <2>1. now \in Nat /\ pollInterval \in Nat /\ due \in Nat /\ armedOn \in Days /\ 0 \in Days
    BY <1>1 DEF Days
  <2>2. saved \in [day : Days \cup {-1}, today : Nat]
    BY DEF NoDay
  <2>3. spent \in [Days -> Nat] /\ awaited \in BOOLEAN
    OBVIOUS
  <2>4. requestDay \in Days \cup {-1} /\ requestsToday \in Nat /\ others \in 0..MaxOther /\ reloads \in 0..MaxReloads
    OBVIOUS
  <2>5. atCeiling \subseteq Days /\ lost \subseteq Days
    OBVIOUS
  <2> QED BY <2>1, <2>2, <2>3, <2>4, <2>5 DEF DayTypeOK
<1>3. Past /\ Counts /\ Affordable /\ Unpaced /\ DayFitsBudget
  BY <1>1 DEF Past, Counts, Affordable, Unpaced, DayFitsBudget, Days, NoDay
<1>4. Aimed
  BY <1>1 DEF Aimed, Greatest
<1> QED BY <1>2, <1>3, <1>4 DEF DayInv

\* A poll is affordable when it fires, and leaves the next one affordable.
LEMMA PollKeeps == ASSUME DayInv, NEW n \in 1..CycleCost, DayPoll(n) PROVE DayInv'
<1> USE BudgetAssumption, DayAssumption
<1>1. /\ now \in Nat /\ now' = now /\ Today' = Today /\ Today \in Days /\ Today \in Nat
      /\ n \in Nat \ {0} /\ spent \in [Days -> Nat] /\ requestsToday \in Nat
      /\ SecondsLeft' = SecondsLeft
  BY DEF DayInv, Past, DayTypeOK, DayPoll, Today, Days, SecondsLeft
<1>2. /\ requestsToday' = (IF requestDay = Today THEN requestsToday ELSE 0) + n
      /\ requestDay' = Today /\ spent' = [spent EXCEPT ![Today] = @ + n]
      /\ requestsToday' \in Nat
  BY <1>1 DEF DayPoll, NoteRequests
<1>3. /\ pollInterval' = BudgetPacedInterval(ConfiguredInterval, requestsToday', CycleCost, SecondsLeft)
      /\ due' = now + pollInterval' - Early /\ armedOn' = Today
      /\ awaited' = (Budget - requestsToday' < CycleCost /\ pollInterval' < MaxInterval)
      /\ atCeiling' = IF pollInterval' = MaxInterval THEN atCeiling \cup {Today} ELSE atCeiling
  BY DEF DayPoll, Arm
<1>4. SecondsLeft \in Nat \ {0} /\ now + SecondsLeft = DayLength * (Today + 1)
  BY <1>1, EndOfToday
<1>5. /\ pollInterval' \in ConfiguredInterval..MaxInterval
      /\ pollInterval' <= SecondsLeft + Greatest(ConfiguredInterval, ResetMargin)
      /\ awaited' => pollInterval' >= SecondsLeft + ResetMargin
  BY <1>2, <1>3, <1>4, PacedBounds
<1>6. UNCHANGED <<saved, lost, others, reloads>>
  BY DEF DayPoll
<1>7. DayTypeOK'
  <2>1. due' \in Nat /\ pollInterval' \in Nat
    BY <1>1, <1>3, <1>5
  <2>2. spent' \in [Days -> Nat] /\ atCeiling' \subseteq Days /\ armedOn' \in Days
    BY <1>1, <1>2, <1>3 DEF DayInv, DayTypeOK
  <2> QED BY <1>1, <1>2, <1>3, <1>6, <2>1, <2>2 DEF DayInv, DayTypeOK
<1>8. Past'
  BY <1>1, <1>2, <1>3, <1>6 DEF DayInv, Past, DayTypeOK, Days
<1>9. Counts'
  BY <1>1, <1>2, <1>6 DEF DayInv, Counts, DayTypeOK
<1>10. Aimed'
  <2>1. DayLength * (Today + 1) \in Nat
    BY <1>1
  <2>2. Greatest(ConfiguredInterval, ResetMargin) \in Nat
    BY DEF Greatest
  <2> QED BY <1>1, <1>3, <1>4, <1>5, <2>1, <2>2 DEF Aimed
<1>11. reloads * CycleCost \in Nat /\ others \in Nat /\ spent[Today] \in Nat /\ spent'[Today] = spent[Today] + n
  BY <1>1, <1>2 DEF DayInv, DayTypeOK
<1>12. Today \notin atCeiling \cup lost => spent'[Today] <= Budget + others + reloads * CycleCost
  <2>1. CASE Today > armedOn
    <3>1. spent[Today] <= others
      BY <1>1, <2>1 DEF DayInv, Unpaced
    <3> QED BY <1>1, <1>11, <3>1
  <2>2. CASE Today = armedOn
    <3>1. ASSUME awaited PROVE FALSE
      <4>1. now >= DayLength * (armedOn + 1) /\ armedOn \in Nat
        BY <3>1, <1>1, <2>2 DEF DayInv, Aimed, DayPoll, DayTypeOK
      <4> QED BY <1>1, <2>2, <4>1, PastMidnight DEF Today
    <3> QED BY <1>1, <1>11, <2>2, <3>1 DEF DayInv, Affordable
  <2> QED BY <2>1, <2>2, <1>1 DEF DayInv, Past, DayTypeOK, Days
<1>13. DayFitsBudget'
  BY <1>1, <1>2, <1>3, <1>6, <1>12 DEF DayInv, DayFitsBudget
<1>14. Affordable'
  <2>1. ASSUME ~awaited', Today \notin atCeiling' \cup lost PROVE spent'[Today] + CycleCost <= Budget
    <3>1. pollInterval' < MaxInterval
      BY <1>3, <1>5, <2>1
    <3>4. ~(Budget - requestsToday' < CycleCost)
      BY <1>3, <2>1, <3>1, Zenon
    <3>2. Budget - requestsToday' >= CycleCost
      BY <1>2, <3>4
    <3>3. requestsToday' = spent'[Today]
      BY <1>1, <1>2, <1>11, <2>1 DEF DayInv, Counts
    <3> QED BY <1>2, <3>2, <3>3
  <2> QED BY <1>1, <1>3, <1>6, <1>11, <2>1 DEF Affordable
<1>15. Unpaced'
  <2>1. \A d \in Days : d > Today => spent[d] = 0 /\ spent'[d] = spent[d]
    BY <1>1, <1>2 DEF DayInv, Past, Days
  <2> QED BY <1>1, <1>3, <1>6, <1>11, <2>1 DEF Unpaced
<1> QED BY <1>7, <1>8, <1>9, <1>10, <1>13, <1>14, <1>15 DEF DayInv

\* Requests outside the poll are charged to the allowance for them.
LEMMA OtherKeeps == ASSUME DayInv, Other PROVE DayInv'
<1> USE BudgetAssumption, DayAssumption
<1>1. /\ Today' = Today /\ Today \in Days /\ Today \in Nat
      /\ spent \in [Days -> Nat] /\ requestsToday \in Nat /\ others \in Nat /\ others' = others + 1
      /\ reloads \in Nat /\ reloads * CycleCost \in Nat
  BY DEF DayInv, Past, DayTypeOK, Other, Today, Days
<1>2. /\ requestsToday' = (IF requestDay = Today THEN requestsToday ELSE 0) + 1
      /\ requestDay' = Today /\ spent' = [spent EXCEPT ![Today] = @ + 1]
  BY DEF Other, NoteRequests
<1>3. UNCHANGED <<now, pollInterval, due, saved, armedOn, awaited, atCeiling, lost, reloads>>
  BY DEF Other
<1>4. \A d \in Days : spent'[d] \in spent[d]..(spent[d] + 1) /\ (d > Today => spent'[d] = spent[d])
  BY <1>1, <1>2 DEF Days
<1>5. DayTypeOK'
  BY <1>1, <1>2, <1>3 DEF DayInv, DayTypeOK, Other
<1>9. Past'
  BY <1>1, <1>2, <1>3, <1>4 DEF DayInv, Past
<1>10. Counts'
  <2>1. spent'[Today] = spent[Today] + 1 /\ spent[Today] \in Nat
    BY <1>1, <1>2
  <2>2. saved.day = Today => saved.today \in Nat /\ saved.today <= spent[Today]
    BY DEF DayInv, Counts, DayTypeOK
  <2>3. requestDay = Today => requestsToday <= spent[Today]
    BY DEF DayInv, Counts
  <2>4. Today \notin lost => IF requestDay = Today THEN requestsToday = spent[Today] ELSE spent[Today] = 0
    BY DEF DayInv, Counts
  <2> QED BY <1>1, <1>2, <1>3, <2>1, <2>2, <2>3, <2>4 DEF Counts
<1>6. Past' /\ Counts' /\ Aimed'
  BY <1>3, <1>9, <1>10 DEF DayInv, Aimed
<1>7. Affordable' /\ Unpaced'
  BY <1>1, <1>3, <1>4 DEF DayInv, Affordable, Unpaced, DayTypeOK
<1>8. DayFitsBudget'
  BY <1>1, <1>3, <1>4 DEF DayInv, DayFitsBudget, DayTypeOK
<1> QED BY <1>5, <1>6, <1>7, <1>8 DEF DayInv

\* A new client: its first poll is not paced, and one more cycle is allowed for.
LEMMA RestartKeeps == ASSUME DayInv, Reload \/ Crash PROVE DayInv'
<1> USE BudgetAssumption, DayAssumption
<1>1. /\ now \in Nat /\ now' = now /\ Today' = Today /\ Today \in Days /\ Today \in Nat
      /\ spent' = spent /\ spent \in [Days -> Nat] /\ others' = others /\ others \in Nat
      /\ reloads \in Nat /\ reloads' = reloads + 1 /\ atCeiling' = atCeiling
      /\ lost \subseteq lost' /\ lost' \subseteq lost \cup {Today}
  BY DEF DayInv, Past, DayTypeOK, Reload, Crash, Today, Days
<1>2. /\ pollInterval' = ConfiguredInterval /\ due' = now /\ armedOn' = Today /\ awaited' = FALSE
      /\ saved'.day = Today => requestDay' = Today /\ requestsToday' = saved'.today
      /\ saved'.day # Today => requestDay' = -1 /\ requestsToday' = 0
  BY DEF Reload, Crash, Import
<1>3. /\ saved' \in [day : Days \cup {-1}, today : Nat] /\ saved'.day <= Today
      /\ saved'.day = Today => saved'.today <= spent[Today]
  BY <1>1 DEF DayInv, DayTypeOK, Past, Counts, Reload, Crash
<1>4. Today \notin lost' => IF saved'.day = Today THEN saved'.today = spent[Today] ELSE spent[Today] = 0
  BY <1>1 DEF DayInv, DayTypeOK, Counts, Reload, Crash
<1>5. (reloads + 1) * CycleCost = reloads * CycleCost + CycleCost /\ reloads * CycleCost \in Nat
  BY <1>1
<1>6. DayTypeOK'
  <2>1. requestDay' \in Days \cup {-1} /\ requestsToday' \in Nat
    BY <1>1, <1>2, <1>3
  <2>2. lost' \subseteq Days /\ reloads' \in 0..MaxReloads
    BY <1>1 DEF DayInv, DayTypeOK, Reload, Crash
  <2> QED BY <1>1, <1>2, <1>3, <2>1, <2>2 DEF DayInv, DayTypeOK
<1>7. Past' /\ Counts'
  BY <1>1, <1>2, <1>3, <1>4 DEF DayInv, Past, Counts
<1>8. Aimed'
  <2>1. SecondsLeft \in Nat \ {0} /\ now + SecondsLeft = DayLength * (Today + 1)
    BY <1>1, EndOfToday
  <2> QED BY <1>1, <1>2, <2>1 DEF Aimed, Greatest
<1>9. DayFitsBudget'
  BY <1>1, <1>5 DEF DayInv, DayFitsBudget
<1>10. Affordable'
  <2>1. Today \in atCeiling \cup lost \/ spent[Today] <= Budget + others + reloads * CycleCost
    BY <1>1 DEF DayInv, DayFitsBudget
  <2> QED BY <1>1, <1>2, <1>5, <2>1 DEF Affordable
<1>11. Unpaced'
  BY <1>1, <1>2 DEF DayInv, Past, Unpaced, Days
<1> QED BY <1>6, <1>7, <1>8, <1>9, <1>10, <1>11 DEF DayInv

\* A second passes; at midnight nothing has been spent on the new day yet.
LEMMA TickKeeps == ASSUME DayInv, Tick PROVE DayInv'
<1> USE BudgetAssumption, DayAssumption
<1>1. /\ now \in Nat /\ now' = now + 1 /\ now' \in Nat /\ Today \in Nat /\ Today' \in {Today, Today + 1}
      /\ Today' <= LastDay
  <2>1. now \in Nat /\ now' = now + 1 /\ Day(now + 1) <= LastDay
    BY DEF DayInv, DayTypeOK, Tick
  <2>2. Today = Day(now) /\ Today' = Day(now + 1)
    BY <2>1 DEF Today
  <2>3. Day(now) \in Nat /\ Day(now + 1) \in {Day(now), Day(now) + 1}
    BY <2>1, DayStep
  <2> QED BY <2>1, <2>2, <2>3
<1>2. UNCHANGED <<pollInterval, due, requestDay, requestsToday, saved, spent, armedOn, awaited,
                 atCeiling, lost, others, reloads>>
  BY DEF Tick
<1>3. DayTypeOK' /\ Today' \in Days
  BY <1>1, <1>2 DEF DayInv, DayTypeOK, Days
<1>4. Past'
  BY <1>1, <1>2, <1>3 DEF DayInv, Past, DayTypeOK, Days
<1>5. Counts'
  <2>1. CASE Today' = Today
    BY <1>2, <2>1 DEF DayInv, Counts
  <2>2. CASE Today' = Today + 1
    BY <1>1, <1>2, <1>3, <2>2 DEF DayInv, Counts, Past, DayTypeOK, Days
  <2> QED BY <1>1, <2>1, <2>2
<1>6. (Aimed /\ Affordable /\ Unpaced /\ DayFitsBudget)'
  BY <1>2 DEF DayInv, Aimed, Affordable, Unpaced, DayFitsBudget
<1> QED BY <1>3, <1>4, <1>5, <1>6 DEF DayInv

LEMMA DayGoesOn == DayInv /\ [DayNext]_dayVars => DayInv'
<1> SUFFICES ASSUME DayInv, [DayNext]_dayVars PROVE DayInv'
  OBVIOUS
<1>1. CASE Save
  <2>1. saved' \in [day : Days \cup {-1}, today : Nat] /\ saved'.day <= Today'
        /\ (saved'.day = Today' => saved'.today <= spent[Today])
    BY <1>1 DEF DayInv, DayTypeOK, Past, Counts, Save, Today
  <2>2. UNCHANGED <<now, pollInterval, due, requestDay, requestsToday, spent, armedOn, awaited,
                   atCeiling, lost, others, reloads>>
    BY <1>1 DEF Save
  <2>3. DayTypeOK' /\ Past' /\ Counts'
    BY <2>1, <2>2 DEF DayInv, DayTypeOK, Past, Counts, Today
  <2>4. (Aimed /\ Affordable /\ Unpaced /\ DayFitsBudget)'
    BY <2>2 DEF DayInv, Aimed, Affordable, Unpaced, DayFitsBudget
  <2> QED BY <2>3, <2>4 DEF DayInv
<1>2. CASE UNCHANGED dayVars
  BY <1>2 DEF DayInv, DayTypeOK, Past, Counts, Aimed, Affordable, Unpaced, DayFitsBudget, Today, dayVars
<1> QED BY <1>1, <1>2, PollKeeps, OtherKeeps, RestartKeeps, TickKeeps DEF DayNext

\* For any day, budget, intervals and number of devices: the types; a day's
\* polling stays within the budget; the counter is a floor of what was spent.
THEOREM BudgetKept == DaySpec => [](DayTypeOK /\ BudgetIsKept)
<1>1. DayInv => DayTypeOK /\ BudgetIsKept
  BY DEF DayInv, Past, DayTypeOK, Counts, CountIsFloor, Counted, BudgetIsKept
<1> QED BY <1>1, DayStarts, DayGoesOn, PTL DEF DaySpec

\* A poll aimed at the reset fires after it, and no poll is parked far past it.
THEOREM ResetKept == DaySpec => []ResetIsMet
<1>1. DayInv => ResetIsAwaited
  <2> SUFFICES ASSUME DayInv, awaited, now >= due PROVE Today > armedOn
    BY DEF ResetIsAwaited
  <2>1. armedOn \in Nat /\ now \in Nat /\ now >= DayLength * (armedOn + 1)
    BY DayAssumption, BudgetAssumption DEF DayInv, Aimed, DayTypeOK, Days
  <2> QED BY <2>1, PastMidnight DEF Today
<1>2. DayInv => NeverFarPastReset
  <2>1. armedOn \in Nat => DayLength * (armedOn + 1) = (armedOn + 1) * DayLength
    BY BudgetAssumption
  <2> QED BY <2>1 DEF DayInv, Aimed, NeverFarPastReset, DayTypeOK, Days
<1>3. DayInv => ResetIsMet
  BY <1>1, <1>2 DEF ResetIsMet
<1> QED BY <1>3, DayStarts, DayGoesOn, PTL DEF DaySpec
-----------------------------------------------------------------------------
\* While only polls spend, a poll that today's spending armed was given the
\* interval that spreads what is left of the budget over what was left of the day.
Even ==
    /\ pollInterval \in ConfiguredInterval..MaxInterval
    /\ reloads = 0 => lost = {}
    /\ others = 0 /\ reloads = 0 /\ ~awaited /\ spent[armedOn] > 0 /\ pollInterval < MaxInterval =>
         \E left \in Nat :
            /\ due - pollInterval + Early + left = DayLength * (armedOn + 1)
            /\ left * CycleCost <= (Budget - spent[armedOn]) * pollInterval

\* An interval that spreads less than two cycles' requests over the time left
\* is at least half of it.
LEMMA HalfTheRest ==
    ASSUME NEW left \in Nat, NEW c \in Nat \ {0}, NEW r \in Int, NEW i \in Nat,
           left * c <= r * i, r <= 2 * c
    PROVE  left <= 2 * i
<1>1. r * i <= (2 * c) * i
  OBVIOUS
<1>2. (2 * c) * i = (2 * i) * c /\ r * i \in Int /\ left * c \in Int /\ (2 * i) * c \in Int
  OBVIOUS
<1>3. left * c <= (2 * i) * c
  BY <1>1, <1>2
<1>4. ASSUME 2 * i < left PROVE FALSE
  <2>1. PICK k \in Nat : k = 2 * i
    OBVIOUS
  <2>2. c * k + c <= c * left
    BY <1>4, <2>1, Multiples
  <2>3. c * k = k * c /\ c * left = left * c /\ k * c \in Int /\ left * c \in Int
    BY <2>1
  <2> QED BY <1>3, <2>1, <2>2, <2>3
<1> QED BY <1>4

\* Short of the ceiling, a paced poll leaves no more of the day to the budget
\* than the budget covers at its interval.
LEMMA PacedEvenly ==
    ASSUME NEW today \in Nat, NEW left \in Nat \ {0}, ~(Budget - today < CycleCost),
           BudgetPacedInterval(ConfiguredInterval, today, CycleCost, left) < MaxInterval
    PROVE  left * CycleCost <=
             (Budget - today) * BudgetPacedInterval(ConfiguredInterval, today, CycleCost, left)
<1> USE BudgetAssumption, DayAssumption
<1> DEFINE I == BudgetPacedInterval(ConfiguredInterval, today, CycleCost, left)
<1> DEFINE r == Budget - today
<1> DEFINE l == left * CycleCost
<1>1. r \in Nat \ {0} /\ l \in Nat
  OBVIOUS
<1>2. CeilDiv(l, r) \in Nat /\ l <= r * CeilDiv(l, r)
  BY <1>1, CeilDivBounds
<1>3. I = Greatest(ConfiguredInterval, Least(CeilDiv(l, r), MaxInterval))
  BY DEF BudgetPacedInterval, Greatest
<1>4. I < MaxInterval
  OBVIOUS
<1> HIDE DEF I, l, r
<1>5. I \in Nat /\ CeilDiv(l, r) <= I
  BY <1>2, <1>3, <1>4 DEF Greatest, Least
<1>6. r * CeilDiv(l, r) <= r * I
  BY <1>1, <1>2, <1>5
<1>7. r * CeilDiv(l, r) \in Int /\ r * I \in Int
  BY <1>1, <1>2, <1>5
<1>8. l <= r * I
  BY <1>1, <1>2, <1>6, <1>7
<1> QED BY <1>8 DEF I, l, r

LEMMA EvenStarts == DayInit => Even
  BY DayStarts, DayAssumption DEF DayInit, DayInv, DayTypeOK, Even

LEMMA PollKeepsEven == ASSUME DayInv, Even, NEW n \in 1..CycleCost, DayPoll(n) PROVE Even'
<1> USE BudgetAssumption, DayAssumption
<1>1. /\ now \in Nat /\ Today' = Today /\ Today \in Days /\ Today \in Nat
      /\ spent \in [Days -> Nat] /\ requestsToday' \in Nat /\ SecondsLeft \in Nat \ {0}
  <2>1. now \in Nat /\ Today \in Days /\ spent \in [Days -> Nat] /\ requestsToday \in Nat
    BY DEF DayInv, Past, DayTypeOK
  <2> QED BY <2>1, EndOfToday DEF DayPoll, NoteRequests, Today, Days
<1>2. /\ pollInterval' = BudgetPacedInterval(ConfiguredInterval, requestsToday', CycleCost, SecondsLeft)
      /\ due' = now + pollInterval' - Early /\ armedOn' = Today
      /\ awaited' = (Budget - requestsToday' < CycleCost /\ pollInterval' < MaxInterval)
      /\ UNCHANGED <<lost, others, reloads>>
  BY DEF DayPoll, Arm
<1>3. pollInterval' \in ConfiguredInterval..MaxInterval
  BY <1>1, <1>2, PacedBounds
<1>4. ASSUME others = 0, reloads = 0, ~awaited', pollInterval' < MaxInterval
      PROVE  SecondsLeft * CycleCost <= (Budget - spent'[Today]) * pollInterval'
  <2>1. requestsToday' = spent'[Today]
    BY <1>1, <1>4 DEF DayInv, Counts, Even, DayPoll, NoteRequests
  <2>2. ~(Budget - requestsToday' < CycleCost)
    BY <1>2, <1>4, Zenon
  <2> QED BY <1>1, <1>2, <1>4, <2>1, <2>2, PacedEvenly
<1>5. due' - pollInterval' + Early + SecondsLeft = DayLength * (armedOn' + 1)
  <2>1. DayLength * (armedOn' + 1) = now + SecondsLeft
    BY <1>1, <1>2, EndOfToday
  <2>2. due' - pollInterval' + Early + SecondsLeft = now + SecondsLeft
    BY <1>1, <1>2, <1>3
  <2> QED BY <2>1, <2>2
<1> QED BY <1>1, <1>2, <1>3, <1>4, <1>5 DEF Even

LEMMA EvenGoesOn == DayInv /\ Even /\ [DayNext]_dayVars => Even'
<1> SUFFICES ASSUME DayInv, Even, [DayNext]_dayVars PROVE Even'
  OBVIOUS
<1>1. CASE Reload \/ Crash
  BY <1>1, DayAssumption DEF Reload, Crash, Import, Even, DayInv, DayTypeOK
<1>2. CASE Other
  BY <1>2 DEF Other, Even, DayInv, DayTypeOK
<1>3. CASE Save \/ Tick \/ UNCHANGED dayVars
  BY <1>3 DEF Save, Tick, dayVars, Even
<1> QED BY <1>1, <1>2, <1>3, PollKeepsEven DEF DayNext

\* The poll that uses up the budget began less than two cycles short of it, so
\* its interval was half of what was left: the wait is the other half.
LEMMA PollSpendsEvenly ==
    ASSUME DayInv, Even, NEW n \in 1..CycleCost, DayPoll(n),
           ~awaited, awaited', spent[Today] > 0, others = 0, reloads = 0
    PROVE  pollInterval' <= pollInterval + ResetMargin + Early
<1> USE BudgetAssumption, DayAssumption
<1>1. /\ now \in Nat /\ now >= due /\ due \in Nat /\ Today \in Days /\ Today \in Nat /\ armedOn \in Days
      /\ spent \in [Days -> Nat] /\ requestsToday \in Nat /\ pollInterval \in ConfiguredInterval..MaxInterval
      /\ n \in Nat
  BY DEF DayInv, DayTypeOK, Past, DayPoll, Days, Even
<1>2. armedOn = Today
  BY <1>1 DEF DayInv, Past, Unpaced, Days
<1>3. /\ pollInterval' = BudgetPacedInterval(ConfiguredInterval, requestsToday', CycleCost, SecondsLeft)
      /\ Budget - requestsToday' < CycleCost /\ pollInterval' < MaxInterval
      /\ SecondsLeft' = SecondsLeft
  BY DEF DayPoll, Arm, SecondsLeft
<1>4. requestsToday' = spent[Today] + n
  BY <1>1 DEF DayInv, Counts, Even, DayPoll, NoteRequests
<1>5. SecondsLeft \in Nat \ {0} /\ now + SecondsLeft = DayLength * (Today + 1)
  BY <1>1, EndOfToday
<1>6. pollInterval' = Least(Greatest(ConfiguredInterval, SecondsLeft + ResetMargin), MaxInterval)
  BY <1>3, <1>5 DEF BudgetPacedInterval, Greatest
<1>7. CASE pollInterval = MaxInterval
  BY <1>1, <1>3, <1>6, <1>7 DEF Least, Greatest
<1>8. CASE pollInterval < MaxInterval
  <2>1. PICK left \in Nat :
            /\ due - pollInterval + Early + left = DayLength * (Today + 1)
            /\ left * CycleCost <= (Budget - spent[Today]) * pollInterval
    BY <1>2, <1>8 DEF Even
  <2>2. Budget - spent[Today] <= 2 * CycleCost /\ Budget - spent[Today] \in Int
    BY <1>1, <1>3, <1>4
  <2>3. left <= 2 * pollInterval
    BY <1>1, <2>1, <2>2, HalfTheRest
  <2>4. DayLength * (Today + 1) \in Nat
    BY <1>1
  <2>5. SecondsLeft <= pollInterval + Early
    BY <1>1, <1>5, <2>1, <2>3, <2>4
  <2> QED BY <1>1, <1>5, <1>6, <2>5 DEF Least, Greatest
<1> QED BY <1>1, <1>7, <1>8

\* For any day, budget and intervals: as long as only polls spend, the wait for
\* the reset is no longer than the interval before it and the margins.
THEOREM SpendingIsEven == DaySpec => SpendIsEven
<1> DEFINE Step == ~awaited /\ awaited' /\ spent[Today] > 0 /\ others = 0 /\ reloads = 0
                     => pollInterval' <= pollInterval + ResetMargin + Early
<1>1. DayInv /\ Even /\ [DayNext]_dayVars => [Step]_dayVars
  <2> SUFFICES ASSUME DayInv, Even, DayNext PROVE Step
    OBVIOUS
  <2>1. CASE Other \/ Save \/ Reload \/ Crash \/ Tick
    BY <2>1 DEF Other, Save, Reload, Crash, Import, Tick
  <2> QED BY <2>1, PollSpendsEvenly DEF DayNext
<1>2. DayInv /\ Even /\ [DayNext]_dayVars => (DayInv /\ Even)'
  BY DayGoesOn, EvenGoesOn
<1>3. DayInit => DayInv /\ Even
  BY DayStarts, EvenStarts
<1> QED BY <1>1, <1>2, <1>3, PTL DEF DaySpec, SpendIsEven
-----------------------------------------------------------------------------
(* The cloud poll (PollCycle).                                              *)

\* A back-off never goes below the interval in force.
LEMMA BackOffSlows ==
    ASSUME interval \in Nat, NEW wait \in Nat, BackOff(wait)
    PROVE  interval' \in Nat /\ interval' >= interval
  BY DEF BackOff, Greatest

\* A read changes the interval by a back-off only.
LEMMA FetchedSlows ==
    ASSUME interval \in Nat, NEW d, NEW outcome, Fetched(d, outcome)
    PROVE  interval' \in Nat /\ interval' >= interval
<1>1. CASE UNCHANGED interval
  BY <1>1
<1>2. CASE \E wait \in RetryAfters \cup {DefaultBackoff} : BackOff(wait)
  BY <1>2, BackOffSlows, PollAssumption
<1> QED BY <1>1, <1>2 DEF Fetched

\* The start of a cycle sets the interval only by a deferral, and never under
\* a 429 back-off.
LEMMA StartPollSlows ==
    ASSUME interval \in Nat, NEW fresh, NEW idle, NEW resetIn \in Nat,
           StartPoll(fresh, idle, resetIn)
    PROVE  interval' \in Nat /\ (rateLimited' => interval' = interval)
<1>1. PICK left : Ask(left, resetIn)
  BY DEF StartPoll
<1>2. rateLimited' = rateLimited
  BY DEF StartPoll
<1>3. DefersCycle(left, resetIn) => ~rateLimited
  BY DEF DefersCycle
<1>4. HeaderBackoffInterval(BaseInterval, resetIn) \in Nat
  BY PollAssumption, BudgetAssumption DEF HeaderBackoffInterval, Greatest, Least
<1> QED BY <1>1, <1>2, <1>3, <1>4 DEF Ask

\* The end of a gather paces the poll unless a back-off owns the interval.
LEMMA GatheredSlows ==
    ASSUME interval \in Nat, Gathered
    PROVE  interval' \in Nat /\ (rateLimited' => interval' = interval)
<1>1. Pace(IF Recovers THEN BaseInterval ELSE interval) /\ rateLimited' = (rateLimited /\ ~Recovers)
  BY DEF Gathered
<1>2. BaseInterval \in Nat /\ PacedTo \subseteq Nat
  BY PollAssumption, BudgetAssumption
<1> QED BY <1>1, <1>2 DEF Pace

\* The interval and the headers' clock are whole seconds.
WholeSeconds == interval \in Nat /\ reset \in Nat

LEMMA SecondsAtStart == Init => WholeSeconds
  BY PollAssumption, BudgetAssumption DEF Init, WholeSeconds

\* A step of the poll or beside it keeps them so.
LEMMA SecondsKept == WholeSeconds /\ [Next]_vars => WholeSeconds'
<1> SUFFICES ASSUME WholeSeconds, [Next]_vars PROVE WholeSeconds'
  OBVIOUS
<1> USE DEF WholeSeconds
<1>1. ASSUME NEW fresh, NEW idle, NEW resetIn \in {0, reset}, StartPoll(fresh, idle, resetIn)
      PROVE  WholeSeconds'
  BY <1>1, StartPollSlows DEF StartPoll, api
<1>2. CASE Gathered
  BY <1>2, GatheredSlows DEF Gathered, api
<1>3. ASSUME NEW d, NEW outcome, Fetched(d, outcome) PROVE WholeSeconds'
  BY <1>3, FetchedSlows, PollAssumption DEF Fetched, Headers, api
<1>4. ASSUME UNCHANGED <<interval, api>> PROVE WholeSeconds'
  BY <1>4 DEF api
<1> QED
  BY <1>1, <1>2, <1>3, <1>4
     DEF Next, Poll, vars, GatherRefused, CycleEnds, Pushed, Disable, StartExtra, ReadEnds, ExtraEnds

\* A 429 never makes the poll faster, and while it is in force nothing does.
THEOREM SlowedByRefusal == Spec => RefusalSlowsPoll
<1>1. WholeSeconds /\ [Next]_vars => [rateLimited' => interval' >= interval]_vars
  <2> SUFFICES ASSUME WholeSeconds, Next PROVE rateLimited' => interval' >= interval
    OBVIOUS
  <2> USE DEF WholeSeconds
  <2>1. ASSUME NEW fresh, NEW idle, NEW resetIn \in {0, reset}, StartPoll(fresh, idle, resetIn)
        PROVE  rateLimited' => interval' >= interval
    BY <2>1, StartPollSlows
  <2>2. CASE Gathered
    BY <2>2, GatheredSlows
  <2>3. ASSUME NEW d, NEW outcome, Fetched(d, outcome) PROVE interval' >= interval
    BY <2>3, FetchedSlows
  <2>4. ASSUME UNCHANGED interval PROVE interval' >= interval
    BY <2>4
  <2> QED
    BY <2>1, <2>2, <2>3, <2>4
       DEF Next, Poll, GatherRefused, CycleEnds, Pushed, Disable, StartExtra, ReadEnds, ExtraEnds
<1> QED BY <1>1, SecondsAtStart, SecondsKept, PTL DEF Spec, RefusalSlowsPoll
-----------------------------------------------------------------------------
(* An outage is total.                                                      *)

HeldOrMissing == Held \cup Missing

AnswersTyped ==
    /\ asked \subseteq Devices /\ result \in [Devices -> Results]
    /\ extra \in Kettles \cup {NoDevice}

\* A device without a cloud read never fails.
HeldNeverFails == \A d \in HeldOrMissing : result[d] # "outage"

\* A read that was not fresh, of a device that could have had a fresh one, was refused.
CachedIsRefused == ~cycleLimited => cached \subseteq HeldOrMissing

\* What the gather found is what the end of the cycle reports.
OutageFound ==
    phase = "tail" /\ outage /\ ~cycleLimited =>
        \A d \in asked \ HeldOrMissing : result[d] = "outage"

Total == AnswersTyped /\ HeldNeverFails /\ CachedIsRefused /\ OutageFound

LEMMA TotalAtStart == Init => Total
  BY PollAssumption DEF Init, Total, AnswersTyped, HeldNeverFails, CachedIsRefused, OutageFound,
     HeldOrMissing, Results

\* A read leaves the marks right, whether in the poll or beside it.
LEMMA FetchedMarks ==
    ASSUME CachedIsRefused, NEW d \in Devices, NEW outcome \in Outcomes, Fetched(d, outcome)
    PROVE  CachedIsRefused' /\ (~cycleLimited' => ~cycleLimited)
  BY PollAssumption DEF CachedIsRefused, HeldOrMissing, Fetched

\* As many outages as devices that count: those are the devices.
LEMMA GatheredFinds ==
    ASSUME Total, Gathered
    PROVE  Total'
<1> DEFINE out     == {d \in asked : result[d] = "outage"}
           counted == asked \ cached
<1>1. AnswersTyped' /\ HeldNeverFails' /\ CachedIsRefused'
  BY DEF Gathered, Total, AnswersTyped, HeldNeverFails, CachedIsRefused
<1>2. ASSUME outage', ~cycleLimited PROVE \A d \in asked \ HeldOrMissing : result[d] = "outage"
  <2>1. cached \subseteq HeldOrMissing
    BY <1>2 DEF Total, CachedIsRefused
  <2>2. out \subseteq counted
    BY <2>1 DEF Total, HeldNeverFails
  <2>3. IsFiniteSet(counted)
    BY FS_Subset, PollAssumption DEF Total, AnswersTyped
  <2>4. Cardinality(out) = Cardinality(counted)
    BY <1>2 DEF Gathered
  <2>5. out = counted
    BY <2>2, <2>3, <2>4, FS_Subset
  <2> QED BY <2>1, <2>5
<1>3. OutageFound'
  BY <1>2 DEF Gathered, OutageFound
<1> QED BY <1>1, <1>3 DEF Total

LEMMA TotalKept == Total /\ [Next]_vars => Total'
<1> SUFFICES ASSUME Total, [Next]_vars PROVE Total'
  OBVIOUS
<1>1. ASSUME NEW fresh, NEW idle, NEW resetIn, StartPoll(fresh, idle, resetIn) PROVE Total'
  <2>1. asked' \subseteq Devices
    <3>1. PICK left \in SUBSET Devices : Ask(left, resetIn)
      BY <1>1 DEF StartPoll, LocallyFresh, HeldBack
    <3> QED BY <3>1 DEF Ask
  <2>2. phase' = "fetch" /\ cached' = {} /\ result' = [d \in Devices |-> "none"] /\ extra' = extra
    BY <1>1 DEF StartPoll
  <2>3. HeldOrMissing \subseteq Devices
    BY PollAssumption DEF HeldOrMissing
  <2>4. AnswersTyped' /\ HeldNeverFails'
    BY <2>1, <2>2, <2>3 DEF Total, AnswersTyped, HeldNeverFails, Results
  <2> QED BY <2>2, <2>4 DEF Total, CachedIsRefused, OutageFound
<1>2. CASE Gathered
  BY <1>2, GatheredFinds
<1>3. ASSUME NEW d \in Devices, NEW outcome \in Outcomes, ReadEnds(d, outcome) PROVE Total'
  <2>1. CachedIsRefused'
    BY <1>3, FetchedMarks DEF Total, ReadEnds
  <2>2. AnswersTyped' /\ HeldNeverFails'
    BY <1>3, PollAssumption DEF Total, AnswersTyped, HeldNeverFails, HeldOrMissing, Results, ReadEnds
  <2>3. OutageFound'
    BY <1>3 DEF OutageFound, ReadEnds
  <2> QED BY <2>1, <2>2, <2>3 DEF Total
<1>4. ASSUME NEW outcome \in Outcomes, ExtraEnds(outcome) PROVE Total'
  <2>0. extra \in Devices
    BY <1>4, PollAssumption DEF Total, AnswersTyped, ExtraEnds
  <2>1. CachedIsRefused' /\ (~cycleLimited' => ~cycleLimited)
    BY <1>4, <2>0, FetchedMarks DEF Total, ExtraEnds
  <2>2. UNCHANGED <<phase, cycle>> /\ extra' = NoDevice
    BY <1>4 DEF ExtraEnds
  <2> QED BY <2>1, <2>2 DEF Total, AnswersTyped, HeldNeverFails, OutageFound, cycle
<1>5. ASSUME UNCHANGED <<limits, cycle>>, phase' \in {phase, "idle"},
             extra' \in Kettles \cup {NoDevice}
      PROVE  Total'
  BY <1>5 DEF Total, AnswersTyped, HeldNeverFails, CachedIsRefused, OutageFound, limits, cycle
<1>6. extra \in Kettles \cup {NoDevice}
  BY DEF Total, AnswersTyped
<1> QED
  BY <1>1, <1>2, <1>3, <1>4, <1>5, <1>6 DEF Next, Poll, vars, GatherRefused, CycleEnds, Pushed, Disable, StartExtra

\* Only an outage of every device that could answer is reported as one.
THEOREM ReportedOutageIsTotal == Spec => OutageIsTotal
<1>1. Total /\ [Next]_vars =>
        [phase = "tail" /\ phase' = "idle" /\ ~lastOk' =>
           \A d \in asked \ (Held \cup Missing) : result[d] = "outage"]_vars
  <2> SUFFICES ASSUME Total, Next, phase = "tail", phase' = "idle", ~lastOk'
               PROVE  \A d \in asked \ HeldOrMissing : result[d] = "outage"
    BY DEF HeldOrMissing
  <2>1. CycleEnds
    BY DEF Next, Poll, StartPoll, GatherRefused, Gathered, CycleEnds, Pushed, Disable, StartExtra, ReadEnds, ExtraEnds
  <2> QED BY <2>1 DEF CycleEnds, Total, OutageFound
<1> QED BY <1>1, TotalAtStart, TotalKept, PTL DEF Spec, OutageIsTotal

\* For any devices, intervals and back-offs: refusals slow the poll, and a
\* reported outage is one of every device that could answer.
THEOREM CloudRead == Spec => CloudIsReadRight
BY SlowedByRefusal, ReportedOutageIsTotal DEF CloudIsReadRight
-----------------------------------------------------------------------------
(* No device is excused from the cloud for long.                            *)

\* Cycles a device may still be excused from: the rest of its run of local
\* readings, and a whole run and the beat itself for every beat to sit out.
BeatsLeft(d)   == IF counts[d] = 0 THEN 0 ELSE Divisor - counts[d]
ExcusesLeft(d) == BeatsLeft(d) * (MaxSkips + 1) + (MaxSkips - skips[d])

ExcusesTyped ==
    /\ disabled \subseteq Devices
    /\ skips \in [Devices -> 0..MaxSkips] /\ counts \in [Devices -> 0..(Divisor - 1)]
    /\ since \in [Devices -> Nat]

\* The cycles a device has missed and those it may yet miss.
Excused == ExcusesTyped /\ \A d \in Devices : since[d] + ExcusesLeft(d) <= LongestWait

\* A beat comes round.
LEMMA NextBeat ==
    ASSUME NEW n \in 0..(Divisor - 1)
    PROVE  (n + 1) % Divisor = IF n + 1 = Divisor THEN 0 ELSE n + 1
BY PollAssumption, SMT

\* So many beats of a period, however few.
LEMMA BeatsBound ==
    ASSUME NEW n \in Nat, n < Divisor
    PROVE  n * (MaxSkips + 1) <= (Divisor - 1) * (MaxSkips + 1)
BY PollAssumption, SMT

LEMMA WaitIs ==
    /\ LongestWait \in Nat
    /\ LongestWait = (Divisor - 1) * (MaxSkips + 1) + MaxSkips
BY PollAssumption, SMT DEF LongestWait

LEMMA ExcusedAtStart == Init => Excused
<1> SUFFICES ASSUME Init PROVE Excused
  OBVIOUS
<1>1. ExcusesTyped
  BY PollAssumption DEF Init, ExcusesTyped
<1>2. ASSUME NEW d \in Devices PROVE since[d] + ExcusesLeft(d) <= LongestWait
  <2>1. BeatsLeft(d) \in Nat /\ BeatsLeft(d) < Divisor
    BY <1>1, PollAssumption DEF ExcusesTyped, BeatsLeft
  <2>2. since[d] = 0
    BY DEF Init
  <2> QED BY <2>1, <2>2, <1>1, BeatsBound, WaitIs, PollAssumption DEF ExcusesLeft, ExcusesTyped
<1> QED BY <1>1, <1>2 DEF Excused

\* A device asked, or never so far, may miss a full wait.
LEMMA WholeWaitAhead ==
    ASSUME ExcusesTyped, NEW d \in Devices, since[d] = 0
    PROVE  since[d] + ExcusesLeft(d) <= LongestWait
<1>1. BeatsLeft(d) \in Nat /\ BeatsLeft(d) < Divisor
  BY PollAssumption DEF ExcusesTyped, BeatsLeft
<1> QED BY <1>1, BeatsBound, WaitIs, PollAssumption DEF ExcusesLeft, ExcusesTyped

\* A cycle that asks does what it does with the devices left.
LEMMA StartPollParts ==
    ASSUME Excused, NEW fresh, NEW idle, NEW resetIn, StartPoll(fresh, idle, resetIn)
    PROVE  LET enabled  == Devices \ disabled
               local    == LocallyFresh(enabled, fresh)
               pollable == enabled \ local
               held     == IF Tight(enabled) THEN HeldBack(pollable, idle) ELSE {}
           IN  /\ disabled' = disabled
               /\ skips' = [d \in Devices |->
                    IF d \notin enabled \cap known THEN skips[d] ELSE IF d \in local THEN skips[d] + 1 ELSE 0]
               /\ IF Tight(enabled) THEN Advance(pollable) ELSE UNCHANGED counts
               /\ \A d \in Devices :
                    since'[d] = IF d \in local \cup held /\ ~deferred' THEN Least(since[d], LongestWait) + 1 ELSE 0
BY DEF StartPoll, Ask, LocallyFresh, HeldBack

\* The choice of a cycle spends of each device's excuses those it takes.
LEMMA StartPollExcuses ==
    ASSUME Excused, NEW fresh, NEW idle, NEW resetIn, StartPoll(fresh, idle, resetIn)
    PROVE  Excused'
<1> DEFINE enabled  == Devices \ disabled
           local    == LocallyFresh(enabled, fresh)
           pollable == enabled \ local
           held     == IF Tight(enabled) THEN HeldBack(pollable, idle) ELSE {}
<1>1. /\ disabled' = disabled
      /\ skips' = [d \in Devices |->
           IF d \notin enabled \cap known THEN skips[d] ELSE IF d \in local THEN skips[d] + 1 ELSE 0]
      /\ IF Tight(enabled) THEN Advance(pollable) ELSE UNCHANGED counts
      /\ \A d \in Devices :
           since'[d] = IF d \in local \cup held /\ ~deferred' THEN Least(since[d], LongestWait) + 1 ELSE 0
  BY StartPollParts
<1> HIDE DEF local, held
<1>2. ExcusesTyped
  BY DEF Excused
<1>3. since' \in [Devices -> Nat]
  BY <1>2, WaitIs DEF StartPoll, Ask, ExcusesTyped, Least
<1>4. skips' \in [Devices -> 0..MaxSkips]
  <2>1. \A d \in local : d \in Devices /\ skips[d] + 1 \in 0..MaxSkips
    BY <1>2, PollAssumption DEF ExcusesTyped, local, LocallyFresh
  <2>2. \A d \in Devices : skips[d] \in 0..MaxSkips /\ 0 \in 0..MaxSkips
    BY <1>2, PollAssumption DEF ExcusesTyped
  <2> QED BY <1>1, <2>1, <2>2
<1>5. /\ counts' \in [Devices -> 0..(Divisor - 1)]
      /\ \A d \in Devices :
           counts'[d] = IF Tight(enabled) /\ d \in pollable
                        THEN IF counts[d] + 1 = Divisor THEN 0 ELSE counts[d] + 1 ELSE counts[d]
  <2>1. \A d \in Devices :
          /\ (counts[d] + 1) % Divisor = IF counts[d] + 1 = Divisor THEN 0 ELSE counts[d] + 1
          /\ (counts[d] + 1) % Divisor \in 0..(Divisor - 1)
    BY <1>2, NextBeat, PollAssumption DEF ExcusesTyped
  <2>2. CASE Tight(enabled)
    <3>1. counts' = [d \in Devices |-> IF d \in pollable THEN (counts[d] + 1) % Divisor ELSE counts[d]]
      BY <2>2, <1>1 DEF Advance
    <3> HIDE DEF pollable
    <3>2. \A d \in Devices : counts[d] \in 0..(Divisor - 1)
      BY <1>2 DEF ExcusesTyped
    <3> QED BY <2>1, <2>2, <3>1, <3>2
  <2>3. CASE ~Tight(enabled)
    BY <2>3, <1>1, <1>2 DEF ExcusesTyped
  <2> QED BY <2>2, <2>3
<1>6. ExcusesTyped'
  BY <1>1, <1>2, <1>3, <1>4, <1>5 DEF ExcusesTyped
<1>7. ASSUME NEW d \in Devices PROVE since'[d] + ExcusesLeft(d)' <= LongestWait
  <2>1. CASE since'[d] = 0
    <3>1. BeatsLeft(d)' \in Nat /\ BeatsLeft(d)' < Divisor
      BY <1>6, PollAssumption DEF ExcusesTyped, BeatsLeft
    <3> QED BY <2>1, <3>1, <1>6, BeatsBound, WaitIs, PollAssumption DEF ExcusesLeft, ExcusesTyped
  <2>2. since[d] + ExcusesLeft(d) <= LongestWait /\ since[d] \in Nat /\ ExcusesLeft(d) \in Nat
    <3>1. BeatsLeft(d) \in Nat
      BY <1>2, PollAssumption DEF ExcusesTyped, BeatsLeft
    <3> QED BY <1>2, <3>1, PollAssumption DEF Excused, ExcusesTyped, ExcusesLeft
  <2>3. Least(since[d], LongestWait) = since[d]
    BY <2>2, WaitIs DEF Least
  <2>4. CASE d \in local /\ since'[d] # 0
    <3>1. skips'[d] = skips[d] + 1 /\ counts'[d] = counts[d]
      BY <2>4, <1>1, <1>5 DEF local, LocallyFresh
    <3>2. since'[d] = since[d] + 1
      BY <2>4, <2>3, <1>1
    <3>3. ExcusesLeft(d)' = ExcusesLeft(d) - 1
      <4>1. BeatsLeft(d) \in Nat /\ BeatsLeft(d)' = BeatsLeft(d)
        BY <3>1, <1>2, PollAssumption DEF ExcusesTyped, BeatsLeft
      <4> QED BY <3>1, <4>1, <1>2, PollAssumption DEF ExcusesTyped, ExcusesLeft
    <3> QED BY <2>2, <3>2, <3>3, WaitIs
  <2>5. CASE d \in held /\ d \notin local /\ since'[d] # 0
    <3>1. Tight(enabled) /\ d \in pollable /\ d \in known /\ counts[d] # 0
      BY <2>5 DEF held, HeldBack
    <3>2. skips'[d] = 0 /\ counts'[d] = IF counts[d] + 1 = Divisor THEN 0 ELSE counts[d] + 1
      BY <3>1, <1>1, <1>5, <2>5
    <3>3. since'[d] = since[d] + 1
      BY <2>5, <2>3, <1>1
    <3>4. BeatsLeft(d) \in Nat /\ BeatsLeft(d)' \in Nat /\ BeatsLeft(d) = BeatsLeft(d)' + 1
      BY <3>1, <3>2, <1>2, PollAssumption DEF ExcusesTyped, BeatsLeft
    <3>5. ExcusesLeft(d)' + 1 <= ExcusesLeft(d)
      <4>1. (BeatsLeft(d)' + 1) * (MaxSkips + 1) = BeatsLeft(d)' * (MaxSkips + 1) + (MaxSkips + 1)
        BY <3>4, PollAssumption
      <4>2. skips[d] \in 0..MaxSkips /\ BeatsLeft(d)' * (MaxSkips + 1) \in Nat
        BY <3>4, <1>2, PollAssumption DEF ExcusesTyped
      <4> QED BY <3>2, <3>4, <4>1, <4>2, PollAssumption DEF ExcusesLeft
    <3> QED BY <2>2, <3>3, <3>4, <3>5, <1>6, WaitIs, PollAssumption DEF ExcusesLeft, ExcusesTyped
  <2> QED BY <2>1, <2>4, <2>5, <1>1
<1> QED BY <1>6, <1>7 DEF Excused

LEMMA ExcusedKept == Excused /\ [Next]_vars => Excused'
<1> SUFFICES ASSUME Excused, [Next]_vars PROVE Excused'
  OBVIOUS
<1>1. ASSUME NEW fresh, NEW idle, NEW resetIn, StartPoll(fresh, idle, resetIn) PROVE Excused'
  BY <1>1, StartPollExcuses
<1>2. ASSUME UNCHANGED runs, disabled' \subseteq Devices PROVE Excused'
  BY <1>2 DEF Excused, ExcusesTyped, ExcusesLeft, BeatsLeft, runs
<1>3. disabled \subseteq Devices
  BY DEF Excused, ExcusesTyped
<1> QED
  BY <1>1, <1>2, <1>3, PollAssumption
     DEF Next, Poll, vars, GatherRefused, Gathered, CycleEnds, Pushed, Disable, StartExtra, ReadEnds, ExtraEnds

\* Whatever the local readings and the idleness: a device is asked again within
\* the longest wait.
THEOREM ReconciledWithCloud == Spec => []ReconciledInTime
<1>1. Excused => ReconciledInTime
  <2> SUFFICES ASSUME Excused, NEW d \in Devices PROVE since[d] <= LongestWait
    BY DEF ReconciledInTime
  <2>1. BeatsLeft(d) \in Nat
    BY PollAssumption DEF Excused, ExcusesTyped, BeatsLeft
  <2> QED BY <2>1, WaitIs, PollAssumption DEF Excused, ExcusesTyped, ExcusesLeft
<1> QED BY <1>1, ExcusedAtStart, ExcusedKept, PTL DEF Spec

\* What every step of the poll keeps.
PollInv == TypeOK /\ WholeSeconds /\ Total /\ Excused

LEMMA PollTypesKept == PollInv /\ [Next]_vars => TypeOK'
<1> SUFFICES ASSUME PollInv, [Next]_vars PROVE TypeOK'
  OBVIOUS
<1> USE PollAssumption
<1>1. WholeSeconds' /\ Total' /\ Excused'
  BY SecondsKept, TotalKept, ExcusedKept DEF PollInv
<1>2. /\ interval' \in Nat /\ reset' \in Nat
      /\ asked' \subseteq Devices /\ result' \in [Devices -> Results] /\ extra' \in Kettles \cup {NoDevice}
      /\ skips' \in [Devices -> 0..MaxSkips] /\ counts' \in [Devices -> 0..(Divisor - 1)] /\ since' \in [Devices -> Nat]
  BY <1>1 DEF WholeSeconds, Total, AnswersTyped, Excused, ExcusesTyped
<1>3. TypeOK
  BY DEF PollInv
<1>4. /\ known' \subseteq Devices /\ readOnce' \subseteq known' /\ cached' \subseteq Devices
      /\ rateLimited' \in BOOLEAN /\ cycleLimited' \in BOOLEAN
      /\ remaining' \in Nat /\ refusals' \in 0..MaxRefusals /\ failures' \in 0..MaxFailures
  <2>1. ASSUME NEW d \in Devices, NEW outcome \in Outcomes, Fetched(d, outcome)
        PROVE  /\ known' \subseteq Devices /\ readOnce' \subseteq known' /\ cached' \subseteq Devices
               /\ rateLimited' \in BOOLEAN /\ cycleLimited' \in BOOLEAN
               /\ remaining' \in Nat /\ refusals' \in 0..MaxRefusals /\ failures' \in 0..MaxFailures
    <3>1. rateLimited' \in BOOLEAN /\ cycleLimited' \in BOOLEAN
      BY <1>3, <2>1 DEF TypeOK, Fetched, BackOff
    <3>2. known' \subseteq Devices /\ readOnce' \subseteq known' /\ cached' \subseteq Devices
      BY <1>3, <2>1 DEF TypeOK, Fetched
    <3>3. remaining' \in Nat /\ refusals' \in 0..MaxRefusals /\ failures' \in 0..MaxFailures
      <4>1. remaining \in Nat /\ refusals \in 0..MaxRefusals /\ failures \in 0..MaxFailures
        BY <1>3 DEF TypeOK
      <4>2. Headers \/ UNCHANGED remaining
        BY <2>1 DEF Fetched, api
      <4>3. /\ UNCHANGED refusals \/ (refusals < MaxRefusals /\ refusals' = refusals + 1)
            /\ UNCHANGED failures \/ (failures < MaxFailures /\ failures' = failures + 1)
        BY <2>1 DEF Fetched, api
      <4>4. remaining' \in Nat
        BY <4>1, <4>2 DEF Headers
      <4>5. MaxRefusals \in Nat /\ MaxFailures \in Nat
        OBVIOUS
      <4>6. refusals' \in 0..MaxRefusals /\ failures' \in 0..MaxFailures
        BY <4>1, <4>3, <4>5
      <4> QED BY <4>4, <4>6
    <3> QED BY <3>1, <3>2, <3>3
  <2>2. ASSUME NEW fresh, NEW idle, NEW resetIn, StartPoll(fresh, idle, resetIn)
        PROVE  UNCHANGED <<known, readOnce, rateLimited, api>> /\ cached' = {} /\ cycleLimited' = FALSE
    BY <2>2 DEF StartPoll
  <2>3. CASE Gathered
    BY <1>3, <2>3 DEF Gathered, TypeOK, api
  <2>4. ASSUME UNCHANGED <<known, readOnce, rateLimited, cycleLimited, cached, api>>
        PROVE  /\ known' \subseteq Devices /\ readOnce' \subseteq known' /\ cached' \subseteq Devices
               /\ rateLimited' \in BOOLEAN /\ cycleLimited' \in BOOLEAN
               /\ remaining' \in Nat /\ refusals' \in 0..MaxRefusals /\ failures' \in 0..MaxFailures
    BY <1>3, <2>4 DEF TypeOK, api
  <2>5. ASSUME NEW outcome \in Outcomes, ExtraEnds(outcome) PROVE extra \in Devices /\ Fetched(extra, outcome)
    BY <1>3, <2>5 DEF TypeOK, ExtraEnds
  <2> QED
    BY <1>3, <2>1, <2>2, <2>3, <2>4, <2>5
       DEF Next, Poll, vars, GatherRefused, CycleEnds, Pushed, Disable, StartExtra, ReadEnds, limits, TypeOK, api
<1>5. /\ phase' \in {"idle", "fetch", "tail"} /\ armed' \in BOOLEAN /\ lastOk' \in BOOLEAN
      /\ disabled' \subseteq CanDisable
  BY <1>3 DEF TypeOK, Next, Poll, vars, StartPoll, GatherRefused, Gathered, CycleEnds, Pushed, Disable,
     StartExtra, ReadEnds, ExtraEnds
<1>6. headerDeferred' \in BOOLEAN /\ deferred' \in BOOLEAN /\ readable' \in BOOLEAN /\ outage' \in BOOLEAN
  <2>1. ASSUME NEW fresh, NEW idle, NEW resetIn, StartPoll(fresh, idle, resetIn)
        PROVE  /\ headerDeferred' \in BOOLEAN /\ deferred' \in BOOLEAN /\ readable' \in BOOLEAN
               /\ outage' \in BOOLEAN
    BY <1>3, <2>1 DEF TypeOK, StartPoll, Ask, DefersCycle, Defers
  <2> QED
    BY <1>3, <2>1
       DEF TypeOK, Next, Poll, vars, GatherRefused, Gathered, CycleEnds, Pushed, Disable,
         StartExtra, ReadEnds, ExtraEnds, limits, cycle
<1>7. waiting' \subseteq asked'
  <2>1. ASSUME NEW fresh, NEW idle, NEW resetIn, StartPoll(fresh, idle, resetIn) PROVE waiting' \subseteq asked'
    BY <2>1 DEF StartPoll, Ask
  <2> QED
    BY <1>3, <2>1
       DEF TypeOK, Next, Poll, vars, GatherRefused, Gathered, CycleEnds, Pushed, Disable,
         StartExtra, ReadEnds, ExtraEnds, cycle
<1> QED BY <1>2, <1>4, <1>5, <1>6, <1>7 DEF TypeOK

LEMMA PollStarts == Init => PollInv
<1>1. Init => TypeOK
  <2> SUFFICES ASSUME Init PROVE TypeOK
    OBVIOUS
  <2> USE PollAssumption, BudgetAssumption DEF Init
  <2>1. interval \in Nat /\ remaining \in Nat /\ reset \in Nat /\ refusals \in 0..MaxRefusals /\ failures \in 0..MaxFailures
    OBVIOUS
  <2>2. result \in [Devices -> Results] /\ since \in [Devices -> Nat]
    BY DEF Results
  <2>3. skips \in [Devices -> 0..MaxSkips] /\ counts \in [Devices -> 0..(Divisor - 1)]
    BY ExcusedAtStart DEF Excused, ExcusesTyped
  <2> QED BY <2>1, <2>2, <2>3 DEF TypeOK
<1> QED BY <1>1, SecondsAtStart, TotalAtStart, ExcusedAtStart DEF PollInv

LEMMA PollGoesOn == PollInv /\ [Next]_vars => PollInv'
BY PollTypesKept, SecondsKept, TotalKept, ExcusedKept DEF PollInv

\* The poll's variables keep their types.
THEOREM PollTyped == Spec => []TypeOK
<1>1. PollInv => TypeOK
  BY DEF PollInv
<1> QED BY <1>1, PollStarts, PollGoesOn, PTL DEF Spec
-----------------------------------------------------------------------------
(* The config flow (ConfigFlow).                                            *)

FlowStates == {"new", "closed", "form", "account", "code"} \cup Flow!Waiting

FlowTyped ==
    /\ entryData \in [Entries -> Flow!Data \cup {None}]
    /\ flowAt \in [Flows -> FlowStates] /\ flowKind \in [Flows -> Flow!Kinds]
    /\ flowTarget \in [Flows -> Entries \cup {None}]
    /\ flowKey \in [Flows -> Keys \cup {None}] /\ flowChoice \in [Flows -> Accounts \cup {None}]
    /\ flowTyped \in [Flows -> Accounts \cup {None}] /\ flowDraft \in [Flows -> Flow!Data \cup {None}]
    /\ ownLogin \in [Entries -> Accounts \cup {None}]
    /\ loginSerial \in 0..MaxFlowLogins
    /\ loginCrossed \subseteq Entries /\ keysOverlapped \subseteq Keys

\* What a flow has when it gets somewhere: its key, the entry it is about, the
\* account it logs in to, and the draft of an entry with its key.
FlowStaged ==
    /\ \A f \in Flows : flowAt[f] \notin {"new", "closed"} =>
        /\ flowKey[f] \in Keys
        /\ flowKind[f] # "user" => flowTarget[f] \in Entries /\ Flow!Exists(flowTarget[f])
        /\ flowAt[f] = "account" => flowKind[f] = "user"
        /\ flowAt[f] \in {"login", "code", "verifying"} =>
             flowKind[f] # "reauth" /\ flowChoice[f] \in Accounts
        /\ flowAt[f] = "login" /\ flowKind[f] = "reconfigure" =>
             flowDraft[f] \in Flow!Data /\ flowDraft[f].key = flowKey[f]
    /\ \A e \in Entries : ownLogin[e] # None => Flow!Exists(e)

\* The key a flow is busy with is no other entry's, nor another flow's, unless
\* two flows were busy with it.
FlowKeysApart ==
    \A f \in Flows : flowAt[f] \notin {"new", "closed"} /\ flowKey[f] \notin keysOverlapped =>
        /\ Flow!KeyFree(flowKey[f], IF flowKind[f] = "user" THEN None ELSE flowTarget[f])
        /\ \A g \in Flows \ {f} : ~Flow!Busy(g, flowKey[f])

\* No credentials are of a login not answered yet.
CredsArePast ==
    \A e \in Entries :
        Flow!Exists(e) /\ entryData[e].creds # None => entryData[e].creds.n <= loginSerial

FlowInv ==
    /\ FlowTyped /\ FlowStaged /\ FlowKeysApart /\ CredsArePast
    /\ Flow!CredentialsMatch /\ Flow!KeysAreApart

LEMMA FlowStarts == Flow!Init => FlowInv
<1> SUFFICES ASSUME Flow!Init PROVE FlowInv
  OBVIOUS
<1> USE FlowAssumption DEF Flow!Init
<1>1. PICK first \in Entries, k \in Keys, w \in Accounts :
        entryData = [e \in Entries |->
          IF e = first THEN [key |-> k, account |-> w, creds |-> [of |-> w, n |-> 0]] ELSE None]
  OBVIOUS
<1>2. [of |-> w, n |-> 0] \in Flow!Creds
  BY DEF Flow!Creds
<1>3. [key |-> k, account |-> w, creds |-> [of |-> w, n |-> 0]] \in Flow!Data
  BY <1>2 DEF Flow!Data
<1>4. FlowTyped
  BY <1>1, <1>3 DEF FlowTyped, FlowStates, Flow!Kinds
<1>5. FlowStaged /\ FlowKeysApart
  BY DEF FlowStaged, FlowKeysApart
<1>6. CredsArePast /\ Flow!CredentialsMatch /\ Flow!KeysAreApart
  BY <1>1 DEF CredsArePast, Flow!CredentialsMatch, Flow!KeysAreApart, Flow!Exists
<1> QED BY <1>4, <1>5, <1>6 DEF FlowInv


\* A flow that ends by writing: an entry gets the flow's key, and credentials
\* that are none, those it had, or new ones of the account beside them.
FlowWrites(f, e, new) ==
    /\ flowAt[f] \notin {"new", "closed"}
    /\ IF flowKind[f] = "user" THEN ~Flow!Exists(e) ELSE e = flowTarget[f]
    /\ new \in Flow!Data /\ new.key = flowKey[f]
    /\ \/ new.creds = None
       \/ new.creds.of = new.account /\ new.creds.n = loginSerial' /\ loginSerial' = loginSerial + 1
       \/ Flow!Exists(e) /\ new.creds = entryData[e].creds /\ new.account = entryData[e].account
    /\ entryData' = [entryData EXCEPT ![e] = new]
    /\ Flow!Closed(f)
    /\ loginSerial' \in 0..MaxFlowLogins /\ loginSerial' >= loginSerial
    /\ UNCHANGED <<ownLogin, loginCrossed, keysOverlapped>>

\* The form that is left says nothing of it any more.
LEMMA FlowCloses ==
    ASSUME FlowTyped, NEW f \in Flows, Flow!Closed(f)
    PROVE  /\ flowAt' \in [Flows -> FlowStates] /\ flowKind' \in [Flows -> Flow!Kinds]
           /\ flowTarget' \in [Flows -> Entries \cup {None}] /\ flowKey' \in [Flows -> Keys \cup {None}]
           /\ flowChoice' \in [Flows -> Accounts \cup {None}] /\ flowTyped' \in [Flows -> Accounts \cup {None}]
           /\ flowDraft' \in [Flows -> Flow!Data \cup {None}]
           /\ flowAt'[f] = "closed"
           /\ \A g \in Flows \ {f} :
                /\ flowAt'[g] = flowAt[g] /\ flowKind'[g] = flowKind[g] /\ flowTarget'[g] = flowTarget[g]
                /\ flowKey'[g] = flowKey[g] /\ flowChoice'[g] = flowChoice[g] /\ flowDraft'[g] = flowDraft[g]
  BY DEF FlowTyped, FlowStates, Flow!Closed, Flow!Goes, Flow!Kinds

LEMMA FlowWritesKeep ==
    ASSUME FlowInv, NEW f \in Flows, NEW e \in Entries, NEW new, FlowWrites(f, e, new)
    PROVE  FlowInv' /\ Flow!NewestCredentialsStay
<1> USE FlowAssumption DEF Flow!Exists
<1>1. FlowTyped /\ FlowStaged /\ FlowKeysApart /\ CredsArePast /\ Flow!CredentialsMatch /\ Flow!KeysAreApart
  BY DEF FlowInv
<1>2. /\ flowAt[f] \notin {"new", "closed"}
      /\ IF flowKind[f] = "user" THEN ~Flow!Exists(e) ELSE e = flowTarget[f]
      /\ new \in Flow!Data /\ new.key = flowKey[f] /\ new # None
      /\ loginSerial' \in 0..MaxFlowLogins /\ loginSerial' >= loginSerial /\ loginSerial \in Nat
      /\ UNCHANGED <<ownLogin, loginCrossed, keysOverlapped>>
      /\ Flow!Closed(f)
      /\ flowKey[f] \in Keys
  BY <1>1 DEF FlowWrites, FlowTyped, FlowStaged
<1>3. entryData' \in [Entries -> Flow!Data \cup {None}] /\ entryData'[e] = new
      /\ \A d \in Entries \ {e} : entryData'[d] = entryData[d]
  BY <1>1, <1>2 DEF FlowWrites, FlowTyped
<1>4. \A g \in Flows \ {f} :
        /\ flowAt'[g] = flowAt[g] /\ flowKind'[g] = flowKind[g] /\ flowTarget'[g] = flowTarget[g]
        /\ flowKey'[g] = flowKey[g] /\ flowChoice'[g] = flowChoice[g] /\ flowDraft'[g] = flowDraft[g]
  BY <1>1, <1>2, FlowCloses
<1>5. flowAt'[f] = "closed"
  BY <1>1, <1>2, FlowCloses
<1>6. FlowTyped'
  BY <1>1, <1>2, <1>3, FlowCloses DEF FlowTyped
<1>7. FlowStaged'
  BY <1>1, <1>2, <1>3, <1>4, <1>5 DEF FlowStaged
<1>8. FlowKeysApart'
  <2> SUFFICES ASSUME NEW g \in Flows, flowAt'[g] \notin {"new", "closed"}, flowKey'[g] \notin keysOverlapped
               PROVE  /\ Flow!KeyFree(flowKey[g], IF flowKind[g] = "user" THEN None ELSE flowTarget[g])'
                      /\ \A h \in Flows \ {g} : ~Flow!Busy(h, flowKey[g])'
    BY <1>2 DEF FlowKeysApart
  <2>1. g # f /\ flowAt[g] \notin {"new", "closed"} /\ flowKey[g] \notin keysOverlapped
    BY <1>4, <1>5
  <2>2. flowKey[g] # new.key
    BY <1>1, <1>2, <2>1 DEF FlowKeysApart, Flow!Busy
  <2>3. Flow!KeyFree(flowKey[g], IF flowKind[g] = "user" THEN None ELSE flowTarget[g])'
    BY <1>1, <1>3, <1>4, <2>1, <2>2 DEF FlowKeysApart, Flow!KeyFree
  <2>4. \A h \in Flows \ {g} : ~Flow!Busy(h, flowKey[g])'
    BY <1>1, <1>4, <1>5, <2>1 DEF FlowKeysApart, Flow!Busy
  <2> QED BY <2>3, <2>4
<1>9. CredsArePast'
  <2>1. \A d \in Entries : Flow!Exists(d) /\ entryData[d].creds # None =>
          entryData[d].creds.n \in Nat /\ entryData[d].creds.n <= loginSerial'
    BY <1>1, <1>2 DEF CredsArePast, FlowTyped, Flow!Data, Flow!Creds
  <2>2. new.creds # None => new.creds.n <= loginSerial'
    BY <1>2, <2>1 DEF FlowWrites
  <2> QED BY <1>3, <2>1, <2>2 DEF CredsArePast
<1>10. Flow!CredentialsMatch'
  BY <1>1, <1>2, <1>3 DEF Flow!CredentialsMatch, FlowWrites
<1>11. Flow!KeysAreApart'
  <2>1. \A d \in Entries \ {e} : Flow!Exists(d) /\ entryData[d].key = new.key => new.key \in keysOverlapped
    BY <1>1, <1>2 DEF FlowKeysApart, Flow!KeyFree, FlowStaged
  <2> QED BY <1>1, <1>2, <1>3, <2>1 DEF Flow!KeysAreApart
<1>12. Flow!NewestCredentialsStay
  BY <1>1, <1>2, <1>3 DEF Flow!NewestCredentialsStay, FlowWrites, CredsArePast, FlowTyped, Flow!Data, Flow!Creds
<1> QED BY <1>6, <1>7, <1>8, <1>9, <1>10, <1>11, <1>12 DEF FlowInv

\* The flows that end by writing: with another key only, without an account or
\* with one removed, or with the credentials of the login answered.
LEMMA FlowEndsWrite ==
    ASSUME FlowInv, NEW f \in Flows,
           Flow!ReauthKeyValid(f) \/ Flow!ReconfigureWithoutLogin(f) \/ Flow!AccountSkipped(f) \/ Flow!LoggedIn(f)
    PROVE  \E e \in Entries, new \in Flow!Data : FlowWrites(f, e, new)
<1> USE FlowAssumption
<1>1. FlowTyped /\ FlowStaged
  BY DEF FlowInv
<1>2. loginSerial \in Nat /\ loginSerial \in 0..MaxFlowLogins
  BY <1>1 DEF FlowTyped
<1>3. flowAt[f] \notin {"new", "closed"} => flowKey[f] \in Keys
  BY <1>1 DEF FlowStaged
<1>4. ASSUME flowKind[f] # "user", flowAt[f] \notin {"new", "closed"}
      PROVE  /\ flowTarget[f] \in Entries /\ Flow!Exists(flowTarget[f])
             /\ entryData[flowTarget[f]] \in Flow!Data
             /\ Flow!Draft(f) \in Flow!Data /\ Flow!Draft(f).key = flowKey[f]
             /\ Flow!Draft(f).account = entryData[flowTarget[f]].account
             /\ Flow!Draft(f).creds = entryData[flowTarget[f]].creds
  <2>1. flowTarget[f] \in Entries /\ Flow!Exists(flowTarget[f]) /\ entryData[flowTarget[f]] \in Flow!Data
    BY <1>1, <1>4 DEF FlowStaged, FlowTyped, Flow!Exists
  <2> QED BY <1>3, <1>4, <2>1 DEF Flow!Draft, Flow!Data
<1>5. CASE Flow!ReauthKeyValid(f)
  <2> DEFINE new == Flow!Draft(f)
  <2>1. FlowWrites(f, flowTarget[f], new)
    BY <1>2, <1>4, <1>5 DEF FlowWrites, Flow!ReauthKeyValid, Flow!Replace, Flow!Draft
  <2> QED BY <1>4, <1>5, <2>1 DEF Flow!ReauthKeyValid
<1>6. CASE Flow!ReconfigureWithoutLogin(f)
  <2>1. flowAt[f] = "validating" /\ flowKind[f] = "reconfigure"
    BY <1>6 DEF Flow!ReconfigureWithoutLogin
  <2>2. PICK w \in {None, entryData[flowTarget[f]].account} :
          Flow!Replace(f, Flow!Synced([Flow!Draft(f) EXCEPT !.account = w], None))
    BY <1>6 DEF Flow!ReconfigureWithoutLogin
  <2> DEFINE new == [[Flow!Draft(f) EXCEPT !.account = w] EXCEPT !.creds = None]
  <2>3. new \in Flow!Data /\ new.key = flowKey[f] /\ new.creds = None
    BY <1>4, <2>1, <2>2 DEF Flow!Data
  <2>4. entryData' = [entryData EXCEPT ![flowTarget[f]] = new] /\ Flow!Closed(f)
    BY <2>2 DEF Flow!Replace, Flow!Synced
  <2> HIDE DEF new
  <2>5. FlowWrites(f, flowTarget[f], new)
    BY <1>2, <1>4, <1>6, <2>1, <2>3, <2>4 DEF FlowWrites, Flow!ReconfigureWithoutLogin
  <2> QED BY <1>4, <2>1, <2>3, <2>5
<1>7. CASE Flow!AccountSkipped(f)
  <2>1. flowAt[f] = "account" /\ flowKind[f] = "user"
    BY <1>1, <1>7 DEF Flow!AccountSkipped, FlowStaged
  <2> DEFINE new == [key |-> flowKey[f], account |-> flowTyped[f], creds |-> None]
  <2>2. new \in Flow!Data
    BY <1>1, <1>3, <2>1 DEF Flow!Data, FlowTyped
  <2>3. PICK e \in Entries : ~Flow!Exists(e) /\ entryData' = [entryData EXCEPT ![e] = new]
    BY <1>7 DEF Flow!AccountSkipped, Flow!Create
  <2>5. new.key = flowKey[f] /\ new.creds = None
    OBVIOUS
  <2> HIDE DEF new
  <2>6. Flow!Closed(f) /\ UNCHANGED <<ownLogin, loginSerial, loginCrossed, keysOverlapped>>
    BY <1>7 DEF Flow!AccountSkipped, Flow!Create
  <2>4. FlowWrites(f, e, new)
    BY <1>2, <2>1, <2>2, <2>3, <2>5, <2>6 DEF FlowWrites
  <2> QED BY <2>2, <2>4
<1>8. CASE Flow!LoggedIn(f)
  <2>1. /\ flowAt[f] \in {"login", "verifying"} /\ flowKind[f] # "reauth" /\ flowChoice[f] \in Accounts
        /\ loginSerial' = loginSerial + 1 /\ loginSerial' \in 0..MaxFlowLogins
        /\ UNCHANGED <<ownLogin, loginCrossed, keysOverlapped>>
    BY <1>1, <1>2, <1>8 DEF Flow!LoggedIn, Flow!Answered, FlowStaged
  <2> DEFINE creds == [of |-> flowChoice[f], n |-> loginSerial']
  <2>2. creds \in Flow!Creds /\ creds = Flow!NewCreds(flowChoice[f]) /\ creds.of = flowChoice[f] /\ creds.n = loginSerial'
    BY <2>1 DEF Flow!Creds, Flow!NewCreds
  <2> HIDE DEF creds
  <2>3. CASE flowKind[f] = "user"
    <3> DEFINE new == [key |-> flowKey[f], account |-> flowChoice[f], creds |-> creds]
    <3>1. new \in Flow!Data
      BY <1>3, <2>1, <2>2 DEF Flow!Data
    <3>2. PICK e \in Entries : ~Flow!Exists(e) /\ entryData' = [entryData EXCEPT ![e] = new]
      BY <1>8, <2>2, <2>3 DEF Flow!LoggedIn, Flow!Create
    <3>3. Flow!Closed(f)
      BY <1>8, <2>3 DEF Flow!LoggedIn, Flow!Create
    <3>4. FlowWrites(f, e, new)
      BY <1>2, <2>1, <2>2, <2>3, <3>1, <3>2, <3>3 DEF FlowWrites
    <3> QED BY <3>1, <3>4
  <2>4. CASE flowKind[f] # "user"
    <3> DEFINE base == IF flowAt[f] = "login" THEN flowDraft[f] ELSE Flow!Draft(f)
    <3> DEFINE new == [[base EXCEPT !.account = flowChoice[f]] EXCEPT !.creds = creds]
    <3>1. base \in Flow!Data /\ base.key = flowKey[f]
      BY <1>1, <1>4, <2>1, <2>4 DEF FlowStaged, FlowTyped, Flow!Kinds
    <3>2. entryData' = [entryData EXCEPT ![flowTarget[f]] = new] /\ Flow!Closed(f)
      BY <1>8, <2>2, <2>4 DEF Flow!LoggedIn, Flow!Replace, Flow!Synced
    <3> HIDE DEF base
    <3>3. new \in Flow!Data /\ new.key = flowKey[f] /\ new.creds = creds /\ new.account = flowChoice[f]
      BY <2>1, <2>2, <3>1 DEF Flow!Data
    <3> HIDE DEF new
    <3>4. FlowWrites(f, flowTarget[f], new)
      BY <1>2, <1>4, <2>1, <2>2, <2>4, <3>2, <3>3 DEF FlowWrites
    <3> QED BY <1>4, <2>1, <2>4, <3>3, <3>4
  <2> QED BY <2>3, <2>4
<1> QED BY <1>5, <1>6, <1>7, <1>8

\* A form is submitted: the key is free, and another flow busy with it is noticed.
LEMMA SubmitKeeps ==
    ASSUME FlowInv, NEW f \in Flows, NEW how \in Flow!Kinds, NEW own \in Entries \cup {None},
           NEW k \in Keys, NEW w \in Accounts \cup {None}, Flow!Submit(f, how, own, k, w)
    PROVE  FlowInv'
<1> USE FlowAssumption
<1>1. FlowTyped /\ FlowStaged /\ FlowKeysApart /\ CredsArePast /\ Flow!CredentialsMatch /\ Flow!KeysAreApart
  BY DEF FlowInv
<1>2. /\ how = "user" <=> own = None
      /\ how # "user" => Flow!Exists(own)
      /\ Flow!KeyFree(k, own)
      /\ UNCHANGED <<entryData, flowTyped, flowDraft, ownLogin, loginSerial, loginCrossed>>
      /\ keysOverlapped' = keysOverlapped \cup (IF \E g \in Flows \ {f} : Flow!Busy(g, k) THEN {k} ELSE {})
  BY DEF Flow!Submit
<1>3. FlowTyped'
  BY <1>1, <1>2 DEF FlowTyped, FlowStates, Flow!Submit, Flow!Goes, Flow!Waiting
<1>4. /\ flowAt'[f] = "validating" /\ flowKind'[f] = how /\ flowTarget'[f] = own /\ flowKey'[f] = k
      /\ \A g \in Flows \ {f} :
           /\ flowAt'[g] = flowAt[g] /\ flowKind'[g] = flowKind[g] /\ flowTarget'[g] = flowTarget[g]
           /\ flowKey'[g] = flowKey[g] /\ flowChoice'[g] = flowChoice[g] /\ flowDraft'[g] = flowDraft[g]
  BY <1>1 DEF FlowTyped, Flow!Submit, Flow!Goes
<1>5. FlowStaged'
  BY <1>1, <1>2, <1>4 DEF FlowStaged, Flow!Exists
<1>6. FlowKeysApart'
  <2> SUFFICES ASSUME NEW g \in Flows, flowAt'[g] \notin {"new", "closed"}, flowKey'[g] \notin keysOverlapped'
               PROVE  /\ Flow!KeyFree(flowKey[g], IF flowKind[g] = "user" THEN None ELSE flowTarget[g])'
                      /\ \A h \in Flows \ {g} : ~Flow!Busy(h, flowKey[g])'
    BY DEF FlowKeysApart
  <2>1. CASE g = f
    <3>1. \A h \in Flows \ {f} : ~Flow!Busy(h, k)
      BY <1>2, <1>4, <2>1
    <3> QED BY <1>2, <1>4, <2>1, <3>1 DEF Flow!KeyFree, Flow!Exists, Flow!Busy
  <2>2. CASE g # f
    <3>1. flowKey[g] \notin keysOverlapped /\ flowAt[g] \notin {"new", "closed"}
      BY <1>2, <1>4, <2>2
    <3>2. flowKey[g] # k
      BY <1>2, <1>4, <2>2, <3>1 DEF Flow!Busy
    <3> QED BY <1>1, <1>2, <1>4, <2>2, <3>1, <3>2 DEF FlowKeysApart, Flow!KeyFree, Flow!Exists, Flow!Busy
  <2> QED BY <2>1, <2>2
<1>7. CredsArePast' /\ Flow!CredentialsMatch' /\ Flow!KeysAreApart'
  BY <1>1, <1>2 DEF CredsArePast, Flow!CredentialsMatch, Flow!KeysAreApart, Flow!Exists
<1> QED BY <1>3, <1>5, <1>6, <1>7 DEF FlowInv

\* A flow goes on, or is dismissed, and has written nothing.
LEMMA FlowMovesKeep ==
    ASSUME FlowInv, NEW f \in Flows,
           \/ Flow!Refused(f) \/ Flow!UserKeyValid(f) \/ Flow!ReconfigureKeyValid(f) \/ Flow!CodeWanted(f)
           \/ Flow!CodeNotSent(f) \/ Flow!CodeEntered(f) \/ Flow!Dismiss(f) \/ \E w \in Accounts : Flow!AccountEntered(f, w)
    PROVE  FlowInv'
<1> USE FlowAssumption
<1>1. FlowTyped /\ FlowStaged /\ FlowKeysApart /\ CredsArePast /\ Flow!CredentialsMatch /\ Flow!KeysAreApart
  BY DEF FlowInv
<1>2. UNCHANGED <<entryData, ownLogin, loginSerial, loginCrossed, keysOverlapped>>
  BY DEF Flow!Refused, Flow!UserKeyValid, Flow!ReconfigureKeyValid, Flow!CodeWanted, Flow!CodeNotSent,
     Flow!CodeEntered,
     Flow!Dismiss, Flow!AccountEntered
<1>3. CredsArePast' /\ Flow!CredentialsMatch' /\ Flow!KeysAreApart'
  BY <1>1, <1>2 DEF CredsArePast, Flow!CredentialsMatch, Flow!KeysAreApart, Flow!Exists
<1>4. CASE Flow!Dismiss(f)
  <2>1. Flow!Closed(f)
    BY <1>4 DEF Flow!Dismiss
  <2>2. FlowTyped'
    BY <1>1, <1>2, <2>1, FlowCloses DEF FlowTyped
  <2>3. FlowStaged' /\ FlowKeysApart'
    BY <1>1, <1>2, <2>1, FlowCloses DEF FlowStaged, FlowKeysApart, Flow!KeyFree, Flow!Exists, Flow!Busy
  <2> QED BY <1>3, <2>2, <2>3 DEF FlowInv
<1>5. CASE ~Flow!Dismiss(f)
  <2>1. UNCHANGED <<flowKind, flowTarget, flowKey>>
    BY <1>5 DEF Flow!Refused, Flow!UserKeyValid, Flow!ReconfigureKeyValid, Flow!CodeWanted, Flow!CodeNotSent,
     Flow!CodeEntered,
       Flow!AccountEntered
  <2>2. /\ flowAt[f] \notin {"new", "closed"}
        /\ flowAt' \in [Flows -> FlowStates] /\ flowAt'[f] \notin {"new", "closed"}
        /\ \A g \in Flows \ {f} : flowAt'[g] = flowAt[g]
    BY <1>1, <1>5 DEF Flow!Refused, Flow!UserKeyValid, Flow!ReconfigureKeyValid, Flow!CodeWanted, Flow!CodeNotSent,
     Flow!CodeEntered,
       Flow!AccountEntered, Flow!Goes, Flow!Waiting, FlowTyped, FlowStates
  <2>3. FlowKeysApart'
    BY <1>1, <1>2, <2>1, <2>2 DEF FlowKeysApart, Flow!KeyFree, Flow!Exists, Flow!Busy
  <2>4. FlowTyped' /\ FlowStaged'
    <3>1. CASE Flow!ReconfigureKeyValid(f)
      <4>1. flowTarget[f] \in Entries /\ entryData[flowTarget[f]] \in Flow!Data /\ flowKey[f] \in Keys
        BY <1>1, <3>1 DEF Flow!ReconfigureKeyValid, FlowStaged, FlowTyped, Flow!Exists
      <4>2. Flow!Draft(f) \in Flow!Data /\ Flow!Draft(f).key = flowKey[f]
        BY <4>1 DEF Flow!Draft, Flow!Data
      <4>3. FlowTyped'
        BY <1>1, <1>2, <2>1, <2>2, <3>1, <4>2 DEF FlowTyped, Flow!ReconfigureKeyValid
      <4>4. FlowStaged'
        BY <1>1, <1>2, <2>1, <2>2, <3>1, <4>2 DEF FlowStaged, FlowTyped, Flow!ReconfigureKeyValid, Flow!Exists, Flow!Goes
      <4> QED BY <4>3, <4>4
    <3>2. CASE \E w \in Accounts : Flow!AccountEntered(f, w)
      BY <1>1, <1>2, <2>1, <2>2, <3>2 DEF FlowTyped, FlowStaged, Flow!AccountEntered, Flow!Exists, Flow!Goes
    <3>3. CASE Flow!Refused(f) \/ Flow!UserKeyValid(f) \/ Flow!CodeWanted(f) \/ Flow!CodeNotSent(f) \/ Flow!CodeEntered(f)
      BY <1>1, <1>2, <2>1, <2>2, <3>3 DEF FlowTyped, FlowStaged, Flow!Refused, Flow!UserKeyValid,
         Flow!CodeWanted, Flow!CodeNotSent, Flow!CodeEntered, Flow!Exists, Flow!Goes, Flow!Waiting
    <3> QED BY <1>5, <3>1, <3>2, <3>3
  <2> QED BY <1>3, <2>3, <2>4 DEF FlowInv
<1> QED BY <1>4, <1>5

\* An entry's own login brings credentials newer than any, of the account it was
\* begun with; when that is not its account any more, it is noted.
LEMMA OwnLoginsKeep ==
    ASSUME FlowInv, NEW e \in Entries,
           Flow!OwnLogin(e) \/ Flow!OwnLoginAnswered(e) \/ Flow!OwnLoginFails(e)
    PROVE  FlowInv' /\ Flow!NewestCredentialsStay
<1> USE FlowAssumption
<1>1. FlowTyped /\ FlowStaged /\ FlowKeysApart /\ CredsArePast /\ Flow!CredentialsMatch /\ Flow!KeysAreApart
  BY DEF FlowInv
<1>2. UNCHANGED <<flowAt, flowKind, flowTarget, flowKey, flowChoice, flowTyped, flowDraft, keysOverlapped>>
  BY DEF Flow!OwnLogin, Flow!OwnLoginAnswered, Flow!OwnLoginFails, Flow!flow
<1>3. CASE Flow!OwnLoginAnswered(e)
  <2>1. /\ entryData[e] \in Flow!Data /\ entryData[e] # None /\ ownLogin[e] \in Accounts
        /\ loginSerial \in Nat /\ loginSerial' = loginSerial + 1 /\ loginSerial' \in 0..MaxFlowLogins
    BY <1>1, <1>3 DEF Flow!OwnLoginAnswered, Flow!Answered, FlowTyped, FlowStaged, Flow!Exists
  <2> DEFINE creds == [of |-> ownLogin[e], n |-> loginSerial']
  <2> DEFINE new == [entryData[e] EXCEPT !.creds = creds]
  <2>2. creds \in Flow!Creds /\ creds.of = ownLogin[e] /\ creds.n = loginSerial' /\ creds = Flow!NewCreds(ownLogin[e])
    BY <2>1 DEF Flow!Creds, Flow!NewCreds
  <2> HIDE DEF creds
  <2>3. /\ new \in Flow!Data /\ new # None /\ new.key = entryData[e].key /\ new.account = entryData[e].account
        /\ new.creds = creds
    BY <2>1, <2>2 DEF Flow!Data
  <2>4. entryData' = [entryData EXCEPT ![e] = new]
    BY <1>3, <2>2 DEF Flow!OwnLoginAnswered
  <2> HIDE DEF new
  <2>5. entryData' \in [Entries -> Flow!Data \cup {None}] /\ entryData'[e] = new
        /\ \A d \in Entries \ {e} : entryData'[d] = entryData[d]
    BY <1>1, <2>3, <2>4 DEF FlowTyped
  <2>6. /\ loginCrossed \subseteq loginCrossed' /\ loginCrossed' \subseteq Entries
        /\ e \notin loginCrossed' => entryData[e].account = ownLogin[e]
        /\ ownLogin' \in [Entries -> Accounts \cup {None}]
        /\ \A d \in Entries : ownLogin'[d] # None => ownLogin'[d] = ownLogin[d]
    BY <1>1, <1>3 DEF FlowTyped, Flow!OwnLoginAnswered
  <2>7. FlowTyped'
    BY <1>1, <1>2, <2>1, <2>5, <2>6 DEF FlowTyped
  <2>8. FlowStaged'
    BY <1>1, <1>2, <2>1, <2>3, <2>5, <2>6 DEF FlowStaged, Flow!Exists
  <2>9. FlowKeysApart'
    BY <1>1, <1>2, <2>1, <2>3, <2>5 DEF FlowKeysApart, Flow!KeyFree, Flow!Busy, Flow!Exists
  <2>10. \A d \in Entries : Flow!Exists(d) /\ entryData[d].creds # None =>
           entryData[d].creds.n \in Nat /\ entryData[d].creds.n <= loginSerial
    BY <1>1 DEF CredsArePast, FlowTyped, Flow!Data, Flow!Creds, Flow!Exists
  <2>11. CredsArePast'
    BY <2>1, <2>2, <2>3, <2>5, <2>10 DEF CredsArePast, Flow!Exists
  <2>12. Flow!CredentialsMatch'
    BY <1>1, <2>2, <2>3, <2>5, <2>6 DEF Flow!CredentialsMatch, Flow!Exists
  <2>13. Flow!KeysAreApart'
    BY <1>1, <1>2, <2>1, <2>3, <2>5 DEF Flow!KeysAreApart, Flow!Exists
  <2>14. Flow!NewestCredentialsStay
    BY <2>1, <2>2, <2>3, <2>5, <2>10 DEF Flow!NewestCredentialsStay, Flow!Exists
  <2> QED BY <2>7, <2>8, <2>9, <2>11, <2>12, <2>13, <2>14 DEF FlowInv
<1>4. CASE Flow!OwnLogin(e) \/ Flow!OwnLoginFails(e)
  <2>1. UNCHANGED <<entryData, loginSerial, loginCrossed>>
    BY <1>4 DEF Flow!OwnLogin, Flow!OwnLoginFails
  <2>2. /\ ownLogin' \in [Entries -> Accounts \cup {None}]
        /\ \A d \in Entries : ownLogin'[d] # None => ownLogin[d] # None \/ Flow!Exists(d)
    BY <1>1, <1>4 DEF Flow!OwnLogin, Flow!OwnLoginFails, FlowTyped, Flow!Exists, Flow!Data
  <2>3. FlowTyped' /\ FlowStaged'
    BY <1>1, <1>2, <2>1, <2>2 DEF FlowTyped, FlowStaged, Flow!Exists
  <2>4. FlowKeysApart' /\ CredsArePast' /\ Flow!CredentialsMatch' /\ Flow!KeysAreApart'
    BY <1>1, <1>2, <2>1 DEF FlowKeysApart, Flow!KeyFree, Flow!Busy, CredsArePast, Flow!CredentialsMatch,
       Flow!KeysAreApart, Flow!Exists
  <2>10. \A d \in Entries : Flow!Exists(d) /\ entryData[d].creds # None => entryData[d].creds.n \in Nat
    BY <1>1 DEF FlowTyped, Flow!Data, Flow!Creds, Flow!Exists
  <2>5. Flow!NewestCredentialsStay
    BY <2>1, <2>10 DEF Flow!NewestCredentialsStay
  <2> QED BY <2>3, <2>4, <2>5 DEF FlowInv
<1> QED BY <1>3, <1>4

LEMMA FlowGoesOn ==
    FlowInv /\ [Flow!Next]_(Flow!vars) => FlowInv' /\ Flow!NewestCredentialsStay
<1> SUFFICES ASSUME FlowInv, [Flow!Next]_(Flow!vars) PROVE FlowInv' /\ Flow!NewestCredentialsStay
  OBVIOUS
<1>1. ASSUME UNCHANGED entryData PROVE Flow!NewestCredentialsStay
  <2>1. \A d \in Entries : Flow!Exists(d) /\ entryData[d].creds # None => entryData[d].creds.n \in Nat
    BY DEF FlowInv, FlowTyped, Flow!Data, Flow!Creds, Flow!Exists
  <2> QED BY <1>1, <2>1 DEF Flow!NewestCredentialsStay
<1>2. CASE UNCHANGED Flow!vars
  <2>1. FlowInv'
    BY <1>2 DEF Flow!vars, Flow!flow, FlowInv, FlowTyped, FlowStaged, FlowKeysApart, CredsArePast,
       Flow!CredentialsMatch, Flow!KeysAreApart, Flow!KeyFree, Flow!Busy, Flow!Exists
  <2> QED BY <1>1, <1>2, <2>1 DEF Flow!vars
<1>3. ASSUME NEW f \in Flows, NEW how \in Flow!Kinds, NEW own \in Entries \cup {None}, NEW k \in Keys,
             NEW w \in Accounts \cup {None}, Flow!Submit(f, how, own, k, w)
      PROVE  FlowInv' /\ Flow!NewestCredentialsStay
  BY <1>1, <1>3, SubmitKeeps DEF Flow!Submit
<1>4. ASSUME NEW f \in Flows,
             \/ Flow!Refused(f) \/ Flow!UserKeyValid(f) \/ Flow!ReconfigureKeyValid(f) \/ Flow!CodeWanted(f)
             \/ Flow!CodeNotSent(f) \/ Flow!CodeEntered(f) \/ Flow!Dismiss(f) \/ \E w \in Accounts : Flow!AccountEntered(f, w)
      PROVE  FlowInv' /\ Flow!NewestCredentialsStay
  <2>1. UNCHANGED entryData
    BY <1>4 DEF Flow!Refused, Flow!UserKeyValid, Flow!ReconfigureKeyValid, Flow!CodeWanted, Flow!CodeNotSent,
     Flow!CodeEntered,
       Flow!Dismiss, Flow!AccountEntered
  <2> QED BY <1>1, <1>4, <2>1, FlowMovesKeep
<1>5. ASSUME NEW f \in Flows,
             Flow!ReauthKeyValid(f) \/ Flow!ReconfigureWithoutLogin(f) \/ Flow!AccountSkipped(f) \/ Flow!LoggedIn(f)
      PROVE  FlowInv' /\ Flow!NewestCredentialsStay
  BY <1>5, FlowEndsWrite, FlowWritesKeep
<1> QED BY <1>2, <1>3, <1>4, <1>5, OwnLoginsKeep DEF Flow!Next
-----------------------------------------------------------------------------
(* The options flow (OptionsFlow).                                          *)

SlotsOf == [SlotKettles -> SlotLabels \cup {None}]

DialogsTyped ==
    /\ entryOptions \in Options!Options
    /\ loadedDevices \subseteq SegmentLights \cup SlotKettles /\ registeredKettles \subseteq SlotKettles
    /\ dialogAt \in [Flows -> {"new", "general", "select", "device", "kettle", "closed"}]
    /\ dialogForm \in [Flows -> 1..MaxPollInterval]
    /\ dialogWalk \in [Flows -> SUBSET (SegmentLights \cup SlotKettles)]
    /\ dialogTouched \in [Flows -> SUBSET (SegmentLights \cup SlotKettles)]
    /\ DOMAIN dialogEdits = Flows /\ DOMAIN dialogLabels = Flows
    /\ optionReloads \in 0..MaxOptionReloads

\* A dialog's edits are of lights its user went through; its labels, once taken,
\* are labels of all the kettles.
EditsAreOwn ==
    \A f \in Flows :
        /\ dialogEdits[f] \in [DOMAIN dialogEdits[f] -> SegmentModes]
        /\ DOMAIN dialogEdits[f] \subseteq dialogTouched[f] \cap SegmentLights
        /\ DOMAIN dialogLabels[f] \subseteq SlotKettles
        /\ dialogAt[f] = "kettle" => dialogLabels[f] \in SlotsOf

DialogsInv == DialogsTyped /\ EditsAreOwn

DialogStep == \A f \in Flows : dialogAt'[f] # dialogAt[f] => Options!OthersKept(f)

LEMMA DialogsStart == Options!Init => DialogsInv
<1> SUFFICES ASSUME Options!Init PROVE DialogsInv
  OBVIOUS
<1> USE OptionsAssumption DEF Options!Init
<1>1. entryOptions \in Options!Options
  BY DEF Options!Options
<1>2. DialogsTyped
  BY <1>1 DEF DialogsTyped
<1>3. EditsAreOwn
  BY DEF EditsAreOwn, Options!NoEdits
<1> QED BY <1>2, <1>3 DEF DialogsInv

\* The labels saved are those of now, without the kettles that are gone.
LEMMA SavedLabelsAreLabels ==
    ASSUME DialogsInv
    PROVE  /\ Options!SavedLabels \in SlotsOf
           /\ \A k \in registeredKettles : Options!SavedLabels[k] = entryOptions.labels[k]
  BY DEF DialogsInv, DialogsTyped, Options!SavedLabels, Options!Options, SlotsOf

\* Saving the general form: the interval entered, the modes and labels of now
\* but for the dialog's own edits.
LEMMA SavedGeneral ==
    ASSUME DialogsInv, NEW f \in Flows, dialogForm'[f] \in 1..MaxPollInterval,
           dialogEdits'[f] \in [DOMAIN dialogEdits'[f] -> SegmentModes],
           entryOptions' = [interval |-> dialogForm'[f], modes |-> Options!WithModes(f), labels |-> Options!SavedLabels]
    PROVE  /\ entryOptions' \in Options!Options
           /\ \A d \in SegmentLights \ DOMAIN dialogEdits'[f] : entryOptions'.modes[d] = entryOptions.modes[d]
           /\ \A k \in registeredKettles : entryOptions'.labels[k] = entryOptions.labels[k]
<1>1. Options!WithModes(f) \in [SegmentLights -> SegmentModes]
      /\ \A d \in SegmentLights \ DOMAIN dialogEdits'[f] : Options!WithModes(f)[d] = entryOptions.modes[d]
  BY DEF DialogsInv, DialogsTyped, Options!Options, Options!WithModes, Options!Over
<1> QED BY <1>1, SavedLabelsAreLabels DEF Options!Options, SlotsOf

LEMMA DialogMovesKeep ==
    ASSUME DialogsInv, NEW f \in Flows,
           \/ Options!OpenGeneral(f) \/ Options!OpenKettles(f) \/ Options!KettleGone(f)
           \/ \E i \in {dialogForm[f], MaxPollInterval} : Options!EnterGeneral(f, i)
           \/ \E chosen \in SUBSET SegmentLights : Options!Select(f, chosen)
    PROVE  DialogsInv' /\ DialogStep
<1> USE OptionsAssumption
<1>1. DialogsTyped /\ EditsAreOwn
  BY DEF DialogsInv
<1>2. UNCHANGED <<loadedDevices, registeredKettles, dialogEdits, dialogTouched, optionReloads>>
  BY DEF Options!OpenGeneral, Options!OpenKettles, Options!KettleGone, Options!EnterGeneral, Options!Select
<1>3. /\ dialogAt' \in [Flows -> {"new", "general", "select", "device", "kettle", "closed"}]
      /\ \A g \in Flows \ {f} : dialogAt'[g] = dialogAt[g]
      /\ dialogAt'[f] = "kettle" => Options!OpenKettles(f)
      /\ dialogForm' \in [Flows -> 1..MaxPollInterval]
  BY <1>1 DEF DialogsTyped, Options!OpenGeneral, Options!OpenKettles, Options!KettleGone, Options!EnterGeneral,
     Options!Select, Options!SaveOr, Options!SaveGeneral, Options!Shows, Options!Options
<1>4. dialogWalk' \in [Flows -> SUBSET (SegmentLights \cup SlotKettles)]
  BY <1>1 DEF DialogsTyped, Options!OpenGeneral, Options!OpenKettles, Options!KettleGone, Options!EnterGeneral, Options!Select
<1>5. \/ UNCHANGED entryOptions
      \/ /\ entryOptions' = [interval |-> dialogForm'[f], modes |-> Options!WithModes(f), labels |-> Options!SavedLabels]
         /\ dialogAt[f] # "kettle"
  BY DEF Options!OpenGeneral, Options!OpenKettles, Options!KettleGone, Options!EnterGeneral, Options!Select,
     Options!SaveOr, Options!SaveGeneral
<1>6. /\ entryOptions' \in Options!Options
      /\ \A d \in SegmentLights \ DOMAIN dialogEdits'[f] : entryOptions'.modes[d] = entryOptions.modes[d]
      /\ \A k \in registeredKettles : entryOptions'.labels[k] = entryOptions.labels[k]
      /\ dialogAt[f] = "kettle" => UNCHANGED entryOptions
  <2>1. dialogEdits'[f] \in [DOMAIN dialogEdits'[f] -> SegmentModes] /\ dialogForm'[f] \in 1..MaxPollInterval
    BY <1>1, <1>2, <1>3 DEF EditsAreOwn
  <2> QED BY <1>1, <1>5, <2>1, SavedGeneral DEF DialogsTyped
<1>7. /\ DOMAIN dialogLabels' = Flows /\ \A g \in Flows \ {f} : dialogLabels'[g] = dialogLabels[g]
      /\ dialogLabels'[f] = dialogLabels[f] \/ dialogLabels'[f] \in SlotsOf
      /\ Options!OpenKettles(f) => dialogLabels'[f] \in SlotsOf
  BY <1>1, SavedLabelsAreLabels DEF DialogsTyped, Options!OpenGeneral, Options!OpenKettles, Options!KettleGone,
     Options!EnterGeneral, Options!Select
<1>8. DialogsTyped'
  BY <1>1, <1>2, <1>3, <1>4, <1>6, <1>7 DEF DialogsTyped
<1>9. EditsAreOwn'
  BY <1>1, <1>2, <1>3, <1>7 DEF EditsAreOwn, SlotsOf
<1>10. DialogStep
  BY <1>1, <1>2, <1>3, <1>6 DEF DialogStep, Options!OthersKept, EditsAreOwn
<1> QED BY <1>8, <1>9, <1>10 DEF DialogsInv

LEMMA EnterModeKeeps ==
    ASSUME DialogsInv, NEW f \in Flows, NEW d \in SegmentLights, NEW m \in SegmentModes, Options!EnterMode(f, d, m)
    PROVE  DialogsInv' /\ DialogStep
<1> USE OptionsAssumption
<1>1. DialogsTyped /\ EditsAreOwn
  BY DEF DialogsInv
<1>2. UNCHANGED <<loadedDevices, registeredKettles, dialogForm, dialogLabels, optionReloads>> /\ dialogAt[f] = "device"
  BY DEF Options!EnterMode
<1>3. /\ dialogAt' \in [Flows -> {"new", "general", "select", "device", "kettle", "closed"}]
      /\ \A g \in Flows \ {f} : dialogAt'[g] = dialogAt[g]
      /\ dialogAt'[f] # "kettle"
      /\ dialogWalk' \in [Flows -> SUBSET (SegmentLights \cup SlotKettles)]
      /\ dialogTouched' \in [Flows -> SUBSET (SegmentLights \cup SlotKettles)]
      /\ dialogTouched'[f] = dialogTouched[f] \cup {d} /\ \A g \in Flows \ {f} : dialogTouched'[g] = dialogTouched[g]
  BY <1>1 DEF DialogsTyped, Options!EnterMode, Options!SaveOr, Options!SaveGeneral, Options!Shows
<1>4. /\ DOMAIN dialogEdits' = Flows /\ \A g \in Flows \ {f} : dialogEdits'[g] = dialogEdits[g]
      /\ DOMAIN dialogEdits'[f] = DOMAIN dialogEdits[f] \cup {d}
      /\ dialogEdits'[f] \in [DOMAIN dialogEdits'[f] -> SegmentModes]
  <2>1. dialogEdits'[f] = [x \in DOMAIN dialogEdits[f] \cup {d} |-> IF x = d THEN m ELSE dialogEdits[f][x]]
        /\ DOMAIN dialogEdits' = Flows /\ \A g \in Flows \ {f} : dialogEdits'[g] = dialogEdits[g]
    BY <1>1 DEF DialogsTyped, Options!EnterMode
  <2> QED BY <1>1, <2>1 DEF EditsAreOwn
<1>5. /\ entryOptions' \in Options!Options
      /\ \A e \in SegmentLights \ DOMAIN dialogEdits'[f] : entryOptions'.modes[e] = entryOptions.modes[e]
      /\ \A k \in registeredKettles : entryOptions'.labels[k] = entryOptions.labels[k]
  <2>1. dialogForm'[f] \in 1..MaxPollInterval
    BY <1>1, <1>2 DEF DialogsTyped
  <2>2. \/ UNCHANGED entryOptions
        \/ entryOptions' = [interval |-> dialogForm'[f], modes |-> Options!WithModes(f), labels |-> Options!SavedLabels]
    BY DEF Options!EnterMode, Options!SaveOr, Options!SaveGeneral
  <2> QED BY <1>1, <1>4, <2>1, <2>2, SavedGeneral DEF DialogsTyped
<1>6. DialogsTyped'
  BY <1>1, <1>2, <1>3, <1>4, <1>5 DEF DialogsTyped
<1>7. EditsAreOwn'
  BY <1>1, <1>2, <1>3, <1>4 DEF EditsAreOwn
<1>8. DialogStep
  BY <1>1, <1>2, <1>3, <1>4, <1>5 DEF DialogStep, Options!OthersKept, EditsAreOwn
<1> QED BY <1>6, <1>7, <1>8 DEF DialogsInv

LEMMA EnterLabelsKeeps ==
    ASSUME DialogsInv, NEW f \in Flows, NEW k \in SlotKettles, NEW new \in SlotLabels \cup {None},
           Options!EnterLabels(f, k, new)
    PROVE  DialogsInv' /\ DialogStep
<1> USE OptionsAssumption
<1>1. DialogsTyped /\ EditsAreOwn
  BY DEF DialogsInv
<1>2. UNCHANGED <<loadedDevices, registeredKettles, dialogForm, dialogEdits, optionReloads>> /\ dialogAt[f] = "kettle"
  BY DEF Options!EnterLabels
<1>3. /\ dialogAt' \in [Flows -> {"new", "general", "select", "device", "kettle", "closed"}]
      /\ \A g \in Flows \ {f} : dialogAt'[g] = dialogAt[g]
      /\ dialogWalk' \in [Flows -> SUBSET (SegmentLights \cup SlotKettles)]
      /\ dialogTouched' \in [Flows -> SUBSET (SegmentLights \cup SlotKettles)]
      /\ dialogTouched[f] \subseteq dialogTouched'[f] /\ \A g \in Flows \ {f} : dialogTouched'[g] = dialogTouched[g]
  BY <1>1 DEF DialogsTyped, Options!EnterLabels, Options!Shows
<1>4. /\ DOMAIN dialogLabels' = Flows /\ \A g \in Flows \ {f} : dialogLabels'[g] = dialogLabels[g]
      /\ dialogLabels'[f] \in SlotsOf
  BY <1>1, <1>2 DEF DialogsTyped, EditsAreOwn, SlotsOf, Options!EnterLabels
<1>5. /\ entryOptions' \in Options!Options
      /\ entryOptions'.modes = entryOptions.modes /\ entryOptions'.interval = entryOptions.interval
  BY <1>1, <1>4 DEF DialogsTyped, Options!Options, Options!EnterLabels, SlotsOf
<1>6. DialogsTyped'
  BY <1>1, <1>2, <1>3, <1>4, <1>5 DEF DialogsTyped
<1>7. EditsAreOwn'
  BY <1>1, <1>2, <1>3, <1>4 DEF EditsAreOwn, SlotsOf
<1>8. DialogStep
  BY <1>1, <1>2, <1>3, <1>5 DEF DialogStep, Options!OthersKept
<1> QED BY <1>6, <1>7, <1>8 DEF DialogsInv

LEMMA DialogsGoOn == DialogsInv /\ [Options!Next]_(Options!vars) => DialogsInv' /\ DialogStep
<1> SUFFICES ASSUME DialogsInv, [Options!Next]_(Options!vars) PROVE DialogsInv' /\ DialogStep
  OBVIOUS
<1> USE OptionsAssumption
<1>1. ASSUME UNCHANGED Options!dialog, entryOptions' \in Options!Options,
             loadedDevices' \subseteq SegmentLights \cup SlotKettles, registeredKettles' \subseteq SlotKettles,
             optionReloads' \in 0..MaxOptionReloads
      PROVE  DialogsInv' /\ DialogStep
  <2>1. UNCHANGED <<dialogAt, dialogForm, dialogWalk, dialogEdits, dialogLabels, dialogTouched>>
    BY <1>1 DEF Options!dialog
  <2> QED BY <1>1, <2>1 DEF DialogsInv, DialogsTyped, EditsAreOwn, DialogStep
<1>2. CASE Options!Repaired
  <2>1. entryOptions' \in Options!Options
    BY <1>2 DEF Options!Repaired, Options!Options, DialogsInv, DialogsTyped
  <2> QED BY <1>1, <1>2, <2>1 DEF Options!Repaired, DialogsInv, DialogsTyped
<1>3. CASE Options!Reloaded \/ \E k \in SlotKettles : Options!Removed(k)
  BY <1>1, <1>3 DEF Options!Reloaded, Options!Removed, DialogsInv, DialogsTyped
<1>4. CASE UNCHANGED Options!vars
  BY <1>1, <1>4 DEF Options!vars, DialogsInv, DialogsTyped
<1> QED BY <1>2, <1>3, <1>4, DialogMovesKeep, EnterModeKeeps, EnterLabelsKeeps DEF Options!Next
-----------------------------------------------------------------------------
(* The sum: a step of one part leaves the variables of the others alone.      *)

LEMMA PartSteps ==
    ASSUME [PartsNext]_partsVars
    PROVE  /\ [DayNext]_dayVars /\ [Next]_vars /\ [DispatchNext]_dispatchVars
           /\ [Flow!Next]_(Flow!vars) /\ [Options!Next]_(Options!vars)
  BY DEF PartsNext, partsVars, budgetVars, pollVars, queueVars, flowVars, optionsVars, Flow!vars, Flow!flow,
     Options!vars, Options!dialog

\* Every part behaves as its own specification says, so what is proved of the
\* budget, the poll, the control path and the flows holds in the sum.
THEOREM SafetyPartsAreWhole ==
    PartsSpec => DaySpec /\ Spec /\ DispatchSpec /\ Flow!Spec /\ Options!Spec
<1>1. PartsInit => DayInit /\ Init /\ DispatchInit /\ Flow!Init /\ Options!Init
  BY DEF PartsInit
<1> QED BY <1>1, PartSteps, PTL DEF PartsSpec, DaySpec, Spec, DispatchSpec, Flow!Spec, Options!Spec

\* For any entries, flows, keys and accounts: an entry's credentials are of its
\* account and never replaced by older ones, and its key is no other entry's.
THEOREM FlowDataSound == Flow!Spec => Flow!DataAreSound
<1>1. FlowInv /\ [Flow!Next]_(Flow!vars) => [Flow!NewestCredentialsStay]_(Flow!vars)
  BY FlowGoesOn
<1>2. FlowInv => Flow!CredentialsMatch /\ Flow!KeysAreApart
  BY DEF FlowInv
<1> QED BY <1>1, <1>2, FlowStarts, FlowGoesOn, PTL DEF Flow!Spec, Flow!DataAreSound

\* For any dialogs, lights, kettles, modes and labels: a dialog that saves keeps
\* what others saved meanwhile.
THEOREM DialogEditsKept == Options!Spec => Options!EditsOfOthersKept
<1>1. DialogsInv /\ [Options!Next]_(Options!vars) => [DialogStep]_(Options!vars)
  BY DialogsGoOn
<1> QED
  BY <1>1, DialogsStart, DialogsGoOn, PTL DEF Options!Spec, Options!EditsOfOthersKept, DialogStep

\* Both, in the sum.
THEOREM EntryDataKept == PartsSpec => EntryDataAreKept
BY SafetyPartsAreWhole, FlowDataSound, DialogEditsKept DEF EntryDataAreKept

\* The part that runs has the types of its module.
THEOREM SafetyTyped == PartsSpec => []AllTypeOK
<1> DEFINE Inv == DayInv /\ PollInv /\ DispatchInv /\ FlowInv /\ DialogsInv
<1>1. PartsInit => Inv
  BY DayStarts, PollStarts, DispatchStarts, FlowStarts, DialogsStart DEF PartsInit
<1>2. Inv /\ [PartsNext]_partsVars => Inv'
  BY PartSteps, DayGoesOn, PollGoesOn, DispatchGoesOn, FlowGoesOn, DialogsGoOn
<1>3. FlowInv => Flow!TypeOK
  <2> SUFFICES ASSUME FlowInv PROVE Flow!TypeOK
    OBVIOUS
  <2>1. \A e \in Entries : Flow!Exists(e) => entryData[e] \in Flow!Data
    BY DEF FlowInv, FlowTyped, Flow!Exists
  <2>2. \A f \in Flows : flowAt[f] \in {"new", "closed", "form", "account", "code"} \cup Flow!Waiting
    BY DEF FlowInv, FlowTyped, FlowStates
  <2>3. \A f \in Flows : flowKind[f] \in Flow!Kinds /\ flowTarget[f] \in Entries \cup {None}
    BY DEF FlowInv, FlowTyped
  <2>4. \A f \in Flows : /\ flowKey[f] \in Keys \cup {None} /\ flowChoice[f] \in Accounts \cup {None}
                         /\ flowTyped[f] \in Accounts \cup {None}
                         /\ flowDraft[f] # None => flowDraft[f] \in Flow!Data
    BY DEF FlowInv, FlowTyped
  <2>5. /\ \A e \in Entries : ownLogin[e] \in Accounts \cup {None}
        /\ loginSerial \in 0..MaxFlowLogins /\ loginCrossed \subseteq Entries /\ keysOverlapped \subseteq Keys
    BY DEF FlowInv, FlowTyped
  <2> QED BY <2>1, <2>2, <2>3, <2>4, <2>5 DEF Flow!TypeOK
<1>4. DialogsInv => Options!TypeOK
  BY DEF DialogsInv, DialogsTyped, EditsAreOwn, Options!TypeOK
<1>5. Inv => AllTypeOK
  BY <1>3, <1>4 DEF AllTypeOK, DayInv, PollInv, DispatchInv, TypeInv
<1> QED BY <1>1, <1>2, <1>5, PTL DEF PartsSpec
=============================================================================
