---------------------------- MODULE RequestBudget ----------------------------
(***************************************************************************)
(* The arithmetic of the cloud poll's request budget: request_budget.py.   *)
(* Every function is of whole seconds and requests; the real quotient of   *)
(* the pacing is rounded up exactly, without the error of a float.         *)
(***************************************************************************)
EXTENDS Integers

CONSTANTS
    DayLength,      \* seconds in a UTC day
    Budget,         \* requests a day this install is willing to spend
    MaxInterval,    \* MAX_BUDGET_PACED_INTERVAL
    ResetMargin     \* DAILY_RESET_MARGIN

ASSUME BudgetAssumption ==
    /\ DayLength \in Nat \ {0} /\ Budget \in Nat \ {0}
    /\ MaxInterval \in Nat \ {0} /\ ResetMargin \in Nat

Least(a, b)    == IF a < b THEN a ELSE b
Greatest(a, b) == IF a > b THEN a ELSE b
CeilDiv(a, b)  == (a + b - 1) \div b

\* Bug: backing off ignores that the counter resets at midnight (#214).
PacedPastReset(base, today, cycle, left) ==
    IF cycle <= 0 \/ base <= 0 THEN base
    ELSE IF Budget - today < cycle \/ Budget <= today THEN MaxInterval
    ELSE Greatest(base, Least(CeilDiv(left * cycle, Budget - today), MaxInterval))

\* Bug: a poll that waits for the reset is aimed at midnight itself.
PacedAtReset(base, today, cycle, left) ==
    IF cycle <= 0 \/ base <= 0 THEN base
    ELSE IF Budget - today < cycle \/ Budget <= today THEN Least(Greatest(base, left), MaxInterval)
    ELSE Greatest(base, Least(CeilDiv(left * cycle, Budget - today), MaxInterval))

\* Bug: a spent budget leaves the poll at its configured interval.
PacedUntilSpent(base, today, cycle, left) ==
    IF cycle <= 0 \/ base <= 0 \/ Budget - today < cycle THEN base
    ELSE Greatest(base, Least(CeilDiv(left * cycle, Budget - today), MaxInterval))

\* Bug: the cycles left are counted as if each cost one request.
PacedByRequest(base, today, cycle, left) ==
    IF cycle <= 0 \/ base <= 0 THEN base
    ELSE IF Budget - today < cycle \/ Budget <= today
    THEN Least(Greatest(base, left + ResetMargin), MaxInterval)
    ELSE Greatest(base, Least(CeilDiv(left, Budget - today), MaxInterval))

\* The interval that spends the rest of today's budget evenly: `today` requests
\* spent, `cycle` requests a poll, `left` seconds to the reset.
BudgetPacedInterval(base, today, cycle, left) ==
    LET remaining  == Budget - today
        untilReset == Greatest(base, Greatest(left, 0) + ResetMargin)
    IN  IF cycle <= 0 \/ base <= 0 THEN base
        ELSE IF remaining < cycle THEN Least(untilReset, MaxInterval)
        ELSE Greatest(base, Least(CeilDiv(Greatest(left, 0) * cycle, remaining), MaxInterval))

\* Back off when the allowance the API reports does not cover a cycle.
Defers(remaining, resetIn, cycle) == cycle > 0 /\ resetIn > 0 /\ remaining < cycle

HeaderBackoffInterval(base, resetIn) == Greatest(base, Least(resetIn, MaxInterval))

PollExceedsBudget(cycle, base) == cycle > 0 /\ base > 0 /\ cycle * DayLength > Budget * base
=============================================================================
