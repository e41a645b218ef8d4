---------------------------- MODULE DrawdownPlan ----------------------------
(***************************************************************************)
(* The experimental ladder of purchases that the summary carries           *)
(* (buildPlanFromDailyMetrics of market.service.ts): the further the price *)
(* has fallen from its high, the larger the suggested exposure, unless     *)
(* premium or spread are high among the days of the window.                *)
(*                                                                         *)
(* Shares are in per cent.  Twice the middle of a quote stands for the     *)
(* middle.  Where a fall is exactly a level, the binary quotient may lie   *)
(* on either side of it (93 / 100 - 1 is above -0.07, 97 / 100 - 1 below   *)
(* -0.03): atLevel says which.                                             *)
(***************************************************************************)
EXTENDS DailySeries

CONSTANTS
    PlanWindow,  \* DRAWDOWN_PLAN_WINDOW_DAYS, 252
    QueryRows,   \* DRAWDOWN_PLAN_QUERY_ROWS, 20000
    MinDays      \* the 30 days without which there is no plan

Levels == <<3, 5, 7, 10>>

ASSUME PlanAssumption ==
    PlanWindow \in Nat \ {0} /\ QueryRows \in Nat \ {0} /\ MinDays \in Nat \ {0}

\* Faulty variant: the oldest row of each day counts.
FirstRowsOfDays(table) ==
    LET rows == LastOf(QueryRows, RowsSince(table, 0))
    IN  Reverse(LastOf(PlanWindow, Series(ByDay(rows, Never))))

\* The days the plan looks at, today first: of the newest rows the newest of each day.
PlanDays(table) ==
    LET newestFirst == Reverse(LastOf(QueryRows, RowsSince(table, 0)))
    IN  Reverse(LastOf(PlanWindow, Series(ByDay(newestFirst, Never))))

Middle(q) == q.buy + q.sell

RollingHigh(days) == Max({Middle(days[i].quote) : i \in DOMAIN days})

\* Faulty variant: the sign of the level is lost, so that every level is reached from the start.
NotReached(mid, high, atLevel) == {i \in DOMAIN Levels : 100 * mid > (100 - Levels[i]) * high}

\* The levels the fall has reached: mid / high - 1 <= -level.
Crossed(mid, high, atLevel) ==
    {i \in DOMAIN Levels :
        \/ 100 * mid < (100 - Levels[i]) * high
        \/ 100 * mid = (100 - Levels[i]) * high /\ atLevel}

\* spreadPct of p is at most that of q.
NotWider(p, q) == (p.sell - p.buy) * q.sell <= (q.sell - q.buy) * p.sell

\* percentileRank, as the number of days that are not above the current one.
PremiumBelow(days) ==
    Cardinality({i \in DOMAIN days : days[i].quote.premium <= days[1].quote.premium})
SpreadBelow(days) ==
    Cardinality({i \in DOMAIN days : NotWider(days[i].quote, days[1].quote)})

\* The action and the suggested exposure: sell at a high premium, wait while premium or
\* spread are above their caps, else buy 20 per cent for each level, up to 50.
Plan(days, atLevel) ==
    IF Len(days) < MinDays THEN [action |-> "NONE", exposure |-> 0]
    ELSE
    LET crossed  == Crossed(Middle(days[1].quote), RollingHigh(days), atLevel)
        exposure == Min({50, 20 * Cardinality(crossed)})
    IN  IF 100 * PremiumBelow(days) >= 80 * Len(days)
        THEN [action |-> "TRIM", exposure |-> 0]
        ELSE IF \/ 100 * PremiumBelow(days) > 70 * Len(days)
                \/ 100 * SpreadBelow(days) > 80 * Len(days)
        THEN [action |-> "BLOCKED", exposure |-> 0]
        ELSE IF exposure = 0 THEN [action |-> "WAIT", exposure |-> 0]
        ELSE [action |-> IF Cardinality(crossed) > 1 THEN "BUY_STEP_2" ELSE "BUY_STEP_1",
              exposure |-> exposure]
=============================================================================
