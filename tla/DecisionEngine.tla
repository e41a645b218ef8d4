--------------------------- MODULE DecisionEngine ---------------------------
(***************************************************************************)
(* explainDecisionSignal (packages/domain/src/signals/explain.ts): the     *)
(* rules AVOID, BUY_DCA, TAKE_PROFIT, HOLD, tried in this order on the     *)
(* figures of one product, and the score of the rule that matches first.   *)
(*                                                                         *)
(* The state is the input of the latest evaluation with its signal and     *)
(* score.  A step changes one figure and evaluates again, so an action     *)
(* property compares two evaluations.  Rates are in basis points,          *)
(* percentiles in percent, and scores are computed in exact fractions over *)
(* a common denominator before the code's own rounding.                    *)
(***************************************************************************)
EXTENDS Integers

CONSTANTS
    Premiums,     \* premiumSellPct
    Percentiles,  \* premiumPercentile180d and spreadPercentile180d, when known
    SampleSizes,  \* completed days of history, one number for both percentiles
    Spreads,      \* spreadPct
    Momenta,      \* xauMomentum30d, xauMomentum7d, domesticMomentum7d, when known
    Others,       \* bound: products on the dashboard beside the one evaluated
    None          \* null

ASSUME EngineAssumption ==
    /\ Premiums \subseteq Int /\ Spreads \subseteq Int /\ Momenta \subseteq Int
    /\ Percentiles \subseteq 0 .. 100 /\ SampleSizes \subseteq Nat
    /\ Others \in Nat /\ None \notin Int

\* SignalInput; reliable when it is valid, its quality is above 0, and every
\* required number is finite.
Inputs ==
    [premium : Premiums, percentile : Percentiles \cup {None}, samples : SampleSizes,
     spread : Spreads, spreadPercentile : Percentiles \cup {None},
     xau30 : Momenta \cup {None}, xau7 : Momenta \cup {None},
     domestic : Momenta \cup {None}, reliable : BOOLEAN]

Signals == {"DATA_UNRELIABLE", "AVOID", "BUY_DCA", "TAKE_PROFIT", "HOLD"}

VARIABLES input, signal, score

vars == <<input, signal, score>>

-----------------------------------------------------------------------------
(* Arithmetic *)

AtMost(m, x)  == IF x <= m THEN x ELSE m
AtLeast(m, x) == IF x >= m THEN x ELSE m
Clamp(low, high, x) == AtLeast(low, AtMost(high, x))

\* Math.round(x / d): halves are rounded up.
Round(x, d) == (2 * x + d) \div (2 * d)

-----------------------------------------------------------------------------
(* The history and the momentum of an input *)

PremiumUsable(i) == i.percentile # None /\ i.samples > 0
SpreadUsable(i)  == i.spreadPercentile # None /\ i.samples > 0

\* A percentile that is null counts as the middle.
Percentile(i) == IF i.percentile = None THEN 50 ELSE i.percentile

\* resolveXauMomentum: 30 days, else 7 days.
XauMomentum(i) == IF i.xau30 # None THEN i.xau30 ELSE i.xau7

-----------------------------------------------------------------------------
(* The rules *)

DataUnreliable(i) == ~ i.reliable

Avoid(i) ==
    \/ i.premium > 1600
    \/ i.spread >= 400
    \/ PremiumUsable(i) /\ i.percentile > 88

\* Faulty variant: any distance from 3% is a penalty.
DistancePenalty(s) == -AtMost(12 * 150, 18 * (IF s <= 300 THEN 300 - s ELSE s - 300))

\* calculateSpreadAdjustment, times 150: up to +8 below 3%, down to -12 above.
SpreadAdjustment(s) ==
    IF s <= 300 THEN AtMost(8 * 150, 8 * (300 - s)) ELSE -AtMost(12 * 150, 18 * (s - 300))

\* The premium's base score with the spread adjustment; it only decides the match.
AdjustedScore(i) ==
    Clamp(0, 100,
          Round(65 * 150 + AtMost(15 * 150, 75 * (10 - Percentile(i))) + SpreadAdjustment(i.spread),
                150))

BuyDca(i) ==
    /\ PremiumUsable(i) /\ i.percentile <= 10
    /\ i.premium <= 600
    /\ i.spread < 400
    /\ XauMomentum(i) # None /\ XauMomentum(i) >= -800
    /\ AdjustedScore(i) >= 65

TakeProfit(i) ==
    /\ PremiumUsable(i) /\ i.percentile > 82
    /\ i.domestic # None /\ i.domestic > 250
    /\ i.spread >= 350 \/ (SpreadUsable(i) /\ i.spreadPercentile >= 80)

\* Faulty variant: TAKE_PROFIT is tried before AVOID.
TakeProfitFirst(i) ==
    IF DataUnreliable(i) THEN "DATA_UNRELIABLE"
    ELSE IF TakeProfit(i) THEN "TAKE_PROFIT"
    ELSE IF Avoid(i) THEN "AVOID"
    ELSE IF BuyDca(i) THEN "BUY_DCA"
    ELSE "HOLD"

\* The first rule that matches.
Signal(i) ==
    IF DataUnreliable(i) THEN "DATA_UNRELIABLE"
    ELSE IF Avoid(i) THEN "AVOID"
    ELSE IF BuyDca(i) THEN "BUY_DCA"
    ELSE IF TakeProfit(i) THEN "TAKE_PROFIT"
    ELSE "HOLD"

-----------------------------------------------------------------------------
(* The scores.  Each quality is a number from 0 to 1, times 12000. *)

Quality(x) == Clamp(0, 12000, x)

PremiumQuality(i) == Quality(1200 * (10 - Percentile(i)))
SpreadQuality(i)  == Quality(48 * (400 - i.spread))
HistoryQuality(i) == Quality(400 * i.samples)

\* Best between 0% and 2%, worth nothing beyond 8% on either side.
MomentumQuality(m) ==
    IF m <= -800 \/ m >= 800 THEN 0
    ELSE IF m < 0 THEN 15 * (m + 800)
    ELSE IF m <= 200 THEN 12000
    ELSE 20 * (800 - m)

\* 65 + 35 times the weighted quality: 55% premium, 25% spread, 10% each of the rest.
BuyDcaScore(i) ==
    Clamp(65, 100,
          Round(65 * 1200000
                + 35 * (55 * PremiumQuality(i) + 25 * SpreadQuality(i)
                        + 10 * MomentumQuality(XauMomentum(i)) + 10 * HistoryQuality(i)),
                1200000))

TakeProfitScore(i) == Round(40 + AtMost(30, Percentile(i) - 82), 2)

\* calculateHoldSpreadAdjustment, times 100.
HoldSpreadAdjustment(s) ==
    IF s <= 250 THEN 300
    ELSE IF s <= 300 THEN 6 * (300 - s)
    ELSE IF s < 400 THEN -5 * (s - 300)
    ELSE -500

\* Faulty variant: any distance from the median is a reward.
HoldPremiumByDistance(i) ==
    IF ~ PremiumUsable(i) THEN 0
    ELSE AtMost(1200, 24 * (IF i.percentile > 50 THEN i.percentile - 50 ELSE 50 - i.percentile))

HoldPremium(i) == IF PremiumUsable(i) THEN AtMost(1200, 24 * (50 - i.percentile)) ELSE 0

HoldXau(m) == IF m = None THEN 0 ELSE IF m >= 100 THEN 300 ELSE IF m < -800 THEN -500 ELSE 0

HoldDomestic(m) == IF m # None /\ m > 250 THEN -400 ELSE 0

HoldScore(i) ==
    Clamp(30, 70,
          Round(5000 + HoldPremium(i) + HoldSpreadAdjustment(i.spread)
                + HoldXau(XauMomentum(i)) + HoldDomestic(i.domestic), 100))

Score(i) ==
    CASE Signal(i) = "DATA_UNRELIABLE" -> 0
      [] Signal(i) = "AVOID" -> 35
      [] Signal(i) = "BUY_DCA" -> BuyDcaScore(i)
      [] Signal(i) = "TAKE_PROFIT" -> TakeProfitScore(i)
      [] Signal(i) = "HOLD" -> HoldScore(i)

-----------------------------------------------------------------------------
(* The dashboard evaluates what the summary says of a product again, and   *)
(* makes one verdict of the scores of all products (vang-score.ts).        *)

\* numberValue of market-snapshot.ts: Number(null) is 0, and finite.  A published summary has a 0
\* where the metric has no figure; the summary the API composes itself keeps the null.
Carried(x, published) == IF published /\ x = None THEN 0 ELSE x

\* Faulty variant: the momentum of the domestic price does not reach the page.
LiveWithoutDomestic(i, n, published) ==
    [i EXCEPT !.samples = n, !.reliable = TRUE, !.domestic = None,
              !.percentile = Carried(i.percentile, published),
              !.spreadPercentile = Carried(i.spreadPercentile, published),
              !.xau30 = Carried(i.xau30, published),
              !.xau7 = Carried(i.xau7, published)]

\* The figures of the metric the worker evaluated as a summary carries them, with the summary's
\* own count of the history: the days that are complete by the time it is published, or every row
\* of a metric there is.
LiveInput(i, n, published) ==
    [i EXCEPT !.samples = n, !.reliable = TRUE,
              !.percentile = Carried(i.percentile, published),
              !.spreadPercentile = Carried(i.spreadPercentile, published),
              !.xau30 = Carried(i.xau30, published),
              !.xau7 = Carried(i.xau7, published),
              !.domestic = Carried(i.domestic, published)]

\* calculateVangScore: the average of the scores, rounded.
VangScore(sum, products) == Clamp(0, 100, Round(sum, AtLeast(1, products)))

\* Faulty variant: the verdict begins where the band of BUY_DCA does.
VerdictByBand(v) == IF v >= 65 THEN "buy" ELSE IF v >= 40 THEN "consider" ELSE "wait"

\* getVangDecision
Verdict(v) == IF v >= 70 THEN "buy" ELSE IF v >= 40 THEN "consider" ELSE "wait"

-----------------------------------------------------------------------------
(* The specification *)

Evaluate(i) == input' = i /\ signal' = Signal(i) /\ score' = Score(i)

Init ==
    /\ input \in Inputs
    /\ signal = Signal(input) /\ score = Score(input)

PremiumMoves ==
    \E p \in Premiums, c \in Percentiles \cup {None} :
        (p = input.premium \/ c = input.percentile)
        /\ Evaluate([input EXCEPT !.premium = p, !.percentile = c])

SpreadMoves ==
    \E s \in Spreads, c \in Percentiles \cup {None} :
        (s = input.spread \/ c = input.spreadPercentile)
        /\ Evaluate([input EXCEPT !.spread = s, !.spreadPercentile = c])

HistoryGrows == \E n \in SampleSizes : Evaluate([input EXCEPT !.samples = n])

MomentumMoves ==
    \E m \in Momenta \cup {None} :
        \/ Evaluate([input EXCEPT !.xau30 = m])
        \/ Evaluate([input EXCEPT !.xau7 = m])
        \/ Evaluate([input EXCEPT !.domestic = m])

DataChanges == Evaluate([input EXCEPT !.reliable = ~ @])

Next == PremiumMoves \/ SpreadMoves \/ HistoryGrows \/ MomentumMoves \/ DataChanges

Spec == Init /\ [][Next]_vars

-----------------------------------------------------------------------------
(* Properties *)

\* The scores each signal can have.  They overlap: a HOLD may score above a
\* BUY_DCA, and an AVOID scores above every TAKE_PROFIT.
Bands == [DATA_UNRELIABLE |-> 0 .. 0, AVOID |-> 35 .. 35, BUY_DCA |-> 65 .. 100,
          TAKE_PROFIT |-> 20 .. 23, HOLD |-> 30 .. 68]

\* Every signal comes with a score of its own band.  The bands are narrower than
\* the clamps of the code because the rules exclude one another.
ScoreInBand == input \in Inputs /\ signal \in Signals /\ score \in Bands[signal]

\* The inductive form of every property: the state is one evaluation.
IInv == input \in Inputs /\ signal = Signal(input) /\ score = Score(input)

\* From the signal that asks for a purchase to the one that forbids it.
Rank == [BUY_DCA |-> 0, HOLD |-> 1, TAKE_PROFIT |-> 2, AVOID |-> 3, DATA_UNRELIABLE |-> 4]

NotBelow(c, d) == (c = None <=> d = None) /\ (c # None => c <= d)

\* The terms of j are no better for a buyer than those of i: a premium and a
\* spread as high or higher, also within their histories, no longer a history,
\* and all else equal.
Worse(i, j) ==
    /\ i.premium <= j.premium /\ NotBelow(i.percentile, j.percentile)
    /\ i.spread <= j.spread /\ NotBelow(i.spreadPercentile, j.spreadPercentile)
    /\ j.samples <= i.samples /\ (j.samples > 0 <=> i.samples > 0)
    /\ j.xau30 = i.xau30 /\ j.xau7 = i.xau7 /\ j.domestic = i.domestic
    /\ j.reliable = i.reliable

\* Worse terms never bring the signal closer to a purchase, in spite of the order
\* in which the rules are tried.
WorseTermsNeverUpgrade ==
    [][Worse(input, input') => Rank[signal] <= Rank[signal']]_vars

\* Between HOLD and BUY_DCA worse terms never raise the score, also where the
\* formula changes with the signal.
WorseTermsNeverScoreMore ==
    [][Worse(input, input') /\ {signal, signal'} \subseteq {"BUY_DCA", "HOLD"}
         => score' <= score]_vars

SameHistory(i, n) ==
    \/ i.samples > 0 /\ n > 0
    \/ i.percentile = None /\ i.spreadPercentile = None

\* The nulls of a published summary that a rule takes for figures: a 30-day momentum of 0 hides
\* that of 7 days and passes the floor of BUY_DCA, and a percentile of 0 is the lowest there is.
\* Those of the spread and of the domestic price change nothing.
NullsMatter(i, n, published) ==
    published /\ (i.xau30 = None \/ (i.percentile = None /\ n > 0))

\* What the page shows of a product is what the worker stored and mailed, except that a null which
\* a published summary turned into 0 can make a HOLD a BUY_DCA.  Without such a null the count of
\* the history, which the two do not agree on, moves the score of a BUY_DCA by 4 at most and
\* nothing else, as long as neither counts a known history as empty (vang-score.ts:85).
LiveSignalAgrees ==
    \A n \in SampleSizes, published \in BOOLEAN :
        SameHistory(input, n) /\ input.reliable =>
            LET live == LiveInput(input, n, published) IN
            /\ Signal(live) # signal =>
                 NullsMatter(input, n, published) /\ signal = "HOLD" /\ Signal(live) = "BUY_DCA"
            /\ ~ NullsMatter(input, n, published) =>
                 /\ Score(live) - score \in -4 .. 4
                 /\ signal # "BUY_DCA" => Score(live) = score

\* The headline of the dashboard fits the signals below it: whatever other products score, it
\* recommends to buy only when some product is a BUY_DCA, and it is to wait when every product is
\* to be avoided or sold (vang-score.ts:201).
VerdictFitsSignals ==
    \A n \in 0 .. Others :
        /\ signal # "BUY_DCA" =>
             \A sum \in 0 .. 68 * n : Verdict(VangScore(score + sum, n + 1)) # "buy"
        /\ signal \in {"AVOID", "TAKE_PROFIT"} =>
             \A sum \in 0 .. 35 * n : Verdict(VangScore(score + sum, n + 1)) = "wait"
=============================================================================
