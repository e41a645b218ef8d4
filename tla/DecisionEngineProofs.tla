------------------------ MODULE DecisionEngineProofs ------------------------
(***************************************************************************)
(* Proofs about DecisionEngine: the score lies in the band of its signal,  *)
(* and worse terms bring neither the signal closer to a purchase nor the   *)
(* score up between HOLD and BUY_DCA, for every set of figures.            *)
(*                                                                         *)
(* The arithmetic of a single figure is proved first, over the integers;   *)
(* then what a rule makes of one input, and of two inputs of which one has *)
(* the worse terms; the theorems about the behaviours are last.            *)
(***************************************************************************)
EXTENDS DecisionEngine, TLAPS

-----------------------------------------------------------------------------
(* Figures *)

\* Every figure of an input that is known is an integer.
LEMMA Figures ==
    ASSUME NEW i \in Inputs
    PROVE  /\ i.premium \in Int /\ i.spread \in Int
           /\ i.samples \in Int /\ i.samples >= 0
           /\ i.percentile # None =>
                i.percentile \in Int /\ i.percentile >= 0 /\ i.percentile <= 100
           /\ i.spreadPercentile # None => i.spreadPercentile \in Int
           /\ XauMomentum(i) # None => XauMomentum(i) \in Int
           /\ i.domestic # None => i.domestic \in Int
<1>1. i.premium \in Int /\ i.spread \in Int
  <2>1. i.premium \in Premiums /\ i.spread \in Spreads
    BY DEF Inputs
  <2>2. QED
    BY <2>1, EngineAssumption
<1>2. i.samples \in Int /\ i.samples >= 0
  <2>1. i.samples \in Nat
    BY EngineAssumption DEF Inputs
  <2>2. QED
    BY <2>1
<1>3. i.percentile # None =>
        i.percentile \in Int /\ i.percentile >= 0 /\ i.percentile <= 100
  <2>1. i.percentile # None => i.percentile \in 0 .. 100
    BY EngineAssumption DEF Inputs
  <2>2. QED
    BY <2>1
<1>4. i.spreadPercentile # None => i.spreadPercentile \in Int
  <2>1. i.spreadPercentile # None => i.spreadPercentile \in 0 .. 100
    BY EngineAssumption DEF Inputs
  <2>2. QED
    BY <2>1
<1>5. /\ i.xau30 \in Int \cup {None}
      /\ i.xau7 \in Int \cup {None}
      /\ i.domestic \in Int \cup {None}
  <2>1. /\ i.xau30 \in Momenta \cup {None}
        /\ i.xau7 \in Momenta \cup {None}
        /\ i.domestic \in Momenta \cup {None}
    BY DEF Inputs
  <2>2. QED
    BY <2>1, EngineAssumption
<1>6. XauMomentum(i) # None => XauMomentum(i) \in Int
  BY <1>5 DEF XauMomentum
<1>7. i.domestic # None => i.domestic \in Int
  BY <1>5
<1>8. QED
  BY <1>1, <1>2, <1>3, <1>4, <1>6, <1>7

\* Rounding the adjusted score keeps the order.
LEMMA RoundAdjusted ==
    ASSUME NEW x \in Int, NEW y \in Int, x <= y
    PROVE  Round(x, 150) \in Int /\ Round(x, 150) <= Round(y, 150)
BY DEF Round

\* Rounding the sum of BUY_DCA keeps the order.
LEMMA RoundBuy ==
    ASSUME NEW x \in Int, NEW y \in Int, x <= y
    PROVE  Round(x, 1200000) \in Int /\ Round(x, 1200000) <= Round(y, 1200000)
BY DEF Round

\* Rounding the sum of HOLD keeps the order.
LEMMA RoundHold ==
    ASSUME NEW x \in Int, NEW y \in Int, x <= y
    PROVE  Round(x, 100) \in Int /\ Round(x, 100) <= Round(y, 100)
BY DEF Round

\* The score of TAKE_PROFIT rounds into its band.
LEMMA RoundTakeProfit ==
    ASSUME NEW x \in Int, x >= 40, x <= 46
    PROVE  Round(x, 2) \in 20 .. 23
BY DEF Round

\* Both adjustments for the spread fall as the spread grows.
LEMMA SpreadAdjustmentFalls ==
    ASSUME NEW s \in Int, NEW t \in Int, s <= t
    PROVE  /\ SpreadAdjustment(s) \in Int /\ SpreadAdjustment(t) \in Int
           /\ SpreadAdjustment(t) <= SpreadAdjustment(s)
BY DEF SpreadAdjustment, AtMost

LEMMA HoldSpreadAdjustmentFalls ==
    ASSUME NEW s \in Int, NEW t \in Int, s <= t
    PROVE  /\ HoldSpreadAdjustment(s) \in Int /\ HoldSpreadAdjustment(t) \in Int
           /\ HoldSpreadAdjustment(t) <= HoldSpreadAdjustment(s)
           /\ HoldSpreadAdjustment(s) <= 300
BY DEF HoldSpreadAdjustment

-----------------------------------------------------------------------------
(* The rules under worse terms *)

\* What Worse says of a percentile that is known.
LEMMA WorsePercentile ==
    ASSUME NEW i \in Inputs, NEW j \in Inputs, Worse(i, j)
    PROVE  /\ i.percentile = None <=> j.percentile = None
           /\ i.percentile # None => i.percentile <= j.percentile
           /\ PremiumUsable(i) <=> PremiumUsable(j)
           /\ XauMomentum(i) = XauMomentum(j)
BY DEF Worse, NotBelow, PremiumUsable, XauMomentum

\* A market to avoid is avoided on worse terms too.
LEMMA AvoidStays ==
    ASSUME NEW i \in Inputs, NEW j \in Inputs, Worse(i, j), Avoid(i)
    PROVE  Avoid(j)
<1>1. /\ i.premium \in Int /\ i.spread \in Int
      /\ j.premium \in Int /\ j.spread \in Int
      /\ i.premium <= j.premium /\ i.spread <= j.spread
  BY Figures DEF Worse
<1>2. CASE i.premium > 1600 \/ i.spread >= 400
  BY <1>1, <1>2 DEF Avoid
<1>3. CASE PremiumUsable(i) /\ i.percentile > 88
  <2>1. PremiumUsable(j) /\ i.percentile <= j.percentile
    BY <1>3, WorsePercentile DEF PremiumUsable
  <2>2. i.percentile \in Int /\ j.percentile \in Int
    BY <1>3, <2>1, Figures DEF PremiumUsable
  <2>3. QED
    BY <1>3, <2>1, <2>2 DEF Avoid
<1>4. QED
  BY <1>2, <1>3 DEF Avoid

\* The score that decides the match of BUY_DCA falls on worse terms.
LEMMA AdjustedScoreFalls ==
    ASSUME NEW i \in Inputs, NEW j \in Inputs, Worse(i, j), i.percentile # None
    PROVE  /\ AdjustedScore(i) \in Int /\ AdjustedScore(j) \in Int
           /\ AdjustedScore(j) <= AdjustedScore(i)
<1> DEFINE base(k) == 65 * 150 + AtMost(15 * 150, 75 * (10 - Percentile(k)))
                      + SpreadAdjustment(k.spread)
<1>1. /\ Percentile(i) \in Int /\ Percentile(j) \in Int
      /\ Percentile(i) <= Percentile(j)
  BY Figures, WorsePercentile DEF Percentile
<1>2. /\ SpreadAdjustment(i.spread) \in Int /\ SpreadAdjustment(j.spread) \in Int
      /\ SpreadAdjustment(j.spread) <= SpreadAdjustment(i.spread)
  BY Figures, SpreadAdjustmentFalls DEF Worse
<1>3. base(i) \in Int /\ base(j) \in Int /\ base(j) <= base(i)
  BY <1>1, <1>2 DEF AtMost
<1>4. /\ Round(base(i), 150) \in Int /\ Round(base(j), 150) \in Int
      /\ Round(base(j), 150) <= Round(base(i), 150)
  <2> HIDE DEF base
  <2>1. QED
    BY <1>3, RoundAdjusted
<1>5. AdjustedScore(i) = Clamp(0, 100, Round(base(i), 150))
      /\ AdjustedScore(j) = Clamp(0, 100, Round(base(j), 150))
  BY DEF AdjustedScore
<1>6. QED
  <2> HIDE DEF base
  <2>1. QED
    BY <1>4, <1>5 DEF Clamp, AtLeast, AtMost

\* What is not bought on some terms is not bought on worse ones.
LEMMA BuyDcaNeedsTerms ==
    ASSUME NEW i \in Inputs, NEW j \in Inputs, Worse(i, j), BuyDca(j)
    PROVE  BuyDca(i)
<1>1. j.percentile # None /\ i.percentile # None
  BY WorsePercentile DEF BuyDca, PremiumUsable
<1>2. /\ i.percentile \in Int /\ j.percentile \in Int /\ i.percentile <= j.percentile
      /\ i.premium \in Int /\ j.premium \in Int /\ i.premium <= j.premium
      /\ i.spread \in Int /\ j.spread \in Int /\ i.spread <= j.spread
  BY <1>1, Figures, WorsePercentile DEF Worse
<1>3. PremiumUsable(i) /\ XauMomentum(i) # None /\ XauMomentum(i) >= -800
  BY WorsePercentile DEF BuyDca
<1>4. i.percentile <= 10 /\ i.premium <= 600 /\ i.spread < 400
  BY <1>2 DEF BuyDca
<1>5. AdjustedScore(i) >= 65
  <2>1. /\ AdjustedScore(i) \in Int /\ AdjustedScore(j) \in Int
        /\ AdjustedScore(j) <= AdjustedScore(i)
    BY <1>1, AdjustedScoreFalls
  <2>2. AdjustedScore(j) >= 65
    BY DEF BuyDca
  <2>3. QED
    BY <2>1, <2>2
<1>6. QED
  BY <1>3, <1>4, <1>5 DEF BuyDca

\* Worse terms do not take the reasons to sell away.
LEMMA TakeProfitStays ==
    ASSUME NEW i \in Inputs, NEW j \in Inputs, Worse(i, j), TakeProfit(i)
    PROVE  TakeProfit(j)
<1>1. PremiumUsable(i) /\ i.percentile # None /\ j.percentile # None
  BY WorsePercentile DEF TakeProfit, PremiumUsable
<1>2. PremiumUsable(j) /\ j.percentile > 82
  <2>1. i.percentile \in Int /\ j.percentile \in Int /\ i.percentile <= j.percentile
    BY <1>1, Figures, WorsePercentile
  <2>2. i.percentile > 82
    BY DEF TakeProfit
  <2>3. QED
    BY <1>1, <2>1, <2>2, WorsePercentile
<1>3. j.domestic # None /\ j.domestic > 250
  BY DEF Worse, TakeProfit
<1>4. j.spread >= 350 \/ (SpreadUsable(j) /\ j.spreadPercentile >= 80)
  <2>1. CASE i.spread >= 350
    <3>1. i.spread \in Int /\ j.spread \in Int /\ i.spread <= j.spread
      BY Figures DEF Worse
    <3>2. QED
      BY <2>1, <3>1
  <2>2. CASE SpreadUsable(i) /\ i.spreadPercentile >= 80
    <3>1. SpreadUsable(j) /\ i.spreadPercentile <= j.spreadPercentile
      BY <2>2 DEF Worse, NotBelow, SpreadUsable
    <3>2. i.spreadPercentile \in Int /\ j.spreadPercentile \in Int
      BY <2>2, <3>1, Figures DEF SpreadUsable
    <3>3. QED
      BY <2>2, <3>1, <3>2
  <2>3. QED
    BY <2>1, <2>2 DEF TakeProfit
<1>5. QED
  BY <1>2, <1>3, <1>4 DEF TakeProfit

\* A premium low enough to buy is not high enough to sell.
LEMMA BuyOrTakeProfit ==
    ASSUME NEW i \in Inputs, BuyDca(i)
    PROVE  ~ TakeProfit(i)
<1>1. i.percentile \in Int /\ i.percentile <= 10
  BY Figures DEF BuyDca, PremiumUsable
<1>2. QED
  BY <1>1 DEF TakeProfit

\* The signal never moves towards a purchase on worse terms.
LEMMA RankRises ==
    ASSUME NEW i \in Inputs, NEW j \in Inputs, Worse(i, j)
    PROVE  Rank[Signal(i)] <= Rank[Signal(j)]
<1>1. DataUnreliable(i) <=> DataUnreliable(j)
  BY DEF Worse, DataUnreliable
<1>2. Avoid(i) => Avoid(j)
  BY AvoidStays
<1>3. BuyDca(j) => BuyDca(i)
  BY BuyDcaNeedsTerms
<1>4. TakeProfit(i) => TakeProfit(j)
  BY TakeProfitStays
<1>5. (BuyDca(i) => ~ TakeProfit(i)) /\ (BuyDca(j) => ~ TakeProfit(j))
  BY BuyOrTakeProfit
<1>6. QED
  BY <1>1, <1>2, <1>3, <1>4, <1>5 DEF Signal, Rank

-----------------------------------------------------------------------------
(* The scores *)

\* The arguments of the two roundings, named for the proofs about them.
BuySum(i) ==
    65 * 1200000
    + 35 * (55 * PremiumQuality(i) + 25 * SpreadQuality(i)
            + 10 * MomentumQuality(XauMomentum(i)) + 10 * HistoryQuality(i))

HoldSum(i) ==
    5000 + HoldPremium(i) + HoldSpreadAdjustment(i.spread)
    + HoldXau(XauMomentum(i)) + HoldDomestic(i.domestic)

\* A score of HOLD and one of BUY_DCA compare as their unrounded sums do.
LEMMA RoundAcross ==
    ASSUME NEW x \in Int, NEW y \in Int, 12000 * x <= y
    PROVE  Round(x, 100) <= Round(y, 1200000)
BY DEF Round

\* The qualities of a BUY_DCA are integers, and none is negative.
LEMMA Qualities ==
    ASSUME NEW i \in Inputs, i.percentile # None, XauMomentum(i) # None
    PROVE  /\ PremiumQuality(i) \in Nat /\ SpreadQuality(i) \in Nat
           /\ MomentumQuality(XauMomentum(i)) \in Nat /\ HistoryQuality(i) \in Nat
<1>1. /\ Percentile(i) \in Int /\ i.spread \in Int /\ i.samples \in Int
      /\ XauMomentum(i) \in Int
  BY Figures DEF Percentile
<1>2. \A x \in Int : Quality(x) \in Nat
  BY DEF Quality, Clamp, AtLeast, AtMost
<1>3. PremiumQuality(i) \in Nat
  BY <1>1, <1>2 DEF PremiumQuality
<1>4. SpreadQuality(i) \in Nat
  BY <1>1, <1>2 DEF SpreadQuality
<1>5. HistoryQuality(i) \in Nat
  BY <1>1, <1>2 DEF HistoryQuality
<1>6. MomentumQuality(XauMomentum(i)) \in Nat
  <2>1. \A m \in Int : MomentumQuality(m) \in Nat
    BY DEF MomentumQuality
  <2>2. QED
    BY <1>1, <2>1
<1>7. QED
  BY <1>3, <1>4, <1>5, <1>6

\* The score of a BUY_DCA is its clamped sum, and the clamp is from 65 to 100.
LEMMA BuyScoreBand ==
    ASSUME NEW i \in Inputs, i.percentile # None, XauMomentum(i) # None
    PROVE  /\ BuySum(i) \in Int
           /\ Round(BuySum(i), 1200000) \in Int
           /\ BuyDcaScore(i) = Clamp(65, 100, Round(BuySum(i), 1200000))
           /\ BuyDcaScore(i) \in 65 .. 100
<1>1. BuySum(i) \in Int
  BY Qualities DEF BuySum
<1>2. Round(BuySum(i), 1200000) \in Int
  BY <1>1, RoundBuy
<1>3. BuyDcaScore(i) = Clamp(65, 100, Round(BuySum(i), 1200000))
  BY DEF BuyDcaScore, BuySum
<1>4. QED
  BY <1>1, <1>2, <1>3 DEF Clamp, AtLeast, AtMost

\* The terms of the sum of HOLD.
LEMMA HoldTerms ==
    ASSUME NEW i \in Inputs
    PROVE  /\ HoldPremium(i) \in Int /\ HoldPremium(i) <= 1200
           /\ HoldSpreadAdjustment(i.spread) \in Int
           /\ HoldSpreadAdjustment(i.spread) <= 300
           /\ HoldXau(XauMomentum(i)) \in Int /\ HoldXau(XauMomentum(i)) <= 300
           /\ HoldDomestic(i.domestic) \in Int /\ HoldDomestic(i.domestic) <= 0
<1>1. HoldPremium(i) \in Int /\ HoldPremium(i) <= 1200
  <2>1. CASE PremiumUsable(i)
    <3>1. i.percentile \in Int
      BY <2>1, Figures DEF PremiumUsable
    <3>2. QED
      BY <2>1, <3>1 DEF HoldPremium, AtMost
  <2>2. CASE ~ PremiumUsable(i)
    BY <2>2 DEF HoldPremium
  <2>3. QED
    BY <2>1, <2>2
<1>2. HoldSpreadAdjustment(i.spread) \in Int /\ HoldSpreadAdjustment(i.spread) <= 300
  <2>1. i.spread \in Int /\ i.spread <= i.spread
    BY Figures
  <2>2. QED
    BY <2>1, HoldSpreadAdjustmentFalls
<1>3. HoldXau(XauMomentum(i)) \in Int /\ HoldXau(XauMomentum(i)) <= 300
  BY DEF HoldXau
<1>4. HoldDomestic(i.domestic) \in Int /\ HoldDomestic(i.domestic) <= 0
  BY DEF HoldDomestic
<1>5. QED
  BY <1>1, <1>2, <1>3, <1>4

\* The score of a HOLD is its clamped sum; what it can gain ends at 68.
LEMMA HoldScoreBand ==
    ASSUME NEW i \in Inputs
    PROVE  /\ HoldSum(i) \in Int
           /\ Round(HoldSum(i), 100) \in Int
           /\ HoldScore(i) = Clamp(30, 70, Round(HoldSum(i), 100))
           /\ HoldScore(i) \in 30 .. 68
<1>1. HoldSum(i) \in Int /\ HoldSum(i) <= 6800
  BY HoldTerms DEF HoldSum
<1>2. Round(HoldSum(i), 100) \in Int /\ Round(HoldSum(i), 100) <= 68
  <2>1. Round(6800, 100) = 68
    BY DEF Round
  <2>2. QED
    BY <1>1, <2>1, RoundHold
<1>3. HoldScore(i) = Clamp(30, 70, Round(HoldSum(i), 100))
  BY DEF HoldScore, HoldSum
<1>4. QED
  BY <1>1, <1>2, <1>3 DEF Clamp, AtLeast, AtMost

\* The score of an evaluation lies in the band of its signal.
LEMMA Banded ==
    ASSUME NEW i \in Inputs
    PROVE  Signal(i) \in Signals /\ Score(i) \in Bands[Signal(i)]
<1>1. Signal(i) \in Signals
  BY DEF Signal, Signals
<1>2. CASE Signal(i) = "DATA_UNRELIABLE"
  BY <1>1, <1>2 DEF Score, Bands
<1>3. CASE Signal(i) = "AVOID"
  BY <1>1, <1>3 DEF Score, Bands
<1>4. CASE Signal(i) = "BUY_DCA"
  <2>1. BuyDca(i)
    BY <1>4 DEF Signal
  <2>2. BuyDcaScore(i) \in 65 .. 100
    BY <2>1, BuyScoreBand DEF BuyDca, PremiumUsable
  <2>3. QED
    BY <1>1, <1>4, <2>2 DEF Score, Bands
<1>5. CASE Signal(i) = "TAKE_PROFIT"
  <2>1. TakeProfit(i) /\ ~ Avoid(i)
    BY <1>5 DEF Signal
  <2>2. i.percentile \in Int /\ i.percentile > 82 /\ i.percentile <= 88
    <3>1. PremiumUsable(i) /\ i.percentile \in Int
      BY <2>1, Figures DEF TakeProfit, PremiumUsable
    <3>2. QED
      BY <2>1, <3>1 DEF TakeProfit, Avoid
  <2>3. Percentile(i) = i.percentile
    BY <2>1 DEF TakeProfit, PremiumUsable, Percentile
  <2>4. TakeProfitScore(i) \in 20 .. 23
    BY <2>2, <2>3, RoundTakeProfit DEF TakeProfitScore, AtMost
  <2>5. QED
    BY <1>1, <1>5, <2>4 DEF Score, Bands
<1>6. CASE Signal(i) = "HOLD"
  BY <1>1, <1>6, HoldScoreBand DEF Score, Bands
<1>7. QED
  BY <1>1, <1>2, <1>3, <1>4, <1>5, <1>6 DEF Signals

-----------------------------------------------------------------------------
(* The scores under worse terms *)

\* What Worse says of the figures the scores are computed from.
LEMMA WorseFigures ==
    ASSUME NEW i \in Inputs, NEW j \in Inputs, Worse(i, j), i.percentile # None
    PROVE  /\ Percentile(i) \in Int /\ Percentile(j) \in Int
           /\ Percentile(i) <= Percentile(j)
           /\ i.spread \in Int /\ j.spread \in Int /\ i.spread <= j.spread
           /\ i.samples \in Int /\ j.samples \in Int /\ j.samples <= i.samples
BY Figures, WorsePercentile DEF Percentile, Worse

\* Each quality of a BUY_DCA falls on worse terms, and so does its score.
LEMMA BuyScoreFalls ==
    ASSUME NEW i \in Inputs, NEW j \in Inputs, Worse(i, j),
           i.percentile # None, XauMomentum(i) # None
    PROVE  BuyDcaScore(j) <= BuyDcaScore(i)
<1>1. j.percentile # None /\ XauMomentum(j) = XauMomentum(i)
  BY WorsePercentile
<1>2. \A x, y \in Int : x <= y => Quality(x) <= Quality(y)
  BY DEF Quality, Clamp, AtLeast, AtMost
<1>3. PremiumQuality(j) <= PremiumQuality(i)
  BY <1>2, WorseFigures DEF PremiumQuality
<1>4. SpreadQuality(j) <= SpreadQuality(i)
  BY <1>2, WorseFigures DEF SpreadQuality
<1>5. HistoryQuality(j) <= HistoryQuality(i)
  BY <1>2, WorseFigures DEF HistoryQuality
<1>6. /\ PremiumQuality(i) \in Nat /\ SpreadQuality(i) \in Nat
      /\ MomentumQuality(XauMomentum(i)) \in Nat /\ HistoryQuality(i) \in Nat
      /\ PremiumQuality(j) \in Nat /\ SpreadQuality(j) \in Nat /\ HistoryQuality(j) \in Nat
  BY <1>1, Qualities
<1>7. BuySum(j) <= BuySum(i)
  BY <1>1, <1>3, <1>4, <1>5, <1>6 DEF BuySum
<1>8. /\ BuySum(i) \in Int /\ BuySum(j) \in Int
      /\ BuyDcaScore(i) = Clamp(65, 100, Round(BuySum(i), 1200000))
      /\ BuyDcaScore(j) = Clamp(65, 100, Round(BuySum(j), 1200000))
      /\ Round(BuySum(i), 1200000) \in Int /\ Round(BuySum(j), 1200000) \in Int
  BY <1>1, BuyScoreBand
<1>9. Round(BuySum(j), 1200000) <= Round(BuySum(i), 1200000)
  BY <1>7, <1>8, RoundBuy
<1>10. QED
  BY <1>8, <1>9 DEF Clamp, AtLeast, AtMost

\* The score of HOLD falls on worse terms.
LEMMA HoldScoreFalls ==
    ASSUME NEW i \in Inputs, NEW j \in Inputs, Worse(i, j)
    PROVE  HoldScore(j) <= HoldScore(i)
<1>1. HoldPremium(j) <= HoldPremium(i)
  <2>1. CASE PremiumUsable(i)
    <3>1. /\ PremiumUsable(j) /\ i.percentile <= j.percentile
          /\ i.percentile \in Int /\ j.percentile \in Int
      BY <2>1, WorsePercentile, Figures DEF PremiumUsable
    <3>2. QED
      BY <2>1, <3>1 DEF HoldPremium, AtMost
  <2>2. CASE ~ PremiumUsable(i)
    BY <2>2, WorsePercentile DEF HoldPremium
  <2>3. QED
    BY <2>1, <2>2
<1>2. HoldSpreadAdjustment(j.spread) <= HoldSpreadAdjustment(i.spread)
  BY Figures, HoldSpreadAdjustmentFalls DEF Worse
<1>3. XauMomentum(j) = XauMomentum(i) /\ j.domestic = i.domestic
  BY WorsePercentile DEF Worse
<1>4. HoldSum(j) <= HoldSum(i)
  BY <1>1, <1>2, <1>3, HoldTerms DEF HoldSum
<1>5. /\ HoldSum(i) \in Int /\ HoldSum(j) \in Int
      /\ HoldScore(i) = Clamp(30, 70, Round(HoldSum(i), 100))
      /\ HoldScore(j) = Clamp(30, 70, Round(HoldSum(j), 100))
      /\ Round(HoldSum(i), 100) \in Int /\ Round(HoldSum(j), 100) \in Int
  BY HoldScoreBand
<1>6. Round(HoldSum(j), 100) <= Round(HoldSum(i), 100)
  BY <1>4, <1>5, RoundHold
<1>7. QED
  BY <1>5, <1>6 DEF Clamp, AtLeast, AtMost

\* Where BUY_DCA matches, its formula gives at least what that of HOLD would.
LEMMA BuyAboveHold ==
    ASSUME NEW i \in Inputs, BuyDca(i)
    PROVE  HoldScore(i) <= BuyDcaScore(i)
<1>1. /\ PremiumUsable(i) /\ i.percentile # None /\ XauMomentum(i) # None
      /\ i.percentile \in Int /\ i.percentile >= 0 /\ i.percentile <= 10
      /\ i.spread \in Int /\ i.spread < 400
      /\ Percentile(i) = i.percentile
  BY Figures DEF BuyDca, PremiumUsable, Percentile
<1>2. HoldPremium(i) = 1200 - 24 * i.percentile
  BY <1>1 DEF HoldPremium, AtMost
<1>3. PremiumQuality(i) = 12000 - 1200 * i.percentile
  BY <1>1 DEF PremiumQuality, Quality, Clamp, AtLeast, AtMost
<1>4. 12000 * HoldSpreadAdjustment(i.spread) <= 875 * SpreadQuality(i) + 2880000
  BY <1>1 DEF HoldSpreadAdjustment, SpreadQuality, Quality, Clamp, AtLeast, AtMost
<1>5. 12000 * HoldSum(i) <= BuySum(i)
  <2>1. HoldSum(i) <= 6500 - 24 * i.percentile + HoldSpreadAdjustment(i.spread)
    BY <1>1, <1>2, HoldTerms DEF HoldSum
  <2>2. BuySum(i) >= 78000000 + 1925 * PremiumQuality(i) + 875 * SpreadQuality(i)
    BY <1>1, Qualities DEF BuySum
  <2>3. /\ HoldSum(i) \in Int /\ BuySum(i) \in Int
        /\ HoldSpreadAdjustment(i.spread) \in Int /\ SpreadQuality(i) \in Int
    BY <1>1, HoldScoreBand, BuyScoreBand, HoldTerms, Qualities
  <2>4. QED
    BY <1>1, <1>3, <1>4, <2>1, <2>2, <2>3
<1>6. /\ HoldScore(i) = Clamp(30, 70, Round(HoldSum(i), 100))
      /\ BuyDcaScore(i) = Clamp(65, 100, Round(BuySum(i), 1200000))
      /\ HoldScore(i) \in 30 .. 68
      /\ Round(HoldSum(i), 100) \in Int /\ Round(BuySum(i), 1200000) \in Int
      /\ HoldSum(i) \in Int /\ BuySum(i) \in Int
  BY <1>1, HoldScoreBand, BuyScoreBand
<1>7. Round(HoldSum(i), 100) <= Round(BuySum(i), 1200000)
  BY <1>5, <1>6, RoundAcross
<1>8. QED
  BY <1>6, <1>7 DEF Clamp, AtLeast, AtMost

\* Between HOLD and BUY_DCA the score falls on worse terms.
LEMMA ScoreFalls ==
    ASSUME NEW i \in Inputs, NEW j \in Inputs, Worse(i, j),
           {Signal(i), Signal(j)} \subseteq {"BUY_DCA", "HOLD"}
    PROVE  Score(j) <= Score(i)
<1>1. CASE Signal(j) = "BUY_DCA"
  <2>1. Signal(i) = "BUY_DCA"
    BY <1>1, RankRises DEF Rank
  <2>2. BuyDca(i)
    BY <2>1 DEF Signal
  <2>3. BuyDcaScore(j) <= BuyDcaScore(i)
    BY <2>2, BuyScoreFalls DEF BuyDca, PremiumUsable
  <2>4. QED
    BY <1>1, <2>1, <2>3 DEF Score
<1>2. CASE Signal(j) = "HOLD" /\ Signal(i) = "HOLD"
  BY <1>2, HoldScoreFalls DEF Score
<1>3. CASE Signal(j) = "HOLD" /\ Signal(i) = "BUY_DCA"
  <2>1. HoldScore(j) <= HoldScore(i)
    BY HoldScoreFalls
  <2>2. BuyDca(i) /\ i.percentile # None /\ XauMomentum(i) # None
    BY <1>3 DEF Signal, BuyDca, PremiumUsable
  <2>3. HoldScore(i) <= BuyDcaScore(i)
    BY <2>2, BuyAboveHold
  <2>4. HoldScore(i) \in Int /\ HoldScore(j) \in Int /\ BuyDcaScore(i) \in Int
    BY <2>2, HoldScoreBand, BuyScoreBand
  <2>5. HoldScore(j) <= BuyDcaScore(i)
    BY <2>1, <2>3, <2>4
  <2>6. QED
    BY <1>3, <2>5 DEF Score
<1>4. QED
  BY <1>1, <1>2, <1>3

-----------------------------------------------------------------------------
(* The behaviours *)

\* Every step evaluates an input of its own, or changes nothing.
LEMMA Invariance == Spec => []IInv
<1>1. Init => IInv
  BY DEF Init, IInv
<1>2. IInv /\ [Next]_vars => IInv'
  <2> SUFFICES ASSUME IInv, [Next]_vars PROVE IInv'
    OBVIOUS
  <2>1. CASE PremiumMoves
    <3>1. PICK p \in Premiums, c \in Percentiles \cup {None} :
            Evaluate([input EXCEPT !.premium = p, !.percentile = c])
      BY <2>1 DEF PremiumMoves
    <3>2. [input EXCEPT !.premium = p, !.percentile = c] \in Inputs
      BY DEF IInv, Inputs
    <3>3. QED
      BY <3>1, <3>2 DEF Evaluate, IInv, Signal, Score
  <2>2. CASE SpreadMoves
    <3>1. PICK s \in Spreads, c \in Percentiles \cup {None} :
            Evaluate([input EXCEPT !.spread = s, !.spreadPercentile = c])
      BY <2>2 DEF SpreadMoves
    <3>2. [input EXCEPT !.spread = s, !.spreadPercentile = c] \in Inputs
      BY DEF IInv, Inputs
    <3>3. QED
      BY <3>1, <3>2 DEF Evaluate, IInv, Signal, Score
  <2>3. CASE HistoryGrows
    <3>1. PICK n \in SampleSizes : Evaluate([input EXCEPT !.samples = n])
      BY <2>3 DEF HistoryGrows
    <3>2. [input EXCEPT !.samples = n] \in Inputs
      BY DEF IInv, Inputs
    <3>3. QED
      BY <3>1, <3>2 DEF Evaluate, IInv
  <2>4. CASE MomentumMoves
    <3>1. PICK m \in Momenta \cup {None} :
            \/ Evaluate([input EXCEPT !.xau30 = m])
            \/ Evaluate([input EXCEPT !.xau7 = m])
            \/ Evaluate([input EXCEPT !.domestic = m])
      BY <2>4 DEF MomentumMoves
    <3>2. /\ [input EXCEPT !.xau30 = m] \in Inputs
          /\ [input EXCEPT !.xau7 = m] \in Inputs
          /\ [input EXCEPT !.domestic = m] \in Inputs
      BY DEF IInv, Inputs
    <3>3. QED
      BY <3>1, <3>2 DEF Evaluate, IInv
  <2>5. CASE DataChanges
    <3>1. [input EXCEPT !.reliable = ~ @] \in Inputs
      BY DEF IInv, Inputs
    <3>2. QED
      BY <2>5, <3>1 DEF DataChanges, Evaluate, IInv
  <2>6. CASE UNCHANGED vars
    BY <2>6 DEF vars, IInv
  <2>7. QED
    BY <2>1, <2>2, <2>3, <2>4, <2>5, <2>6 DEF Next
<1>3. QED
  BY <1>1, <1>2, PTL DEF Spec

\* The score always lies in the band of its signal.
THEOREM ScoresKeepTheirBand == Spec => []ScoreInBand
<1>1. IInv => ScoreInBand
  BY Banded DEF IInv, ScoreInBand
<1>2. QED
  BY <1>1, Invariance, PTL

\* A new evaluation on worse terms never brings the signal closer to a purchase.
THEOREM TermsOrderSignals == Spec => WorseTermsNeverUpgrade
<1>1. IInv /\ IInv' /\ [Next]_vars
        => [Worse(input, input') => Rank[signal] <= Rank[signal']]_vars
  <2> SUFFICES ASSUME IInv, IInv', Worse(input, input')
               PROVE  Rank[signal] <= Rank[signal']
    OBVIOUS
  <2>1. input \in Inputs /\ input' \in Inputs
        /\ signal = Signal(input) /\ signal' = Signal(input')
    BY DEF IInv
  <2>2. QED
    BY <2>1, RankRises
<1>2. QED
  BY <1>1, Invariance, PTL DEF Spec, WorseTermsNeverUpgrade

\* A new evaluation on worse terms that stays within HOLD and BUY_DCA never has a
\* higher score.
THEOREM TermsOrderScores == Spec => WorseTermsNeverScoreMore
<1>1. IInv /\ IInv' /\ [Next]_vars
        => [Worse(input, input') /\ {signal, signal'} \subseteq {"BUY_DCA", "HOLD"}
              => score' <= score]_vars
  <2> SUFFICES ASSUME IInv, IInv', Worse(input, input'),
                      {signal, signal'} \subseteq {"BUY_DCA", "HOLD"}
               PROVE  score' <= score
    OBVIOUS
  <2>1. /\ input \in Inputs /\ input' \in Inputs
        /\ signal = Signal(input) /\ signal' = Signal(input')
        /\ score = Score(input) /\ score' = Score(input')
    BY DEF IInv
  <2>2. QED
    BY <2>1, ScoreFalls
<1>2. QED
  BY <1>1, Invariance, PTL DEF Spec, WorseTermsNeverScoreMore

-----------------------------------------------------------------------------
(* The dashboard *)

\* Another count of the same history changes no figure a rule looks at.
LEMMA LiveFigures ==
    ASSUME NEW i \in Inputs, NEW n \in SampleSizes, SameHistory(i, n), i.reliable
    PROVE  LET j == LiveInput(i, n, FALSE) IN
           /\ j \in Inputs /\ j.samples = n /\ j.reliable
           /\ j.premium = i.premium /\ j.percentile = i.percentile
           /\ j.spread = i.spread /\ j.spreadPercentile = i.spreadPercentile
           /\ j.xau30 = i.xau30 /\ j.xau7 = i.xau7 /\ j.domestic = i.domestic
           /\ PremiumUsable(j) = PremiumUsable(i) /\ SpreadUsable(j) = SpreadUsable(i)
<1> DEFINE j == LiveInput(i, n, FALSE)
<1>1. j \in Inputs /\ j.samples = n /\ j.reliable
  BY DEF LiveInput, Carried, Inputs
<1>2. /\ j.premium = i.premium /\ j.percentile = i.percentile
      /\ j.spread = i.spread /\ j.spreadPercentile = i.spreadPercentile
      /\ j.xau30 = i.xau30 /\ j.xau7 = i.xau7 /\ j.domestic = i.domestic
  BY DEF LiveInput, Carried, Inputs
<1>3. (PremiumUsable(j) <=> PremiumUsable(i)) /\ (SpreadUsable(j) <=> SpreadUsable(i))
  BY <1>1, <1>2 DEF PremiumUsable, SpreadUsable, SameHistory
<1>4. /\ PremiumUsable(j) \in BOOLEAN /\ PremiumUsable(i) \in BOOLEAN
      /\ SpreadUsable(j) \in BOOLEAN /\ SpreadUsable(i) \in BOOLEAN
  BY DEF PremiumUsable, SpreadUsable
<1>. QED  BY <1>1, <1>2, <1>3, <1>4

\* So every rule matches as before, and every score but that of BUY_DCA is the same.
LEMMA LiveRules ==
    ASSUME NEW i \in Inputs, NEW n \in SampleSizes, SameHistory(i, n), i.reliable
    PROVE  LET j == LiveInput(i, n, FALSE) IN
           /\ Signal(j) = Signal(i)
           /\ XauMomentum(j) = XauMomentum(i) /\ Percentile(j) = Percentile(i)
           /\ HoldScore(j) = HoldScore(i) /\ TakeProfitScore(j) = TakeProfitScore(i)
<1> DEFINE j == LiveInput(i, n, FALSE)
<1> HIDE DEF j
<1>1. /\ j.samples = n /\ j.reliable
      /\ j.premium = i.premium /\ j.percentile = i.percentile
      /\ j.spread = i.spread /\ j.spreadPercentile = i.spreadPercentile
      /\ j.xau30 = i.xau30 /\ j.xau7 = i.xau7 /\ j.domestic = i.domestic
      /\ PremiumUsable(j) = PremiumUsable(i) /\ SpreadUsable(j) = SpreadUsable(i)
  BY LiveFigures DEF j
<1>2. XauMomentum(j) = XauMomentum(i) /\ Percentile(j) = Percentile(i)
  BY <1>1 DEF XauMomentum, Percentile
<1>3. AdjustedScore(j) = AdjustedScore(i)
  BY <1>1, <1>2 DEF AdjustedScore
<1>4. /\ DataUnreliable(j) <=> DataUnreliable(i)
      /\ Avoid(j) <=> Avoid(i)
      /\ TakeProfit(j) <=> TakeProfit(i)
  BY <1>1 DEF DataUnreliable, Avoid, TakeProfit
<1>5. BuyDca(j) <=> BuyDca(i)
  BY <1>1, <1>2, <1>3 DEF BuyDca
<1>6. Signal(j) = Signal(i)
  BY <1>4, <1>5 DEF Signal
<1>7. HoldPremium(j) = HoldPremium(i)
  BY <1>1 DEF HoldPremium
<1>8. HoldScore(j) = HoldScore(i)
  BY <1>1, <1>2, <1>7 DEF HoldScore
<1>9. TakeProfitScore(j) = TakeProfitScore(i)
  BY <1>2 DEF TakeProfitScore
<1>. QED  BY <1>2, <1>6, <1>8, <1>9 DEF j

\* A tenth of 35 points rounds to a difference of 4 at most.
LEMMA RoundNear ==
    ASSUME NEW x \in Int, NEW y \in Int, x - y <= 4200000, y - x <= 4200000
    PROVE  Round(x, 1200000) - Round(y, 1200000) \in -4 .. 4
BY DEF Round

\* The history is a tenth of the quality of a BUY_DCA.
LEMMA LiveBuyScore ==
    ASSUME NEW i \in Inputs, NEW n \in SampleSizes, SameHistory(i, n), i.reliable, BuyDca(i)
    PROVE  BuyDcaScore(LiveInput(i, n, FALSE)) - BuyDcaScore(i) \in -4 .. 4
<1> DEFINE j == LiveInput(i, n, FALSE)
<1> HIDE DEF j
<1>1. j \in Inputs /\ j.spread = i.spread /\ j.percentile = i.percentile
  BY LiveFigures DEF j
<1>2. XauMomentum(j) = XauMomentum(i) /\ Percentile(j) = Percentile(i)
  BY LiveRules DEF j
<1>3. i.percentile # None /\ XauMomentum(i) # None
  BY DEF BuyDca, PremiumUsable
<1>4. /\ PremiumQuality(j) = PremiumQuality(i) /\ SpreadQuality(j) = SpreadQuality(i)
      /\ MomentumQuality(XauMomentum(j)) = MomentumQuality(XauMomentum(i))
  BY <1>1, <1>2 DEF PremiumQuality, SpreadQuality
<1>5. /\ PremiumQuality(i) \in Nat /\ SpreadQuality(i) \in Nat
      /\ MomentumQuality(XauMomentum(i)) \in Nat
      /\ HistoryQuality(i) \in Nat /\ HistoryQuality(j) \in Nat
  BY <1>1, <1>2, <1>3, Qualities
<1>6. HistoryQuality(i) <= 12000 /\ HistoryQuality(j) <= 12000
  <2>1. \A x \in Int : Quality(x) <= 12000
    BY DEF Quality, Clamp, AtLeast, AtMost
  <2>2. 400 * i.samples \in Int /\ 400 * j.samples \in Int
    BY <1>1, Figures
  <2>. QED  BY <2>1, <2>2 DEF HistoryQuality
<1>7. /\ BuySum(j) - BuySum(i) <= 4200000 /\ BuySum(i) - BuySum(j) <= 4200000
      /\ BuySum(i) \in Int /\ BuySum(j) \in Int
  BY <1>4, <1>5, <1>6 DEF BuySum
<1>8. /\ Round(BuySum(i), 1200000) \in Int /\ Round(BuySum(j), 1200000) \in Int
      /\ BuyDcaScore(i) = Clamp(65, 100, Round(BuySum(i), 1200000))
      /\ BuyDcaScore(j) = Clamp(65, 100, Round(BuySum(j), 1200000))
  BY <1>1, <1>2, <1>3, BuyScoreBand
<1>9. Round(BuySum(j), 1200000) - Round(BuySum(i), 1200000) \in -4 .. 4
  BY <1>7, RoundNear
<1>10. BuyDcaScore(j) - BuyDcaScore(i) \in -4 .. 4
  BY <1>8, <1>9 DEF Clamp, AtLeast, AtMost
<1>. QED  BY <1>10 DEF j

\* What a published summary makes of the nulls of the same figures.
LEMMA CarriedFigures ==
    ASSUME NEW i \in Inputs, NEW n \in SampleSizes
    PROVE  LET k == LiveInput(i, n, FALSE)
               j == LiveInput(i, n, TRUE)
           IN  /\ k \in Inputs /\ k.percentile = i.percentile /\ k.xau30 = i.xau30
               /\ k.samples = n /\ j.samples = n /\ j.reliable /\ k.reliable
               /\ j.premium = k.premium /\ j.spread = k.spread
               /\ j.percentile = Carried(k.percentile, TRUE)
               /\ j.spreadPercentile = Carried(k.spreadPercentile, TRUE)
               /\ j.xau30 = Carried(k.xau30, TRUE) /\ j.xau7 = Carried(k.xau7, TRUE)
               /\ j.domestic = Carried(k.domestic, TRUE)
BY DEF LiveInput, Carried, Inputs

\* They can only turn a HOLD into a BUY_DCA.
LEMMA CarriedSignal ==
    ASSUME NEW i \in Inputs, NEW n \in SampleSizes
    PROVE  LET k == LiveInput(i, n, FALSE)
               j == LiveInput(i, n, TRUE)
           IN  \/ Signal(j) = Signal(k)
               \/ /\ NullsMatter(i, n, TRUE)
                  /\ Signal(k) = "HOLD" /\ Signal(j) = "BUY_DCA"
<1> DEFINE k == LiveInput(i, n, FALSE)
           j == LiveInput(i, n, TRUE)
<1> HIDE DEF j, k
<1>1. /\ k \in Inputs /\ k.percentile = i.percentile /\ k.xau30 = i.xau30
      /\ k.samples = n /\ j.samples = n /\ j.reliable /\ k.reliable
      /\ j.premium = k.premium /\ j.spread = k.spread
      /\ j.percentile = Carried(k.percentile, TRUE)
      /\ j.spreadPercentile = Carried(k.spreadPercentile, TRUE)
      /\ j.xau30 = Carried(k.xau30, TRUE) /\ j.xau7 = Carried(k.xau7, TRUE)
      /\ j.domestic = Carried(k.domestic, TRUE)
  BY CarriedFigures DEF j, k
<1>2. None # 0
  BY EngineAssumption
<1>3. Avoid(j) <=> Avoid(k)
  BY <1>1, <1>2 DEF Avoid, PremiumUsable, Carried
<1>4. TakeProfit(j) <=> TakeProfit(k)
  BY <1>1, <1>2 DEF TakeProfit, PremiumUsable, SpreadUsable, Carried
<1>5. ~ DataUnreliable(j) /\ ~ DataUnreliable(k)
  BY <1>1 DEF DataUnreliable
<1>6. ASSUME BuyDca(k) PROVE BuyDca(j)
  <2>1. j.percentile = k.percentile /\ Percentile(j) = Percentile(k) /\ PremiumUsable(j)
    BY <1>1, <1>2, <1>6 DEF BuyDca, PremiumUsable, Percentile, Carried
  <2>2. AdjustedScore(j) = AdjustedScore(k)
    BY <1>1, <2>1 DEF AdjustedScore
  <2>3. XauMomentum(j) # None /\ XauMomentum(j) >= -800
    BY <1>1, <1>2, <1>6 DEF BuyDca, XauMomentum, Carried
  <2>4. j.premium = k.premium /\ j.spread = k.spread
    BY <1>1
  <2>. QED  BY <1>6, <2>1, <2>2, <2>3, <2>4 DEF BuyDca
<1>7. ASSUME BuyDca(j), ~ BuyDca(k) PROVE NullsMatter(i, n, TRUE)
  <2>1. SUFFICES ASSUME ~ NullsMatter(i, n, TRUE) PROVE BuyDca(k)
    BY <1>7
  <2>2. /\ j.percentile = k.percentile /\ Percentile(j) = Percentile(k)
        /\ PremiumUsable(k) /\ XauMomentum(j) = XauMomentum(k)
    BY <1>1, <1>2, <1>7, <2>1
    DEF NullsMatter, BuyDca, PremiumUsable, Percentile, XauMomentum, Carried
  <2>3. AdjustedScore(j) = AdjustedScore(k)
    BY <1>1, <2>2 DEF AdjustedScore
  <2>4. j.premium = k.premium /\ j.spread = k.spread
    BY <1>1
  <2>. QED  BY <1>7, <2>2, <2>3, <2>4 DEF BuyDca
<1>8. ~ (BuyDca(j) /\ TakeProfit(j))
  <2>1. j.percentile \in Int
    BY <1>1, Figures DEF Carried
  <2>. QED  BY <2>1 DEF BuyDca, TakeProfit
<1>9. CASE BuyDca(j) <=> BuyDca(k)
  BY <1>3, <1>4, <1>5, <1>9 DEF Signal, j, k
<1>10. CASE BuyDca(j) /\ ~ BuyDca(k)
  BY <1>3, <1>4, <1>5, <1>7, <1>8, <1>10 DEF Signal, j, k
<1>. QED  BY <1>6, <1>9, <1>10

\* Without a null that matters, they leave every score as it is.
LEMMA CarriedScore ==
    ASSUME NEW i \in Inputs, NEW n \in SampleSizes, ~ NullsMatter(i, n, TRUE)
    PROVE  Score(LiveInput(i, n, TRUE)) = Score(LiveInput(i, n, FALSE))
<1> DEFINE k == LiveInput(i, n, FALSE)
           j == LiveInput(i, n, TRUE)
<1> HIDE DEF j, k
<1>1. /\ k \in Inputs /\ k.percentile = i.percentile /\ k.xau30 = i.xau30
      /\ k.samples = n /\ j.samples = n
      /\ j.spread = k.spread
      /\ j.percentile = Carried(k.percentile, TRUE)
      /\ j.xau30 = Carried(k.xau30, TRUE) /\ j.xau7 = Carried(k.xau7, TRUE)
      /\ j.domestic = Carried(k.domestic, TRUE)
  BY CarriedFigures DEF j, k
<1>2. None # 0 /\ n \in Nat
  BY EngineAssumption
<1>3. Signal(j) = Signal(k)
  BY CarriedSignal DEF j, k
<1>4. /\ XauMomentum(j) = XauMomentum(k)
      /\ PremiumUsable(j) <=> PremiumUsable(k)
      /\ PremiumUsable(k) => j.percentile = k.percentile /\ Percentile(j) = Percentile(k)
  BY <1>1, <1>2 DEF NullsMatter, XauMomentum, PremiumUsable, Percentile, Carried
<1>5. CASE Signal(k) = "BUY_DCA"
  <2>1. PremiumUsable(k)
    BY <1>5 DEF Signal, BuyDca
  <2>2. BuyDcaScore(j) = BuyDcaScore(k)
    BY <1>1, <1>4, <2>1
    DEF BuyDcaScore, PremiumQuality, SpreadQuality, HistoryQuality
  <2>. QED  BY <1>3, <1>5, <2>2 DEF Score, j, k
<1>6. CASE Signal(k) = "TAKE_PROFIT"
  <2>1. PremiumUsable(k)
    BY <1>6 DEF Signal, TakeProfit
  <2>2. TakeProfitScore(j) = TakeProfitScore(k)
    BY <1>4, <2>1 DEF TakeProfitScore
  <2>. QED  BY <1>3, <1>6, <2>2 DEF Score, j, k
<1>7. CASE Signal(k) = "HOLD"
  <2>1. HoldPremium(j) = HoldPremium(k)
    BY <1>4 DEF HoldPremium
  <2>2. HoldDomestic(j.domestic) = HoldDomestic(k.domestic)
    BY <1>1, <1>2 DEF HoldDomestic, Carried
  <2>3. HoldScore(j) = HoldScore(k)
    <3>1. j.spread = k.spread /\ XauMomentum(j) = XauMomentum(k)
      BY <1>1, <1>4
    <3>. QED  BY <2>1, <2>2, <3>1 DEF HoldScore
  <2>. QED  BY <1>3, <1>7, <2>3 DEF Score, j, k
<1>8. CASE Signal(k) \notin {"BUY_DCA", "TAKE_PROFIT", "HOLD"}
  <2>1. Signal(k) \in Signals
    BY <1>1, Banded
  <2>. QED  BY <1>3, <1>8, <2>1 DEF Score, Signals, j, k
<1>. QED  BY <1>5, <1>6, <1>7, <1>8

\* A summary that keeps the nulls gives the signal the worker stored, for every count of the same
\* history.
LEMMA LiveScore ==
    ASSUME NEW i \in Inputs, NEW n \in SampleSizes, SameHistory(i, n), i.reliable
    PROVE  LET k == LiveInput(i, n, FALSE) IN
           /\ Signal(k) = Signal(i)
           /\ Score(k) - Score(i) \in -4 .. 4
           /\ Signal(i) # "BUY_DCA" => Score(k) = Score(i)
<1> DEFINE k == LiveInput(i, n, FALSE)
<1> HIDE DEF k
<1>1. /\ Signal(k) = Signal(i) /\ HoldScore(k) = HoldScore(i)
      /\ TakeProfitScore(k) = TakeProfitScore(i)
  BY LiveRules DEF k
<1>2. Signal(i) \in Signals /\ Score(i) \in Bands[Signal(i)]
  BY Banded
<1>3. Signal(i) # "BUY_DCA" => Score(k) = Score(i)
  BY <1>1, <1>2 DEF Score, Signals
<1>4. Score(k) - Score(i) \in -4 .. 4
  <2>1. CASE Signal(i) = "BUY_DCA"
    <3>1. BuyDca(i)
      BY <2>1 DEF Signal
    <3>2. BuyDcaScore(k) - BuyDcaScore(i) \in -4 .. 4
      BY <3>1, LiveBuyScore DEF k
    <3>. QED  BY <1>1, <2>1, <3>2 DEF Score
  <2>2. CASE Signal(i) # "BUY_DCA"
    <3>1. Score(i) \in Int
      BY <1>2 DEF Signals, Bands
    <3>. QED  BY <1>3, <2>2, <3>1
  <2>. QED  BY <2>1, <2>2
<1>. QED  BY <1>1, <1>3, <1>4 DEF k

\* Whichever summary it is served and whatever it counts of the same history, the page shows the
\* signal the worker stored, or a BUY_DCA where that is a HOLD and a null that matters is a 0.
THEOREM LiveAgrees == Spec => []LiveSignalAgrees
<1>1. IInv => LiveSignalAgrees
  <2> SUFFICES ASSUME IInv, NEW n \in SampleSizes, NEW published \in BOOLEAN,
                      SameHistory(input, n), input.reliable
               PROVE  LET live == LiveInput(input, n, published) IN
                      /\ Signal(live) # signal =>
                           /\ NullsMatter(input, n, published)
                           /\ signal = "HOLD" /\ Signal(live) = "BUY_DCA"
                      /\ ~ NullsMatter(input, n, published) =>
                           /\ Score(live) - score \in -4 .. 4
                           /\ signal # "BUY_DCA" => Score(live) = score
    BY DEF LiveSignalAgrees
  <2> DEFINE kept == LiveInput(input, n, FALSE)
             sent == LiveInput(input, n, TRUE)
  <2> HIDE DEF kept, sent
  <2>1. input \in Inputs /\ signal = Signal(input) /\ score = Score(input)
    BY DEF IInv
  <2>2. /\ Signal(kept) = signal
        /\ Score(kept) - score \in -4 .. 4
        /\ signal # "BUY_DCA" => Score(kept) = score
    BY <2>1, LiveScore DEF kept
  <2>3. CASE published = FALSE
    BY <2>2, <2>3 DEF kept
  <2>4. CASE published = TRUE
    <3>1. \/ Signal(sent) = signal
          \/ /\ NullsMatter(input, n, TRUE)
             /\ signal = "HOLD" /\ Signal(sent) = "BUY_DCA"
      BY <2>1, <2>2, CarriedSignal DEF kept, sent
    <3>2. ~ NullsMatter(input, n, TRUE) => Score(sent) = Score(kept)
      BY <2>1, CarriedScore DEF kept, sent
    <3>. QED  BY <2>2, <2>4, <3>1, <3>2 DEF sent
  <2>. QED  BY <2>3, <2>4
<1>. QED  BY <1>1, Invariance, PTL

\* An average of products is at most the most any of them scores.
LEMMA AverageAtMost ==
    ASSUME NEW d \in Nat \ {0}, NEW x \in Nat, NEW m \in Nat, x <= m * d
    PROVE  Round(x, d) \in Int /\ Round(x, d) <= m
<1> DEFINE q == Round(x, d)
<1>1. 2 * d \in Nat \ {0} /\ 2 * x + d \in Nat
  OBVIOUS
<1>2. q \in Int /\ (2 * d) * q <= 2 * x + d
  BY <1>1 DEF Round
<1>3. ~ (q >= m + 1)
  <2>1. SUFFICES ASSUME q >= m + 1 PROVE FALSE
    OBVIOUS
  <2>2. (2 * d) * q >= (2 * d) * (m + 1)
    BY <1>1, <1>2, <2>1
  <2>3. (2 * d) * (m + 1) = 2 * (m * d) + 2 * d
    BY <1>1
  <2>. QED  BY <1>2, <2>2, <2>3
<1>. QED  BY <1>2, <1>3

\* The headline fits the signals, however many products there are.
THEOREM VerdictFits == Spec => []VerdictFitsSignals
<1>1. IInv => VerdictFitsSignals
  <2> SUFFICES ASSUME IInv, NEW n \in 0 .. Others
               PROVE  /\ signal # "BUY_DCA" =>
                           \A sum \in 0 .. 68 * n : Verdict(VangScore(score + sum, n + 1)) # "buy"
                      /\ signal \in {"AVOID", "TAKE_PROFIT"} =>
                           \A sum \in 0 .. 35 * n : Verdict(VangScore(score + sum, n + 1)) = "wait"
    BY DEF VerdictFitsSignals
  <2>1. n \in Nat /\ n + 1 \in Nat \ {0} /\ AtLeast(1, n + 1) = n + 1
    BY EngineAssumption DEF AtLeast
  <2>2. signal \in Signals /\ score \in Bands[signal]
    BY Banded DEF IInv
  <2>3. ASSUME signal # "BUY_DCA", NEW sum \in 0 .. 68 * n
        PROVE  Verdict(VangScore(score + sum, n + 1)) # "buy"
    <3>1. score \in Nat /\ score <= 68
      BY <2>2, <2>3 DEF Signals, Bands
    <3>2. score + sum \in Nat /\ score + sum <= 68 * (n + 1)
      BY <2>1, <3>1
    <3>3. Round(score + sum, n + 1) \in Int /\ Round(score + sum, n + 1) <= 68
      BY <2>1, <3>2, AverageAtMost
    <3>. QED  BY <2>1, <3>3 DEF Verdict, VangScore, Clamp, AtLeast, AtMost
  <2>4. ASSUME signal \in {"AVOID", "TAKE_PROFIT"}, NEW sum \in 0 .. 35 * n
        PROVE  Verdict(VangScore(score + sum, n + 1)) = "wait"
    <3>1. score \in Nat /\ score <= 35
      BY <2>2, <2>4 DEF Signals, Bands
    <3>2. score + sum \in Nat /\ score + sum <= 35 * (n + 1)
      BY <2>1, <3>1
    <3>3. Round(score + sum, n + 1) \in Int /\ Round(score + sum, n + 1) <= 35
      BY <2>1, <3>2, AverageAtMost
    <3>. QED  BY <2>1, <3>3 DEF Verdict, VangScore, Clamp, AtLeast, AtMost
  <2>. QED  BY <2>3, <2>4
<1>. QED  BY <1>1, Invariance, PTL
=============================================================================
