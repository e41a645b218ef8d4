------------------------- MODULE DailyHistoryProofs -------------------------
(***************************************************************************)
(* Proofs about DailyHistory, for every length of day, window and history, *)
(* and every course of the market.                                         *)
(***************************************************************************)
EXTENDS DailyHistory, DailySeriesProofs

-----------------------------------------------------------------------------
(* Days *)

\* As many days as fit are at least the number of days asked for.
LEMMA AtLeastDays ==
    ASSUME NEW t \in Nat, NEW k \in Nat, k * DayTicks <= t
    PROVE  k <= t \div DayTicks
<1> DEFINE q == t \div DayTicks
<1>1. q \in Nat /\ t < (q + 1) * DayTicks
  BY WholeDays
<1> HIDE DEF q
<1>2. k * DayTicks < (q + 1) * DayTicks
  BY <1>1, SeriesAssumption
<1>3. k < q + 1
  BY <1>1, <1>2, SeriesAssumption, SMTT(30)
<1>4. QED
  BY <1>1, <1>3 DEF q

\* The target of the momentum is at least a day back.
LEMMA TargetIsDaysBack ==
    /\ MomentumDays * DayTicks \in Nat
    /\ DayTicks <= MomentumDays * DayTicks
  BY SeriesAssumption, HistoryAssumption

-----------------------------------------------------------------------------
(* The reference *)

\* The reference of a momentum: the newest time at or before the target, else the oldest
\* before now, else none.
LEMMA ReferenceFound ==
    ASSUME NEW times \in SUBSET Nat, NEW now \in Nat,
           NEW r, r = Reference(times, MomentumDays, now)
    PROVE  \/ r = None /\ \A t \in times : t >= now
           \/ /\ r \in times /\ r <= now - MomentumDays * DayTicks
              /\ \A t \in times : t <= now - MomentumDays * DayTicks => t <= r
           \/ /\ r \in times /\ r < now
              /\ \A t \in times : t > now - MomentumDays * DayTicks /\ r <= t
<1> DEFINE k        == MomentumDays * DayTicks
           atTarget == {t \in times : t <= now - k}
           earlier  == {t \in times : t < now}
<1>1. k \in Nat
  BY TargetIsDaysBack
<1> HIDE DEF k
<1>2. CASE atTarget # {}
  <2>1. r = Max(atTarget)
    BY <1>2 DEF Reference, k
  <2>2. \A t \in atTarget : t <= now
    BY <1>1
  <2>3. r \in atTarget /\ \A t \in atTarget : t <= r
    BY <1>2, <2>1, <2>2, GreatestMember
  <2>4. QED
    BY <2>3 DEF k
<1>3. CASE atTarget = {} /\ earlier # {}
  <2>1. r = Min(earlier)
    BY <1>3 DEF Reference, k
  <2>2. r \in earlier /\ \A t \in earlier : r <= t
    BY <1>3, <2>1, LeastMember
  <2>3. \A t \in times : t > now - k /\ r <= t
    BY <1>1, <1>3, <2>2
  <2>4. QED
    BY <2>2, <2>3 DEF k
<1>4. CASE atTarget = {} /\ earlier = {}
  <2>1. r = None
    BY <1>4 DEF Reference, k
  <2>2. QED
    BY <1>4, <2>1
<1>5. QED
  BY <1>2, <1>3, <1>4

-----------------------------------------------------------------------------
(* The rows *)

\* The clock, the time of the inputs and the times of the price rows are naturals.
Recorded ==
    /\ clock \in Nat
    /\ inputs \in Nat \cup {None}
    /\ DOMAIN prices \subseteq Nat

\* Noon of a day is a time.
LEMMA NoonType == ASSUME NEW day \in Nat PROVE Noon(day) \in Nat
  BY SeriesAssumption DEF Noon

\* Every step keeps clock, inputs and price rows at times.
LEMMA RecordedStep == Recorded /\ [Next]_vars => Recorded'
<1> SUFFICES ASSUME Recorded, [Next]_vars
             PROVE  Recorded'
  OBVIOUS
<1> USE DEF Recorded
<1>1. CASE Tick
  BY <1>1 DEF Tick
<1>2. ASSUME NEW fresh \in BOOLEAN, Ingest(fresh)
      PROVE  Recorded'
  BY <1>2 DEF Ingest, Put
<1>3. CASE Calculate
  BY <1>3 DEF Calculate
<1>4. CASE Signal
  BY <1>4 DEF Signal
<1>5. CASE Publish
  BY <1>5 DEF Publish
<1>6. CASE Expire
  BY <1>6 DEF Expire
<1>7. ASSUME NEW day \in 0 .. Day(clock), BackfillPrice(day)
      PROVE  Recorded'
  <2>1. Noon(day) \in Nat
    BY NoonType, WholeDays DEF Day
  <2>2. QED
    BY <1>7, <2>1 DEF BackfillPrice, Put
<1>8. ASSUME NEW day \in 0 .. Day(clock), BackfillMetric(day)
      PROVE  Recorded'
  BY <1>8 DEF BackfillMetric
<1>9. CASE UNCHANGED vars
  BY <1>9 DEF vars
<1>10. QED
  BY <1>1, <1>2, <1>3, <1>4, <1>5, <1>6, <1>7, <1>8, <1>9 DEF Next

\* The times of the rows are naturals in every state (see Recorded).
THEOREM RecordedAlways == Spec => []Recorded
<1>1. Init => Recorded
  BY DEF Init, Recorded
<1>2. QED
  BY <1>1, RecordedStep, PTL DEF Spec

-----------------------------------------------------------------------------
(* The momentum *)

\* What MomentumSpansTarget says of a calculation.
LEMMA MomentumOf ==
    ASSUME NEW times \in SUBSET Nat, NEW now \in Nat,
           NEW m, m = Momentum(times, MomentumDays, now)
    PROVE  IF m = None THEN \A t \in times : now - t < DayTicks
           ELSE /\ m.since \in times /\ m.days * DayTicks <= now - m.since
                /\ (\E t \in times : now - t >= MomentumDays * DayTicks) => m.days >= MomentumDays
                /\ \A t \in times :
                     IF now - t >= MomentumDays * DayTicks THEN t <= m.since
                     ELSE now - m.since >= MomentumDays * DayTicks \/ m.since <= t
<1> DEFINE k == MomentumDays * DayTicks
           r == Reference(times, MomentumDays, now)
<1>1. k \in Nat /\ DayTicks <= k /\ DayTicks \in Nat \ {0} /\ MomentumDays \in Nat
  BY TargetIsDaysBack, SeriesAssumption, HistoryAssumption
<1>2. \/ r = None /\ \A t \in times : t >= now
      \/ r \in times /\ r <= now - k /\ \A t \in times : t <= now - k => t <= r
      \/ r \in times /\ r < now /\ \A t \in times : t > now - k /\ r <= t
  BY ReferenceFound
<1>3. None \notin Nat /\ None \notin [days : Nat, since : Nat]
  BY SeriesAssumption
<1>4. m = IF r = None \/ now - r < DayTicks THEN None
          ELSE [days |-> (now - r) \div DayTicks, since |-> r]
  BY DEF Momentum
<1> HIDE DEF k, r
<1>5. CASE r = None \/ now - r < DayTicks
  <2>1. m = None
    BY <1>4, <1>5
  <2>2. ASSUME NEW t \in times
        PROVE  now - t < DayTicks
    <3>1. CASE r = None
      <4>1. r \notin times
        BY <1>3, <3>1
      <4>2. t >= now
        BY <1>2, <4>1
      <4>3. QED
        BY <1>1, <4>2
    <3>2. CASE r # None
      <4>1. r \in times /\ (r <= now - k \/ r <= t)
        BY <1>2, <3>2
      <4>2. r \in Nat /\ t \in Nat
        BY <4>1
      <4>3. now - r < DayTicks
        BY <1>5, <3>2
      <4>4. QED
        BY <1>1, <4>1, <4>2, <4>3
    <3>3. QED
      BY <3>1, <3>2
  <2>3. QED
    BY <2>1, <2>2
<1>6. CASE ~ (r = None \/ now - r < DayTicks)
  <2>1. r \in times /\ now - r \in Nat
    <3>1. r \in times /\ (r <= now - k \/ r < now)
      BY <1>2, <1>6
    <3>2. r \in Nat
      BY <3>1
    <3>3. QED
      BY <1>1, <3>1, <3>2
  <2>2. m = [days |-> (now - r) \div DayTicks, since |-> r]
    BY <1>4, <1>6
  <2>3. (now - r) \div DayTicks \in Nat /\ ((now - r) \div DayTicks) * DayTicks <= now - r
    BY <2>1, WholeDays
  <2>4. m # None
    BY <1>3, <2>1, <2>2, <2>3
  <2>5. ASSUME NEW t \in times, now - t >= k
        PROVE  MomentumDays <= (now - r) \div DayTicks
    <3>1. k <= now - r
      BY <1>1, <1>2, <2>1, <2>5
    <3>2. QED
      BY <1>1, <2>1, <3>1, AtLeastDays DEF k
  <2>6. \A t \in times : IF now - t >= k THEN t <= r ELSE now - r >= k \/ r <= t
    BY <1>1, <1>2, <2>1, <1>3
  <2>7. QED
    BY <2>1, <2>2, <2>3, <2>4, <2>5, <2>6, <1>1 DEF k
<1>7. QED
  BY <1>5, <1>6

\* The momentum of every calculation spans the days asked for when a row is that old, all of a
\* shorter history else, and is never measured from a row newer than the inputs
\* (momentum-lookup.ts:32), whatever the ingestion and the backfill scripts have written before.
THEOREM MomentumCorrect == Spec => MomentumSpansTarget
<1>1. ASSUME Recorded, Calculate
      PROVE  LET m == calc'.momentum
                 OldEnough(t) == inputs - t >= MomentumDays * DayTicks
             IN  IF m = None THEN \A t \in DOMAIN prices : inputs - t < DayTicks
                 ELSE /\ m.since \in DOMAIN prices /\ m.days * DayTicks <= inputs - m.since
                      /\ (\E t \in DOMAIN prices : OldEnough(t)) => m.days >= MomentumDays
                      /\ \A t \in DOMAIN prices :
                             IF OldEnough(t) THEN t <= m.since
                             ELSE OldEnough(m.since) \/ m.since <= t
  <2>1. inputs \in Nat /\ DOMAIN prices \in SUBSET Nat
    BY <1>1 DEF Recorded, Calculate
  <2>2. calc'.momentum = Momentum(DOMAIN prices, MomentumDays, inputs)
    BY <1>1 DEF Calculate
  <2>3. QED
    BY <2>1, <2>2, MomentumOf
<1>2. QED
  BY <1>1, RecordedAlways, PTL DEF MomentumSpansTarget

-----------------------------------------------------------------------------
(* The drawdown plan, for any days, in terms of the quote of today *)

Quotes == [buy : Nat \ {0}, sell : Nat \ {0}, premium : Int]
Points == [time : Nat, quote : Quotes]

\* The levels of the plan are four.
LEMMA LevelsType == DOMAIN Levels = 1 .. 4 /\ \A i \in DOMAIN Levels : Levels[i] \in {3, 5, 7, 10}
<1>1. Len(Levels) = 4 /\ Levels \in Seq(Nat)
  BY DEF Levels
<1>2. DOMAIN Levels = 1 .. 4
  BY <1>1
<1>3. Levels[1] = 3 /\ Levels[2] = 5 /\ Levels[3] = 7 /\ Levels[4] = 10
  BY DEF Levels
<1>4. QED
  BY <1>2, <1>3

\* Twice the middle of a quote is positive.
LEMMA MiddleType == ASSUME NEW q \in Quotes PROVE Middle(q) \in Nat \ {0}
  BY DEF Quotes, Middle

\* The days with a given quote today.
Today(days, q) == [days EXCEPT ![1].quote = q]

\* Another quote of today leaves the other days as they are.
LEMMA TodayReplaced ==
    ASSUME NEW days \in Seq(Points), days # <<>>, NEW q \in Quotes,
           NEW new, new = Today(days, q)
    PROVE  /\ new \in Seq(Points) /\ Len(new) = Len(days) /\ new # <<>>
           /\ DOMAIN new = 1 .. Len(days) /\ 1 \in DOMAIN new
           /\ new[1].quote = q
           /\ \A i \in DOMAIN new : i # 1 => new[i] = days[i]
<1>1. Len(days) \in Nat \ {0} /\ DOMAIN days = 1 .. Len(days) /\ 1 \in DOMAIN days
  OBVIOUS
<1>2. days[1] \in Points
  BY <1>1
<1>3. [days[1] EXCEPT !.quote = q] \in Points /\ [days[1] EXCEPT !.quote = q].quote = q
  BY <1>2 DEF Points
<1>4. new = [days EXCEPT ![1] = [days[1] EXCEPT !.quote = q]]
  BY DEF Today
<1>5. QED
  BY <1>1, <1>3, <1>4

\* The high is the middle of some day, and no day's is above it.
LEMMA HighIsReached ==
    ASSUME NEW days \in Seq(Points), days # <<>>
    PROVE  /\ RollingHigh(days) \in Nat
           /\ \E i \in DOMAIN days : RollingHigh(days) = Middle(days[i].quote)
           /\ \A i \in DOMAIN days : Middle(days[i].quote) <= RollingHigh(days)
<1> DEFINE S == {Middle(days[i].quote) : i \in DOMAIN days}
<1>1. DOMAIN days = 1 .. Len(days) /\ Len(days) \in Nat \ {0}
  OBVIOUS
<1>2. S \in SUBSET Nat /\ S # {}
  <2>1. \A i \in DOMAIN days : days[i] \in Points
    BY <1>1
  <2>2. \A i \in DOMAIN days : Middle(days[i].quote) \in Nat
    BY <2>1 DEF Middle, Points, Quotes
  <2>3. QED
    BY <1>1, <2>2
<1>3. IsFiniteSet(S)
  <2>1. IsFiniteSet(1 .. Len(days))
    BY <1>1, FS_Interval
  <2> DEFINE f == [i \in 1 .. Len(days) |-> Middle(days[i].quote)]
  <2>2. f \in Surjection(1 .. Len(days), S)
    BY <1>1 DEF Surjection
  <2>3. QED
    <3> HIDE DEF f, S
    <3>1. QED
      BY <2>1, <2>2, FS_Surjection DEF ExistsSurjection
<1>4. RollingHigh(days) = Max(S)
  BY DEF RollingHigh
<1>5. Max(S) \in S /\ \A x \in S : x <= Max(S)
  <2> HIDE DEF S
  <2>1. QED
    BY <1>2, <1>3, GreatestOfFinite
<1>6. QED
  BY <1>2, <1>4, <1>5

\* A price is not below a level of itself; and what is further below a higher one is below it.
LEMMA FallArithmetic ==
    ASSUME NEW l \in {3, 5, 7, 10}, NEW m \in Nat \ {0}, NEW h \in Nat, 100 * m <= (100 - l) * h
    PROVE  /\ h # m
           /\ \A k \in Nat, g \in Nat : k < m /\ h <= g => 100 * k < (100 - l) * g
<1>1. CASE l = 3
  BY <1>1
<1>2. CASE l = 5
  BY <1>2
<1>3. CASE l = 7
  BY <1>3
<1>4. CASE l = 10
  BY <1>4
<1>5. QED
  BY <1>1, <1>2, <1>3, <1>4

\* A level that today's higher price reaches is reached by the lower one, however each of the two
\* is rounded: the high above a reached level is that of an earlier day.
LEMMA FallReachesMore ==
    ASSUME NEW days \in Seq(Points), days # <<>>, NEW p \in Quotes, NEW q \in Quotes,
           Middle(p) < Middle(q), NEW a, NEW b,
           NEW low, low = Today(days, p), NEW high, high = Today(days, q)
    PROVE  Crossed(Middle(q), RollingHigh(high), b) \subseteq Crossed(Middle(p), RollingHigh(low), a)
<1>1. /\ low \in Seq(Points) /\ DOMAIN low = 1 .. Len(days) /\ low # <<>>
      /\ \A j \in DOMAIN low : j # 1 => low[j] = days[j]
  BY TodayReplaced
<1>2. /\ high \in Seq(Points) /\ DOMAIN high = 1 .. Len(days) /\ high # <<>>
      /\ high[1].quote = q /\ \A j \in DOMAIN high : j # 1 => high[j] = days[j]
  BY TodayReplaced
<1>3. /\ RollingHigh(low) \in Nat /\ RollingHigh(high) \in Nat
      /\ Middle(p) \in Nat \ {0} /\ Middle(q) \in Nat \ {0}
      /\ \A j \in DOMAIN Levels : Levels[j] \in {3, 5, 7, 10}
  BY <1>1, <1>2, HighIsReached, MiddleType, LevelsType
<1>4. ASSUME NEW i \in DOMAIN Levels, 100 * Middle(q) <= (100 - Levels[i]) * RollingHigh(high)
      PROVE  100 * Middle(p) < (100 - Levels[i]) * RollingHigh(low)
  <2>1. PICK j \in DOMAIN high : RollingHigh(high) = Middle(high[j].quote)
    BY <1>2, HighIsReached
  <2>2. RollingHigh(high) # Middle(q)
    BY <1>3, <1>4, FallArithmetic
  <2>3. low[j] = high[j] /\ j \in DOMAIN low
    BY <1>1, <1>2, <2>1, <2>2
  <2>4. RollingHigh(high) <= RollingHigh(low)
    BY <1>1, <2>1, <2>3, HighIsReached
  <2>5. QED
    BY <1>3, <1>4, <2>4, FallArithmetic
<1>5. ASSUME NEW i \in Crossed(Middle(q), RollingHigh(high), b)
      PROVE  i \in Crossed(Middle(p), RollingHigh(low), a)
  <2>1. i \in DOMAIN Levels
    BY DEF Crossed
  <2>2. 100 * Middle(q) <= (100 - Levels[i]) * RollingHigh(high)
    <3> DEFINE m == 100 * Middle(q)
               h == (100 - Levels[i]) * RollingHigh(high)
    <3>1. m \in Int /\ h \in Int
      BY <1>3, <2>1
    <3>2. m < h \/ m = h
      BY DEF Crossed
    <3>3. QED
      BY <3>1, <3>2
  <2>3. QED
    BY <1>4, <2>1, <2>2 DEF Crossed
<1>6. QED
  BY <1>5

\* The exposure grows with the levels that are reached.
LEMMA ExposureGrows ==
    ASSUME NEW C \in SUBSET DOMAIN Levels, NEW D \in SUBSET C
    PROVE  /\ Min({50, 20 * Cardinality(C)}) \in Nat
           /\ Min({50, 20 * Cardinality(D)}) <= Min({50, 20 * Cardinality(C)})
<1>1. IsFiniteSet(DOMAIN Levels)
  <2>1. 1 \in Int /\ 4 \in Int
    OBVIOUS
  <2>2. IsFiniteSet(1 .. 4)
    BY <2>1, FS_Interval
  <2>3. QED
    BY <2>2, LevelsType
<1>2. IsFiniteSet(C) /\ IsFiniteSet(D)
  BY <1>1, FS_Subset
<1>3. Cardinality(D) <= Cardinality(C) /\ Cardinality(C) \in Nat /\ Cardinality(D) \in Nat
  BY <1>2, FS_Subset, FS_CardinalityType
<1>4. ASSUME NEW n \in Nat
      PROVE  Min({50, n}) \in {50, n} /\ Min({50, n}) <= 50 /\ Min({50, n}) <= n
  BY LeastMember
<1>5. QED
  BY <1>3, <1>4

\* Days compare with a quote as they compare with another of the same share of spread.
LEMMA SpreadsCompare ==
    ASSUME NEW p \in Quotes, NEW q \in Quotes, NEW x \in Quotes, SameSpread(p, q), NotWider(x, p)
    PROVE  NotWider(x, q)
<1> DEFINE ax == x.sell - x.buy
           ap == p.sell - p.buy
           aq == q.sell - q.buy
<1>1. /\ ax \in Int /\ ap \in Int /\ aq \in Int
      /\ x.sell \in Nat \ {0} /\ p.sell \in Nat \ {0} /\ q.sell \in Nat \ {0}
  BY DEF Quotes
<1>2. ap * q.sell = aq * p.sell /\ ax * p.sell <= ap * x.sell
  <2>1. ap * q.sell <= aq * p.sell /\ aq * p.sell <= ap * q.sell
    BY DEF SameSpread, NotWider
  <2>2. ap * q.sell \in Int /\ aq * p.sell \in Int
    BY <1>1
  <2>3. ax * p.sell <= ap * x.sell
    BY DEF NotWider
  <2>4. QED
    BY <2>1, <2>2, <2>3
<1> HIDE DEF ax, ap, aq
<1>3. (ax * p.sell) * q.sell <= (ap * x.sell) * q.sell
  BY <1>1, <1>2
<1>4. (ax * q.sell) * p.sell <= (aq * x.sell) * p.sell
  <2>1. (ax * p.sell) * q.sell = (ax * q.sell) * p.sell
    BY <1>1
  <2>2. (ap * x.sell) * q.sell = (ap * q.sell) * x.sell
    BY <1>1
  <2>3. (aq * p.sell) * x.sell = (aq * x.sell) * p.sell
    BY <1>1
  <2>4. QED
    BY <1>2, <1>3, <2>1, <2>2, <2>3
<1>5. ax * q.sell <= aq * x.sell
  <2>1. ax * q.sell \in Int /\ aq * x.sell \in Int
    BY <1>1
  <2>2. \A m, n \in Int, k \in Nat \ {0} : m * k <= n * k => m <= n
    OBVIOUS
  <2>3. QED
    BY <1>1, <1>4, <2>1, <2>2
<1>6. QED
  BY <1>5 DEF NotWider, ax, aq

\* With a premium that is no dearer and the same spread, no more days are ranked below today.
LEMMA RanksCompare ==
    ASSUME NEW days \in Seq(Points), days # <<>>, NEW p \in Quotes, NEW q \in Quotes,
           SameSpread(p, q), p.premium <= q.premium,
           NEW low, low = Today(days, p), NEW high, high = Today(days, q)
    PROVE  /\ PremiumBelow(low) \in Nat /\ PremiumBelow(high) \in Nat
           /\ SpreadBelow(low) \in Nat /\ SpreadBelow(high) \in Nat
           /\ PremiumBelow(low) <= PremiumBelow(high)
           /\ SpreadBelow(low) <= SpreadBelow(high)
<1> DEFINE P(s) == {i \in DOMAIN s : s[i].quote.premium <= s[1].quote.premium}
           W(s) == {i \in DOMAIN s : NotWider(s[i].quote, s[1].quote)}
<1>1. /\ DOMAIN low = 1 .. Len(days) /\ low[1].quote = p
      /\ \A j \in DOMAIN low : j # 1 => low[j] = days[j]
  BY TodayReplaced
<1>2. /\ DOMAIN high = 1 .. Len(days) /\ high[1].quote = q
      /\ \A j \in DOMAIN high : j # 1 => high[j] = days[j]
  BY TodayReplaced
<1>3. \A j \in 1 .. Len(days) : days[j].quote \in Quotes /\ days[j].quote.premium \in Int
  <2>1. \A j \in 1 .. Len(days) : days[j] \in Points
    OBVIOUS
  <2>2. QED
    BY <2>1 DEF Points, Quotes
<1>4. P(low) \subseteq P(high)
  <2>1. SUFFICES ASSUME NEW j \in P(low) PROVE j \in P(high)
    OBVIOUS
  <2>2. p.premium \in Int /\ q.premium \in Int
    BY DEF Quotes
  <2>3. CASE j = 1
    BY <1>1, <1>2, <2>2, <2>3
  <2>4. CASE j # 1
    <3>1. days[j].quote.premium \in Int /\ days[j].quote.premium <= p.premium
      BY <1>1, <1>3, <2>4
    <3>2. days[j].quote.premium <= q.premium
      BY <2>2, <3>1
    <3>3. QED
      BY <1>1, <1>2, <2>4, <3>2
  <2>5. QED
    BY <2>3, <2>4
<1>5. W(low) \subseteq W(high)
  <2>1. SUFFICES ASSUME NEW j \in W(low) PROVE j \in W(high)
    OBVIOUS
  <2>2. CASE j = 1
    <3>1. (q.sell - q.buy) * q.sell \in Int
      BY DEF Quotes
    <3>2. NotWider(q, q)
      BY <3>1 DEF NotWider
    <3>3. QED
      BY <1>1, <1>2, <2>2, <3>2
  <2>3. CASE j # 1
    <3>1. days[j].quote \in Quotes /\ NotWider(days[j].quote, p)
      BY <1>1, <1>3, <2>3
    <3>2. NotWider(days[j].quote, q)
      BY <3>1, SpreadsCompare
    <3>3. QED
      BY <1>1, <1>2, <2>3, <3>2
  <2>4. QED
    BY <2>2, <2>3
<1>6. IsFiniteSet(1 .. Len(days))
  <2>1. 1 \in Int /\ Len(days) \in Int
    OBVIOUS
  <2>2. QED
    BY <2>1, FS_Interval
<1>7. IsFiniteSet(P(high)) /\ IsFiniteSet(W(high))
  <2>1. P(high) \subseteq 1 .. Len(days) /\ W(high) \subseteq 1 .. Len(days)
    BY <1>2
  <2>2. QED
    BY <1>6, <2>1, FS_Subset
<1> HIDE DEF P, W
<1>8. /\ Cardinality(P(low)) <= Cardinality(P(high)) /\ Cardinality(W(low)) <= Cardinality(W(high))
      /\ IsFiniteSet(P(low)) /\ IsFiniteSet(W(low))
  BY <1>4, <1>5, <1>7, FS_Subset
<1>9. /\ Cardinality(P(low)) \in Nat /\ Cardinality(P(high)) \in Nat
      /\ Cardinality(W(low)) \in Nat /\ Cardinality(W(high)) \in Nat
  BY <1>7, <1>8, FS_CardinalityType
<1>10. QED
  BY <1>8, <1>9 DEF P, W, PremiumBelow, SpreadBelow

\* The same prices reach the same levels.
LEMMA SamePriceSameFall ==
    ASSUME NEW days \in Seq(Points), days # <<>>, NEW p \in Quotes, NEW q \in Quotes,
           Middle(p) = Middle(q),
           NEW low, low = Today(days, p), NEW high, high = Today(days, q)
    PROVE  RollingHigh(low) = RollingHigh(high)
<1>1. /\ DOMAIN low = 1 .. Len(days) /\ low[1].quote = p
      /\ \A j \in DOMAIN low : j # 1 => low[j] = days[j]
  BY TodayReplaced
<1>2. /\ DOMAIN high = 1 .. Len(days) /\ high[1].quote = q
      /\ \A j \in DOMAIN high : j # 1 => high[j] = days[j]
  BY TodayReplaced
<1>3. DOMAIN low = DOMAIN high /\ \A j \in DOMAIN low : Middle(low[j].quote) = Middle(high[j].quote)
  BY <1>1, <1>2
<1>4. {Middle(low[j].quote) : j \in DOMAIN low} = {Middle(high[j].quote) : j \in DOMAIN high}
  BY <1>3
<1>5. QED
  BY <1>4 DEF RollingHigh

\* buildPlanFromDailyMetrics never suggests less exposure at a lower price with the same premium
\* and spread, nor more at a dearer premium alone: for every sequence of days and every two quotes
\* of today, however a fall that is exactly a level is rounded. It is what PlanIsMonotone checks
\* of the days the reachable tables give.
THEOREM PlanNeverBuysDearer ==
    ASSUME NEW days \in Seq(Points), days # <<>>, NEW p \in Quotes, NEW q \in Quotes,
           NEW a \in BOOLEAN, NEW b \in BOOLEAN,
           \/ SameSpread(p, q) /\ p.premium = q.premium /\ Middle(p) < Middle(q)
           \/ p.buy = q.buy /\ p.sell = q.sell /\ p.premium < q.premium /\ a = b
    PROVE  Plan(Today(days, p), a).exposure >= Plan(Today(days, q), b).exposure
<1> DEFINE low   == Today(days, p)
           high  == Today(days, q)
           reachedLow  == Crossed(Middle(p), RollingHigh(low), a)
           reachedHigh == Crossed(Middle(q), RollingHigh(high), b)
           suggestLow  == Min({50, 20 * Cardinality(reachedLow)})
           suggestHigh == Min({50, 20 * Cardinality(reachedHigh)})
<1>1. SameSpread(p, q) /\ p.premium <= q.premium
  <2>1. /\ p.premium \in Int /\ q.premium \in Int
        /\ (p.sell - p.buy) * q.sell \in Int /\ (q.sell - q.buy) * p.sell \in Int
    BY DEF Quotes
  <2>2. CASE p.buy = q.buy /\ p.sell = q.sell /\ p.premium < q.premium
    BY <2>1, <2>2 DEF SameSpread, NotWider
  <2>3. CASE SameSpread(p, q) /\ p.premium = q.premium
    BY <2>1, <2>3
  <2>4. QED
    BY <2>2, <2>3
<1>2. reachedHigh \subseteq reachedLow
  <2>1. CASE Middle(p) < Middle(q)
    BY <2>1, FallReachesMore
  <2>2. CASE p.buy = q.buy /\ p.sell = q.sell /\ a = b
    <3>1. Middle(p) = Middle(q)
      BY <2>2 DEF Middle
    <3>2. RollingHigh(low) = RollingHigh(high)
      BY <3>1, SamePriceSameFall
    <3>3. QED
      BY <2>2, <3>1, <3>2
  <2>3. QED
    BY <2>1, <2>2
<1>3. suggestLow \in Nat /\ suggestHigh \in Nat /\ suggestHigh <= suggestLow
  <2>1. reachedLow \in SUBSET DOMAIN Levels /\ reachedHigh \in SUBSET reachedLow
    BY <1>2 DEF Crossed
  <2>2. reachedHigh \in SUBSET DOMAIN Levels
    BY <2>1
  <2> HIDE DEF reachedLow, reachedHigh
  <2>3. QED
    BY <2>1, <2>2, ExposureGrows
<1>4. /\ PremiumBelow(low) \in Nat /\ PremiumBelow(high) \in Nat
      /\ SpreadBelow(low) \in Nat /\ SpreadBelow(high) \in Nat
      /\ PremiumBelow(low) <= PremiumBelow(high)
      /\ SpreadBelow(low) <= SpreadBelow(high)
  BY <1>1, RanksCompare
<1>5. /\ Len(low) = Len(high) /\ Len(low) \in Nat
      /\ low[1].quote = p /\ high[1].quote = q
  BY TodayReplaced
<1>6. Plan(low, a).exposure =
        IF \/ Len(low) < MinDays \/ 100 * PremiumBelow(low) >= 80 * Len(low)
           \/ 100 * PremiumBelow(low) > 70 * Len(low) \/ 100 * SpreadBelow(low) > 80 * Len(low)
        THEN 0 ELSE suggestLow
  BY <1>5 DEF Plan
<1>7. Plan(high, b).exposure =
        IF \/ Len(high) < MinDays \/ 100 * PremiumBelow(high) >= 80 * Len(high)
           \/ 100 * PremiumBelow(high) > 70 * Len(high) \/ 100 * SpreadBelow(high) > 80 * Len(high)
        THEN 0 ELSE suggestHigh
  BY <1>5 DEF Plan
<1>8. QED
  <2> HIDE DEF low, high, suggestLow, suggestHigh
  <2>1. MinDays \in Nat
    BY PlanAssumption
  <2>2. Plan(low, a).exposure >= Plan(high, b).exposure
    BY <1>3, <1>4, <1>5, <1>6, <1>7, <2>1
  <2>3. QED
    BY <2>2 DEF low, high

-----------------------------------------------------------------------------
(* The tables *)

\* A table of the database: a quote at each of some times.
IsRows(table) ==
    /\ DOMAIN table \in SUBSET Times
    /\ table = [t \in DOMAIN table |-> table[t]]
    /\ \A t \in DOMAIN table : table[t] \in Quotes

\* The rows of a table have finitely many times, and one of them is the latest.
LEMMA RowsType ==
    ASSUME NEW table, IsRows(table)
    PROVE  /\ IsTable(table) /\ DOMAIN table \in SUBSET Nat /\ IsFiniteSet(DOMAIN table)
           /\ table # <<>> => DOMAIN table # {}
           /\ DOMAIN table # {} => /\ Latest(table) \in DOMAIN table
                                   /\ \A t \in DOMAIN table : t <= Latest(table)
<1>1. Times \in SUBSET Nat /\ IsFiniteSet(Times)
  <2>1. 0 \in Int /\ MaxTime \in Int /\ MaxTime \in Nat
    BY SeriesAssumption
  <2>2. QED
    BY <2>1, FS_Interval DEF Times
<1>2. DOMAIN table \in SUBSET Nat /\ IsFiniteSet(DOMAIN table)
  BY <1>1, FS_Subset DEF IsRows
<1>3. ASSUME DOMAIN table = {}
      PROVE  table = <<>>
  BY <1>3 DEF IsRows
<1>4. ASSUME DOMAIN table # {}
      PROVE  Latest(table) \in DOMAIN table /\ \A t \in DOMAIN table : t <= Latest(table)
  BY <1>2, <1>4, GreatestOfFinite DEF Latest
<1>5. QED
  BY <1>2, <1>3, <1>4 DEF IsTable

\* A row that is put in is there, beside the others.
LEMMA PutRow ==
    ASSUME NEW table, IsRows(table), NEW t \in Times, NEW x \in Quotes
    PROVE  /\ IsRows(Put(table, t, x))
           /\ DOMAIN Put(table, t, x) = DOMAIN table \cup {t}
           /\ Put(table, t, x)[t] = x
<1> DEFINE new == Put(table, t, x)
<1>1. /\ DOMAIN new = DOMAIN table \cup {t} /\ new = [s \in DOMAIN new |-> new[s]]
      /\ new[t] = x /\ \A s \in DOMAIN table : s # t => new[s] = table[s]
  BY DEF Put
<1> HIDE DEF new
<1>2. \A s \in DOMAIN new : new[s] \in Quotes
  BY <1>1 DEF IsRows
<1>3. DOMAIN new \in SUBSET Times
  BY <1>1 DEF IsRows
<1>4. QED
  BY <1>1, <1>2, <1>3 DEF IsRows, new

\* A quote with a premium is a quote of the tables.
LEMMA FiguresType ==
    ASSUME NEW q, q.buy \in Nat \ {0}, q.sell \in Nat \ {0}, NEW world \in Int
    PROVE  Figures(q, world) \in Quotes
  BY DEF Figures, Quotes

\* So are those of the market and of the files.
LEMMA SourcesType ==
    /\ \A t \in Times : Course[t].world \in Int /\ Figures(Course[t], Course[t].world) \in Quotes
    /\ Figures(Backfilled, Backfilled.world) \in Quotes
<1>1. \A t \in Times : Course[t] \in Range(Course) \cup {Backfilled}
  BY HistoryAssumption DEF Range
<1>2. \A x \in Range(Course) \cup {Backfilled} :
          x.buy \in Nat \ {0} /\ x.sell \in Nat \ {0} /\ x.world \in Int
  BY HistoryAssumption
<1>3. \A x \in Range(Course) \cup {Backfilled} : Figures(x, x.world) \in Quotes
  BY <1>2, FiguresType
<1>4. QED
  BY <1>1, <1>2, <1>3

\* What the tables hold, and how the times of the inputs and the calculation lie.
Stored ==
    /\ clock \in Times
    /\ inputs # None => inputs \in Times /\ inputs <= clock
    /\ IsRows(prices) /\ IsRows(metrics) /\ IsRows(rows)
    /\ DOMAIN rows \subseteq DOMAIN metrics
    /\ calc # None => calc.time \in DOMAIN metrics /\ calc.time <= clock
    /\ signal # None => calc # None

\* A table without rows.
LEMMA NoRows == IsRows(<<>>)
  BY DEF IsRows

\* The rows from a time on are rows.
LEMMA PartOfRows ==
    ASSUME NEW table, IsRows(table), NEW S \in SUBSET DOMAIN table
    PROVE  IsRows([t \in S |-> table[t]]) /\ DOMAIN [t \in S |-> table[t]] = S
  BY DEF IsRows

\* The first tables are empty.
LEMMA StoredInit == Init => Stored
<1>1. 0 \in Times
  BY SeriesAssumption DEF Times
<1>2. QED
  BY <1>1, NoRows DEF Init, Stored

\* The row a calculation stores.
Current == Figures(prices[Latest(prices)], Course[inputs].world)

\* It is a quote, dated at a time.
LEMMA CurrentType ==
    ASSUME Stored, inputs # None, prices # <<>>
    PROVE  Current \in Quotes /\ inputs \in Times
<1>1. inputs \in Times /\ IsRows(prices)
  BY DEF Stored
<1>2. prices[Latest(prices)] \in Quotes
  BY <1>1, RowsType DEF IsRows
<1>3. prices[Latest(prices)].buy \in Nat \ {0} /\ prices[Latest(prices)].sell \in Nat \ {0}
  BY <1>2 DEF Quotes
<1>4. QED
  BY <1>1, <1>3, SourcesType, FiguresType DEF Current

\* Noon of a day up to now is a time when it is not beyond the bound.
LEMMA NoonIsTime ==
    ASSUME clock \in Times, NEW day \in 0 .. Day(clock), Noon(day) <= MaxTime
    PROVE  Noon(day) \in Times
<1>1. clock \in Nat /\ MaxTime \in Nat
  BY SeriesAssumption DEF Times
<1>2. Day(clock) \in Nat
  BY <1>1, WholeDays DEF Day
<1>3. Noon(day) \in Nat
  BY <1>2, NoonType
<1>4. QED
  BY <1>1, <1>3 DEF Times

\* Every step keeps the tables: rows are added at times, and a snapshot takes a part of them.
LEMMA StoredStep == Stored /\ [Next]_vars => Stored'
<1> SUFFICES ASSUME Stored, [Next]_vars
             PROVE  Stored'
  OBVIOUS
<1>1. CASE Tick
  <2>1. clock' \in Times /\ \A t \in Times : t <= clock => t <= clock'
    BY <1>1, SeriesAssumption DEF Tick, Stored, Times
  <2>2. \A t \in DOMAIN metrics : t \in Times
    BY DEF Stored, IsRows
  <2>3. QED
    BY <1>1, <2>1, <2>2 DEF Tick, Stored
<1>2. ASSUME NEW fresh \in BOOLEAN, Ingest(fresh)
      PROVE  Stored'
  <2>1. IsRows(prices')
    BY <1>2, PutRow, SourcesType DEF Ingest, Stored
  <2>2. inputs' # None => inputs' \in Times /\ inputs' <= clock
    <3>1. clock <= clock
      BY DEF Stored, Times
    <3>2. QED
      BY <1>2, <3>1 DEF Ingest, Stored
  <2>3. QED
    BY <1>2, <2>1, <2>2 DEF Ingest, Stored
<1>3. CASE Calculate
  <2>1. metrics' = Put(metrics, inputs, Current) /\ calc'.time = inputs
    BY <1>3 DEF Calculate, Current
  <2>2. inputs \in Times /\ Current \in Quotes /\ inputs <= clock
    BY <1>3, CurrentType DEF Calculate, Stored
  <2>3. IsRows(metrics') /\ DOMAIN metrics' = DOMAIN metrics \cup {inputs}
    BY <2>1, <2>2, PutRow DEF Stored
  <2>4. signal' = None /\ UNCHANGED <<clock, inputs, prices, rows>>
    BY <1>3 DEF Calculate
  <2>5. QED
    BY <2>1, <2>2, <2>3, <2>4 DEF Stored
<1>4. CASE Signal
  BY <1>4 DEF Signal, Stored
<1>5. CASE Publish
  <2>1. IsRows(rows') /\ DOMAIN rows' \subseteq DOMAIN metrics
    BY <1>5, PartOfRows DEF Publish, Stored
  <2>2. QED
    BY <1>5, <2>1 DEF Publish, Stored
<1>6. CASE Expire
  <2>1. IsRows(rows') /\ DOMAIN rows' \subseteq DOMAIN metrics
    BY <1>6, NoRows DEF Expire
  <2>2. QED
    BY <1>6, <2>1 DEF Expire, Stored
<1>7. ASSUME NEW day \in 0 .. Day(clock), BackfillPrice(day)
      PROVE  Stored'
  <2>1. Noon(day) \in Times
    BY <1>7, NoonIsTime DEF BackfillPrice, Stored
  <2>2. IsRows(prices')
    BY <1>7, <2>1, PutRow, SourcesType DEF BackfillPrice, Stored
  <2>3. QED
    BY <1>7, <2>2 DEF BackfillPrice, Stored
<1>8. ASSUME NEW day \in 0 .. Day(clock), BackfillMetric(day)
      PROVE  Stored'
  <2>1. Noon(day) \in Times
    BY <1>8, NoonIsTime DEF BackfillMetric, Stored
  <2>2. IsRows(metrics') /\ DOMAIN metrics' = DOMAIN metrics \cup {Noon(day)}
    BY <1>8, <2>1, PutRow, SourcesType DEF BackfillMetric, Stored
  <2>3. QED
    BY <1>8, <2>2 DEF BackfillMetric, Stored
<1>9. CASE UNCHANGED vars
  BY <1>9 DEF vars, Stored
<1>10. QED
  BY <1>1, <1>2, <1>3, <1>4, <1>5, <1>6, <1>7, <1>8, <1>9 DEF Next

\* In every state the tables hold quotes at times, and the calculation has a row (see Stored).
THEOREM StoredAlways == Spec => []Stored
  BY StoredInit, StoredStep, PTL DEF Spec

-----------------------------------------------------------------------------
(* The history a calculation reads *)

\* What carries the rows of a table carries those of the part with these times.
LEMMA CarriesPart ==
    ASSUME NEW points, NEW table, NEW S, Carries(points, table, S)
    PROVE  Carries(points, [t \in S |-> table[t]], S)
<1> DEFINE part == [t \in S |-> table[t]]
<1>1. \A t \in S : part[t] = table[t]
  OBVIOUS
<1> HIDE DEF part
<1>2. \A i \in DOMAIN points :
          /\ points[i].time \in S
          /\ points[i] = [time |-> points[i].time, quote |-> part[points[i].time]]
  BY <1>1 DEF Carries
<1>3. Carries(points, part, S)
  BY <1>2 DEF Carries
<1>4. QED
  BY <1>3 DEF part

\* Both histories start at a number, be it before the first day.
LEMMA StartsType ==
    ASSUME clock \in Times
    PROVE  /\ clock \in Nat /\ Window * DayTicks \in Nat
           /\ clock - Window * DayTicks \in Int /\ RangeStart(clock, Year) \in Int
<1>1. clock \in Nat /\ Window * DayTicks \in Nat
  BY SeriesAssumption DEF Times
<1>2. Day(clock) \in Nat
  BY <1>1, WholeDays DEF Day
<1>3. RangeStart(clock, Year) \in Int
  <2>1. Day(clock) - (Year - 1) \in Int /\ DayTicks \in Int
    BY <1>2, SeriesAssumption, HistoryAssumption
  <2> DEFINE k == Day(clock) - (Year - 1)
  <2> HIDE DEF k
  <2>2. k * DayTicks \in Int
    BY <2>1 DEF k
  <2>3. QED
    BY <2>2 DEF RangeStart, k
<1>4. QED
  BY <1>1, <1>3

\* The history of the published snapshot carries the rows it was made of.
HistoryCarries ==
    redis # None => /\ \E n \in Nat : DOMAIN redis.history = 1 .. n
                    /\ Carries(redis.history, rows, DOMAIN rows)

\* A publication makes it so, and no other step changes a history that stays.
LEMMA HistoryCarriesStep == Stored /\ HistoryCarries /\ [Next]_vars => HistoryCarries'
<1> SUFFICES ASSUME Stored, HistoryCarries, [Next]_vars
             PROVE  HistoryCarries'
  OBVIOUS
<1>1. CASE Publish
  <2> DEFINE from == RangeStart(clock, Year)
             S == {t \in DOMAIN metrics : t >= from}
             history == SnapshotHistory(metrics, clock, Year)
  <2>1. redis'.history = history /\ rows' = [t \in S |-> metrics[t]] /\ DOMAIN rows' = S
    BY <1>1 DEF Publish
  <2>2. from \in Int /\ IsTable(metrics)
    BY StartsType, RowsType DEF Stored
  <2>3. ListsRows(history, metrics, LastOfDays(S))
    <3> HIDE DEF from
    <3>1. QED
      BY <2>2, HistoryListed DEF SnapshotHistory, from
  <2> HIDE DEF S, from, history
  <2>4. Carries(history, metrics, S)
    <3>1. LastOfDays(S) \subseteq S
      BY DEF LastOfDays
    <3>2. QED
      BY <2>3, <3>1, ListedAreCarried
  <2>5. Carries(history, rows', S)
    BY <2>1, <2>4, CarriesPart
  <2>6. \E n \in Nat : DOMAIN history = 1 .. n
    BY <2>3 DEF ListsRows
  <2>7. QED
    BY <2>1, <2>5, <2>6 DEF HistoryCarries
<1>2. CASE Expire
  BY <1>2 DEF Expire, HistoryCarries
<1>3. CASE UNCHANGED <<redis, rows>>
  BY <1>3 DEF HistoryCarries
<1>4. [Next]_vars => Publish \/ Expire \/ UNCHANGED <<redis, rows>>
  BY DEF Next, Tick, Ingest, Calculate, Signal, BackfillPrice, BackfillMetric, vars
<1>5. QED
  BY <1>1, <1>2, <1>3, <1>4

\* What was published carries the rows behind it in every state (see HistoryCarries).
THEOREM HistoryCarriesAlways == Spec => []HistoryCarries
<1>1. Init => HistoryCarries
  BY DEF Init, HistoryCarries
<1>2. QED
  BY <1>1, StoredAlways, HistoryCarriesStep, PTL DEF Spec

\* So what a calculation reads carries the rows behind it, with and without the snapshot.
LEMMA SourceCarried ==
    ASSUME Stored, HistoryCarries
    PROVE  /\ IsRows(Source)
           /\ \E n \in Nat : DOMAIN History = 1 .. n
           /\ Carries(History, Source, DOMAIN Source)
<1>1. CASE redis # None
  BY <1>1 DEF HistoryCarries, History, Source, Stored
<1>2. CASE redis = None
  <2> DEFINE from == clock - Window * DayTicks
             S == {s \in DOMAIN metrics : s >= from}
             points == RowsSince(metrics, from)
  <2>1. History = points /\ Source = [t \in S |-> metrics[t]] /\ DOMAIN Source = S
    BY <1>2 DEF History, Source
  <2>2. from \in Int /\ IsTable(metrics) /\ IsRows(metrics)
    BY StartsType, RowsType DEF Stored
  <2> HIDE DEF from
  <2>3. ListsRows(points, metrics, S)
    BY <2>2, RowsListed
  <2>4. S \in SUBSET DOMAIN metrics
    OBVIOUS
  <2> HIDE DEF S, points
  <2>5. LastOfDays(S) \subseteq S
    BY DEF LastOfDays
  <2>6. Carries(points, metrics, S)
    BY <2>3, <2>5, ListedAreCarried
  <2>7. Carries(points, Source, S)
    BY <2>1, <2>6, CarriesPart
  <2>8. IsRows(Source)
    BY <2>1, <2>2, <2>4, PartOfRows
  <2>9. \E n \in Nat : DOMAIN points = 1 .. n
    BY <2>3 DEF ListsRows
  <2>10. QED
    BY <2>1, <2>7, <2>8, <2>9
<1>3. QED
  BY <1>1, <1>2

-----------------------------------------------------------------------------
(* The percentile *)

\* The times a premium is ranked among are the last ones of the last completed days.
LEMMA RankedAreLast ==
    ASSUME NEW table, IsRows(table), NEW now \in Nat
    PROVE  LastTimes(table, now) = RankedTimes(DOMAIN table, now)
<1> DEFINE T == DOMAIN table
           C == {Day(t) : t \in T} \cap 0 .. Day(now) - 1
           E == {t \in T : Day(t) < Day(now)}
           L == LastOfDays(E)
<1>1. T \in SUBSET Nat /\ IsFiniteSet(T)
  BY RowsType
<1>2. C = DaysBefore(T, now)
  BY DEF DaysBefore
<1>3. C = {Day(t) : t \in E}
  BY <1>1, <1>2, DaysBeforeAre
<1>4. E \in SUBSET Nat /\ IsFiniteSet(E)
  BY <1>1, FS_Subset
<1>5. /\ L \in SUBSET E /\ IsFiniteSet(L)
      /\ \A t \in E : \E u \in L : Day(u) = Day(t) /\ t <= u
      /\ \A t, u \in L : Day(t) = Day(u) => t = u
  BY <1>4, LastOfEveryDay
<1>6. \A t \in T : Day(t) \in C <=> t \in E
  <2>1. \A t \in T : Day(t) \in {Day(u) : u \in T}
    OBVIOUS
  <2>2. ASSUME NEW t \in T, Day(t) \in C
        PROVE  t \in E
    <3>1. PICK u \in E : Day(u) = Day(t)
      BY <1>3, <2>2
    <3>2. QED
      BY <3>1
  <2>3. \A t \in E : Day(t) \in C
    BY <1>3
  <2>4. QED
    BY <2>2, <2>3
<1>7. \A t \in T : t \in L <=> Day(t) \in C /\ ~ \E s \in T : s > t /\ Day(s) = Day(t)
  BY <1>6 DEF LastOfDays
<1>8. \A t \in L : Cardinality({u \in L : u > t}) = Cardinality({e \in C : e > Day(t)})
  BY <1>3, <1>4, DaysAbove
<1>9. LastTimes(table, now) =
          {t \in T : /\ Day(t) \in C /\ Cardinality({e \in C : e > Day(t)}) < Window
                     /\ ~ \E s \in T : s > t /\ Day(s) = Day(t)}
  BY DEF LastTimes
<1>10. RankedTimes(T, now) = {t \in L : Cardinality({u \in L : u > t}) < Window}
  BY DEF RankedTimes
<1>11. L \subseteq T
  BY <1>5
<1> HIDE DEF T, C, E, L
<1>12. \A t : t \in LastTimes(table, now) <=> t \in RankedTimes(T, now)
  BY <1>7, <1>8, <1>9, <1>10, <1>11
<1>13. QED
  BY <1>12 DEF T

\* The percentile of a calculation.
LEMMA PercentileOfRows ==
    ASSUME Stored, HistoryCarries, NEW now \in Nat, NEW current,
           NEW p, p = Percentile(History, now, current)
    PROVE  LET last == RankedTimes(DOMAIN Source, now)
           IN  /\ last = {} => p = None
               /\ last # {} =>
                    p = [below |-> Cardinality({t \in last : Source[t].premium <= current}),
                         size  |-> Cardinality(last)]
<1> DEFINE T == DOMAIN Source
           last == RankedTimes(T, now)
           ranked == RankedPoints(History, now)
<1>1. T \in SUBSET Nat /\ IsFiniteSet(T)
  BY SourceCarried, RowsType
<1>2. PICK n \in Nat : DOMAIN History = 1 .. n
  BY SourceCarried
<1>3. Carries(History, Source, T)
  BY SourceCarried
<1> HIDE DEF T
<1>4. ListsRows(ranked, Source, last)
  BY <1>1, <1>2, <1>3, RankedAreListed
<1>5. p = Rank([i \in DOMAIN ranked |-> ranked[i].quote.premium], current)
  BY DEF Percentile
<1> HIDE DEF ranked, last
<1>6. /\ last = {} => p = None
      /\ last # {} => p = [below |-> Cardinality({t \in last : Source[t].premium <= current}),
                           size  |-> Cardinality(last)]
  BY <1>4, <1>5, RankOfRows
<1>7. QED
  BY <1>6 DEF last, T

\* Every premium is ranked among the last rows of the completed days before the inputs, the last
\* Window of them, whether the history comes from the database or from the snapshot, which has
\* collapsed it to days already (daily-percentile.ts:44), and whatever the backfill scripts have
\* written.
THEOREM RanksCompletedDaysAlways == Spec => RanksTheCompletedDays
<1>1. ASSUME Stored, HistoryCarries, Calculate
      PROVE  LET last == LastTimes(Source, inputs)
             IN  calc'.percentile =
                   IF last = {} THEN None
                   ELSE [below |-> Cardinality({t \in last : Source[t].premium <= metrics'[inputs].premium}),
                         size  |-> Cardinality(last)]
  <2> DEFINE last == LastTimes(Source, inputs)
  <2>1. inputs \in Times /\ inputs \in Nat /\ Current \in Quotes
    <3>1. inputs \in Times /\ Current \in Quotes
      BY <1>1, CurrentType DEF Calculate
    <3>2. QED
      BY <3>1, SeriesAssumption DEF Times
  <2>2. metrics' = Put(metrics, inputs, Current)
    BY <1>1 DEF Calculate, Current
  <2>3. calc'.percentile = Percentile(History, inputs, Current.premium)
    BY <1>1 DEF Calculate, Current
  <2>4. metrics'[inputs] = Current
    BY <1>1, <2>1, <2>2, PutRow DEF Stored
  <2>5. last = RankedTimes(DOMAIN Source, inputs)
    BY <1>1, <2>1, SourceCarried, RankedAreLast
  <2> HIDE DEF last
  <2>6. /\ last = {} => calc'.percentile = None
        /\ last # {} => calc'.percentile =
               [below |-> Cardinality({t \in last : Source[t].premium <= Current.premium}),
                size  |-> Cardinality(last)]
    BY <1>1, <2>1, <2>3, <2>5, PercentileOfRows
  <2>7. QED
    BY <2>4, <2>6 DEF last
<1>2. QED
  BY <1>1, StoredAlways, HistoryCarriesAlways, PTL DEF RanksTheCompletedDays

-----------------------------------------------------------------------------
(* Type correctness *)

\* A percentile is a share of at least one day and at most Window days.
LEMMA PercentileType ==
    ASSUME Stored, HistoryCarries, NEW now \in Nat, NEW current,
           NEW p, p = Percentile(History, now, current), p # None
    PROVE  p.size \in 1 .. Window /\ p.below \in 0 .. p.size
<1> DEFINE T == DOMAIN Source
           last == RankedTimes(T, now)
           below == {t \in last : Source[t].premium <= current}
<1>1. T \in SUBSET Nat /\ IsFiniteSet(T)
  BY SourceCarried, RowsType
<1>2. p = [below |-> Cardinality(below), size |-> Cardinality(last)] /\ last # {}
  BY PercentileOfRows
<1> HIDE DEF T
<1>3. Cardinality(last) \in 0 .. Window /\ IsFiniteSet(last)
  BY <1>1, RankedCount, CompletedCount
<1>4. below \in SUBSET last
  OBVIOUS
<1> HIDE DEF last, below
<1>5. Cardinality(last) # 0
  BY <1>2, <1>3, FS_EmptySet
<1>6. Cardinality(below) \in Nat /\ Cardinality(below) <= Cardinality(last)
  BY <1>3, <1>4, FS_Subset, FS_CardinalityType
<1>7. QED
  BY <1>2, <1>3, <1>5, <1>6, SeriesAssumption

\* A momentum spans at least a day.
LEMMA MomentumType ==
    ASSUME NEW times \in SUBSET Nat, NEW now \in Nat,
           NEW m, m = Momentum(times, MomentumDays, now), m # None
    PROVE  m.days \in Nat \ {0}
<1> DEFINE r == Reference(times, MomentumDays, now)
<1>1. r = None \/ r \in times
  BY ReferenceFound
<1>2. m = IF r = None \/ now - r < DayTicks THEN None
          ELSE [days |-> (now - r) \div DayTicks, since |-> r]
  BY DEF Momentum
<1> HIDE DEF r
<1>3. r \in Nat /\ ~ now - r < DayTicks /\ m.days = (now - r) \div DayTicks
  BY <1>1, <1>2
<1>4. now - r \in Nat /\ 1 * DayTicks <= now - r
  BY <1>3, SeriesAssumption
<1>5. 1 <= (now - r) \div DayTicks /\ (now - r) \div DayTicks \in Nat
  BY <1>4, AtLeastDays, WholeDays
<1>6. QED
  BY <1>3, <1>5

\* The sample is counted up to Window days, once there is a metric.
LEMMA SampleType ==
    ASSUME IsRows(metrics), DOMAIN metrics # {}
    PROVE  /\ Latest(metrics) \in DOMAIN metrics /\ Latest(metrics) \in Nat
           /\ Sample(metrics) \in 0 .. Window
<1> DEFINE S == {t \in DOMAIN metrics : t >= clock - Window * DayTicks /\ t < Latest(metrics)}
<1>1. Latest(metrics) \in DOMAIN metrics /\ DOMAIN metrics \in SUBSET Nat /\ IsFiniteSet(DOMAIN metrics)
  BY RowsType
<1>2. S \in SUBSET Nat /\ IsFiniteSet(S)
  BY <1>1, FS_Subset
<1>3. Sample(metrics) = CompletedDays(S, Latest(metrics))
  BY DEF Sample
<1> HIDE DEF S
<1>4. QED
  BY <1>1, <1>2, <1>3, CompletedCount

\* Every step keeps the types; what a calculation stores comes from rows at times.
LEMMA TypeOKStep == Stored /\ Stored' /\ HistoryCarries /\ TypeOK /\ [Next]_vars => TypeOK'
<1> SUFFICES ASSUME Stored, Stored', HistoryCarries, TypeOK, [Next]_vars
             PROVE  TypeOK'
  OBVIOUS
<1>1. /\ clock' \in Times /\ inputs' \in Times \cup {None}
      /\ DOMAIN prices' \subseteq Times /\ DOMAIN metrics' \subseteq Times
      /\ DOMAIN rows' \subseteq DOMAIN metrics'
      /\ calc' # None => calc'.time \in Times
  BY DEF Stored, IsRows
<1> DEFINE Calculated ==
               calc # None =>
                 /\ calc.percentile # None =>
                      calc.percentile.size \in 1 .. Window
                      /\ calc.percentile.below \in 0 .. calc.percentile.size
                 /\ calc.momentum # None => calc.momentum.days \in Nat \ {0}
           Counted == signal # None => signal.time \in DOMAIN metrics /\ signal.size \in 0 .. Window
           Published == redis # None => redis.time \in DOMAIN metrics /\ redis.size \in 0 .. Window
           Bounded == backfills \in 0 .. MaxBackfills /\ whole \in BOOLEAN
<1>2. Calculated /\ Counted /\ Published /\ Bounded
  BY DEF TypeOK
<1>3. Calculated' /\ Counted' /\ Published' /\ Bounded' => TypeOK'
  BY <1>1 DEF TypeOK
<1>4. CASE Tick
  BY <1>2, <1>3, <1>4 DEF Tick
<1>5. ASSUME NEW fresh \in BOOLEAN, Ingest(fresh)
      PROVE  TypeOK'
  BY <1>2, <1>3, <1>5 DEF Ingest
<1>6. CASE Calculate
  <2>1. inputs \in Times /\ inputs \in Nat /\ Current \in Quotes
    <3>1. inputs \in Times /\ Current \in Quotes
      BY <1>6, CurrentType DEF Calculate
    <3>2. QED
      BY <3>1, SeriesAssumption DEF Times
  <2>2. DOMAIN metrics \subseteq DOMAIN metrics'
    <3>1. metrics' = Put(metrics, inputs, Current)
      BY <1>6 DEF Calculate, Current
    <3>2. IsRows(metrics)
      BY DEF Stored
    <3>3. DOMAIN Put(metrics, inputs, Current) = DOMAIN metrics \cup {inputs}
      BY <2>1, <3>2, PutRow
    <3>4. QED
      BY <3>1, <3>3
  <2>3. /\ calc'.percentile = Percentile(History, inputs, Current.premium)
        /\ calc'.momentum = Momentum(DOMAIN prices, MomentumDays, inputs)
    BY <1>6 DEF Calculate, Current
  <2>4. calc'.percentile # None =>
            calc'.percentile.size \in 1 .. Window
            /\ calc'.percentile.below \in 0 .. calc'.percentile.size
    BY <2>1, <2>3, PercentileType
  <2>5. calc'.momentum # None => calc'.momentum.days \in Nat \ {0}
    <3>1. DOMAIN prices \in SUBSET Nat
      BY RowsType DEF Stored
    <3>2. QED
      BY <2>1, <2>3, <3>1, MomentumType
  <2>6. Calculated'
    BY <2>4, <2>5
  <2>7. Counted' /\ Published'
    BY <1>2, <1>6, <2>2 DEF Calculate
  <2>8. Bounded'
    <3>1. SeesEveryRow \in BOOLEAN
      BY DEF SeesEveryRow
    <3>2. QED
      BY <1>2, <1>6, <3>1 DEF Calculate
  <2>9. QED
    BY <1>3, <2>6, <2>7, <2>8
<1>7. CASE Signal
  <2>1. DOMAIN metrics # {} /\ IsRows(metrics)
    BY <1>7 DEF Signal, Stored
  <2>2. Counted'
    BY <1>7, <2>1, SampleType DEF Signal
  <2>3. Calculated' /\ Published' /\ Bounded'
    BY <1>2, <1>7 DEF Signal
  <2>4. QED
    BY <1>3, <2>2, <2>3
<1>8. CASE Publish
  <2>1. DOMAIN metrics # {} /\ IsRows(metrics)
    BY <1>8 DEF Publish, Stored
  <2>2. Published'
    BY <1>8, <2>1, SampleType DEF Publish
  <2>3. Calculated' /\ Counted' /\ Bounded'
    BY <1>2, <1>8 DEF Publish
  <2>4. QED
    BY <1>3, <2>2, <2>3
<1>9. CASE Expire
  BY <1>2, <1>3, <1>9 DEF Expire
<1>10. ASSUME NEW day \in 0 .. Day(clock), BackfillPrice(day)
       PROVE  TypeOK'
  <2>1. Bounded'
    <3>1. backfills' = backfills + 1 /\ backfills < MaxBackfills /\ whole' = FALSE
      BY <1>10 DEF BackfillPrice
    <3>2. backfills \in 0 .. MaxBackfills /\ MaxBackfills \in Nat
      BY <1>2, HistoryAssumption
    <3>3. backfills' \in 0 .. MaxBackfills
      BY <3>1, <3>2
    <3>4. QED
      BY <3>1, <3>3
  <2>2. Calculated' /\ Counted' /\ Published'
    BY <1>2, <1>10 DEF BackfillPrice
  <2>3. QED
    BY <1>3, <2>1, <2>2
<1>11. ASSUME NEW day \in 0 .. Day(clock), BackfillMetric(day)
       PROVE  TypeOK'
  <2>1. Bounded'
    <3>1. backfills' = backfills + 1 /\ backfills < MaxBackfills /\ whole' = FALSE
      BY <1>11 DEF BackfillMetric
    <3>2. backfills \in 0 .. MaxBackfills /\ MaxBackfills \in Nat
      BY <1>2, HistoryAssumption
    <3>3. backfills' \in 0 .. MaxBackfills
      BY <3>1, <3>2
    <3>4. QED
      BY <3>1, <3>3
  <2>2. DOMAIN metrics \subseteq DOMAIN metrics'
    BY <1>11 DEF BackfillMetric, Put
  <2>3. Calculated' /\ Counted' /\ Published'
    BY <1>2, <1>11, <2>2 DEF BackfillMetric
  <2>4. QED
    BY <1>3, <2>1, <2>3
<1>12. CASE UNCHANGED vars
  BY <1>2, <1>3, <1>12 DEF vars
<1>13. QED
  BY <1>4, <1>5, <1>6, <1>7, <1>8, <1>9, <1>10, <1>11, <1>12 DEF Next

\* What the daily figures of the pipeline are made of stays in its domain: percentiles are shares
\* of a sample of 1 to Window days, momenta span a positive number of days, and what is counted or
\* published is dated by a row of gold_metrics.
THEOREM TypeCorrect == Spec => []TypeOK
<1>1. Init => TypeOK
  <2>1. SUFFICES ASSUME Init
                 PROVE  TypeOK
    OBVIOUS
  <2>2. 0 \in Times /\ 0 \in 0 .. MaxBackfills
    BY SeriesAssumption, HistoryAssumption DEF Times
  <2>3. DOMAIN <<>> = {}
    OBVIOUS
  <2>4. QED
    BY <2>1, <2>2, <2>3 DEF Init, TypeOK
<1>2. QED
  BY <1>1, StoredAlways, HistoryCarriesAlways, TypeOKStep, PTL DEF Spec

-----------------------------------------------------------------------------
(* The sample *)

\* The completed days with a row in the window before a time, as many as are ranked.
Due(table, now) == CompletedDays({t \in DOMAIN table : t >= now - Window * DayTicks}, now)

\* The days a percentile was ranked among.
RankedSize(percentile) == IF percentile = None THEN 0 ELSE percentile.size

\* What was counted for a time does not exceed the days due for it, and these do not exceed
\* the days ranked at that time when every row of the window was seen.
SampleDue ==
    /\ signal # None /\ signal.time = calc.time => signal.size <= Due(metrics, signal.time)
    /\ redis # None => redis.size <= Due(metrics, redis.time)
    /\ whole => /\ Due(metrics, calc.time) <= RankedSize(calc.percentile)
                /\ RankedSize(calc.percentile) \in Nat

\* The days due for a time grow with the table.
LEMMA DueGrows ==
    ASSUME NEW old, IsRows(old), NEW new, IsRows(new), DOMAIN old \subseteq DOMAIN new,
           NEW now \in Nat
    PROVE  Due(old, now) \in Nat /\ Due(new, now) \in Nat /\ Due(old, now) <= Due(new, now)
<1> DEFINE S == {t \in DOMAIN old : t >= now - Window * DayTicks}
           T == {t \in DOMAIN new : t >= now - Window * DayTicks}
<1>1. /\ DOMAIN old \in SUBSET Nat /\ IsFiniteSet(DOMAIN old)
      /\ DOMAIN new \in SUBSET Nat /\ IsFiniteSet(DOMAIN new)
  BY RowsType
<1>2. S \in SUBSET Nat /\ IsFiniteSet(S) /\ T \in SUBSET Nat /\ IsFiniteSet(T)
  BY <1>1, FS_Subset
<1>3. S \subseteq T
  OBVIOUS
<1>4. Due(old, now) = CompletedDays(S, now) /\ Due(new, now) = CompletedDays(T, now)
  BY DEF Due
<1> HIDE DEF S, T
<1>5. CompletedDays(S, now) \in Nat /\ CompletedDays(T, now) \in Nat
  BY <1>2, CompletedCount, SeriesAssumption
<1>6. CompletedDays(S, now) <= CompletedDays(T, now)
  BY <1>2, <1>3, CompletedGrows
<1>7. QED
  BY <1>4, <1>5, <1>6

\* The sample counted at a time that is not before the latest metric is within the days due
\* for it.
LEMMA SampleWithinDue ==
    ASSUME IsRows(metrics), DOMAIN metrics # {}, clock \in Nat, Latest(metrics) <= clock
    PROVE  Sample(metrics) <= Due(metrics, Latest(metrics))
<1> DEFINE now == Latest(metrics)
           k == Window * DayTicks
           S == {t \in DOMAIN metrics : t >= clock - k /\ t < now}
           T == {t \in DOMAIN metrics : t >= now - k}
<1>1. /\ DOMAIN metrics \in SUBSET Nat /\ IsFiniteSet(DOMAIN metrics)
      /\ now \in DOMAIN metrics
  BY RowsType
<1>2. S \in SUBSET Nat /\ IsFiniteSet(S) /\ T \in SUBSET Nat /\ IsFiniteSet(T)
  BY <1>1, FS_Subset
<1>3. now \in Nat /\ k \in Nat /\ now <= clock
  BY <1>1, SeriesAssumption
<1>4. Sample(metrics) = CompletedDays(S, now) /\ Due(metrics, now) = CompletedDays(T, now)
  BY DEF Sample, Due
<1> HIDE DEF now, k
<1>5. \A t \in S : t \in T
  <2>1. SUFFICES ASSUME NEW t \in DOMAIN metrics, t >= clock - k
                 PROVE  t >= now - k
    OBVIOUS
  <2>2. t \in Nat
    BY <1>1
  <2>3. QED
    BY <1>3, <2>1, <2>2
<1> HIDE DEF S, T
<1>6. CompletedDays(S, now) <= CompletedDays(T, now)
  BY <1>2, <1>3, <1>5, CompletedGrows
<1>7. QED
  BY <1>4, <1>6 DEF now

\* A calculation that sees every row of its window ranks all the days due.
LEMMA RanksWhatIsDue ==
    ASSUME Stored, Stored', HistoryCarries, Calculate, SeesEveryRow
    PROVE  /\ Due(metrics', inputs) <= RankedSize(calc'.percentile)
           /\ RankedSize(calc'.percentile) \in Nat
<1> DEFINE T == DOMAIN Source
           S == {t \in DOMAIN metrics' : t >= inputs - Window * DayTicks}
           last == RankedTimes(T, inputs)
<1>1. inputs \in Times /\ inputs \in Nat /\ Current \in Quotes
  <2>1. inputs \in Times /\ Current \in Quotes
    BY CurrentType DEF Calculate
  <2>2. QED
    BY <2>1, SeriesAssumption DEF Times
<1>2. DOMAIN metrics' = DOMAIN metrics \cup {inputs}
  <2>1. metrics' = Put(metrics, inputs, Current) /\ IsRows(metrics)
    BY DEF Calculate, Current, Stored
  <2>2. QED
    BY <1>1, <2>1, PutRow
<1>3. T \in SUBSET Nat /\ IsFiniteSet(T)
  BY SourceCarried, RowsType
<1>4. S \in SUBSET Nat /\ IsFiniteSet(S)
  <2>1. DOMAIN metrics' \in SUBSET Nat /\ IsFiniteSet(DOMAIN metrics')
    BY RowsType DEF Stored
  <2>2. QED
    BY <2>1, FS_Subset
<1>5. \A t \in S : Day(t) < Day(inputs) => t \in T
  <2>1. SUFFICES ASSUME NEW t \in S, Day(t) < Day(inputs)
                 PROVE  t \in T
    OBVIOUS
  <2>2. Day(inputs) \in Nat
    BY <1>1, DaysInOrder
  <2>3. t # inputs
    BY <2>1, <2>2
  <2>4. t \in DOMAIN metrics
    BY <1>2, <2>3
  <2>5. QED
    BY <2>1, <2>4 DEF SeesEveryRow
<1>6. Due(metrics', inputs) = CompletedDays(S, inputs)
  BY DEF Due
<1> HIDE DEF S, T
<1>7. CompletedDays(S, inputs) <= CompletedDays(T, inputs)
  BY <1>1, <1>3, <1>4, <1>5, CompletedGrows
<1>8. Cardinality(last) = CompletedDays(T, inputs) /\ IsFiniteSet(last)
  BY <1>1, <1>3, RankedCount
<1>9. calc'.percentile = Percentile(History, inputs, Current.premium)
  BY DEF Calculate, Current
<1>10. /\ last = {} => calc'.percentile = None
       /\ last # {} => calc'.percentile =
              [below |-> Cardinality({t \in last : Source[t].premium <= Current.premium}),
               size  |-> Cardinality(last)]
  BY <1>1, <1>9, PercentileOfRows DEF T
<1>11. Cardinality({t \in last : Source[t].premium <= Current.premium}) \in Nat
  <2>1. IsFiniteSet({t \in last : Source[t].premium <= Current.premium})
    BY <1>8, FS_Subset
  <2>2. QED
    BY <2>1, FS_CardinalityType
<1>12. Cardinality(last) \in Nat
  BY <1>8, FS_CardinalityType
<1>13. RankedSize(calc'.percentile) = Cardinality(last)
  <2>1. CASE last = {}
    <3>1. Cardinality(last) = 0
      BY <2>1, FS_EmptySet
    <3>2. QED
      BY <1>10, <2>1, <3>1 DEF RankedSize
  <2>2. CASE last # {}
    <3>1. PICK b \in Nat : calc'.percentile = [below |-> b, size |-> Cardinality(last)]
      BY <1>10, <1>11, <2>2
    <3>2. calc'.percentile # None
      BY <1>12, <3>1, SeriesAssumption
    <3>3. QED
      BY <3>1, <3>2 DEF RankedSize
  <2>3. QED
    BY <2>1, <2>2
<1>14. QED
  BY <1>6, <1>7, <1>8, <1>12, <1>13

\* No step takes a row from the metrics.
LEMMA TablesGrow ==
    ASSUME Stored, Stored', [Next]_vars
    PROVE  DOMAIN metrics \subseteq DOMAIN metrics'
<1>1. CASE Calculate
  BY <1>1 DEF Calculate, Put
<1>2. ASSUME NEW day \in 0 .. Day(clock), BackfillMetric(day)
      PROVE  DOMAIN metrics \subseteq DOMAIN metrics'
  BY <1>2 DEF BackfillMetric, Put
<1>3. CASE UNCHANGED metrics
  BY <1>3
<1>4. \/ Calculate \/ UNCHANGED metrics
      \/ \E day \in 0 .. Day(clock) : BackfillMetric(day)
  BY DEF Next, Tick, Ingest, Signal, Publish, Expire, BackfillPrice, vars
<1>5. QED
  BY <1>1, <1>2, <1>3, <1>4

\* Every step keeps it: tables only grow, and a calculation ranks no more days than were due.
LEMMA SampleDueStep ==
    Stored /\ Stored' /\ HistoryCarries /\ TypeOK /\ TypeOK' /\ SampleDue /\ [Next]_vars => SampleDue'
<1> SUFFICES ASSUME Stored, Stored', HistoryCarries, TypeOK, TypeOK', SampleDue, [Next]_vars
             PROVE  SampleDue'
  OBVIOUS
<1> DEFINE Counted(time, size) == size <= Due(metrics, time)
           Later(time, size) == size <= Due(metrics', time)
<1>1. IsRows(metrics) /\ IsRows(metrics') /\ DOMAIN metrics \subseteq DOMAIN metrics'
  BY TablesGrow DEF Stored
<1>2. \A time \in Nat : Due(metrics, time) <= Due(metrics', time)
                        /\ Due(metrics, time) \in Nat /\ Due(metrics', time) \in Nat
  BY <1>1, DueGrows
<1>3. \A time \in Nat, size \in Nat : Counted(time, size) => Later(time, size)
  BY <1>2
<1>4. \A t \in DOMAIN metrics : t \in Nat
  BY <1>1, RowsType
<1>5. /\ signal # None => signal.time \in Nat /\ signal.size \in Nat
      /\ redis # None => redis.time \in Nat /\ redis.size \in Nat
  BY <1>4, SeriesAssumption DEF TypeOK
<1>6. ASSUME UNCHANGED signal, UNCHANGED calc
      PROVE  signal' # None /\ signal'.time = calc'.time => Later(signal'.time, signal'.size)
  BY <1>3, <1>5, <1>6 DEF SampleDue
<1>7. ASSUME UNCHANGED redis
      PROVE  redis' # None => Later(redis'.time, redis'.size)
  BY <1>3, <1>5, <1>7 DEF SampleDue
<1>8. ASSUME UNCHANGED <<whole, calc, metrics>> \/ whole' = FALSE
      PROVE  whole' => /\ Due(metrics', calc'.time) <= RankedSize(calc'.percentile)
                       /\ RankedSize(calc'.percentile) \in Nat
  BY <1>8 DEF SampleDue
<1>9. CASE Calculate
  <2>1. signal' = None /\ UNCHANGED redis
    BY <1>9 DEF Calculate
  <2>2. whole' => /\ Due(metrics', calc'.time) <= RankedSize(calc'.percentile)
                  /\ RankedSize(calc'.percentile) \in Nat
    <3>1. whole' = SeesEveryRow /\ calc'.time = inputs
      BY <1>9 DEF Calculate
    <3>2. QED
      BY <1>9, <3>1, RanksWhatIsDue
  <2>3. QED
    BY <1>7, <2>1, <2>2 DEF SampleDue
<1>10. CASE Signal
  <2>1. signal' = [time |-> Latest(metrics), size |-> Sample(metrics)]
        /\ UNCHANGED <<clock, metrics, calc, redis, whole>> /\ calc # None
    BY <1>10 DEF Signal
  <2>2. ASSUME signal'.time = calc'.time
        PROVE  signal'.size <= Due(metrics', signal'.time)
    <3>1. DOMAIN metrics # {} /\ Latest(metrics) <= clock /\ clock \in Nat
      BY <2>1, <2>2, SeriesAssumption DEF Stored, Times
    <3>2. QED
      BY <1>1, <2>1, <3>1, SampleWithinDue
  <2>3. QED
    BY <1>7, <1>8, <2>1, <2>2 DEF SampleDue
<1>11. CASE Publish
  <2>1. /\ redis'.time = inputs /\ redis'.size = Sample(metrics) /\ Latest(metrics) = inputs
        /\ signal # None /\ signal' = None /\ UNCHANGED <<clock, metrics, calc, whole, inputs>>
    BY <1>11 DEF Publish
  <2>2. inputs <= clock /\ clock \in Nat /\ DOMAIN metrics # {}
    <3>1. DOMAIN metrics # {} /\ clock \in Nat
      BY <2>1, SeriesAssumption DEF Stored, Times
    <3>2. inputs \in Nat
      BY <1>1, <2>1, <3>1, RowsType
    <3>3. QED
      BY <3>1, <3>2, SeriesAssumption DEF Stored
  <2>3. redis'.size <= Due(metrics', redis'.time)
    BY <1>1, <2>1, <2>2, SampleWithinDue
  <2>4. QED
    BY <1>8, <2>1, <2>3 DEF SampleDue
<1>12. CASE Expire
  <2>1. redis' = None /\ UNCHANGED <<calc, signal, metrics, whole>>
    BY <1>12 DEF Expire
  <2>2. QED
    BY <1>6, <1>8, <2>1 DEF SampleDue
<1>13. CASE UNCHANGED <<signal, calc, redis>> /\ (UNCHANGED <<whole, metrics>> \/ whole' = FALSE)
  BY <1>6, <1>7, <1>8, <1>13 DEF SampleDue
<1>14. \/ Calculate \/ Signal \/ Publish \/ Expire
       \/ UNCHANGED <<signal, calc, redis>> /\ (UNCHANGED <<whole, metrics>> \/ whole' = FALSE)
  BY DEF Next, Tick, Ingest, BackfillPrice, BackfillMetric, vars
<1>15. QED
  BY <1>9, <1>10, <1>11, <1>12, <1>13, <1>14

\* In every state what was counted is within the days due (see SampleDue).
THEOREM SampleDueAlways == Spec => []SampleDue
<1>1. Init => SampleDue
  BY DEF Init, SampleDue
<1>2. QED
  BY <1>1, StoredAlways, HistoryCarriesAlways, TypeCorrect, SampleDueStep, PTL DEF Spec

\* The sample sizes that generateSignals and publishMarketSnapshot count (generate-signals.ts:28,
\* market-snapshot.ts:193) never exceed the days the percentile of the same time was ranked among,
\* if that calculation saw every row of its window: however rows were added since it, and whether
\* its history came from the database or from a snapshot.
THEOREM SampleNeverOverstatesAlways == Spec => []SampleNeverOverstates
<1>1. ASSUME Stored, TypeOK, SampleDue
      PROVE  SampleNeverOverstates
  <2> DEFINE ranked == RankedSize(calc.percentile)
  <2>1. SUFFICES ASSUME whole
                 PROVE  /\ signal # None /\ signal.time = calc.time => signal.size <= ranked
                        /\ redis # None /\ redis.time = calc.time => redis.size <= ranked
    BY DEF SampleNeverOverstates, RankedSize
  <2>2. Due(metrics, calc.time) <= ranked /\ ranked \in Nat
    BY <1>1, <2>1 DEF SampleDue
  <2>3. IsRows(metrics) /\ \A t \in DOMAIN metrics : t \in Nat
    BY <1>1, RowsType DEF Stored
  <2>4. \A t \in Nat : Due(metrics, t) \in Nat
    BY <2>3, DueGrows
  <2> HIDE DEF ranked
  <2>5. ASSUME signal # None, signal.time = calc.time
        PROVE  signal.size <= ranked
    <3>1. signal.size <= Due(metrics, calc.time) /\ calc.time \in Nat /\ signal.size \in Nat
      BY <1>1, <2>3, <2>5, SeriesAssumption DEF SampleDue, TypeOK
    <3>2. QED
      BY <2>2, <2>4, <3>1
  <2>6. ASSUME redis # None, redis.time = calc.time
        PROVE  redis.size <= ranked
    <3>1. redis.size <= Due(metrics, calc.time) /\ calc.time \in Nat /\ redis.size \in Nat
      BY <1>1, <2>3, <2>6, SeriesAssumption DEF SampleDue, TypeOK
    <3>2. QED
      BY <2>2, <2>4, <3>1
  <2>7. QED
    BY <2>5, <2>6
<1>2. QED
  BY <1>1, StoredAlways, TypeCorrect, SampleDueAlways, PTL

-----------------------------------------------------------------------------
(* The days of the plan *)

\* The times of the rows the plan looks at: of the newest rows the last of each day, of the
\* last days.
NewestTimes(T) == {t \in T : Cardinality({u \in T : u > t}) < QueryRows}
PlanTimes(T) ==
    LET L == LastOfDays(NewestTimes(T))
    IN  {t \in L : Cardinality({u \in L : u > t}) < PlanWindow}

\* Reversed, a list of rows descends.
LEMMA ReversedRows ==
    ASSUME NEW points, NEW table, NEW S \in SUBSET Nat, ListsRows(points, table, S),
           NEW r, r = Reverse(points)
    PROVE  /\ DOMAIN r = 1 .. Cardinality(S) /\ Cardinality(S) \in Nat /\ r \in Seq(Range(points))
           /\ Len(r) = Cardinality(S)
           /\ \A i \in DOMAIN r : r[i].time \in S /\ r[i] = [time |-> r[i].time, quote |-> table[r[i].time]]
           /\ \A i, j \in DOMAIN r : i < j => r[i].time > r[j].time
           /\ \A t \in S : \E i \in DOMAIN r : r[i].time = t
<1> DEFINE n == Cardinality(S)
<1>1. /\ n \in Nat /\ DOMAIN points = 1 .. n /\ Len(points) = n /\ points \in Seq(Range(points))
      /\ \A i \in 1 .. n : /\ points[i].time \in S
                           /\ points[i] = [time |-> points[i].time, quote |-> table[points[i].time]]
      /\ \A i, j \in 1 .. n : i < j <=> points[i].time < points[j].time
      /\ \A t \in S : \E i \in 1 .. n : points[i].time = t
  BY DEF ListsRows
<1> HIDE DEF n
<1>2. r = [i \in 1 .. n |-> points[(n - i) + 1]]
  BY <1>1 DEF Reverse
<1>3. \A i \in 1 .. n : (n - i) + 1 \in 1 .. n /\ r[i] = points[(n - i) + 1]
  BY <1>1, <1>2
<1>4. DOMAIN r = 1 .. n
  BY <1>2
<1>5. \A i \in 1 .. n : points[i] \in Range(points)
  BY <1>1 DEF Range
<1>6. r \in Seq(Range(points)) /\ Len(r) = n
  <2>1. r \in [1 .. n -> Range(points)]
    BY <1>2, <1>3, <1>5
  <2>2. QED
    BY <1>1, <2>1
<1>7. \A i \in 1 .. n : r[i].time \in S /\ r[i] = [time |-> r[i].time, quote |-> table[r[i].time]]
  <2>1. SUFFICES ASSUME NEW i \in 1 .. n
                 PROVE  r[i].time \in S /\ r[i] = [time |-> r[i].time, quote |-> table[r[i].time]]
    OBVIOUS
  <2>2. PICK k \in 1 .. n : r[i] = points[k]
    BY <1>3
  <2>3. QED
    BY <1>1, <2>2
<1>8. \A i, j \in 1 .. n : i < j => r[i].time > r[j].time
  <2>1. SUFFICES ASSUME NEW i \in 1 .. n, NEW j \in 1 .. n, i < j
                 PROVE  r[i].time > r[j].time
    OBVIOUS
  <2>2. PICK k \in 1 .. n, l \in 1 .. n : r[i] = points[k] /\ r[j] = points[l] /\ l < k
    <3>1. (n - j) + 1 < (n - i) + 1
      BY <1>1, <2>1
    <3>2. QED
      BY <1>3, <3>1
  <2>3. points[l].time < points[k].time /\ points[l].time \in Nat /\ points[k].time \in Nat
    BY <1>1, <2>2
  <2>4. QED
    BY <2>2, <2>3
<1>9. \A t \in S : \E i \in 1 .. n : r[i].time = t
  <2>1. SUFFICES ASSUME NEW t \in S
                 PROVE  \E i \in 1 .. n : r[i].time = t
    OBVIOUS
  <2>2. PICK k \in 1 .. n : points[k].time = t
    BY <1>1
  <2>3. (n - k) + 1 \in 1 .. n /\ (n - ((n - k) + 1)) + 1 = k
    BY <1>1
  <2>4. r[(n - k) + 1] = points[k]
    BY <1>3, <2>3
  <2>5. QED
    BY <2>2, <2>3, <2>4
<1>10. QED
  BY <1>1, <1>4, <1>6, <1>7, <1>8, <1>9, Zenon DEF n

\* The days of the plan are the rows at these times, the latest first.
LEMMA PlanDaysListed ==
    ASSUME NEW table, IsTable(table)
    PROVE  \E list : /\ ListsRows(list, table, PlanTimes(DOMAIN table))
                     /\ PlanDays(table) = Reverse(list)
<1> DEFINE T == DOMAIN table
           F == NewestTimes(T)
           L == LastOfDays(F)
           newest == LastOf(QueryRows, RowsSince(table, 0))
           points == Reverse(newest)
           kept == ByDay(points, Never)
           list == LastOf(PlanWindow, Series(kept))
<1>1. T \in SUBSET Nat /\ IsFiniteSet(T)
  BY DEF IsTable
<1>2. {t \in T : t >= 0} = T
  <2>1. \A t \in T : t \in Nat
    BY <1>1
  <2>2. \A t \in T : t >= 0
    BY <2>1
  <2>3. QED
    BY <2>2
<1>3. ListsRows(RowsSince(table, 0), table, T)
  BY <1>2, RowsListed
<1> HIDE DEF T
<1>4. ListsRows(newest, table, F)
  BY <1>1, <1>3, LastListed, PlanAssumption DEF NewestTimes
<1>5. F \in SUBSET Nat /\ IsFiniteSet(F)
  BY <1>1, FS_Subset DEF NewestTimes
<1> HIDE DEF F, newest
<1>6. /\ DOMAIN points = 1 .. Cardinality(F) /\ Cardinality(F) \in Nat
      /\ \A i \in DOMAIN points :
             /\ points[i].time \in F
             /\ points[i] = [time |-> points[i].time, quote |-> table[points[i].time]]
      /\ \A i, j \in DOMAIN points : i < j => points[i].time > points[j].time
      /\ \A t \in F : \E i \in DOMAIN points : points[i].time = t
  BY <1>4, <1>5, ReversedRows
<1> HIDE DEF points
<1>7. Carries(points, table, F)
  <2>1. L \subseteq F
    BY DEF LastOfDays
  <2>2. QED
    BY <1>6, <2>1 DEF Carries
<1>8. KeepsLast(points, kept)
  <2>1. \A t \in F : t \in Nat
    BY <1>5
  <2>2. \A i \in 1 .. Cardinality(F) : points[i].time \in Nat
    BY <1>6, <2>1
  <2>3. \A i, j \in 1 .. Cardinality(F) : i < j => points[i].time > points[j].time
    BY <1>6
  <2>4. QED
    BY <1>6, <2>2, <2>3, NeverKeepsLast
<1> HIDE DEF kept
<1>9. ListsRows(Series(kept), table, L)
  BY <1>5, <1>7, <1>8, SeriesOfLastRows
<1>10. L \in SUBSET Nat
  BY <1>5 DEF LastOfDays
<1>11. PlanTimes(T) = {t \in L : Cardinality({u \in L : u > t}) < PlanWindow}
  BY DEF PlanTimes, F
<1> HIDE DEF L
<1>12. ListsRows(list, table, PlanTimes(T))
  BY <1>9, <1>10, <1>11, LastListed, PlanAssumption
<1>13. PlanDays(table) = Reverse(list)
  BY DEF PlanDays, list, kept, points, newest
<1> HIDE DEF list
<1>14. QED
  BY <1>12, <1>13 DEF T

\* They are points with quotes.
LEMMA PlanDaysType ==
    ASSUME NEW table, IsRows(table)
    PROVE  /\ PlanDays(table) \in Seq(Points)
           /\ \A i \in DOMAIN PlanDays(table) :
                  /\ PlanDays(table)[i].time \in PlanTimes(DOMAIN table)
                  /\ PlanDays(table)[i].quote = table[PlanDays(table)[i].time]
           /\ \A t \in PlanTimes(DOMAIN table) :
                  \E i \in DOMAIN PlanDays(table) : PlanDays(table)[i].time = t
           /\ PlanTimes(DOMAIN table) \in SUBSET DOMAIN table
<1> DEFINE T == DOMAIN table
           P == PlanTimes(T)
           days == PlanDays(table)
<1>1. IsTable(table) /\ T \in SUBSET Nat
  BY RowsType
<1>2. P \in SUBSET T
  BY DEF PlanTimes, NewestTimes, LastOfDays
<1>3. PICK list : ListsRows(list, table, P) /\ days = Reverse(list)
  BY <1>1, PlanDaysListed
<1> HIDE DEF P, days
<1>4. P \in SUBSET Nat
  BY <1>1, <1>2
<1>5. /\ DOMAIN days = 1 .. Cardinality(P) /\ Cardinality(P) \in Nat
      /\ days \in Seq(Range(list)) /\ Len(days) = Cardinality(P)
      /\ \A i \in DOMAIN days :
             days[i].time \in P /\ days[i] = [time |-> days[i].time, quote |-> table[days[i].time]]
      /\ \A t \in P : \E i \in DOMAIN days : days[i].time = t
  BY <1>3, <1>4, ReversedRows
<1>6. \A i \in DOMAIN days : days[i] \in Points /\ days[i].quote = table[days[i].time]
  <2>1. SUFFICES ASSUME NEW i \in DOMAIN days
                 PROVE  days[i] \in Points /\ days[i].quote = table[days[i].time]
    OBVIOUS
  <2>2. PICK t \in P : days[i] = [time |-> t, quote |-> table[t]]
    BY <1>5
  <2>3. t \in Nat /\ table[t] \in Quotes
    BY <1>2, <1>4 DEF IsRows
  <2>4. QED
    BY <2>2, <2>3 DEF Points
<1>7. days \in Seq(Points)
  <2>1. PICK k \in Nat : DOMAIN days = 1 .. k /\ Len(days) = k
    BY <1>5
  <2>2. \A i \in 1 .. k : days[i] \in Points
    BY <1>6, <2>1
  <2>3. days = [i \in 1 .. k |-> days[i]]
    BY <1>5, <2>1
  <2>4. QED
    BY <2>2, <2>3
<1>8. QED
  BY <1>2, <1>5, <1>6, <1>7 DEF P, days

\* Over the days of every reachable table a quote that is cheaper with the same premium and spread
\* never lowers the exposure that buildPlanFromDailyMetrics suggests, and a dearer premium alone
\* never raises it, however a fall of exactly a level is rounded.
THEOREM PlanIsMonotoneAlways == Spec => []PlanIsMonotone
<1>1. ASSUME Stored
      PROVE  PlanIsMonotone
  <2> DEFINE days == PlanDays(metrics)
             With(q) == [days EXCEPT ![1].quote = q]
  <2>1. days \in Seq(Points)
    BY <1>1, PlanDaysType DEF Stored
  <2>2. \A q : With(q) = Today(days, q)
    BY DEF Today
  <2>3. \A q \in Hypothetical : q \in Quotes
    BY HistoryAssumption DEF Quotes
  <2> HIDE DEF days
  <2>4. ASSUME days # <<>>, NEW p \in Hypothetical, NEW q \in Hypothetical,
               NEW a \in BOOLEAN, NEW b \in BOOLEAN,
               \/ SameSpread(p, q) /\ p.premium = q.premium /\ Middle(p) < Middle(q)
               \/ p.buy = q.buy /\ p.sell = q.sell /\ p.premium < q.premium /\ a = b
        PROVE  Plan(With(p), a).exposure >= Plan(With(q), b).exposure
    <3>1. Plan(Today(days, p), a).exposure >= Plan(Today(days, q), b).exposure
      BY <2>1, <2>3, <2>4, PlanNeverBuysDearer
    <3>2. With(p) = Today(days, p) /\ With(q) = Today(days, q)
      BY <2>2
    <3> HIDE DEF With
    <3>3. QED
      BY <3>1, <3>2
  <2>5. QED
    BY <2>4 DEF PlanIsMonotone, days
<1>2. QED
  BY <1>1, StoredAlways, PTL

-----------------------------------------------------------------------------
(* The window of the plan *)

\* The last days with rows, and their rows.
WindowDays(T) ==
    LET recorded == {Day(t) : t \in T}
    IN  {d \in recorded : Cardinality({e \in recorded : e > d}) < PlanWindow}
WindowTimes(T) == {t \in T : Day(t) \in WindowDays(T)}

\* A member above one of the window is of the window.
LEMMA WindowGrows ==
    ASSUME NEW T \in SUBSET Nat, IsFiniteSet(T), NEW s \in T, NEW t \in WindowTimes(T), s >= t
    PROVE  s \in WindowTimes(T)
<1> DEFINE recorded == {Day(u) : u \in T}
           above(d) == {e \in recorded : e > d}
<1>1. s \in Nat /\ t \in T /\ t \in Nat /\ Day(t) \in recorded /\ Day(s) \in recorded
  BY DEF WindowTimes
<1>2. Day(s) \in Nat /\ Day(t) \in Nat /\ Day(t) <= Day(s)
  <2>1. Day(s) \in Nat /\ Day(t) \in Nat /\ (Day(s) < Day(t) => s < t)
    BY <1>1, DaysInOrder
  <2>2. QED
    BY <1>1, <2>1
<1>3. IsFiniteSet(recorded) /\ \A e \in recorded : e \in Nat
  <2>1. IsFiniteSet(recorded)
    BY DaysCounted
  <2>2. ASSUME NEW u \in T
        PROVE  Day(u) \in Nat
    BY DaysInOrder
  <2>3. QED
    BY <2>1, <2>2
<1>4. Cardinality(above(Day(t))) < PlanWindow
  BY DEF WindowTimes, WindowDays
<1> HIDE DEF recorded
<1>5. above(Day(s)) \subseteq above(Day(t))
  BY <1>2, <1>3
<1>6. IsFiniteSet(above(Day(t)))
  BY <1>3, FS_Subset
<1>7. Cardinality(above(Day(s))) < PlanWindow
  <2>1. /\ Cardinality(above(Day(s))) <= Cardinality(above(Day(t)))
        /\ Cardinality(above(Day(s))) \in Nat /\ Cardinality(above(Day(t))) \in Nat
    BY <1>5, <1>6, FS_Subset, FS_CardinalityType
  <2>2. QED
    BY <1>4, <2>1, PlanAssumption
<1>8. QED
  BY <1>1, <1>7 DEF WindowTimes, WindowDays, recorded

\* When the rows of the window fit into the query, the plan looks at the last of each of its days.
LEMMA PlanTimesAreLast ==
    ASSUME NEW T \in SUBSET Nat, IsFiniteSet(T), Cardinality(WindowTimes(T)) <= QueryRows
    PROVE  PlanTimes(T) = LastOfDays(WindowTimes(T))
<1> DEFINE F == NewestTimes(T)
           L == LastOfDays(F)
           O == WindowTimes(T)
           recorded == {Day(t) : t \in T}
           seen == {Day(t) : t \in F}
<1>1. O \in SUBSET T /\ F \in SUBSET T /\ IsFiniteSet(O) /\ IsFiniteSet(F)
  <2>1. O \in SUBSET T /\ F \in SUBSET T
    BY DEF WindowTimes, NewestTimes
  <2>2. QED
    BY <2>1, FS_Subset
<1>2. O \in SUBSET F
  <2>1. SUFFICES ASSUME NEW t \in O
                 PROVE  t \in F
    OBVIOUS
  <2>2. t \in T /\ t \in Nat
    BY <1>1
  <2>3. {u \in T : u > t} \subseteq O \ {t}
    <3>1. SUFFICES ASSUME NEW u \in T, u > t
                   PROVE  u \in O /\ u # t
      OBVIOUS
    <3>2. u \in Nat /\ u >= t /\ u # t
      BY <2>2, <3>1
    <3>3. QED
      BY <3>2, WindowGrows
  <2> HIDE DEF O
  <2>4. /\ IsFiniteSet(O \ {t}) /\ Cardinality(O \ {t}) = Cardinality(O) - 1
        /\ Cardinality(O) \in Nat
    BY <1>1, FS_RemoveElement, FS_CardinalityType
  <2>5. /\ Cardinality({u \in T : u > t}) <= Cardinality(O \ {t})
        /\ Cardinality({u \in T : u > t}) \in Nat
    BY <2>3, <2>4, FS_Subset, FS_CardinalityType
  <2>6. Cardinality(O) <= QueryRows /\ QueryRows \in Nat
    BY PlanAssumption DEF O
  <2>7. Cardinality({u \in T : u > t}) < QueryRows
    BY <2>4, <2>5, <2>6
  <2>8. QED
    BY <2>2, <2>7 DEF NewestTimes
<1>3. ASSUME NEW t \in F, NEW s \in T, s > t
      PROVE  s \in F
  <2>1. t \in Nat /\ s \in Nat
    BY <1>1
  <2>2. {u \in T : u > s} \subseteq {u \in T : u > t}
    <3>1. SUFFICES ASSUME NEW u \in T, u > s
                   PROVE  u > t
      OBVIOUS
    <3>2. u \in Nat
      OBVIOUS
    <3>3. QED
      BY <1>3, <2>1, <3>1, <3>2
  <2>3. IsFiniteSet({u \in T : u > t})
    BY FS_Subset
  <2>4. /\ Cardinality({u \in T : u > s}) <= Cardinality({u \in T : u > t})
        /\ Cardinality({u \in T : u > s}) \in Nat /\ Cardinality({u \in T : u > t}) \in Nat
    BY <2>2, <2>3, FS_Subset, FS_CardinalityType
  <2>5. Cardinality({u \in T : u > t}) < QueryRows
    BY DEF NewestTimes
  <2>6. Cardinality({u \in T : u > s}) < QueryRows
    BY <2>4, <2>5, PlanAssumption
  <2>7. QED
    BY <2>6 DEF NewestTimes
<1>4. ASSUME NEW t \in F
      PROVE  {e \in seen : e > Day(t)} = {e \in recorded : e > Day(t)}
  <2>1. ASSUME NEW s \in T, Day(s) > Day(t)
        PROVE  s \in F
    <3>1. s \in Nat /\ t \in Nat
      BY <1>1
    <3>2. Day(s) \in Nat /\ Day(t) \in Nat /\ (Day(t) < Day(s) => t < s)
      BY <3>1, DaysInOrder
    <3>3. s > t
      BY <2>1, <3>1, <3>2
    <3>4. QED
      BY <1>3, <3>3
  <2>2. \A s \in F : s \in T
    BY <1>1
  <2> HIDE DEF F
  <2>3. QED
    BY <2>1, <2>2
<1>5. \A t \in L : Cardinality({u \in L : u > t}) < PlanWindow <=> t \in O
  <2>1. SUFFICES ASSUME NEW t \in L
                 PROVE  Cardinality({u \in L : u > t}) < PlanWindow <=> t \in O
    OBVIOUS
  <2>2. F \in SUBSET Nat
    BY <1>1
  <2>3. t \in F /\ t \in T
    BY <1>1 DEF LastOfDays
  <2>4. Cardinality({u \in L : u > t}) = Cardinality({e \in seen : e > Day(t)})
    BY <1>1, <2>2, DaysAbove
  <2>5. Cardinality({u \in L : u > t}) = Cardinality({e \in recorded : e > Day(t)})
    BY <1>4, <2>3, <2>4
  <2>6. QED
    BY <2>3, <2>5 DEF WindowTimes, WindowDays
<1>6. PlanTimes(T) = {t \in L : t \in O}
  BY <1>5 DEF PlanTimes
<1>7. ASSUME NEW t \in L, t \in O
      PROVE  t \in LastOfDays(O)
  BY <1>2, <1>7 DEF LastOfDays
<1>8. ASSUME NEW t \in LastOfDays(O)
      PROVE  t \in L /\ t \in O
  <2>1. t \in O /\ t \in F /\ t \in T
    BY <1>1, <1>2 DEF LastOfDays
  <2>2. ASSUME NEW s \in F, s > t, Day(s) = Day(t)
        PROVE  FALSE
    <3>1. s \in T
      BY <1>1
    <3>2. s \in O
      BY <2>1, <2>2, <3>1 DEF WindowTimes
    <3>3. QED
      BY <2>2, <3>2 DEF LastOfDays
  <2>3. QED
    BY <2>1, <2>2 DEF LastOfDays
<1> HIDE DEF L, O
<1>9. QED
  BY <1>6, <1>7, <1>8 DEF O

\* In every reachable state the high a fall is measured from is the highest last quote of the last
\* days with rows, as long as the rows of these days fit into the query (market.service.ts:353).
THEOREM PlanSeesItsWindowAlways == Spec => []PlanSeesItsWindow
<1>1. ASSUME Stored
      PROVE  PlanSeesItsWindow
  <2> DEFINE T == DOMAIN metrics
             days == PlanDays(metrics)
  <2>1. SUFFICES ASSUME metrics # <<>>, Cardinality(WindowTimes(T)) <= QueryRows
                 PROVE  RollingHigh(days) = Max({Middle(metrics[t]) : t \in LastOfDays(WindowTimes(T))})
    BY DEF PlanSeesItsWindow, WindowTimes, WindowDays, LastOfDays
  <2>2. IsRows(metrics) /\ T \in SUBSET Nat /\ IsFiniteSet(T)
    BY <1>1, RowsType DEF Stored
  <2>3. PlanTimes(T) = LastOfDays(WindowTimes(T))
    BY <2>1, <2>2, PlanTimesAreLast
  <2>4. /\ \A i \in DOMAIN days : days[i].time \in PlanTimes(T) /\ days[i].quote = metrics[days[i].time]
        /\ \A t \in PlanTimes(T) : \E i \in DOMAIN days : days[i].time = t
    BY <2>2, PlanDaysType
  <2> HIDE DEF days, T
  <2>5. {Middle(days[i].quote) : i \in DOMAIN days} = {Middle(metrics[t]) : t \in PlanTimes(T)}
    <3>1. \A i \in DOMAIN days : \E t \in PlanTimes(T) : Middle(days[i].quote) = Middle(metrics[t])
      BY <2>4
    <3>2. \A t \in PlanTimes(T) : \E i \in DOMAIN days : Middle(days[i].quote) = Middle(metrics[t])
      BY <2>4
    <3>3. QED
      BY <3>1, <3>2
  <2>6. QED
    BY <2>3, <2>5 DEF RollingHigh
<1>2. QED
  BY <1>1, StoredAlways, PTL

-----------------------------------------------------------------------------
(* The histories of the snapshot and of the API *)

\* No row is of a later day than today, so that a history of Year days needs no cut and a chart ends
\* today.
NoLaterDays == \A t \in DOMAIN metrics \cup DOMAIN prices : Day(t) <= Day(clock)

\* A later time is of no earlier day.
LEMMA DaysKeepOrder ==
    ASSUME NEW s \in Nat, NEW t \in Nat, s <= t
    PROVE  Day(s) <= Day(t) /\ Day(s) \in Nat /\ Day(t) \in Nat
<1>1. Day(s) \in Nat /\ Day(t) \in Nat /\ (Day(t) < Day(s) => t < s)
  BY DaysInOrder
<1>2. QED
  BY <1>1

\* Every step keeps it: the ingestion dates a row now, and the scripts write days that have come.
LEMMA NoLaterDaysStep == Stored /\ NoLaterDays /\ [Next]_vars => NoLaterDays'
<1> DEFINE T == DOMAIN metrics \cup DOMAIN prices
<1>1. SUFFICES ASSUME Stored, NoLaterDays, [Next]_vars
               PROVE  NoLaterDays'
  OBVIOUS
<1>2. clock \in Nat /\ T \in SUBSET Nat
  BY <1>1, RowsType, SeriesAssumption DEF Stored, Times
<1>3. \A t \in T : Day(t) <= Day(clock) /\ Day(t) \in Nat
  BY <1>1, <1>2, DaysInOrder DEF NoLaterDays
\* A row of today or before is added.
<1>4. ASSUME NEW t \in Nat, T' = T \cup {t}, Day(t) <= Day(clock), clock' = clock
      PROVE  NoLaterDays'
  BY <1>3, <1>4 DEF NoLaterDays
<1>5. CASE Tick
  <2>1. clock' = clock + 1 /\ T' = T
    BY <1>5 DEF Tick
  <2>2. Day(clock) <= Day(clock + 1) /\ Day(clock) \in Nat /\ Day(clock + 1) \in Nat
    BY <1>2, DaysKeepOrder
  <2>3. \A t \in T : Day(t) <= Day(clock + 1)
    BY <1>3, <2>2
  <2>4. QED
    BY <2>1, <2>3 DEF NoLaterDays
<1>6. CASE \E fresh \in BOOLEAN : Ingest(fresh)
  <2>1. T' = T \cup {clock} /\ clock' = clock
    BY <1>6 DEF Ingest, Put
  <2>2. Day(clock) <= Day(clock)
    BY <1>2, DaysKeepOrder
  <2>3. QED
    BY <1>2, <1>4, <2>1, <2>2
<1>7. CASE Calculate
  <2>1. inputs # None /\ T' = T \cup {inputs} /\ clock' = clock
    BY <1>7 DEF Calculate, Put
  <2>2. inputs \in Nat /\ inputs <= clock
    BY <1>1, <2>1, SeriesAssumption DEF Stored, Times
  <2>3. Day(inputs) <= Day(clock)
    BY <1>2, <2>2, DaysKeepOrder
  <2>4. QED
    BY <1>4, <2>1, <2>2, <2>3
<1>8. ASSUME NEW day \in 0 .. Day(clock), BackfillPrice(day) \/ BackfillMetric(day)
      PROVE  NoLaterDays'
  <2>1. (T' = T \/ T' = T \cup {Noon(day)}) /\ clock' = clock
    BY <1>8 DEF BackfillPrice, BackfillMetric, Put
  <2>2. Day(clock) \in Nat
    BY <1>2, DaysInOrder
  <2>3. day \in Nat /\ day <= Day(clock)
    BY <2>2
  <2>4. Noon(day) \in Nat /\ Day(Noon(day)) <= Day(clock)
    BY <2>3, NoonOfDay
  <2>5. CASE T' = T
    BY <1>3, <2>1, <2>5 DEF NoLaterDays
  <2>6. CASE T' = T \cup {Noon(day)}
    BY <1>4, <2>1, <2>4, <2>6
  <2>7. QED
    BY <2>1, <2>5, <2>6
<1>9. CASE UNCHANGED <<clock, metrics, prices>>
  BY <1>1, <1>9 DEF NoLaterDays
<1>10. QED
  <2>1. CASE Signal \/ Publish \/ Expire
    BY <1>9, <2>1 DEF Signal, Publish, Expire
  <2>2. CASE UNCHANGED vars
    BY <1>9, <2>2 DEF vars
  <2>3. QED
    BY <1>1, <1>5, <1>6, <1>7, <1>8, <2>1, <2>2 DEF Next

\* No row of domestic_gold_prices and gold_metrics is dated after today: not those of the pipeline,
\* and not those of a backfill, which may lie at a noon to come.
THEOREM NoLaterDaysAlways == Spec => []NoLaterDays
<1>1. Init => NoLaterDays
  BY DEF Init, NoLaterDays
<1>2. QED
  BY <1>1, NoLaterDaysStep, StoredAlways, PTL DEF Spec

\* In every reachable state the API shows the same days with and without the snapshot, and the same
\* row of each but of the past days with a backfilled row, where it alone shows that one.
THEOREM HistoriesAgreeAlways == Spec => []HistoriesAgree
<1>1. ASSUME Stored, NoLaterDays
      PROVE  HistoriesAgree
  <2>1. IsTable(metrics) /\ clock \in Nat /\ Year \in Nat \ {0}
    BY <1>1, RowsType, SeriesAssumption, HistoryAssumption DEF Stored, Times
  <2>2. \A t \in DOMAIN metrics : Day(t) <= Day(clock)
    BY <1>1 DEF NoLaterDays
  <2>3. HistoriesMatch(metrics, clock, Year)
    BY <2>1, <2>2, HistoriesOfTable
  <2>4. QED
    BY <2>3, Zenon DEF HistoriesMatch, HistoriesAgree
<1>2. QED
  BY <1>1, StoredAlways, NoLaterDaysAlways, PTL

-----------------------------------------------------------------------------
(* The replay agrees *)

\* A row a day, all of them of the window: the rows a calculation that saw them all has ranked.
Single ==
    /\ whole /\ calc # None
    /\ \A s, t \in DOMAIN metrics : Day(s) = Day(t) => s = t
    /\ \A t \in DOMAIN metrics : t <= calc.time /\ t >= calc.time - Window * DayTicks

PastTimes == DOMAIN metrics \ {calc.time}

\* What such a calculation stored is the rank among all the other rows.
RankKept ==
    Single =>
        /\ PastTimes = {} => calc.percentile = None
        /\ PastTimes # {} =>
              calc.percentile =
                  [below |-> Cardinality({t \in PastTimes :
                                             metrics[t].premium <= metrics[calc.time].premium}),
                   size  |-> Cardinality(PastTimes)]

\* And the momentum is that of the prices before its time, whatever has been ingested since.
MomentumKept ==
    whole /\ calc # None =>
        calc.momentum = Momentum({t \in DOMAIN prices : t < calc.time}, MomentumDays, calc.time)

\* The rows behind the history are rows of the table, if not always its figures.
LEMMA SourceWithin ==
    ASSUME Stored
    PROVE  DOMAIN Source \in SUBSET DOMAIN metrics
  BY DEF Stored, Source

\* A calculation makes it so.
LEMMA CalculateRanks ==
    ASSUME Stored, HistoryCarries, Calculate, Single'
    PROVE  RankKept'
<1> DEFINE T == DOMAIN Source
           P == DOMAIN metrics' \ {inputs}
           p == Percentile(History, inputs, Current.premium)
<1>1. /\ inputs # None /\ prices # <<>> /\ metrics' = Put(metrics, inputs, Current)
      /\ calc'.time = inputs /\ calc'.percentile = p /\ whole' = SeesEveryRow
  BY DEF Calculate, Current
<1>2. inputs \in Nat /\ Current \in Quotes
  BY <1>1, CurrentType, SeriesAssumption DEF Times
<1>3. /\ DOMAIN metrics' = DOMAIN metrics \cup {inputs} /\ metrics'[inputs] = Current
      /\ \A t \in DOMAIN metrics : t # inputs => metrics'[t] = metrics[t]
  BY <1>1 DEF Put
<1>4. T \in SUBSET DOMAIN metrics /\ T \in SUBSET Nat /\ IsFiniteSet(T) /\ DOMAIN metrics \in SUBSET Nat
  BY SourceWithin, SourceCarried, RowsType DEF Stored
<1>5. /\ whole'
      /\ \A s, t \in DOMAIN metrics' : Day(s) = Day(t) => s = t
      /\ \A t \in DOMAIN metrics' : t <= inputs /\ t >= inputs - Window * DayTicks
  BY <1>1 DEF Single
<1>6. ASSUME NEW t \in P
      PROVE  t \in T /\ Source[t] = metrics'[t] /\ Day(t) < Day(inputs)
  <2>1. t \in DOMAIN metrics /\ t # inputs /\ t \in Nat
    BY <1>3, <1>4
  <2>2. t <= inputs /\ t >= inputs - Window * DayTicks /\ Day(t) # Day(inputs)
    BY <1>3, <1>5, <2>1
  <2>3. Day(t) < Day(inputs)
    <3>1. Day(t) <= Day(inputs) /\ Day(t) \in Nat /\ Day(inputs) \in Nat
      BY <1>2, <2>1, <2>2, DaysKeepOrder
    <3>2. QED
      BY <2>2, <3>1
  <2>4. t \in T /\ Source[t] = metrics[t]
    BY <1>1, <1>5, <2>1, <2>2, <2>3 DEF SeesEveryRow
  <2>5. QED
    BY <1>3, <2>1, <2>3, <2>4
<1>7. RankedTimes(T, inputs) = {t \in T : Day(t) < Day(inputs)}
  <2>1. /\ \A s, t \in T : Day(s) = Day(t) => s = t
        /\ \A t \in T : t >= inputs - Window * DayTicks
    BY <1>3, <1>4, <1>5
  <2> HIDE DEF T
  <2>2. QED
    BY <1>2, <1>4, <2>1, AllAreRanked
<1>8. {t \in T : Day(t) < Day(inputs)} = P
  <2>1. ASSUME NEW t \in T, Day(t) < Day(inputs)
        PROVE  t \in P
    <3>1. t # inputs
      <4>1. Day(inputs) \in Nat
        BY <1>2, DaysInOrder
      <4>2. QED
        BY <2>1, <4>1
    <3>2. QED
      BY <1>3, <1>4, <3>1
  <2> HIDE DEF T, P
  <2>2. QED
    BY <1>6, <2>1
<1>9. /\ P = {} => p = None
      /\ P # {} => p = [below |-> Cardinality({t \in P : Source[t].premium <= Current.premium}),
                        size  |-> Cardinality(P)]
  <2> HIDE DEF P, T, p
  <2>1. RankedTimes(T, inputs) = P
    BY <1>7, <1>8
  <2>2. QED
    BY <1>2, <2>1, PercentileOfRows DEF p, T
<1>10. {t \in P : Source[t].premium <= Current.premium} = {t \in P : metrics'[t].premium <= Current.premium}
  <2> HIDE DEF P
  <2>1. QED
    BY <1>6
<1> HIDE DEF p
<1>11. /\ PastTimes' = P /\ metrics'[calc'.time] = Current /\ calc'.percentile = p
  BY <1>1, <1>3 DEF PastTimes
<1> HIDE DEF P
<1>12. /\ P = {} => calc'.percentile = None
       /\ P # {} => calc'.percentile =
              [below |-> Cardinality({t \in P : metrics'[t].premium <= metrics'[calc'.time].premium}),
               size  |-> Cardinality(P)]
  BY <1>9, <1>10, <1>11
<1>13. QED
  BY <1>11, <1>12 DEF RankKept

\* Every step keeps both: a calculation sets them, and a row written after it ends their premise.
LEMMA KeptStep ==
    Stored /\ HistoryCarries /\ RankKept /\ MomentumKept /\ [Next]_vars => RankKept' /\ MomentumKept'
<1>1. SUFFICES ASSUME Stored, HistoryCarries, RankKept, MomentumKept, [Next]_vars
               PROVE  RankKept' /\ MomentumKept'
  OBVIOUS
<1>2. DOMAIN prices \in SUBSET Nat /\ clock \in Nat
  BY <1>1, RowsType, SeriesAssumption DEF Stored, Times
<1>3. CASE Calculate
  <2>1. RankKept'
    BY <1>1, <1>3, CalculateRanks DEF RankKept
  <2>2. MomentumKept'
    <3>1. /\ calc'.time = inputs /\ calc'.momentum = Momentum(DOMAIN prices, MomentumDays, inputs)
          /\ prices' = prices
      BY <1>3 DEF Calculate
    <3>2. inputs \in Nat
      BY <1>1, <1>3, CurrentType, SeriesAssumption DEF Calculate, Times
    <3>3. Momentum(DOMAIN prices, MomentumDays, inputs) =
              Momentum({t \in DOMAIN prices : t < inputs}, MomentumDays, inputs)
      BY <1>2, <3>2, MomentumOfEarlier, HistoryAssumption
    <3>4. QED
      BY <3>1, <3>3 DEF MomentumKept
  <2>3. QED
    BY <2>1, <2>2
<1>4. CASE \E fresh \in BOOLEAN : Ingest(fresh)
  <2>1. /\ DOMAIN prices' = DOMAIN prices \cup {clock}
        /\ calc' = calc /\ metrics' = metrics /\ whole' = whole
    BY <1>4 DEF Ingest, Put
  <2>2. RankKept'
    BY <1>1, <2>1 DEF RankKept, Single, PastTimes
  <2>3. ASSUME whole, calc # None
        PROVE  {t \in DOMAIN prices' : t < calc.time} = {t \in DOMAIN prices : t < calc.time}
    <3>1. calc.time <= clock /\ calc.time \in Nat
      BY <1>1, <2>3, RowsType DEF Stored
    <3>2. ~ clock < calc.time
      BY <1>2, <3>1
    <3>3. QED
      BY <2>1, <3>2
  <2>4. MomentumKept'
    BY <1>1, <2>1, <2>3 DEF MomentumKept
  <2>5. QED
    BY <2>2, <2>4
<1>5. CASE ~ whole'
  BY <1>5 DEF RankKept, MomentumKept, Single
<1>6. CASE UNCHANGED <<prices, metrics, calc, whole>>
  BY <1>1, <1>6 DEF RankKept, MomentumKept, Single, PastTimes
<1>7. QED
  <2>1. CASE Tick
    BY <1>6, <2>1 DEF Tick
  <2>2. CASE Signal \/ Publish \/ Expire
    BY <1>6, <2>2 DEF Signal, Publish, Expire
  <2>3. CASE \E day \in 0 .. Day(clock) : BackfillPrice(day) \/ BackfillMetric(day)
    BY <1>5, <2>3 DEF BackfillPrice, BackfillMetric
  <2>4. CASE UNCHANGED vars
    BY <1>6, <2>4 DEF vars
  <2>5. QED
    BY <1>1, <1>3, <1>4, <2>1, <2>2, <2>3, <2>4 DEF Next

\* As long as no backfill has come, what the last calculation stored is the rank among the other
\* rows, when these are one a day and of the window, and the momentum of the prices before it.
THEOREM KeptAlways == Spec => [](RankKept /\ MomentumKept)
<1>1. Init => RankKept /\ MomentumKept
  BY DEF Init, RankKept, MomentumKept, Single
<1>2. QED
  BY <1>1, KeptStep, StoredAlways, HistoryCarriesAlways, PTL DEF Spec

\* In every reachable state the percentile and the momentum of the pipeline are those that the replay
\* computes from the stored rows, and the position of the chart counts the day itself besides,
\* wherever the rows are one a day.
THEOREM RanksAgreeAlways == Spec => []RanksAgree
<1>1. ASSUME Stored, RankKept, MomentumKept
      PROVE  RanksAgree
  <2> DEFINE now == calc.time
             T == DOMAIN metrics
             P == PastTimes
             current == metrics[calc.time]
             history == SnapshotHistory(metrics, clock, Year)
             NotAbove(S) == {t \in S : metrics[t].premium <= current.premium}
  <2>1. SUFFICES ASSUME Plain
                 PROVE  /\ calc.percentile = ReplayPercentile(metrics, now)
                        /\ calc.momentum = ReplayMomentum(metrics, MomentumDays, now)
                        /\ Len(history) = Cardinality(T) /\ calc.percentile # None
                              => ChartPosition(history, current) =
                                    [below |-> calc.percentile.below + 1, size |-> calc.percentile.size + 1]
    BY DEF RanksAgree
  <2>2. Single /\ calc # None /\ whole
    BY <2>1 DEF Plain, Single
  <2>3. /\ IsTable(metrics) /\ IsRows(metrics) /\ T \in SUBSET Nat /\ IsFiniteSet(T)
        /\ now \in T /\ now \in Nat /\ clock \in Nat
    BY <1>1, <2>2, RowsType, SeriesAssumption DEF Stored, Times
  <2>4. /\ \A s, t \in T : Day(s) = Day(t) => s = t
        /\ \A t \in T : t <= now /\ t >= now - Window * DayTicks
    BY <2>2 DEF Single
  <2>5. P = {t \in T : t < now} /\ P = {t \in T : t < now /\ t >= now - Window * DayTicks}
    <3>1. \A t \in T : t # now <=> t < now
      BY <2>3, <2>4
    <3>2. QED
      BY <2>4, <3>1 DEF PastTimes
  <2>6. /\ P = {} => calc.percentile = None
        /\ P # {} => calc.percentile = [below |-> Cardinality(NotAbove(P)), size |-> Cardinality(P)]
    BY <1>1, <2>2 DEF RankKept
  <2>7. calc.percentile = ReplayPercentile(metrics, now)
    <3>1. /\ P = {} => ReplayPercentile(metrics, now) = None
          /\ P # {} => ReplayPercentile(metrics, now) =
                 [below |-> Cardinality({t \in P : metrics[t].premium <= metrics[now].premium}),
                  size  |-> Cardinality(P)]
      <4>1. /\ IsTable(metrics) /\ now \in Nat
            /\ P = {t \in DOMAIN metrics : t < now /\ t >= now - Window * DayTicks}
        BY <2>3, <2>5
      <4> HIDE DEF P, now
      <4>2. QED
        BY <4>1, ReplayRanks
    <3> HIDE DEF P, now
    <3>2. metrics[now] = current
      BY DEF now
    <3>3. QED
      BY <2>6, <3>1, <3>2
  <2>8. calc.momentum = ReplayMomentum(metrics, MomentumDays, now)
    <3>1. {t \in DOMAIN prices : t < now} = P
      BY <2>1 DEF Plain, PastTimes
    <3>2. calc.momentum = Momentum(P, MomentumDays, now)
      BY <1>1, <2>2, <3>1 DEF MomentumKept
    <3> HIDE DEF P, now
    <3>3. ReplayMomentum(metrics, MomentumDays, now) = Momentum(P, MomentumDays, now)
      BY <2>3, <2>5, ReplayFindsMomentum, HistoryAssumption
    <3>4. QED
      BY <3>2, <3>3
  <2>9. ASSUME Len(history) = Cardinality(T), calc.percentile # None
        PROVE  ChartPosition(history, current) =
                   [below |-> calc.percentile.below + 1, size |-> calc.percentile.size + 1]
    <3> DEFINE from == RangeStart(clock, Year)
               F == {t \in T : t >= from}
    <3>1. from \in Int
      BY <1>1, StartsType DEF Stored
    <3>2. ListsRows(history, metrics, LastOfDays(F))
      BY <2>3, <3>1, HistoryListed DEF SnapshotHistory
    <3>3. LastOfDays(F) \in SUBSET T
      BY DEF LastOfDays
    <3> HIDE DEF F, T, history, now, P, current
    <3>4. LastOfDays(F) = T
      <4>1. Cardinality(LastOfDays(F)) = Cardinality(T)
        BY <2>9, <3>2 DEF ListsRows
      <4>2. QED
        BY <2>3, <3>3, <4>1, FS_Subset
    <3>5. Max(T) = now
      <4>1. Max(T) \in T /\ now <= Max(T)
        BY <2>3, GreatestOfFinite
      <4>2. Max(T) <= now /\ Max(T) \in Nat
        BY <2>3, <2>4, <4>1
      <4>3. QED
        BY <2>3, <4>1, <4>2
    <3>6. ChartPosition(history, current) = [below |-> Cardinality(NotAbove(T)), size |-> Cardinality(T)]
      <4>1. ChartPosition(history, metrics[Max(T)]) =
                [below |-> Cardinality({t \in T : metrics[t].premium <= metrics[Max(T)].premium}),
                 size  |-> Cardinality(T)]
        BY <2>3, <2>4, <3>2, <3>4, ChartOfList
      <4>2. metrics[Max(T)] = current
        BY <3>5 DEF now, current
      <4>3. QED
        BY <4>1, <4>2
    <3>7. T = P \cup {now} /\ now \notin P
      BY <2>3 DEF PastTimes, P, now, T
    <3>8. NotAbove(T) = NotAbove(P) \cup {now} /\ now \notin NotAbove(P)
      <4>1. metrics[now].premium <= current.premium
        <5>1. metrics[now] = current
          BY DEF now, current
        <5>2. metrics[now].premium \in Int
          BY <2>3 DEF IsRows, Quotes, T
        <5>3. QED
          BY <5>1, <5>2
      <4>2. QED
        BY <3>7, <4>1
    <3>9. IsFiniteSet(P) /\ IsFiniteSet(NotAbove(P))
      <4>1. P \subseteq T
        BY <3>7
      <4>2. QED
        BY <2>3, <4>1, FS_Subset
    <3> HIDE DEF NotAbove
    <3>10. /\ Cardinality(T) = Cardinality(P) + 1
           /\ Cardinality(NotAbove(T)) = Cardinality(NotAbove(P)) + 1
      BY <3>7, <3>8, <3>9, FS_AddElement
    <3>11. calc.percentile = [below |-> Cardinality(NotAbove(P)), size |-> Cardinality(P)]
      BY <2>6, <2>9
    <3>12. QED
      BY <3>6, <3>10, <3>11
  <2>10. QED
    BY <2>7, <2>8, <2>9
<1>2. QED
  BY <1>1, StoredAlways, KeptAlways, PTL

-----------------------------------------------------------------------------
(* The charts *)

\* The ticks of the last days and their daily values.
LEMMA TicksAreDaily ==
    ASSUME Stored, NoLaterDays
    PROVE  \E n \in Nat : ValuesAreDaily(DailyValues(TickHistory(prices, clock, Year)), n, Day(clock))
<1> DEFINE from == clock - Year * DayTicks
           F == {t \in DOMAIN prices : t >= from}
           S == LastOfDays(F)
           points == TickHistory(prices, clock, Year)
<1>1. IsTable(prices) /\ IsRows(prices) /\ clock \in Nat
  BY RowsType, SeriesAssumption DEF Stored, Times
<1>2. from \in Int
  <2>1. Year * DayTicks \in Int
    BY SeriesAssumption, HistoryAssumption
  <2>2. QED
    BY <1>1, <2>1
<1>3. F \in SUBSET Nat /\ IsFiniteSet(F) /\ F \in SUBSET DOMAIN prices
  BY <1>1, FS_Subset DEF IsTable
<1> HIDE DEF from
<1>4. ListsRows(points, prices, S)
  BY <1>1, <1>2, HistoryListed DEF TickHistory, from
<1> HIDE DEF F, points
<1>5. /\ S \in SUBSET F /\ IsFiniteSet(S)
      /\ \A t, u \in S : Day(t) = Day(u) => t = u
  BY <1>3, LastOfEveryDay
<1> HIDE DEF S
<1>6. \A t \in S : prices[t].sell \in Nat /\ Day(t) <= Day(clock)
  BY <1>1, <1>3, <1>5 DEF IsRows, Quotes, NoLaterDays
<1>7. S \in SUBSET Nat
  BY <1>3, <1>5
<1>8. ValuesAreDaily(DailyValues(points), Cardinality(S), Day(clock))
  BY <1>4, <1>5, <1>6, <1>7, ValuesOfRows
<1>9. Cardinality(S) \in Nat
  BY <1>5, FS_CardinalityType
<1>10. QED
  BY <1>8, <1>9 DEF points

\* In every reachable state a chart with the live quote in its place has one entry a day in order,
\* ends today with that quote, counts each change from the entry before, and spans all prices of
\* each of its days (factor-history.ts, getDailyHistory).
THEOREM ChartIsDailyAlways == Spec => []ChartIsDaily
<1>1. ASSUME Stored, NoLaterDays
      PROVE  ChartIsDaily
  <2> DEFINE today == Day(clock)
             F == {t \in DOMAIN prices : t >= RangeStart(clock, Year)}
             values(live) == WithLiveValue(DailyValues(TickHistory(prices, clock, Year)), today, live.sell)
             candles(live) == WithLivePrice(DailyPrices(prices, clock, Year), today, live)
  <2>1. IsTable(prices) /\ IsRows(prices) /\ clock \in Nat /\ Year \in Nat
    BY <1>1, RowsType, SeriesAssumption, HistoryAssumption DEF Stored, Times
  <2>2. today \in Nat
    BY <2>1, DaysInOrder
  <2>3. \A live \in Hypothetical : live.buy \in Nat /\ live.sell \in Nat
    BY HistoryAssumption
  <2>4. PICK n \in Nat : ValuesAreDaily(DailyValues(TickHistory(prices, clock, Year)), n, today)
    BY <1>1, TicksAreDaily
  <2>5. PICK m \in Nat : PricesAreDaily(DailyPrices(prices, clock, Year), m, today, prices, F)
    <3>1. \A t \in F : prices[t].buy \in Nat /\ prices[t].sell \in Nat /\ Day(t) <= today
      BY <1>1, <2>1 DEF IsRows, Quotes, NoLaterDays
    <3>2. PricesAreDaily(DailyPrices(prices, clock, Year), Cardinality(LastOfDays(F)), today, prices, F)
      <4> HIDE DEF today
      <4>1. QED
        BY <2>1, <3>1, PricesOfRows
    <3>3. Cardinality(LastOfDays(F)) \in Nat
      <4>1. F \in SUBSET Nat /\ IsFiniteSet(F)
        BY <2>1, FS_Subset DEF IsTable
      <4> HIDE DEF F
      <4>2. QED
        BY <4>1, LastOfEveryDay, FS_CardinalityType
    <3>4. QED
      BY <3>2, <3>3
  <2> HIDE DEF today, F
  <2>6. ASSUME NEW live \in Hypothetical
        PROVE  /\ LiveValuesAreDaily(values(live), today, live.sell)
               /\ LivePricesAreDaily(candles(live), today, live, prices, F)
    BY <2>2, <2>3, <2>4, <2>5, LiveValues, LivePrices
  <2> HIDE DEF values, candles
  <2>7. ASSUME NEW live \in Hypothetical
        PROVE  LET v == values(live)
                   c == candles(live)
               IN  /\ Ascends(v) /\ Last(v).date = today /\ Last(v).value = live.sell
                   /\ \A i \in 2 .. Len(v) : v[i].change = v[i].value - v[i - 1].value
                   /\ Ascends(c) /\ Last(c).date = today /\ Last(c).close = live.sell
                   /\ \A i \in DOMAIN c : {c[i].open, c[i].buyClose, c[i].close} \subseteq c[i].low .. c[i].high
                   /\ \A t \in DOMAIN prices :
                          Day(t) = today /\ t >= RangeStart(clock, Year)
                              => {prices[t].buy, prices[t].sell} \subseteq Last(c).low .. Last(c).high
    <3> DEFINE v == values(live)
               c == candles(live)
    <3>1. LiveValuesAreDaily(v, today, live.sell) /\ LivePricesAreDaily(c, today, live, prices, F)
      BY <2>6
    <3> HIDE DEF v, c
    <3>2. /\ Ascends(v) /\ Last(v).date = today /\ Last(v).value = live.sell
          /\ \A i \in 2 .. Len(v) : v[i].change = v[i].value - v[i - 1].value
      BY <3>1 DEF LiveValuesAreDaily, DatesAscend, Ascends
    <3>3. Ascends(c) /\ Last(c).date = today /\ Last(c).close = live.sell
      BY <3>1 DEF LivePricesAreDaily, DatesAscend, Ascends
    <3>4. \A i \in DOMAIN c : {c[i].open, c[i].buyClose, c[i].close} \subseteq c[i].low .. c[i].high
      BY <3>1 DEF LivePricesAreDaily, Spans
    <3>5. \A t \in DOMAIN prices :
              Day(t) = today /\ t >= RangeStart(clock, Year)
                  => {prices[t].buy, prices[t].sell} \subseteq Last(c).low .. Last(c).high
      <4>1. \A t \in DOMAIN prices : t >= RangeStart(clock, Year) => t \in F
        BY DEF F
      <4>2. QED
        BY <3>1, <4>1 DEF LivePricesAreDaily, Spans
    <3>6. QED
      BY <3>2, <3>3, <3>4, <3>5 DEF v, c
  <2>8. QED
    BY <2>7 DEF ChartIsDaily, values, candles, today
<1>2. QED
  BY <1>1, StoredAlways, NoLaterDaysAlways, PTL
=============================================================================
