---------------------------- MODULE DailyHistory ----------------------------
(***************************************************************************)
(* The history of one product over the days: the ingestion appends price   *)
(* rows, calculateLatestMetrics ranks the latest quote and stores a row of *)
(* gold_metrics, generateSignals and publishMarketSnapshot count the       *)
(* sample, the snapshot carries a year of history that the next            *)
(* calculation ranks in, and the two backfill scripts write rows at noon   *)
(* of past days, one at a time.                                            *)
(*                                                                         *)
(* The tables only grow: prices and metrics are functions from times to    *)
(* quotes.  The world momentum is the domestic one over other rows.        *)
(***************************************************************************)
EXTENDS DrawdownPlan

CONSTANTS
    Year,          \* the 365 days of the longest history in a snapshot
    MomentumDays,  \* the days of the momentum, 7
    Course,        \* the market: buy, sell and world price at each time
    Backfilled,    \* the prices in the files the scripts read
    Hypothetical,  \* quotes with premiums, to compare plans and as live quotes
    MaxRows,       \* bound: rows that are ingested
    MaxBackfills   \* bound: rows the scripts write

ASSUME HistoryAssumption ==
    /\ Year \in Nat /\ Year >= Window /\ MomentumDays \in Nat \ {0} /\ MaxRows \in Nat
    /\ MaxBackfills \in Nat
    /\ DOMAIN Course = Times
    /\ \A x \in Range(Course) \cup {Backfilled} :
            /\ x.buy \in Nat \ {0} /\ x.sell \in Nat \ {0} /\ x.world \in Int
            /\ x.buy <= x.sell
    /\ \A x \in Hypothetical :
            /\ x \in [buy : Nat \ {0}, sell : Nat \ {0}, premium : Int]
            /\ x.buy <= x.sell

VARIABLES
    clock,    \* the time
    inputs,   \* the later of the latest world gold price and exchange rate, or None
    prices,   \* domestic_gold_prices: the quote of each time
    metrics,  \* gold_metrics: the quote and the premium of each time
    calc,     \* what the last calculation stored: its time, percentile and momentum, or None
    signal,   \* the sample size generateSignals counted after it, or None
    redis,    \* the published snapshot, or None
    \* auxiliary
    backfills,\* the rows the scripts have written
    rows,     \* the rows of gold_metrics the published history was made of
    whole     \* the last calculation saw every row of its window, and no backfill came since

vars == <<clock, inputs, prices, metrics, calc, signal, redis, backfills, rows, whole>>

\* A quote with its premium over a world price; the difference stands for the ratio.
Figures(q, world) == [buy |-> q.buy, sell |-> q.sell, premium |-> q.sell - world]

Put(table, t, x) == [s \in DOMAIN table \cup {t} |-> IF s = t THEN x ELSE table[s]]
Latest(table) == Max(DOMAIN table)

Init ==
    /\ clock = 0 /\ inputs = None
    /\ prices = <<>> /\ metrics = <<>>
    /\ calc = None /\ signal = None /\ redis = None
    /\ backfills = 0 /\ rows = <<>> /\ whole = FALSE

-----------------------------------------------------------------------------
(* The pipeline *)

Tick ==
    /\ clock < MaxTime
    /\ clock' = clock + 1
    /\ UNCHANGED <<inputs, prices, metrics, calc, signal, redis, backfills, rows, whole>>

\* A domestic quote is stored; world price and exchange rate may be new as well.
Ingest(fresh) ==
    /\ clock \notin DOMAIN prices /\ Cardinality(DOMAIN prices) < MaxRows
    /\ prices' = Put(prices, clock, Figures(Course[clock], Course[clock].world))
    /\ inputs' = IF fresh \/ inputs = None THEN clock ELSE inputs
    /\ UNCHANGED <<clock, metrics, calc, signal, redis, backfills, rows, whole>>

\* loadDailyMetricHistory: of the snapshot if there is one, else of the database.
History ==
    IF redis # None THEN redis.history
    ELSE RowsSince(metrics, clock - Window * DayTicks)

\* The rows behind that history.
Source ==
    IF redis # None THEN rows
    ELSE [t \in {s \in DOMAIN metrics : s >= clock - Window * DayTicks} |-> metrics[t]]

SeesEveryRow ==
    \A t \in DOMAIN metrics :
        t >= inputs - Window * DayTicks /\ Day(t) < Day(inputs)
            => t \in DOMAIN Source /\ Source[t] = metrics[t]

\* calculateLatestMetrics: at the time of the inputs, of the latest domestic quote.
Calculate ==
    /\ inputs # None /\ prices # <<>>
    /\ LET current == Figures(prices[Latest(prices)], Course[inputs].world)
       IN  /\ metrics' = Put(metrics, inputs, current)
           /\ calc' = [time       |-> inputs,
                       percentile |-> Percentile(History, inputs, current.premium),
                       momentum   |-> Momentum(DOMAIN prices, MomentumDays, inputs)]
    /\ whole' = SeesEveryRow
    /\ signal' = None
    /\ UNCHANGED <<clock, inputs, prices, redis, backfills, rows>>

\* Faulty variant: rows older than the window count.
AllSample(table) == CompletedDays({t \in DOMAIN table : t < Latest(table)}, Latest(table))

\* The completed days with a row in the window, before the latest metric.
Sample(table) ==
    CompletedDays({t \in DOMAIN table : t >= clock - Window * DayTicks /\ t < Latest(table)},
                  Latest(table))

\* generateSignals
Signal ==
    /\ calc # None /\ signal = None
    /\ signal' = [time |-> Latest(metrics), size |-> Sample(metrics)]
    /\ UNCHANGED <<clock, inputs, prices, metrics, calc, redis, backfills, rows, whole>>

\* publishMarketSnapshot: nothing is published unless metric and signal carry the time of the
\* inputs.
Publish ==
    /\ signal # None /\ Latest(metrics) = inputs /\ signal.time = Latest(metrics)
    /\ redis' = [time |-> inputs, size |-> Sample(metrics),
                 history |-> SnapshotHistory(metrics, clock, Year)]
    /\ rows' = [t \in {s \in DOMAIN metrics : s >= RangeStart(clock, Year)} |-> metrics[t]]
    /\ signal' = None
    /\ UNCHANGED <<clock, inputs, prices, metrics, calc, backfills, whole>>

\* The keys of the snapshot expire.
Expire ==
    /\ redis # None
    /\ redis' = None /\ rows' = <<>>
    /\ UNCHANGED <<clock, inputs, prices, metrics, calc, signal, backfills, whole>>

-----------------------------------------------------------------------------
(* The backfill scripts: each writes a row at noon for one day after the other, so that what a  *)
(* run leaves behind, to its end or to where it died, is a series of such writes.              *)

\* backfill-domestic-gold-prices.ts leaves a row that is there.
BackfillPrice(day) ==
    /\ backfills < MaxBackfills /\ Noon(day) <= MaxTime
    /\ backfills' = backfills + 1
    /\ prices' = IF Noon(day) \in DOMAIN prices THEN prices
                 ELSE Put(prices, Noon(day), Figures(Backfilled, Backfilled.world))
    /\ whole' = FALSE
    /\ UNCHANGED <<clock, inputs, metrics, calc, signal, redis, rows>>

\* backfill-historical-metrics.ts writes over a row that is there.
BackfillMetric(day) ==
    /\ backfills < MaxBackfills /\ Noon(day) <= MaxTime
    /\ backfills' = backfills + 1
    /\ metrics' = Put(metrics, Noon(day), Figures(Backfilled, Backfilled.world))
    /\ whole' = FALSE
    /\ UNCHANGED <<clock, inputs, prices, calc, signal, redis, rows>>

Next ==
    \/ Tick
    \/ \E fresh \in BOOLEAN : Ingest(fresh)
    \/ Calculate
    \/ Signal
    \/ Publish
    \/ Expire
    \/ \E day \in 0 .. Day(clock) : BackfillPrice(day) \/ BackfillMetric(day)

Spec == Init /\ [][Next]_vars

-----------------------------------------------------------------------------
(* Properties *)

\* The variables stay in their domains: what daily-percentile.ts, momentum-lookup.ts and
\* market-snapshot.ts compute is a share of a sample within the window, a positive number of
\* days, and a history.
TypeOK ==
    /\ clock \in Times
    /\ inputs \in Times \cup {None}
    /\ DOMAIN prices \subseteq Times
    /\ DOMAIN metrics \subseteq Times
    /\ calc # None =>
        /\ calc.time \in Times
        /\ calc.percentile # None =>
            calc.percentile.size \in 1 .. Window /\ calc.percentile.below \in 0 .. calc.percentile.size
        /\ calc.momentum # None => calc.momentum.days \in Nat \ {0}
    /\ signal # None => signal.time \in DOMAIN metrics /\ signal.size \in 0 .. Window
    /\ redis # None => redis.time \in DOMAIN metrics /\ redis.size \in 0 .. Window
    /\ DOMAIN rows \subseteq DOMAIN metrics
    /\ backfills \in 0 .. MaxBackfills /\ whole \in BOOLEAN

\* The times of the last rows of the completed days, of the last Window of them.
LastTimes(table, now) ==
    LET Completed == {Day(t) : t \in DOMAIN table} \cap 0 .. Day(now) - 1
        Later(d)  == {e \in Completed : e > d}
    IN  {t \in DOMAIN table :
            /\ Day(t) \in Completed /\ Cardinality(Later(Day(t))) < Window
            /\ ~ \E s \in DOMAIN table : s > t /\ Day(s) = Day(t)}

\* What a premium is ranked among are the last rows of the completed days before the inputs,
\* whatever was collapsed to days before: by the snapshot's history, which calculateLatestMetrics
\* reads back (metrics.ts:64), and again by calculateDailyPercentile (daily-percentile.ts:44).
RanksTheCompletedDays ==
    [][Calculate =>
        LET last == LastTimes(Source, inputs)
        IN  calc'.percentile =
                IF last = {} THEN None
                ELSE [below |-> Cardinality({t \in last : Source[t].premium <= metrics'[inputs].premium}),
                      size  |-> Cardinality(last)]]_vars

\* The sample size that decides whether a percentile counts (generate-signals.ts:28,
\* market-snapshot.ts:193) never exceeds the number of days the percentile was ranked among,
\* provided that calculation saw every row of its window.
SampleNeverOverstates ==
    whole =>
        LET ranked == IF calc.percentile = None THEN 0 ELSE calc.percentile.size
        IN  /\ signal # None /\ signal.time = calc.time => signal.size <= ranked
            /\ redis # None /\ redis.time = calc.time => redis.size <= ranked

\* The momentum spans the days asked for when a row is that old, and none newer is; with a
\* shorter history it spans all of it; a row newer than the inputs is never the reference
\* (momentum-lookup.ts:32, momentum.ts).
MomentumSpansTarget ==
    [][Calculate =>
        LET m == calc'.momentum
            OldEnough(t) == inputs - t >= MomentumDays * DayTicks
        IN  IF m = None THEN \A t \in DOMAIN prices : inputs - t < DayTicks
            ELSE /\ m.since \in DOMAIN prices /\ m.days * DayTicks <= inputs - m.since
                 /\ (\E t \in DOMAIN prices : OldEnough(t)) => m.days >= MomentumDays
                 /\ \A t \in DOMAIN prices :
                        IF OldEnough(t) THEN t <= m.since ELSE OldEnough(m.since) \/ m.since <= t]_vars

\* A history has the same days with and without the snapshot (MetricsService.getHistory), and
\* the same row of each day but where a past day has a backfilled row and a later one: there
\* the API alone shows the backfilled one, and the snapshot the later one.
HistoriesAgree ==
    LET snapshot == SnapshotHistory(metrics, clock, Year)
        api      == ApiHistory(metrics, clock, Year)
    IN  /\ Len(api) = Len(snapshot)
        /\ \A i \in DOMAIN api :
            IF Day(api[i].time) # Day(clock) /\ Noon(Day(api[i].time)) \in DOMAIN metrics
            THEN api[i].time = Noon(Day(api[i].time)) /\ Day(api[i].time) = Day(snapshot[i].time)
            ELSE api[i] = snapshot[i]

\* A row each day, all of them of the window, and the prices behind them.
Plain ==
    /\ whole /\ calc # None
    /\ \A s, t \in DOMAIN metrics : Day(s) = Day(t) => s = t
    /\ \A t \in DOMAIN metrics : t <= calc.time /\ t >= calc.time - Window * DayTicks
    /\ {t \in DOMAIN prices : t < calc.time} = DOMAIN metrics \ {calc.time}

\* Over a row a day, three computations agree: the one of the pipeline, the replay of
\* recomputeHistoricalSignals, and the position the chart shows, which counts the day itself.
RanksAgree ==
    Plain =>
        LET current == metrics[calc.time]
            history == SnapshotHistory(metrics, clock, Year)
        IN  /\ calc.percentile = ReplayPercentile(metrics, calc.time)
            /\ calc.momentum = ReplayMomentum(metrics, MomentumDays, calc.time)
            /\ Len(history) = Cardinality(DOMAIN metrics) /\ calc.percentile # None
                  => ChartPosition(history, current) =
                        [below |-> calc.percentile.below + 1, size |-> calc.percentile.size + 1]

Ascends(s) == \A i, j \in DOMAIN s : i < j => s[i].date < s[j].date

\* With the live quote in its place a chart still has one entry a day in order, ends today with
\* the live quote, counts its change from the day before, and no price of a day lies outside its
\* low and high (factor-history.ts, getDailyHistory).
ChartIsDaily ==
    \A live \in Hypothetical :
        LET today   == Day(clock)
            values  == WithLiveValue(DailyValues(TickHistory(prices, clock, Year)), today, live.sell)
            candles == WithLivePrice(DailyPrices(prices, clock, Year), today, live)
        IN  /\ Ascends(values) /\ Last(values).date = today /\ Last(values).value = live.sell
            /\ \A i \in 2 .. Len(values) : values[i].change = values[i].value - values[i - 1].value
            /\ Ascends(candles) /\ Last(candles).date = today /\ Last(candles).close = live.sell
            /\ \A i \in DOMAIN candles :
                  {candles[i].open, candles[i].buyClose, candles[i].close}
                      \subseteq candles[i].low .. candles[i].high
            /\ \A t \in DOMAIN prices :
                  Day(t) = today /\ t >= RangeStart(clock, Year)
                      => {prices[t].buy, prices[t].sell} \subseteq Last(candles).low .. Last(candles).high

\* The spreads of two quotes are the same share.
SameSpread(p, q) == NotWider(p, q) /\ NotWider(q, p)

\* A quote that is cheaper with the same premium and spread never lowers the exposure that
\* buildPlanFromDailyMetrics suggests, however the comparison with a level is rounded; a dearer
\* premium alone never raises it.
PlanIsMonotone ==
    LET days == PlanDays(metrics)
        With(q) == [days EXCEPT ![1].quote = q]
    IN  days # <<>> =>
        \A p, q \in Hypothetical, a, b \in BOOLEAN :
            \/ SameSpread(p, q) /\ p.premium = q.premium /\ Middle(p) < Middle(q)
            \/ p.buy = q.buy /\ p.sell = q.sell /\ p.premium < q.premium /\ a = b
            => Plan(With(p), a).exposure >= Plan(With(q), b).exposure

\* The high a fall is measured from is the highest last quote of the last days with rows, as
\* long as the rows of these days fit into the query (market.service.ts:353).
PlanSeesItsWindow ==
    LET recorded == {Day(t) : t \in DOMAIN metrics}
        window   == {d \in recorded : Cardinality({e \in recorded : e > d}) < PlanWindow}
        ofWindow == {t \in DOMAIN metrics : Day(t) \in window}
        last     == {t \in ofWindow : ~ \E s \in ofWindow : s > t /\ Day(s) = Day(t)}
    IN  metrics # <<>> /\ Cardinality(ofWindow) <= QueryRows
            => RollingHigh(PlanDays(metrics)) = Max({Middle(metrics[t]) : t \in last})
=============================================================================
