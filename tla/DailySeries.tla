---------------------------- MODULE DailySeries ----------------------------
(***************************************************************************)
(* What the program computes from rows with a time: one point for each     *)
(* Vietnam day (written several times, in the worker, the API and the      *)
(* web), the percentile of a figure among the days before (calculators/    *)
(* daily-percentile.ts), the momentum over some days (momentum-lookup.ts), *)
(* the replay of both over stored rows (signals/historical.ts), and the    *)
(* daily series the charts show.                                           *)
(*                                                                         *)
(* A table is a function from times to quotes.  Times count ticks from a   *)
(* Vietnam midnight.  A point is a row with its time; a query with         *)
(* orderBy time yields a sequence of points.                               *)
(***************************************************************************)
EXTENDS Integers, FiniteSets, Sequences, SequencesExt

CONSTANTS
    DayTicks,   \* ticks of a day
    NoonTick,   \* the tick of a day at which backfilled rows are dated
    Window,     \* HISTORY_DAYS, 180
    MaxTime,    \* bound: the last tick
    None        \* null

Times  == 0 .. MaxTime
Day(t) == t \div DayTicks
Noon(d) == d * DayTicks + NoonTick

ASSUME SeriesAssumption ==
    /\ DayTicks \in Nat \ {0} /\ NoonTick \in 0 .. DayTicks - 1
    /\ Window \in Nat \ {0} /\ MaxTime \in Nat
    /\ None \notin Nat /\ None \notin [days : Nat, since : Nat]
    /\ None \notin [below : Nat, size : Nat]

-----------------------------------------------------------------------------
(* Queries and days *)

\* The members of a set of times, days or indices in ascending order.
InOrder(S) ==
    [i \in 1 .. Cardinality(S) |-> CHOOSE x \in S : Cardinality({y \in S : y < x}) = i - 1]

\* The points at some indices.
PointsAt(points, I) ==
    LET order == InOrder(I)
    IN  [k \in DOMAIN order |-> points[order[k]]]

\* findMany with time >= from, orderBy time asc.
RowsSince(table, from) ==
    LET times == InOrder({t \in DOMAIN table : t >= from})
    IN  [i \in DOMAIN times |-> [time |-> times[i], quote |-> table[times[i]]]]

\* A point takes its place among those kept, one for each day.
PutDay(kept, p) ==
    [d \in DOMAIN kept \cup {Day(p.time)} |-> IF d = Day(p.time) THEN p ELSE kept[d]]

\* One point for each day: a point of a day that has one goes in when it Replaces that one.
ByDay(points, Replaces(_, _)) ==
    FoldLeft(LAMBDA kept, p :
                 IF Day(p.time) \in DOMAIN kept /\ ~ Replaces(p, kept[Day(p.time)])
                 THEN kept ELSE PutDay(kept, p),
             <<>>, points)

\* The points kept, sorted by time.
Series(kept) ==
    LET days == InOrder(DOMAIN kept)
    IN  [i \in DOMAIN days |-> kept[days[i]]]

\* slice(-n)
LastOf(n, s) == SubSeq(s, IF Len(s) > n THEN Len(s) - n + 1 ELSE 1, Len(s))

Newer(p, kept)    == p.time > kept.time
NotOlder(p, kept) == p.time >= kept.time
Always(p, kept)   == TRUE
Never(p, kept)    == FALSE

-----------------------------------------------------------------------------
(* The percentile *)

\* The points of the days before today.
EarlierDays(points, now) == PointsAt(points, {i \in DOMAIN points : Day(points[i].time) < Day(now)})

\* Faulty variant: the first point of a day stays.
FirstOfDays(points, now) == LastOf(Window, Series(ByDay(EarlierDays(points, now), Never)))

\* Faulty variant: the day in progress counts.
WithToday(points, now) == LastOf(Window, Series(ByDay(points, Newer)))

\* The points a figure is ranked among: the last of each completed day, at most Window days.
RankedPoints(points, now) == LastOf(Window, Series(ByDay(EarlierDays(points, now), Newer)))

\* The share of the figures that are not above the current one.
Rank(figures, current) ==
    IF figures = <<>> THEN None
    ELSE [below |-> Cardinality({i \in DOMAIN figures : figures[i] <= current}), size |-> Len(figures)]

\* calculateDailyPercentile of the premium.  The spread is ranked by the same function.
Percentile(points, now, current) ==
    LET ranked == RankedPoints(points, now)
    IN  Rank([i \in DOMAIN ranked |-> ranked[i].quote.premium], current)

\* countCompletedVietnamDays
CompletedDays(times, now) ==
    LET days == {Day(t) : t \in times} \cap 0 .. Day(now) - 1
    IN  IF Cardinality(days) < Window THEN Cardinality(days) ELSE Window

-----------------------------------------------------------------------------
(* The momentum *)

\* Faulty variant: the oldest row at or before the target.
OldestReference(times, days, now) ==
    IF \E t \in times : t < now THEN Min({t \in times : t < now}) ELSE None

\* The newest row that is the given number of days old, else the oldest row before now.
Reference(times, days, now) ==
    LET atTarget == {t \in times : t <= now - days * DayTicks}
        earlier  == {t \in times : t < now}
    IN  IF atTarget # {} THEN Max(atTarget)
        ELSE IF earlier # {} THEN Min(earlier)
        ELSE None

\* Faulty variant: a reference of the same day counts.
AnyMomentum(times, days, now) ==
    LET reference == Reference(times, days, now)
    IN  IF reference = None THEN None
        ELSE [days |-> (now - reference) \div DayTicks, since |-> reference]

\* buildMomentum: the days that really lie between, at least one.
Momentum(times, days, now) ==
    LET reference == Reference(times, days, now)
    IN  IF reference = None \/ now - reference < DayTicks THEN None
        ELSE [days |-> (now - reference) \div DayTicks, since |-> reference]

-----------------------------------------------------------------------------
(* recomputeHistoricalSignals: the same figures from the stored rows alone *)

EarlierRows(table, now) ==
    LET rows == RowsSince(table, 0)
    IN  PointsAt(rows, {i \in DOMAIN rows : rows[i].time < now})

ReplayPercentile(table, now) ==
    LET rows   == EarlierRows(table, now)
        recent == PointsAt(rows, {i \in DOMAIN rows : rows[i].time >= now - Window * DayTicks})
    IN  Rank([i \in DOMAIN recent |-> recent[i].quote.premium], table[now].premium)

\* findMomentumReference: the last row at or before the target, else the first.
ReplayMomentum(table, days, now) ==
    LET rows      == EarlierRows(table, now)
        old       == PointsAt(rows, {i \in DOMAIN rows : rows[i].time <= now - days * DayTicks})
        reference == IF old # <<>> THEN Last(old).time ELSE rows[1].time
    IN  IF rows = <<>> \/ now - reference < DayTicks THEN None
        ELSE [days |-> (now - reference) \div DayTicks, since |-> reference]

-----------------------------------------------------------------------------
(* Metric histories: of the snapshot, and of the API without one *)

\* Vietnam midnight of the first of the given number of days, today included.
RangeStart(clock, days) == (Day(clock) - (days - 1)) * DayTicks

\* metricHistory, from what publishMarketSnapshot reads.
SnapshotHistory(table, clock, days) ==
    Series(ByDay(RowsSince(table, RangeStart(clock, days)), Newer))

IsBackfill(p) == p.time % DayTicks = NoonTick

\* Faulty variant: a row of today is replaced by a backfilled one as well.
PicksBackfill(clock, p, kept) ==
    IF IsBackfill(p) = IsBackfill(kept) THEN Newer(p, kept) ELSE IsBackfill(p)

\* On a past day a backfilled row is preferred.
Picks(clock, p, kept) ==
    IF Day(p.time) = Day(clock) \/ IsBackfill(p) = IsBackfill(kept) THEN Newer(p, kept)
    ELSE IsBackfill(p)

\* pickDailyHistory
PickDailyHistory(points, clock) == ByDay(points, LAMBDA p, kept : Picks(clock, p, kept))

\* MetricsService.getHistory without snapshot and cache.
ApiHistory(table, clock, days) ==
    LastOf(days, Series(PickDailyHistory(RowsSince(table, RangeStart(clock, days)), clock)))

-----------------------------------------------------------------------------
(* Price histories of the API and the charts of the web *)

\* latestTickByVietnamDay over the last days.
TickHistory(table, clock, days) ==
    Series(ByDay(RowsSince(table, clock - days * DayTicks), Newer))

Changed(previous, x) == IF previous = None THEN None ELSE x - previous

\* buildLatestValueByDayHistory and buildDailySeries: the last point of a day counts, each
\* value with its change from the day before.
DailyValues(points) ==
    LET s == Series(ByDay(points, Always))
    IN  [i \in DOMAIN s |->
            [date   |-> Day(s[i].time),
             value  |-> s[i].quote.sell,
             change |-> Changed(IF i = 1 THEN None ELSE s[i - 1].quote.sell, s[i].quote.sell)]]

\* applyLiveTodayValue: the live value takes the place of today, or follows the last day.
WithLiveValue(s, today, live) ==
    LET past == IF s # <<>> /\ Last(s).date = today THEN Front(s) ELSE s
    IN  Append(past, [date |-> today, value |-> live,
                      change |-> Changed(IF past = <<>> THEN None ELSE Last(past).value, live)])

Highest(points) == Max({p.quote.buy : p \in points} \cup {p.quote.sell : p \in points})
Lowest(points)  == Min({p.quote.buy : p \in points} \cup {p.quote.sell : p \in points})

\* getDailyHistory: open, high, low and close of each day.
DailyPrices(table, clock, days) ==
    LET rows      == RowsSince(table, RangeStart(clock, days))
        last      == Series(ByDay(rows, Always))
        Of(d)     == {rows[i] : i \in {j \in DOMAIN rows : Day(rows[j].time) = d}}
        First(d)  == CHOOSE p \in Of(d) : \A q \in Of(d) : p.time <= q.time
    IN  [i \in DOMAIN last |->
            LET d == Day(last[i].time)
            IN  [date |-> d, open |-> First(d).quote.sell, high |-> Highest(Of(d)),
                 low |-> Lowest(Of(d)), buyClose |-> last[i].quote.buy,
                 close |-> last[i].quote.sell]]

\* Faulty variant: today's extremes start afresh.
LiveOnly(s, today, live) ==
    LET past == IF s # <<>> /\ Last(s).date = today THEN Front(s) ELSE s
    IN  Append(past, [date |-> today,
                      open |-> IF past = <<>> THEN live.sell ELSE Last(past).close,
                      high |-> live.sell, low |-> live.buy,
                      buyClose |-> live.buy, close |-> live.sell])

\* applyLiveGoldPriceHistory: the live quote closes today; a day not yet in the history opens
\* at the close before it.
WithLivePrice(s, today, live) ==
    LET hasToday == s # <<>> /\ Last(s).date = today
        past     == IF hasToday THEN Front(s) ELSE s
        seen     == {live.buy, live.sell} \cup
                    (IF hasToday THEN {Last(s).high, Last(s).low}
                     ELSE IF past # <<>> THEN {Last(past).buyClose, Last(past).close}
                     ELSE {})
    IN  Append(past,
               [date     |-> today,
                open     |-> IF hasToday THEN Last(s).open
                             ELSE IF past # <<>> THEN Last(past).close ELSE live.sell,
                high     |-> Max(seen),
                low      |-> Min(seen),
                buyClose |-> live.buy,
                close    |-> live.sell])

\* syncLatestHistoryPoint: the current figures take the place of the last point's.
WithCurrentMetric(points, current) ==
    IF points = <<>> THEN points ELSE [points EXCEPT ![Len(points)].quote = current]

\* groupMetricHistoryByVietnameseDay
ChartPoints(points) == Series(ByDay(points, NotOlder))

\* getPercentStats: the share of the charted days that are not above the last of them.
ChartPosition(points, current) ==
    LET charted == ChartPoints(WithCurrentMetric(points, current))
    IN  Rank([i \in DOMAIN charted |-> charted[i].quote.premium], Last(charted).quote.premium)
=============================================================================
