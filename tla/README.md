# Verification of vang-radar

Vang-radar watches Vietnamese gold prices. A worker collects quotes, computes
metrics, decides a signal for each product, publishes a snapshot to Redis and
mails alerts; an API serves the snapshot, falls back to PostgreSQL, and keeps the
subscriptions. This directory holds TLA+ models of the parts where several actors
meet, the TLC configurations that check them, and TLAPS proofs of what matters
most about them. `PROJECT.json` lists the runs, the lines of source behind every
definition, the hazards, the findings and the theorems.

## How to run

    tlc -workers 2 -config BuyAlerts.cfg MCBuyAlerts     # one run
    tlapm BuyAlertsProofs.tla                            # one proof module

## The system

| Component | State | Operations | Meets |
|---|---|---|---|
| Market pipeline (`jobs/market-pipeline.ts`, `queues/register.ts`, `main.ts`) | none of its own | one run: ingest, metrics, signals, publish, clean, alerts | itself: BullMQ workers with concurrency 5, and `runOnce` beside them |
| Ingestion (`jobs/ingestion.ts`, `providers/`, `validators/`) | price, rate and macro rows | four fetches, provider fallback, validation, upsert by source and time | metrics, snapshot (same "latest row" queries) |
| Metrics (`calculators/metrics.ts`) | `gold_metrics` | latest inputs, percentiles, momenta, upsert by product and time | Redis history of the last snapshot, database |
| Daily figures (`calculators/daily-percentile.ts`, `momentum-lookup.ts`, `signals/historical.ts`, the histories of the API and the charts of the web) | none | one row a day, rank, momentum, replay, histories, live value of today | metrics, signals, snapshot, page |
| Backfill scripts (`scripts/backfill-*.ts`) | none | rows at noon of past days, one at a time | every query over prices and metrics |
| Drawdown plan (`market.service.ts`) | none | ladder of purchases from the days of a window | metrics, summary |
| Decision engine (`packages/domain`) | none | five rules in order, two score formulas | signal generation, web, historical replay |
| Signals (`signal-engine/`) | `signal_snapshots` | decide per product, upsert by product and time | metrics, alerts, snapshot |
| Snapshot (`jobs/market-snapshot.ts`) | versioned keys and a pointer in Redis, 24 h to live | publish in one MULTI, remove older versions by SCAN and UNLINK | API readers, deploy step, other runs |
| Alerts (`jobs/buy-alerts.ts`, `jobs/alert-lock.ts`) | `buy_alert_events`, `buy_alert_deliveries`, lock key | select, upsert event, mail, record, count | pipeline, API, SMTP server, other runs |
| API readers (`apps/api/src/modules/{metrics,signals,market}`) | 60 s caches | pointer, value, database | publisher, cleanup, expiry |
| Subscriptions (`modules/notifications`, `modules/admin`, `config/unsubscribe-token.ts`) | `notification_subscribers` | subscribe, unsubscribe by link, removal by the admin | alert mails, which mint links from the row they read |
| Summary (`getSummary` of `market.service.ts`) | cache of a composed summary | snapshot, else cache, else composition | publisher, expiry, tables |
| Summary stream (`market.controller.ts`, `web/lib/summary-stream.ts`, `live-market-dashboard.tsx`) | last key sent, timers, what the page shows | overlapping checks, events, errors, fallback to polling, refresh when visible | summary |
| Page (`web/lib/vang-score.ts`) | none | its own evaluation of every product, one verdict over all | summary, decision engine |
| Deploy (`.github/workflows/deploy.yml`) | shell variables | restart, then remove stale snapshots | publisher |

Components call each other inside one pipeline run; between runs, and between the
worker, the API and the deploy job, they meet only in PostgreSQL and Redis. What
makes the code hard to test is there: no run holds a transaction over more than
one query, the alert lock has a time to live, publication and cleanup are separate,
mails leave before they are recorded, and every query may throw.

Correctness, component by component: an event is mailed once, records are true,
and pending alerts go out as long as the pipeline publishes (alerts); the pointer names a complete snapshot whose
parts agree, and the newest one is published in the end (snapshot); an answer is
never older than what was current when it was asked for (readers); a subscribe
takes effect, a delivered link works, an old one does not (subscriptions); a
worse market never looks better (decisions); the latest row neither goes back in
time nor jumps (ingestion); a figure is ranked among the last rows of the completed
days of one window, wherever they were read from (daily figures); a plan never
suggests to buy more because the terms are dearer (drawdown plan); a page that stays
open becomes current (stream); and it shows the signals the worker stored, unless a published
summary has a 0 for a figure that is missing (page).

## Modules

`BuyAlerts` models the alert job. A slot executes runs of `sendBuyAlerts`, each the
call a pipeline run makes once it has published (`market-pipeline.ts:28-29`; the queue
`send-buy-alerts` of `register.ts` is never scheduled); a call that finds the lock taken
returns and changes nothing. Each
await is an action: `Acquire`, `SelectDrop`, `UpsertEvent`, `CollectPending`,
`ReadSubscribers`, then for each subscriber `ServeNext`, `SendMail`,
`RecordDeliveries`, `CountNotification`, and `Release`. The environment moves the
clock, the market rows, the subscriptions, and expires the lock. Every call may
fail (`QueryFails`, `SubscriberQueryFails`, `SendFails`, `RecordFails`,
`CountFails`, `AcquireReplyLost`), and a run may vanish (`Crash`). `mailed`,
`lost` and `mailLog` observe; no guard reads them. `AlertOutbox` is the abstract
promise: mail only what is not recorded, record only what was mailed.

`MarketSnapshot` models pipeline runs from ingestion to alerts, API calls, key
expiry and the deploy step. A row is the pair of the input time and the quote it
was computed from, so two rows agree exactly when they were computed from the same
data. Publication is one step because MULTI/EXEC is; the cleanup removes its keys
in arbitrary batches because SCAN returns them so.

`Subscriptions` models one address: calls of `subscribe` as a chain of queries
(`Find`, `Activate` or `Create`, `Reactivate` on P2002, `Confirm`), links that
carry the version read from the row, their use and expiry, the admin, and alert
mails that read the row first and mail later.

`Ingestion` models the fetches of a pipeline run in their order: world price, rate,
macro indicator, the aggregators and the official quote of one product, merged. A domestic fetch may
carry several quotes of one product, as scraped and configured sources are concatenated
without a test for duplicates (`real-placeholders.ts:328`).
For each quote `Judge` reads the previous valid row and reaches the verdict, and
`Store` upserts by feed, source and time with an empty update; time passes and
other runs work in between. A provider may answer with an old quote, one dated
ahead of the clock, one without a date, a bad one, or none; every step may throw
(`Fail`), which ends the run. `PreviousRows` is the query of the ingestion,
`Latest` that of the metrics; they are written apart because the code writes them
apart.

`DecisionEngine` models `explainDecisionSignal` as a function of the input. Every
threshold and weight is an integer after scaling (hundredths of a per cent, and
common denominators for the scores), so that sums and comparisons are exact and
`Round` is `Math.round`. A step is a new evaluation after some figures moved. The
page evaluates what the summary says once more (`LiveInput`: the summary has its own
count of the history and no flag of unreliable data, and a published one has a 0 where
the metric has no percentile or momentum, because `numberValue` makes it of a null;
the summary the API composes itself keeps the null), averages the scores of all
products (`VangScore`) and makes one `Verdict`.

`DailySeries` holds what is computed from rows with a time, as operators over tables
(functions from times to quotes): the queries, one point a day (`ByDay`, with the
rule that decides between two points of a day, which differs from place to place),
`Percentile`, `CompletedDays`, `Momentum`, the replay of both over stored rows, the
histories of the snapshot and of the API (`PickDailyHistory`), the daily prices, and the charts with the
live quote in place of today. `DrawdownPlan` adds the plan. `DailyHistory` runs them:
`Tick` moves the clock, `Ingest` appends a quote, `Calculate`, `Signal` and `Publish`
are the jobs of the pipeline, each of which may come late or not at all, `Expire`
takes the snapshot away, `BackfillPrice` and `BackfillMetric` are single writes of
the scripts, so that a script may die between any two. A calculation ranks in the
history of the snapshot if there is one, else in the database (`History`). `rows`
and `whole` observe: what the snapshot was made of, and whether the calculation saw
every row of its window.

`SummaryStream` models how a summary reaches a page. A summary is the version of the
tables it was composed from. A call of `getSummary` is `Call`, `ReadCache`,
`Compose`, `Store`, or `Fail`; `Check` begins one on the interval of the stream,
whether or not the last has ended, `Send` sends what has changed. The page has
`Connect`, `Error` (the browser tries again, or gives up), `Deliver`, `Refresh`,
`Show` and `Leave`; the polling of the fallback is a `Refresh` while a timer runs.

`MC*` modules give the constants values that a configuration cannot spell.
`*Proofs` modules hold the theorems. A definition marked "Faulty variant" is a
plausible mistake, used to confirm that a property notices it.

## Runs

Properties that hold:

| Run | Checks | Instance |
|---|---|---|
| `alerts` | types, one sender, no duplicate mail, true records, counter within mails, implements `AlertOutbox` | two slots, one recipient, two days, premiums 0 to 2, one failure |
| `alerts_live` | a lasting alert is delivered as long as calls continue, a run gives its lock back however its calls fail, a late release spares other runs | two slots, two subscribers of whom one may be mailed, one failure, locks that expire under slow runs |
| `snapshots` | types, complete pointer, matching rows, fresh answers, thorough cleanup | two products, two keys each snapshot, two input times, two quotes, one reader, one failure, one deploy; runs and cleanups do not overlap |
| `snapshot_races` | the newest snapshot, with a price and matching rows of every product, is published in the end | two overlapping runs, two products, two input times, one failure at any step, expiry |
| `feed` | types and unique keys, the latest row never goes back, never jumps, no outlier is valid | four feeds, two world providers, three prices of which two neighbours are within the limit and the extremes are not, two clock values and one ahead, two quotes in one domestic fetch; providers fall silent after two rows, so that a feed has up to three |
| `subscriptions` | types, old links stay dead, subscribe takes effect | two calls, two alert mails, four versions |
| `decisions` | score bands, worse terms neither upgrade the signal nor raise the score, the page shows the stored signal unless a null that matters was published, its verdict fits the signals | figures on both sides of every threshold, up to two other products |
| `history` | what a premium is ranked among, the momentum's span, a sample that never overstates, agreement of pipeline, replay and chart and of both histories, charts with one entry a day, the plan's window and its monotony | four days of two ticks, noon at the first; windows of two days, a year of three; three quotes, one backfilled row |
| `stream` | types, the server knows what the page shows, at most one timer, the page ends up current | two calls of the stream and one of the page, three versions, one event on its way |

Properties stated by the documentation or the tests that the code violates:

| Run | What happens |
|---|---|
| `alerts_overrun` | A run outlives its 30-minute lock; a second one mails the same event again. |
| `snapshot_overlap` | The cleanup of an older run removes the snapshot a newer run has published. |
| `subscription_links` | Two first subscriptions race; the confirmation carries a dead link. |

Met on the way and not kept as runs: the deploy step reads the pointer once
(`deploy.yml:136`) and unlinks a snapshot that is published before its scan ends,
which is the same loss as in `snapshot_overlap`, by another actor; and the reason of
a BUY_DCA at a spread of 3.3% says that the spread is at most 3,00%
(`explain.ts:732`), although the rule allows a wider one. Three more observations
contradict no document: the plan's query of
20,000 rows holds about 69 days of rows every five minutes where its window asks for
252, so that the high may be missed (`PlanSeesItsWindow` states when it is not);
on past days the history of the API prefers a backfilled row where the snapshot has
the last one (`HistoriesAgree` states exactly this difference); and a null percentile
or 30-day momentum of gold leaves the worker as 0 in the summary
(`market-snapshot.ts:70-73`), so that the page may show a BUY_DCA where the worker
stored and mailed a HOLD, as in the first month of a fresh database
(`LiveSignalAgrees` states that nothing else can differ).

The bounds are named in the modules (`MaxTime`, `LastDay`, `MaxPremium`,
`MaxFaults`, `MaxQuote`, `MaxDeploys`, `MaxVersion`, `MaxSkew`, `MaxQuotes`, `MaxRows`,
`MaxBackfills`, `MaxSent`). They are enough in this
sense: two slots or workers are needed for every race in the code and more add no
new pair of actors; two instants with a midnight between them let an event be
fresh, delivered and out of date; two premium steps let two events be pending at
once; two snapshot ids are one stale and one current; one failure at every
possible step is what the error paths distinguish; four versions allow two full
cycles of subscribe and unsubscribe; three rows are a reference, a row that is
rejected or out of order, and the quote measured after it; in `history`, three quotes
over four days let a day have two rows or none, a row fall out of a window of two days and a
backfilled row come before, between or after the others, and the clock may pass the
input time by more than the window; in `stream`, three versions are an empty,
an unsettled and a settled table, and two calls of the stream can overtake each other
and the page's own. The theorems do not depend on any of the bounds. TLC's symmetry is used for interchangeable slots, workers
and calls, and never in a run with a liveness property. In `snapshots` and `alerts`
the assumptions `Serial` and `Prompt` hold, and `Serial` in `feed`; the runs with a violation show what
they exclude.

Deadlock is checked wherever something can always be scheduled. It is not in
`history`, whose clock and rows end with their bounds, nor in `stream`, where the
page may be left and the tables end.

## Assumptions

- `Prompt`: no run of `sendBuyAlerts` outlives the lock's 30 minutes.
- `Serial`: pipeline runs do not overlap, and in `MarketSnapshot` no deploy cleans while
  one is under way. The schedule of five minutes makes the first likely and nothing in
  the code enforces it; nor does anything keep the restarted worker from publishing
  while the deploy step cleans.
- One product drives alerts, because `selectPremiumDropAlertEvent` accepts only
  `DOJI_RING_9999`. Premiums are whole steps of half a point. The reads of the
  product and of the previous premium are one step: they concern different days.
- World price and exchange rate are one input time: every query uses only the
  later of the two. The set of active products does not change.
- In `Ingestion`, the checks of a quote alone are one flag; a quote without a date
  counts as dated when it was fetched and is always fresh; the quotes of one fetch
  are stored in any order; of the tried providers any may be the first with data.
  Rows of mock sources do not exist: no provider in the worker writes them. The
  metrics' extra bound on the world price (above 100) excludes no row.
- Keys of one MULTI expire together. The listing of the deploy step is one step.
- The cache keys `product:*:metrics:latest:v2` and `signal:latest` are read
  and never written by the code, so they are always empty.
- Both sample sizes are one number, as `generate-signals.ts:45-46` passes them;
  numbers are exact where the code has binary floats.
- In `DailyHistory` the premium is the difference between the domestic and the world
  price where the code has the ratio, twice the middle of a quote stands for the
  middle, and where a fall is exactly a level of the plan either side may be taken.
  The spread is ranked like the premium and the world momentum looked up like the
  domestic one, over other columns. A backfilled noon lies within the modelled time, and
  a quote's buying price is positive and not above its selling price: the validators
  demand it of every row the ingestion marks as valid (data-quality.ts:21-23), and the
  files of the scripts, which check nothing but that a price is a number, are taken to
  keep to it.
- In `SummaryStream` summaries of empty tables count as one, although the code dates
  each anew, and a composition whose queries straddle a write counts as the earlier
  state of the tables.
- `None` lies outside the data it stands beside.

Fairness, used in `alerts_live`, `snapshot_races` and `stream`. In `alerts_live`
a run that is alive takes its next step, and Redis expires the key of a run that is
gone; a key that expires under a live run may do so and never has to. No call is fair:
a publication may fail to come, for a fetch that fails or one product out of line keeps
the snapshot of all, and with it every pending alert, back
(`market-pipeline.ts:28-29`, `market-snapshot.ts:168-176`). That calls go on is the
premise `CallsContinue` of `PendingIsDelivered`. In `snapshot_races` the repeat job is
scheduled again and again (weak fairness of `Start`) and a run takes its next step;
that inputs rest is a premise of `PublishesLatest`. Failures are finitely many in both. In
`stream` the pipeline publishes, the cache of 60 seconds expires, a call takes its
next step, the intervals of server and page fire, events arrive, and a connection
that is being made is made. That failures end is no fairness but a premise of
`EndsUpCurrent`: from some time on the inputs rest and neither a connection nor a call
fails. `LeftBehind` is its one exception, and a real one: an answer to the page's own
refresh that arrives after the stream's newer event stays until the next change.

## Proofs

Every theorem holds for all values of the constants that satisfy the module's
`ASSUME`.

**Alerts.** `IInv` adds to the three invariants what makes them inductive:
`LockHeld` (under `Prompt`, whoever runs owns the key), `NotYetDelivered` (what is
about to be mailed has no delivery row: only its own run could write one),
`AlreadyMailed` (what is about to be recorded was mailed) and `Accounted` (a mail
is recorded, about to be recorded, or booked as lost). `OneSender` follows from
`LockHeld` alone; `NoDuplicateMail` needs `Accounted`, which no test of the rows
alone would give. Steps that touch no mail are dispatched once, as `Quiet`.
`RecordedWasMailed` needs no assumption on time. `Implementation` maps every step
to `Mail`, `Record` or a stutter of `AlertOutbox`, under `Prompt`. Without `Prompt`,
`CountsAreHonest` counts the runs that have mailed and not yet counted (`Owed`): the
counter and what is owed never exceed the mails. `ReleaseIsSelective` needs only that
a run's token is its own.

**Snapshot.** Type correctness is unconditional. `PointerComplete` and
`SignalMatchesMetric` are proved under `Serial`, with deploys between the runs. The
first needs that a cleanup holds the id the pointer names (`CleanerSparesCurrent`);
the second that a run leaves every product it has handled with the signal of its
metric (`SignalsCatchUp`), and that the reads of the publication, which run side
by side, agree with the tables and with each other (`ReadsAgree`). A thorough cleanup
needs only `Serial` (`CleanInv`: whatever the sweep has passed holds no key of another
snapshot). `AnswersStayFresh` needs nothing: no published id is ahead of the tables
(`NothingAhead`), metrics only advance, and a call asks for a snapshot no older than
the one it found, or reads tables that have reached it (`CallsReach`).

**Ingestion.** `LatestNeverRegresses` needs only that rows are added and never
changed (`RowsChange`), so it holds with overlapping runs. The properties of
prices need `Serial` and `IInv`: at most one run is under way (`OneRun`), so the
row a quote was judged by is still a latest row when it is stored
(`JudgedAgainstLatest`). Without `Serial` TLC finds an outlier at once. That
input times only move forward, which `MarketSnapshot` assumes of its environment,
is `LatestNeverRegresses`.

**Subscriptions.** `OldLinksAreDead` is proved for links in mailboxes and links
still to be mailed: none is ahead of the row (`NotAhead`), and every activation
moves the version past all of them. `SubscribeTakes` holds because every branch
that answers has either seen or written an active row.

**Decisions.** The state is always one evaluation (`IInv`), so the properties of
steps are properties of two inputs. The proofs go from figures to rules to
scores: each adjustment and each quality falls on worse terms; hence BUY_DCA can
only be lost, and AVOID and TAKE_PROFIT only be gained, which with the disjointness of
BUY_DCA and TAKE_PROFIT orders the signals; and where BUY_DCA matches, its formula
gives at least what HOLD would, which carries the order across the change of rule.

That the page agrees with the worker (`LiveAgrees`) follows from where the rules
read a figure that may be missing, and the count of the history: a 0 for a missing
spread percentile or domestic momentum meets no condition that its absence does not,
one for a missing momentum of gold or percentile can only let BUY_DCA match
(`CarriedSignal`, `CarriedScore`); and the count matters in the quality of a BUY_DCA and
in whether a percentile counts. `VerdictFits` bounds the average by the bands.

**Daily figures.** What a loop over rows leaves behind is a fold, and no prover here does
induction over data. `DailySeriesProofs` replaces it by an argument about the least
counterexample. `ByDay` unfolds over sets of indices, and two functions of such sets
that agree on the empty set and at every next index agree everywhere (`FoldsAgree`: a
smallest set where they differ, by the library's theorem that inclusion of finite sets
is well-founded, is neither empty nor one step from a smaller one). The other function
is written down directly: `Standing` says which point stands for each day. So every rule
has its result: the last point of a day under `Newer`, `NotOlder` and `Always`
(`NewerKeepsLast`, `NotOlderKeepsLast`, `AlwaysKeepsLast`), the first under `Never`
(`NeverKeepsLast`, over rows from the newest to the oldest, as the plan reads them), and
the backfilled row of a past day under `Picks` (`PickedAreNoonOrLast`). `ListsRows` says
that a list is exactly the rows at some times, in order; sorting, cutting and filtering
keep it with other times (`InOrderLists`, `LastListed`, `FilteredListed`,
`SeriesOfLastRows`). With it each figure of `DailySeries` is stated over sets of times,
and the invariants of `DailyHistory` finish the proofs:

| Invariant | Says | Gives |
|---|---|---|
| `Stored` | tables hold quotes at times, and what calculation, signal and snapshot carry is dated by a row | everything |
| `HistoryCarries` | the published history has, in order, the last row of each day of `rows` | `RanksTheCompletedDays`: collapsing to days twice is collapsing once, whichever source is read |
| `SampleDue` | a count made for a time does not exceed the days due for it, and a calculation that saw its window ranked at least as many | `SampleNeverOverstates` |
| `NoLaterDays` | no row is of a later day than today | `HistoriesAgree` (a year has no more days than the cut leaves) and `ChartIsDaily` (today's entry is the last or missing) |
| `RankKept`, `MomentumKept` | what a calculation stored is still the rank, and the momentum, over the rows before it | `RanksAgree` |

`SampleDue` counts from the time of the calculation where the property counts from the
clock, because a window that moves on only loses days.
`PlanSeesItsWindow` follows from which times the plan's query leaves (`PlanTimesAreLast`).
`MomentumCorrect` rests on the least and the greatest member of a bounded set of naturals
(`GreatestMember`, `LeastMember`) and on the arithmetic of whole days.
`PlanNeverBuysDearer` is about the plan itself, for
every sequence of days and every two quotes of today: a lower price moves the high
less than the fall (`HighIsReached`, `FallReachesMore`), so more levels are reached,
and a dearer premium alone leaves the fall and raises the rank (`RanksCompare`).
`PlanIsMonotone` applies it to the days of every reachable table.

**Stream.** One invariant, the conjunction of the three properties, is inductive:
types because a call holds a summary exactly while it has one, `BelievedIsShown`
because every connection starts with a new key and an empty queue, `OneTimer` because
the handle guards every start.

Only model-checked: the four liveness properties (`PendingIsDelivered`, `LockComesFree`,
`PublishesLatest`, `EndsUpCurrent`), which rest on fairness and are out of the prover's
reach. Every invariant and every action property of the passing runs, and the
refinement of `AlertOutbox`, has a theorem. The violated properties have none.

## Not modelled, and the plan

Left out for good: parsing of provider pages, wording of mails and reasons,
rendering, layout and the admin page, single reads and inserts of the API, the
offline research, infrastructure. `docs/decision-engine.md` states older thresholds
than `packages/domain/src/constants/gold.ts`; the model follows the code.

Done, in this order, because that is where a mistake costs most: `BuyAlerts` with
`AlertOutbox`, `MarketSnapshot`, `Subscriptions`, `DecisionEngine`, `Ingestion`,
`DailyHistory` with `DailySeries` and `DrawdownPlan`, `SummaryStream`.

The limit of two mails a day (src/README.md:208) is not stated as a property: the
code exempts the one address it mails, and mails no other.

What is left, in this order:

1. `Pipeline`: `MarketSnapshot` and `BuyAlerts` composed over the same rows and the
   same snapshot id; a cleanup that throws keeps the alerts of its run back.
2. `PremiumDrop`: the policy of events on a fine clock, with days, levels and expiry,
   composed with the rate limit for several recipients.
3. The prefetch of the factor histories (`live-market-dashboard.tsx:140-190`), which
   is marked as done before its timer fires.
4. The repair of a metric that looks bad (`market.service.ts:418`).
