--------------------------- MODULE MarketSnapshot ---------------------------
(***************************************************************************)
(* The market pipeline of the worker (jobs/market-pipeline.ts): ingest,    *)
(* calculate metrics, generate signals, publish a snapshot to Redis, clean *)
(* up older snapshots (jobs/market-snapshot.ts).  With it: the API calls   *)
(* that read the snapshot through its pointer and fall back to PostgreSQL, *)
(* the expiry of keys, and the cleanup step of the deploy workflow.        *)
(*                                                                         *)
(* A snapshot is named by the time of its inputs.  What is computed from   *)
(* the inputs of a time is determined by that time and by the domestic     *)
(* quote, so a row of gold_metrics or signal_snapshots is the pair of both.*)
(***************************************************************************)
EXTENDS Integers, FiniteSets

CONSTANTS
    Workers,     \* pipeline runs: jobs of the queue, and runOnce
    Readers,     \* API calls
    Products,    \* the active products
    Suffixes,    \* the keys of one snapshot: summary, products, histories
    Nobody,      \* no product is being handled
    MaxTime,     \* bound: the last time an input carries
    MaxQuote,    \* bound: the last domestic quote of a product
    MaxFaults,   \* bound: crashes and failed calls
    MaxDeploys,  \* bound: cleanups by the deploy workflow
    Serial       \* pipeline runs and deploy cleanups do not overlap

ASSUME SnapshotAssumption ==
    /\ MaxTime \in Nat \ {0} /\ MaxQuote \in Nat /\ MaxFaults \in Nat /\ MaxDeploys \in Nat
    /\ Products # {} /\ Suffixes # {} /\ Nobody \notin Products
    /\ Serial \in BOOLEAN

\* Snapshot ids; 0 stands for the time of a row, or the pointer, that is absent.
Ids   == 1 .. MaxTime
Times == 0 .. MaxTime
Rows  == [time : Times, quote : 0 .. MaxQuote]
NoRow == [time |-> 0, quote |-> 0]
NoRows == [p \in Products |-> NoRow]

\* The rows a snapshot is made of.
Bodies == [metric : [Products -> Rows], signal : [Products -> Rows]]
NoBody == [metric |-> NoRows, signal |-> NoRows]

\* The reads of publishMarketSnapshot, which run side by side.
ReadKinds == {"inputs", "metrics", "signals"}

Labels == {"idle", "inputs", "quotes", "metrics", "price", "metric", "signals", "signal",
           "read", "publish", "clean", "alerts"}

VARIABLES
    \* PostgreSQL
    inputTime,  \* the later of the latest world gold price and exchange rate
    quote,      \* the latest domestic price of each product, 0 when there is none
    metric,     \* the latest row of gold_metrics of each product
    signal,     \* the latest row of signal_snapshots of each product
    \* Redis
    pointer,    \* market:snapshot:current
    stored,     \* the suffixes stored under each snapshot id
    body,       \* the rows in the snapshot of each id
    \* the pipeline runs
    pc, at, todo, item, row, reads, rows, scan,
    \* the API calls
    rpc, rid, answer, floor,
    \* the deploy workflow: the id it keeps and the keys it has listed
    keep, listed, deploys,
    faults

dbVars     == <<inputTime, quote, metric, signal>>
redisVars  == <<pointer, stored, body>>
localVars  == <<at, todo, item, row, reads, rows, scan>>
readerVars == <<rpc, rid, answer, floor>>
deployVars == <<keep, listed, deploys>>
vars == <<dbVars, redisVars, pc, localVars, readerVars, deployVars, faults>>

-----------------------------------------------------------------------------
Init ==
    /\ inputTime = 0
    /\ quote = [p \in Products |-> 0]
    /\ metric = NoRows /\ signal = NoRows
    /\ pointer = 0
    /\ stored = [i \in Ids |-> {}]
    /\ body = [i \in Ids |-> NoBody]
    /\ pc = [w \in Workers |-> "idle"]
    /\ at = [w \in Workers |-> 0]
    /\ todo = [w \in Workers |-> {}]
    /\ item = [w \in Workers |-> Nobody]
    /\ row = [w \in Workers |-> NoRow]
    /\ reads = [w \in Workers |-> {}]
    /\ rows = [w \in Workers |-> NoBody]
    /\ scan = [w \in Workers |-> {}]
    /\ rpc = [r \in Readers |-> "idle"]
    /\ rid = [r \in Readers |-> 0]
    /\ answer = [r \in Readers |-> 0]
    /\ floor = [r \in Readers |-> 0]
    /\ keep = 0 /\ listed = {} /\ deploys = 0
    /\ faults = 0

-----------------------------------------------------------------------------
(* Keys *)

Keys == Ids \X Suffixes

Present == {k \in Keys : k[2] \in stored[k[1]]}

\* Every key but the pointer and those of snapshot i: what a cleanup removes.
Stale(i) == {k \in Present : k[1] # i}

\* UNLINK of the keys K, and what is left of the snapshots.
Unlink(K) ==
    /\ stored' = [i \in Ids |-> {x \in stored[i] : <<i, x>> \notin K}]
    /\ body' = [i \in Ids |-> IF stored'[i] = {} THEN NoBody ELSE body[i]]

\* The keys of one MULTI expire at the same moment, the pointer with the
\* snapshot it was set with.
Expire(i) ==
    /\ stored[i] # {}
    /\ Unlink({i} \X Suffixes)
    /\ pointer' = IF pointer = i THEN 0 ELSE pointer
    /\ UNCHANGED <<dbVars, pc, localVars, readerVars, deployVars, faults>>

-----------------------------------------------------------------------------
(* A pipeline run *)

GoTo(w, from, to) ==
    /\ pc[w] = from
    /\ pc' = [pc EXCEPT ![w] = to]
    /\ UNCHANGED <<readerVars, deployVars>>

Start(w) ==
    /\ Serial => keep = 0 /\ \A v \in Workers : pc[v] = "idle"
    /\ GoTo(w, "idle", "inputs")
    /\ UNCHANGED <<dbVars, redisVars, localVars, faults>>

\* fetchWorldGold, fetchFx: rows that may be newer than the latest ones.
FetchInputs(w) ==
    /\ GoTo(w, "inputs", "quotes")
    /\ inputTime' \in inputTime .. MaxTime
    /\ UNCHANGED <<quote, metric, signal, redisVars, localVars, faults>>

\* fetchDomesticGold: a product may get a new price, or its first one.
FetchQuotes(w) ==
    /\ GoTo(w, "quotes", "metrics")
    /\ \E P \in SUBSET {p \in Products : quote[p] < MaxQuote} :
         quote' = [p \in Products |-> IF p \in P THEN quote[p] + 1 ELSE quote[p]]
    /\ UNCHANGED <<inputTime, metric, signal, redisVars, localVars, faults>>

\* calculateLatestMetrics reads the inputs; without any it returns.
StartMetrics(w) ==
    /\ GoTo(w, "metrics", "price")
    /\ at' = [at EXCEPT ![w] = inputTime]
    /\ todo' = [todo EXCEPT ![w] = IF inputTime = 0 THEN {} ELSE Products]
    /\ UNCHANGED <<dbVars, redisVars, item, row, reads, rows, scan, faults>>

\* The domestic price of the next product; a product without one is skipped.
ReadPrice(w) ==
    \E p \in todo[w] :
        /\ todo' = [todo EXCEPT ![w] = @ \ {p}]
        /\ IF quote[p] = 0
           THEN GoTo(w, "price", "price") /\ UNCHANGED <<item, row>>
           ELSE /\ GoTo(w, "price", "metric")
                /\ item' = [item EXCEPT ![w] = p]
                /\ row' = [row EXCEPT ![w] = [time |-> at[w], quote |-> quote[p]]]
        /\ UNCHANGED <<dbVars, redisVars, at, reads, rows, scan, faults>>

Forget(w) ==
    /\ item' = [item EXCEPT ![w] = Nobody]
    /\ row' = [row EXCEPT ![w] = NoRow]

\* Upsert at the run's time, in place; a row of an earlier time is not the latest.
UpsertMetric(w) ==
    /\ GoTo(w, "metric", "price")
    /\ metric' = [metric EXCEPT ![item[w]] = IF row[w].time >= @.time THEN row[w] ELSE @]
    /\ Forget(w)
    /\ UNCHANGED <<inputTime, quote, signal, redisVars, at, todo, reads, rows, scan, faults>>

\* generateLatestSignals begins its own loop over the products.
StartSignals(w) ==
    /\ todo[w] = {}
    /\ GoTo(w, "price", "signals")
    /\ at' = [at EXCEPT ![w] = 0]
    /\ todo' = [todo EXCEPT ![w] = Products]
    /\ UNCHANGED <<dbVars, redisVars, item, row, reads, rows, scan, faults>>

ReadMetric(w) ==
    \E p \in todo[w] :
        /\ todo' = [todo EXCEPT ![w] = @ \ {p}]
        /\ IF metric[p] = NoRow
           THEN GoTo(w, "signals", "signals") /\ UNCHANGED <<item, row>>
           ELSE /\ GoTo(w, "signals", "signal")
                /\ item' = [item EXCEPT ![w] = p]
                /\ row' = [row EXCEPT ![w] = metric[p]]
        /\ UNCHANGED <<dbVars, redisVars, at, reads, rows, scan, faults>>

\* Faulty variant: a signal that exists already is left as it is.
InsertSignal(w) ==
    /\ GoTo(w, "signal", "signals")
    /\ signal' = [signal EXCEPT ![item[w]] = IF row[w].time > @.time THEN row[w] ELSE @]
    /\ Forget(w)
    /\ UNCHANGED <<inputTime, quote, metric, redisVars, at, todo, reads, rows, scan, faults>>

\* Upsert at the time of the metric the signal was computed from.
UpsertSignal(w) ==
    /\ GoTo(w, "signal", "signals")
    /\ signal' = [signal EXCEPT ![item[w]] = IF row[w].time >= @.time THEN row[w] ELSE @]
    /\ Forget(w)
    /\ UNCHANGED <<inputTime, quote, metric, redisVars, at, todo, reads, rows, scan, faults>>

StartPublish(w) ==
    /\ todo[w] = {}
    /\ GoTo(w, "signals", "read")
    /\ reads' = [reads EXCEPT ![w] = ReadKinds]
    /\ UNCHANGED <<dbVars, redisVars, at, todo, item, row, rows, scan, faults>>

\* One of the parallel reads returns.
ReadForSnapshot(w) ==
    \E kind \in reads[w] :
        /\ reads' = [reads EXCEPT ![w] = @ \ {kind}]
        /\ GoTo(w, "read", IF reads'[w] = {} THEN "publish" ELSE "read")
        /\ at' = IF kind = "inputs" THEN [at EXCEPT ![w] = inputTime] ELSE at
        /\ rows' = CASE kind = "inputs"  -> rows
                     [] kind = "metrics" -> [rows EXCEPT ![w].metric = metric]
                     [] kind = "signals" -> [rows EXCEPT ![w].signal = signal]
        /\ UNCHANGED <<dbVars, redisVars, todo, item, row, scan, faults>>

\* Every active product has a price, a metric of the snapshot's time, and a
\* signal of the metric's time.
Aligned(w) ==
    /\ at[w] # 0
    /\ \A p \in Products :
         /\ quote[p] # 0
         /\ rows[w].metric[p].time = at[w]
         /\ rows[w].signal[p].time = rows[w].metric[p].time

\* The run forgets everything it holds.
EndRun(w) ==
    /\ pc' = [pc EXCEPT ![w] = "idle"]
    /\ at' = [at EXCEPT ![w] = 0]
    /\ todo' = [todo EXCEPT ![w] = {}]
    /\ Forget(w)
    /\ reads' = [reads EXCEPT ![w] = {}]
    /\ rows' = [rows EXCEPT ![w] = NoBody]
    /\ scan' = [scan EXCEPT ![w] = {}]
    /\ UNCHANGED <<readerVars, deployVars>>

\* publishMarketSnapshot returns null: the pipeline ends without alerts.
RefusePublish(w) ==
    /\ pc[w] = "publish"
    /\ ~ Aligned(w)
    /\ EndRun(w)
    /\ UNCHANGED <<dbVars, redisVars, faults>>

\* Faulty variant: the pointer is set with NX.
ExecKeepingPointer(w) ==
    /\ pc[w] = "publish"
    /\ Aligned(w)
    /\ stored' = [stored EXCEPT ![at[w]] = Suffixes]
    /\ body' = [body EXCEPT ![at[w]] = rows[w]]
    /\ pointer' = IF pointer = 0 THEN at[w] ELSE pointer
    /\ UNCHANGED dbVars

\* MULTI ... EXEC: all the keys of the snapshot and the pointer at once.
Exec(w) ==
    /\ pc[w] = "publish"
    /\ Aligned(w)
    /\ stored' = [stored EXCEPT ![at[w]] = Suffixes]
    /\ body' = [body EXCEPT ![at[w]] = rows[w]]
    /\ pointer' = at[w]
    /\ UNCHANGED dbVars

\* cleanupStaleMarketSnapshots starts its scan.
Publish(w) ==
    /\ Exec(w)
    /\ GoTo(w, "publish", "clean")
    /\ scan' = [scan EXCEPT ![w] = {k \in Keys : k[1] # at[w] /\ k[2] \in stored[k[1]]}]
    /\ rows' = [rows EXCEPT ![w] = NoBody]
    /\ UNCHANGED <<at, todo, item, row, reads, faults>>

\* Faulty variant: only the pointer is spared, not the current snapshot.
CleanEverything(w) ==
    /\ GoTo(w, "clean", "clean")
    /\ \E K \in SUBSET Present : K # {} /\ Unlink(K) /\ scan' = [scan EXCEPT ![w] = @ \ K]
    /\ UNCHANGED <<dbVars, pointer, at, todo, item, row, reads, rows, faults>>

\* One SCAN reply and one UNLINK.  A scan returns every key that is there from
\* its beginning to its end; one that was added meanwhile, perhaps.
CleanBatch(w) ==
    /\ GoTo(w, "clean", "clean")
    /\ \E K \in SUBSET Stale(at[w]) :
         K # {} /\ Unlink(K) /\ scan' = [scan EXCEPT ![w] = @ \ K]
    /\ UNCHANGED <<dbVars, pointer, at, todo, item, row, reads, rows, faults>>

\* Faulty variant: the scan stops after its first reply.
CleanOnce(w) ==
    /\ GoTo(w, "clean", "alerts")
    /\ scan' = [scan EXCEPT ![w] = {}]
    /\ UNCHANGED <<dbVars, redisVars, at, todo, item, row, reads, rows, faults>>

\* The cursor is 0 again: every key of the scan has been seen.
CleanDone(w) ==
    /\ scan[w] \cap Present = {}
    /\ GoTo(w, "clean", "alerts")
    /\ scan' = [scan EXCEPT ![w] = {}]
    /\ UNCHANGED <<dbVars, redisVars, at, todo, item, row, reads, rows, faults>>

\* sendBuyAlerts, the subject of BuyAlerts, runs and ends.
SendAlerts(w) ==
    /\ pc[w] = "alerts"
    /\ EndRun(w)
    /\ UNCHANGED <<dbVars, redisVars, faults>>

\* The run fails anywhere, or its process crashes: every error propagates.
Fail(w) ==
    /\ pc[w] # "idle"
    /\ faults < MaxFaults /\ faults' = faults + 1
    /\ EndRun(w)
    /\ UNCHANGED <<dbVars, redisVars>>

\* The EXEC is applied and its reply is lost: the run fails without a cleanup.
ExecReplyLost(w) ==
    /\ faults < MaxFaults /\ faults' = faults + 1
    /\ Exec(w)
    /\ EndRun(w)

-----------------------------------------------------------------------------
(* An API call: getLatest of the metrics *)

\* Faulty variant: the value is asked for although there is no pointer.
ReadPointerUnchecked(r) ==
    /\ rpc[r] = "idle"
    /\ rpc' = [rpc EXCEPT ![r] = "value"]
    /\ rid' = [rid EXCEPT ![r] = pointer]
    /\ floor' = [floor EXCEPT ![r] = pointer]
    /\ UNCHANGED <<dbVars, redisVars, pc, localVars, answer, deployVars, faults>>

\* GET of the pointer.
ReadPointer(r) ==
    /\ rpc[r] = "idle"
    /\ rpc' = [rpc EXCEPT ![r] = IF pointer = 0 THEN "database" ELSE "value"]
    /\ rid' = [rid EXCEPT ![r] = pointer]
    /\ floor' = [floor EXCEPT ![r] = pointer]
    /\ UNCHANGED <<dbVars, redisVars, pc, localVars, answer, deployVars, faults>>

\* Faulty variant: a value that is gone is answered with nothing.
ReadValueOrNothing(r) ==
    /\ rpc[r] = "value"
    /\ rpc' = [rpc EXCEPT ![r] = "answered"]
    /\ answer' = [answer EXCEPT ![r] = IF stored[rid[r]] = {} THEN 0 ELSE rid[r]]
    /\ rid' = [rid EXCEPT ![r] = 0]
    /\ UNCHANGED <<dbVars, redisVars, pc, localVars, floor, deployVars, faults>>

\* GET of the value under the id that was read: found, or null.
ReadValue(r) ==
    /\ rpc[r] = "value"
    /\ \E x \in Suffixes :
         IF x \in stored[rid[r]]
         THEN /\ rpc' = [rpc EXCEPT ![r] = "answered"]
              /\ answer' = [answer EXCEPT ![r] = rid[r]]
         ELSE rpc' = [rpc EXCEPT ![r] = "database"] /\ UNCHANGED answer
    /\ rid' = [rid EXCEPT ![r] = 0]
    /\ UNCHANGED <<dbVars, redisVars, pc, localVars, floor, deployVars, faults>>

\* The fallback: the latest metric of one product in PostgreSQL.
ReadDatabase(r) ==
    /\ rpc[r] = "database"
    /\ rpc' = [rpc EXCEPT ![r] = "answered"]
    /\ \E p \in Products : answer' = [answer EXCEPT ![r] = metric[p].time]
    /\ UNCHANGED <<dbVars, redisVars, pc, localVars, rid, floor, deployVars, faults>>

Respond(r) ==
    /\ rpc[r] = "answered"
    /\ rpc' = [rpc EXCEPT ![r] = "idle"]
    /\ answer' = [answer EXCEPT ![r] = 0]
    /\ floor' = [floor EXCEPT ![r] = 0]
    /\ UNCHANGED <<dbVars, redisVars, pc, localVars, rid, deployVars, faults>>

-----------------------------------------------------------------------------
(* The cleanup of the deploy workflow, next to a worker that has just started *)

DeployReadPointer ==
    /\ deploys < MaxDeploys /\ keep = 0
    /\ Serial => \A w \in Workers : pc[w] = "idle"
    /\ pointer # 0
    /\ deploys' = deploys + 1
    /\ keep' = pointer
    /\ UNCHANGED <<dbVars, redisVars, pc, localVars, readerVars, listed, faults>>

DeployScan ==
    /\ keep # 0 /\ listed = {}
    /\ listed' = Stale(keep)
    /\ keep' = IF listed' = {} THEN 0 ELSE keep
    /\ UNCHANGED <<dbVars, redisVars, pc, localVars, readerVars, deploys, faults>>

\* The keys of the list are unlinked one by one.
DeployUnlink ==
    \E k \in listed :
        /\ Unlink({k})
        /\ listed' = listed \ {k}
        /\ keep' = IF listed' = {} THEN 0 ELSE keep
        /\ UNCHANGED <<dbVars, pointer, pc, localVars, readerVars, deploys, faults>>

-----------------------------------------------------------------------------
(* The specification *)

PipelineStep(w) ==
    \/ FetchInputs(w) \/ FetchQuotes(w)
    \/ StartMetrics(w) \/ ReadPrice(w) \/ UpsertMetric(w)
    \/ StartSignals(w) \/ ReadMetric(w) \/ UpsertSignal(w)
    \/ StartPublish(w) \/ ReadForSnapshot(w) \/ RefusePublish(w) \/ Publish(w)
    \/ CleanBatch(w) \/ CleanDone(w) \/ SendAlerts(w)

ReaderStep(r) ==
    ReadPointer(r) \/ ReadValue(r) \/ ReadDatabase(r) \/ Respond(r)

DeployStep == DeployReadPointer \/ DeployScan \/ DeployUnlink

Next ==
    \/ \E w \in Workers : Start(w) \/ PipelineStep(w) \/ Fail(w) \/ ExecReplyLost(w)
    \/ \E r \in Readers : ReaderStep(r)
    \/ DeployStep
    \/ \E i \in Ids : Expire(i)

Spec == Init /\ [][Next]_vars

\* The job is scheduled again and again and a run that is alive takes its next
\* step.  A scan makes progress even though it may return keys in any batches.
FairSpec ==
    /\ Spec
    /\ \A w \in Workers : WF_vars(Start(w)) /\ WF_vars(PipelineStep(w))

-----------------------------------------------------------------------------
(* Properties *)

DatabaseTypeOK ==
    /\ inputTime \in Times
    /\ quote \in [Products -> 0 .. MaxQuote]
    /\ metric \in [Products -> Rows] /\ signal \in [Products -> Rows]

RedisTypeOK ==
    /\ pointer \in Times
    /\ stored \in [Ids -> SUBSET Suffixes]
    /\ body \in [Ids -> Bodies]

RunsTypeOK ==
    /\ pc \in [Workers -> Labels]
    /\ at \in [Workers -> Times]
    /\ todo \in [Workers -> SUBSET Products]
    /\ item \in [Workers -> Products \cup {Nobody}]
    /\ \A w \in Workers : pc[w] \in {"metric", "signal"} => item[w] \in Products
    /\ row \in [Workers -> Rows]
    /\ reads \in [Workers -> SUBSET ReadKinds]
    /\ rows \in [Workers -> Bodies]
    /\ scan \in [Workers -> SUBSET Keys]

CallsTypeOK ==
    /\ rpc \in [Readers -> {"idle", "value", "database", "answered"}]
    /\ rid \in [Readers -> Times] /\ \A r \in Readers : rpc[r] = "value" => rid[r] # 0
    /\ answer \in [Readers -> Times] /\ floor \in [Readers -> Times]
    /\ keep \in Times /\ listed \in SUBSET Keys
    /\ deploys \in 0 .. MaxDeploys /\ faults \in 0 .. MaxFaults

TypeOK == DatabaseTypeOK /\ RedisTypeOK /\ RunsTypeOK /\ CallsTypeOK

\* The pointer never names a snapshot of which a key is missing, whichever
\* cleanups, crashes and expiries fall between two publications.
PointerComplete == pointer # 0 => stored[pointer] = Suffixes

\* The current snapshot shows each product with the signal that was computed
\* from the very metric it shows, although rows are rewritten in place.
SignalMatchesMetric == pointer # 0 => body[pointer].signal = body[pointer].metric

\* What makes the two invariants above inductive while no two runs and no deploy
\* cleanup overlap: one run is alive (OneRun), or a deploy cleanup that spares
\* what the pointer names (DeployAlone); a run's cleanup spares it as well
\* (CleanerSparesCurrent); a signal row is never ahead of its metric row
\* (SignalsBehind); a run that generates signals leaves every product it has
\* handled with a signal for its metric (SignalsCatchUp); and what it has read
\* for the snapshot is what is in the tables (ReadsAgree).
OneRun == \A v, w \in Workers : pc[v] # "idle" /\ pc[w] # "idle" => v = w

DeployAlone ==
    /\ keep = 0 => listed = {}
    /\ keep # 0 =>
          /\ \A w \in Workers : pc[w] = "idle"
          /\ pointer \in {0, keep}
          /\ \A k \in listed : k[1] # keep

CleanerSparesCurrent == \A w \in Workers : pc[w] = "clean" => pointer \in {0, at[w]}

PointerInv == OneRun /\ DeployAlone /\ CleanerSparesCurrent /\ PointerComplete

Absent(r) == r.time = 0 => r = NoRow

SignalsBehind ==
    \A p \in Products :
        signal[p].time <= metric[p].time /\ Absent(signal[p]) /\ Absent(metric[p])

RunsHaveInputs ==
    \A w \in Workers :
        /\ pc[w] = "price" => at[w] # 0 \/ todo[w] = {}
        /\ pc[w] = "metric" => at[w] # 0 /\ row[w].time = at[w]

SignalsCatchUp ==
    \A w \in Workers :
        /\ pc[w] = "signals" => \A p \in Products \ todo[w] : signal[p] = metric[p]
        /\ pc[w] = "signal" =>
              /\ row[w] = metric[item[w]] /\ row[w].time # 0
              /\ \A p \in Products \ (todo[w] \cup {item[w]}) : signal[p] = metric[p]

ReadsAgree ==
    \A w \in Workers :
        /\ pc[w] = "read" =>
              /\ signal = metric
              /\ "metrics" \notin reads[w] => rows[w].metric = metric
              /\ "signals" \notin reads[w] => rows[w].signal = signal
        /\ pc[w] = "publish" => rows[w].signal = rows[w].metric

BodiesMatch == \A i \in Ids : body[i].signal = body[i].metric

SignalInv == SignalsBehind /\ RunsHaveInputs /\ SignalsCatchUp /\ ReadsAgree /\ BodiesMatch

IInv == TypeOK /\ (Serial => PointerInv /\ SignalInv)

\* An API call answers with data at least as new as the snapshot that was
\* current when it began, even if that is removed between its two GETs.
AnswersAreFresh ==
    \A r \in Readers : rpc[r] = "answered" => answer[r] >= floor[r]

\* A cleanup that came to its end has left no key of an older snapshot.
CleanupIsThorough ==
    Serial => \A w \in Workers : pc[w] = "alerts" => Stale(at[w]) = {}

\* Once every product has a price, the snapshot of the latest inputs is current
\* again and again, in spite of finitely many failures and any expiry.
PublishesLatest ==
    <>[](inputTime # 0 /\ \A p \in Products : quote[p] # 0)
        => []<>(pointer # 0 /\ pointer = inputTime /\ stored[pointer] = Suffixes)
=============================================================================
