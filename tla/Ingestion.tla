----------------------------- MODULE Ingestion -----------------------------
(***************************************************************************)
(* The ingestion of prices (jobs/ingestion.ts): what a pipeline run        *)
(* fetches from its providers, how it judges a quote against the latest    *)
(* row it trusts (validators/data-quality.ts), and what the upsert by      *)
(* source and time leaves in PostgreSQL.  With it, the queries for the     *)
(* latest row by which the metrics read the result.                        *)
(*                                                                         *)
(* A feed is one series: the world price, the exchange rate, the macro     *)
(* indicator, or the price of one product.  The checks that look at a      *)
(* quote alone (positive, in range, spread, whitelist) are one flag,       *)
(* sound; the checks that compare it with the clock and with an earlier    *)
(* row are modelled in full.                                               *)
(***************************************************************************)
EXTENDS Integers, FiniteSets

CONSTANTS
    Runs,             \* pipeline runs
    Products,         \* the products, each a feed of its own
    OfficialProduct,  \* DOJI_RING_9999, which its maker quotes as well
    WorldSources,     \* the providers tried in turn for the world price
    Aggregators,      \* the pages that quote all products
    Official,         \* DOJI_OFFICIAL
    FxSource,         \* EXCHANGERATE_API, the code of both pages of rates
    MacroSource,      \* YAHOO_FINANCE
    NoQuote,          \* no quote has been judged
    Prices,           \* bound: the prices providers quote
    MaxAge,           \* feed -> greatest age of a fresh quote
    MaxJump,          \* feed -> greatest change from the previous row, in per cent
    MaxTime,          \* bound: the last time on the clock
    MaxSkew,          \* bound: how far ahead of the clock a provider's time may be
    MaxQuotes,        \* bound: the quotes of one domestic fetch
    MaxRows,          \* bound: rows stored before providers fall silent
    Serial            \* a pipeline run starts only when no other is alive

\* The feeds whose quotes are judged, and all feeds.
Judged  == {"world", "fx"} \cup Products
Feeds   == Judged \cup {"macro"}
Sources == WorldSources \cup Aggregators \cup {Official, FxSource, MacroSource}
Times   == 0 .. MaxTime + MaxSkew
Labels  == {"idle", "world", "fx", "macro", "domestic", "official", "done"}

Quotes == [feed : Feeds, source : Sources, price : Prices, time : Times,
           dated : BOOLEAN, sound : BOOLEAN]
Rows   == [feed : Feeds, source : Sources, price : Prices, time : Times,
           valid : BOOLEAN]

ASSUME IngestionAssumption ==
    /\ MaxTime \in Nat /\ MaxSkew \in Nat /\ MaxQuotes \in Nat /\ MaxRows \in Nat
    /\ Prices \subseteq Nat
    /\ OfficialProduct \in Products
    /\ "macro" \notin Judged
    /\ NoQuote \notin Quotes
    /\ MaxAge \in [Judged -> Nat] /\ MaxJump \in [Judged -> Nat]
    /\ Serial \in BOOLEAN

VARIABLES
    now,      \* the clock
    rows,     \* the rows of all price tables
    next,     \* run -> the fetch it comes to next
    quotes,   \* run -> the fetched quotes it still has to store
    judged,   \* run -> the quote it has judged and is about to store
    verdict   \* run -> whether that quote is valid

localVars == <<next, quotes, judged, verdict>>
vars      == <<now, rows, next, quotes, judged, verdict>>

-----------------------------------------------------------------------------
(* Queries *)

ValidRows(f) == {x \in rows : x.feed = f /\ x.valid}

\* Faulty variant: the previous row is looked up without isValid.
AnyPreviousRows(f) ==
    LET feedRows == {x \in rows : x.feed = f}
    IN  {x \in feedRows : \A y \in feedRows : y.time <= x.time}

\* Faulty variant: the oldest row first.
OldestRows(f) == {x \in ValidRows(f) : \A y \in ValidRows(f) : x.time <= y.time}

\* The row a new quote is compared with: isValid, latest time first.  Of rows
\* with one time the database may return any.
PreviousRows(f) == {x \in ValidRows(f) : \A y \in ValidRows(f) : y.time <= x.time}

\* The row the metrics are computed from, by a query of its own.
Latest(f) == {x \in ValidRows(f) : \A y \in ValidRows(f) : y.time <= x.time}

-----------------------------------------------------------------------------
(* Validation *)

\* A quote without a time of its own passes as fresh.
IsFresh(q) == q.dated => now - q.time <= MaxAge[q.feed]

\* The change from prev to cur exceeds the share the feed allows.
JumpTooHigh(f, cur, prev) ==
    /\ prev > 0
    /\ \/ 100 * cur > (100 + MaxJump[f]) * prev
       \/ 100 * cur < (100 - MaxJump[f]) * prev

\* The checks that need no earlier row.
PassesAlone(q) == q.sound /\ IsFresh(q)

\* validateDomesticGoldQuote, validateWorldGoldQuote and validateFxQuote: with
\* no earlier row there is no jump.  A macro quote is taken as it is.
Verdicts(q) ==
    IF q.feed = "macro" THEN {TRUE}
    ELSE IF ValidRows(q.feed) = {} THEN {PassesAlone(q)}
    ELSE {PassesAlone(q) /\ ~JumpTooHigh(q.feed, q.price, x.price) :
              x \in PreviousRows(q.feed)}

-----------------------------------------------------------------------------
(* What providers answer *)

\* A quote with the provider's own time, which may lag or run ahead.
DatedQuotes(f, s) ==
    [feed : {f}, source : {s}, price : Prices, time : 0 .. now + MaxSkew,
     dated : {TRUE}, sound : BOOLEAN]

\* A quote without a time: the row gets the time of the fetch.
UndatedQuotes(f, s) ==
    [feed : {f}, source : {s}, price : Prices, time : {now},
     dated : {FALSE}, sound : BOOLEAN]

\* A quote taken from a page, dated when the page was read.
ScrapedQuotes(f, s) ==
    [feed : {f}, source : {s}, price : Prices, time : {now},
     dated : {TRUE}, sound : BOOLEAN]

ProviderQuotes(f, s) == DatedQuotes(f, s) \cup UndatedQuotes(f, s)

\* Bound: the instance asks for no further quotes when the tables are full.
Room == Cardinality(rows) < MaxRows

-----------------------------------------------------------------------------
(* A run *)

Init ==
    /\ now = 0
    /\ rows = {}
    /\ next = [r \in Runs |-> "idle"]
    /\ quotes = [r \in Runs |-> {}]
    /\ judged = [r \in Runs |-> NoQuote]
    /\ verdict = [r \in Runs |-> FALSE]

\* The run has stored all it fetched and comes to the fetch at label.
Ready(r, label) == next[r] = label /\ quotes[r] = {}

\* The run has fetched qs and goes on to label once they are stored.
Fetched(r, qs, label) ==
    /\ quotes' = [quotes EXCEPT ![r] = qs]
    /\ next' = [next EXCEPT ![r] = label]
    /\ UNCHANGED <<now, rows, judged, verdict>>

EndRun(r) ==
    /\ next' = [next EXCEPT ![r] = "idle"]
    /\ quotes' = [quotes EXCEPT ![r] = {}]
    /\ judged' = [judged EXCEPT ![r] = NoQuote]
    /\ verdict' = [verdict EXCEPT ![r] = FALSE]
    /\ UNCHANGED <<now, rows>>

Start(r) ==
    /\ next[r] = "idle"
    /\ Serial => \A other \in Runs : next[other] = "idle"
    /\ next' = [next EXCEPT ![r] = "world"]
    /\ UNCHANGED <<now, rows, quotes, judged, verdict>>

\* fetchWorldGold: the first provider in turn that has data; any may be the
\* first, and none may have any.
FetchWorld(r) ==
    /\ Ready(r, "world")
    /\ \/ Fetched(r, {}, "fx")
       \/ Room /\ \E s \in WorldSources : \E q \in ProviderQuotes("world", s) :
              Fetched(r, {q}, "fx")

\* fetchFx: the rate of either page, dated now, under one source code.
FetchFx(r) ==
    /\ Ready(r, "fx")
    /\ \/ Fetched(r, {}, "macro")
       \/ Room /\ \E q \in ScrapedQuotes("fx", FxSource) : Fetched(r, {q}, "macro")

\* fetchMacroIndicators, for the one indicator that is read.
FetchMacro(r) ==
    /\ Ready(r, "macro")
    /\ \/ Fetched(r, {}, "domestic")
       \/ Room /\ \E q \in ProviderQuotes("macro", MacroSource) :
              Fetched(r, {q}, "domestic")

\* VietnamGoldApiProvider.fetch: the quotes scraped from the pages or listed by
\* a configured service, whose list may name a product more than once.  All
\* quotes of a product carry one source code.
FetchDomestic(r) ==
    /\ Ready(r, "domestic")
    /\ \/ Fetched(r, {}, "official")
       \/ Room /\ \E s \in [Products -> Aggregators] :
              \E q \in [1 .. MaxQuotes -> UNION {ProviderQuotes(p, s[p]) : p \in Products}] :
                  Fetched(r, {q[i] : i \in 1 .. MaxQuotes}, "official")

\* mergeDomesticGoldQuotes: an official quote displaces the aggregator's.
Merged(qs, official) == {q \in qs : q.feed # OfficialProduct} \cup {official}

\* DojiOfficialGoldProvider.fetch, whose quote is always dated, and the merge.
\* The quotes of the aggregators wait for it.
FetchOfficial(r) ==
    /\ next[r] = "official"
    /\ \/ Fetched(r, quotes[r], "done")
       \/ Room /\ \E q \in DatedQuotes(OfficialProduct, Official) :
              Fetched(r, Merged(quotes[r], q), "done")

\* The query for the previous row of the next quote, and its validation.
Judge(r) ==
    /\ next[r] # "official" /\ judged[r] = NoQuote
    /\ \E q \in quotes[r] :
          /\ judged' = [judged EXCEPT ![r] = q]
          /\ \E v \in Verdicts(q) : verdict' = [verdict EXCEPT ![r] = v]
    /\ UNCHANGED <<now, rows, next, quotes>>

RowOf(q, v) ==
    [feed |-> q.feed, source |-> q.source, price |-> q.price, time |-> q.time, valid |-> v]

SameKey(x, y) == x.feed = y.feed /\ x.source = y.source /\ x.time = y.time

\* Faulty variant: the upsert refreshes the row.
RefreshingUpsert(row) == rows' = {x \in rows : ~SameKey(x, row)} \cup {row}

\* Faulty variant: the row is created without a look at its key.
BlindUpsert(row) == rows' = rows \cup {row}

\* upsert with an empty update: a row with the key stays what it is.
Upsert(row) ==
    IF \E x \in rows : SameKey(x, row) THEN rows' = rows ELSE rows' = rows \cup {row}

Store(r) ==
    /\ judged[r] # NoQuote
    /\ Upsert(RowOf(judged[r], verdict[r]))
    /\ quotes' = [quotes EXCEPT ![r] = @ \ {judged[r]}]
    /\ judged' = [judged EXCEPT ![r] = NoQuote]
    /\ verdict' = [verdict EXCEPT ![r] = FALSE]
    /\ UNCHANGED <<now, next>>

\* The run goes on to the metrics, which write none of this state.
Finish(r) == Ready(r, "done") /\ EndRun(r)

\* A provider or a query throws, or the process dies: what is stored stays,
\* and the later feeds are not fetched.
Fail(r) == next[r] # "idle" /\ EndRun(r)

\* External: time passes.
Tick ==
    /\ now < MaxTime
    /\ now' = now + 1
    /\ UNCHANGED <<rows, next, quotes, judged, verdict>>

RunStep(r) ==
    \/ Start(r)      \/ FetchWorld(r)    \/ FetchFx(r) \/ FetchMacro(r)
    \/ FetchDomestic(r) \/ FetchOfficial(r) \/ Judge(r) \/ Store(r)
    \/ Finish(r)     \/ Fail(r)

Next == Tick \/ \E r \in Runs : RunStep(r)

Spec == Init /\ [][Next]_vars

-----------------------------------------------------------------------------
(* Properties *)

\* The unique keys of schema.prisma: one row for each feed, source and time.
UniqueKeys == \A x, y \in rows : SameKey(x, y) => x = y

\* Every variable has its type, a run is about to store only what it has
\* fetched, and the tables keep their unique keys.
TypeOK ==
    /\ now \in 0 .. MaxTime
    /\ rows \subseteq Rows
    /\ next \in [Runs -> Labels]
    /\ quotes \in [Runs -> SUBSET Quotes]
    /\ judged \in [Runs -> Quotes \cup {NoQuote}]
    /\ verdict \in [Runs -> BOOLEAN]
    /\ \A r \in Runs : judged[r] = NoQuote \/ judged[r] \in quotes[r]
    /\ UniqueKeys

\* However providers lag, run ahead, repeat themselves or correct an old quote,
\* the row the metrics read never goes back in time and never disappears: a
\* quote that is fetched again when it is too old does not take its own row away.
LatestNeverRegresses ==
    [][\A f \in Feeds : \A old \in Latest(f) :
          \E new \in Latest(f)' : new.time >= old.time]_vars

\* The price the metrics read never moves further in one step than the feed
\* allows: neither a rejected quote nor an old one becomes the measure of the next.
LatestMovesSmoothly ==
    [][\A f \in Judged : \A new \in Latest(f)' \ Latest(f) :
          \/ ValidRows(f) = {}
          \/ \E old \in Latest(f) : ~JumpTooHigh(f, new.price, old.price)]_vars

\* Every valid row of a feed but one is within the allowed change of another
\* valid row.  Momenta start from any of them, not only from the latest.
Vouched(f) ==
    ValidRows(f) # {} =>
        \E first \in ValidRows(f) : \A x \in ValidRows(f) \ {first} :
            \E y \in ValidRows(f) \ {x} : ~JumpTooHigh(f, x.price, y.price)

\* No spike of a provider stays in the history of a judged feed as valid.
NoOutlier == \A f \in Judged : Vouched(f)
=============================================================================
