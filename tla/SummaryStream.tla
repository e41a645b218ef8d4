--------------------------- MODULE SummaryStream ---------------------------
(***************************************************************************)
(* How a market summary reaches an open page: getSummary answers from the  *)
(* snapshot, from a cache, or composes the summary from queries that run   *)
(* side by side; the stream of market.controller.ts asks it on an interval *)
(* without waiting for earlier answers and sends what has changed; and     *)
(* summary-stream.ts with live-market-dashboard.tsx shows what arrives,    *)
(* polls while the stream is broken, and refreshes when the page becomes   *)
(* visible.                                                                *)
(*                                                                         *)
(* A summary is the version of the tables it was composed from, queries    *)
(* that straddle a write counting as the earlier one.  The pipeline writes *)
(* inputs and then the metrics and signals of them, so that the tables are *)
(* settled at every other version; 0 is the version of empty tables, whose *)
(* summaries count as one although the code dates each of them anew.       *)
(***************************************************************************)
EXTENDS Naturals, Sequences

CONSTANTS
    StreamReads,   \* calls of getSummary by the stream
    RefreshReads,  \* calls of getSummary by the page
    MaxVersion,    \* bound: the last version of the tables
    MaxSent,       \* bound: events on their way to the page
    None           \* null

Versions == 0 .. MaxVersion
Reads    == StreamReads \cup RefreshReads

\* The metrics and signals are of the latest inputs.
IsSettled(v) == v % 2 = 0

ASSUME StreamAssumption ==
    /\ MaxVersion \in Nat /\ MaxSent \in Nat \ {0}
    /\ StreamReads \cap RefreshReads = {}
    /\ IsSettled(MaxVersion) /\ None \notin Nat

Labels == {"idle", "cache", "compose", "store", "answer"}

VARIABLES
    \* PostgreSQL and Redis
    tables,    \* their latest version
    snapshot,  \* the summary in the published snapshot, or None: also when it has expired, or
               \* hasUnreasonableSummary rejects it
    cache,     \* market:summary:latest, or None
    \* the calls of getSummary
    pc,
    live,      \* a call belongs to a connection that is not closed
    seen,      \* the version a call has read, or None
    \* the server's end of the stream
    lastKey,   \* lastSummaryKey of the latest connection
    sent,      \* events sent on it that the page has not seen
    \* the page
    mounted,
    source,    \* the EventSource: "connecting", "open", or "closed" for good or never made
    handle,    \* fallbackTimer is set
    timers,    \* intervals that run
    shown,     \* the summary on the page
    from       \* auxiliary: where it came from, "page", "stream" or "refresh"

data   == <<tables, snapshot, cache>>
calls  == <<pc, live, seen>>
stream == <<lastKey, sent>>
page   == <<mounted, source, handle, timers, shown, from>>
vars   == <<data, calls, stream, page>>

\* The page is rendered with a summary; an EventSource connects, or, when the stream has another
\* origin, there is none and polling starts.
Init ==
    /\ tables = 0 /\ snapshot = None /\ cache = None
    /\ pc = [r \in Reads |-> "idle"]
    /\ live = [r \in Reads |-> FALSE]
    /\ seen = [r \in Reads |-> None]
    /\ lastKey = None /\ sent = <<>>
    /\ mounted = TRUE
    /\ source \in {"connecting", "closed"}
    /\ handle = (source = "closed") /\ timers = IF handle THEN 1 ELSE 0
    /\ shown = 0 /\ from = "page"

-----------------------------------------------------------------------------
(* The worker *)

\* The pipeline writes the inputs, then their metrics and signals.
Write ==
    /\ tables < MaxVersion
    /\ tables' = tables + 1
    /\ UNCHANGED <<snapshot, cache, calls, stream, page>>

\* Faulty variant: metrics of earlier inputs are published.
PublishUnsettled ==
    /\ tables > 0 /\ snapshot # tables
    /\ snapshot' = tables
    /\ UNCHANGED <<tables, cache, calls, stream, page>>

\* publishMarketSnapshot: rows that are not of the latest inputs are not published.
Publish ==
    /\ tables > 0 /\ IsSettled(tables)
    /\ snapshot # tables
    /\ snapshot' = tables
    /\ UNCHANGED <<tables, cache, calls, stream, page>>

SnapshotExpires ==
    /\ snapshot # None
    /\ snapshot' = None
    /\ UNCHANGED <<tables, cache, calls, stream, page>>

CacheExpires ==
    /\ cache # None
    /\ cache' = None
    /\ UNCHANGED <<tables, snapshot, calls, stream, page>>

-----------------------------------------------------------------------------
(* getSummary *)

Goto(r, l) == pc' = [pc EXCEPT ![r] = l]

Holds(r, summary) == seen' = [seen EXCEPT ![r] = summary]

\* A call that has ended holds nothing.
Return(r) == Goto(r, "idle") /\ Holds(r, None) /\ live' = [live EXCEPT ![r] = FALSE]

\* The call and its first read: the published summary, if there is a usable one.
Call(r) ==
    /\ pc[r] = "idle"
    /\ IF snapshot # None
       THEN Goto(r, "answer") /\ Holds(r, snapshot)
       ELSE Goto(r, "cache") /\ UNCHANGED seen

\* hasUsableLatestInputs, then the cache.
ReadCache(r) ==
    /\ pc[r] = "cache"
    /\ IF tables = 0 THEN Goto(r, "answer") /\ Holds(r, 0)
       ELSE IF cache # None THEN Goto(r, "answer") /\ Holds(r, cache)
       ELSE Goto(r, "compose") /\ UNCHANGED seen
    /\ UNCHANGED <<data, live, stream, page>>

\* The queries of the composition, side by side.
Compose(r) ==
    /\ pc[r] = "compose"
    /\ Goto(r, "store") /\ Holds(r, tables)
    /\ UNCHANGED <<data, live, stream, page>>

\* The composed summary is cached.
Store(r) ==
    /\ pc[r] = "store"
    /\ cache' = seen[r]
    /\ Goto(r, "answer")
    /\ UNCHANGED <<tables, snapshot, live, seen, stream, page>>

\* A call that throws: the stream sends a summary-error, which the page does not listen to, and
\* the page keeps what it shows.
Fail(r) ==
    /\ pc[r] \in {"cache", "compose", "store"}
    /\ Return(r)
    /\ UNCHANGED <<data, stream, page>>

-----------------------------------------------------------------------------
(* The stream *)

\* The interval of the stream: a check begins whether or not the one before has ended.
Check(r) ==
    /\ source = "open" /\ mounted /\ r \in StreamReads
    /\ Call(r)
    /\ live' = [live EXCEPT ![r] = TRUE]
    /\ UNCHANGED <<data, stream, page>>

\* sendSummaryIfChanged
Send(r) ==
    /\ pc[r] = "answer" /\ r \in StreamReads
    /\ Return(r)
    /\ IF live[r] /\ seen[r] # lastKey
       THEN /\ Len(sent) < MaxSent
            /\ lastKey' = seen[r]
            /\ sent' = Append(sent, seen[r])
       ELSE UNCHANGED <<lastKey, sent>>
    /\ UNCHANGED <<data, page>>

-----------------------------------------------------------------------------
(* The page *)

\* Faulty variant: an interval is started although one runs.
StartAnother == handle' = TRUE /\ timers' = timers + 1

StartPolling ==
    IF handle THEN UNCHANGED <<handle, timers>> ELSE handle' = TRUE /\ timers' = timers + 1

StopPolling ==
    IF handle THEN handle' = FALSE /\ timers' = timers - 1 ELSE UNCHANGED <<handle, timers>>

\* Faulty variant: what was sent before counts for the new connection.
ConnectRemembering(r) ==
    /\ source = "connecting" /\ mounted /\ r \in StreamReads
    /\ source' = "open"
    /\ StopPolling
    /\ sent' = <<>>
    /\ Call(r)
    /\ live' = [live EXCEPT ![r] = TRUE]
    /\ UNCHANGED <<data, lastKey, mounted, shown, from>>

\* A connection is made: the server's Observable starts afresh with a check at once, the open
\* event ends the polling.
Connect(r) ==
    /\ source = "connecting" /\ mounted /\ r \in StreamReads
    /\ source' = "open"
    /\ StopPolling
    /\ lastKey' = None /\ sent' = <<>>
    /\ Call(r)
    /\ live' = [live EXCEPT ![r] = TRUE]
    /\ UNCHANGED <<data, mounted, shown, from>>

\* The error event: the connection breaks or is refused; EventSource tries again, or not.
Error ==
    /\ source \in {"connecting", "open"} /\ mounted
    /\ source' \in {"connecting", "closed"}
    /\ live' = [r \in Reads |-> FALSE] /\ sent' = <<>>
    /\ StartPolling
    /\ UNCHANGED <<data, pc, seen, lastKey, mounted, shown, from>>

\* The summary event.
Deliver ==
    /\ sent # <<>> /\ mounted
    /\ shown' = Head(sent) /\ from' = "stream"
    /\ sent' = Tail(sent)
    /\ UNCHANGED <<data, calls, lastKey, mounted, source, handle, timers>>

\* An interval of the fallback, or the page becomes visible: refreshSummary.
Refresh(r) ==
    /\ mounted /\ r \in RefreshReads
    /\ Call(r)
    /\ UNCHANGED <<data, live, stream, page>>

Poll(r) == timers > 0 /\ Refresh(r)

Show(r) ==
    /\ pc[r] = "answer" /\ r \in RefreshReads
    /\ Return(r)
    /\ IF mounted THEN shown' = seen[r] /\ from' = "refresh" ELSE UNCHANGED <<shown, from>>
    /\ UNCHANGED <<data, stream, mounted, source, handle, timers>>

\* The page is left: the cleanup of subscribeToSummaryStream.  The page and the Observable are
\* gone, and with them what they show and remember.
Leave ==
    /\ mounted
    /\ mounted' = FALSE /\ shown' = 0 /\ from' = "page"
    /\ source' = "closed" /\ live' = [r \in Reads |-> FALSE]
    /\ lastKey' = None /\ sent' = <<>>
    /\ StopPolling
    /\ UNCHANGED <<data, pc, seen>>

Step(r) ==
    \/ ReadCache(r) \/ Compose(r) \/ Store(r) \/ Send(r) \/ Show(r)

Next ==
    \/ Write \/ Publish \/ SnapshotExpires \/ CacheExpires
    \/ \E r \in Reads : Step(r) \/ Fail(r)
    \/ \E r \in StreamReads : Check(r) \/ Connect(r)
    \/ \E r \in RefreshReads : Refresh(r)
    \/ Error \/ Deliver \/ Leave

\* The pipeline runs again and again, keys expire, calls end, the timers of server and page
\* fire, and a connection that is being made is made or refused.
Fairness ==
    /\ WF_vars(Publish) /\ WF_vars(CacheExpires)
    /\ \A r \in Reads : WF_vars(Step(r))
    /\ WF_vars(\E r \in StreamReads : Check(r))
    /\ WF_vars(\E r \in RefreshReads : Poll(r))
    /\ WF_vars(Deliver) /\ WF_vars(\E r \in StreamReads : Connect(r))

Spec     == Init /\ [][Next]_vars
FairSpec == Spec /\ Fairness

-----------------------------------------------------------------------------
(* Properties *)

\* Versions that the tables have had.
Past == 0 .. tables

DataOK ==
    /\ tables \in Versions /\ cache \in Past \cup {None}
    /\ snapshot \in Past \cup {None} /\ (snapshot # None => IsSettled(snapshot))

CallsOK ==
    /\ pc \in [Reads -> Labels] /\ live \in [Reads -> BOOLEAN]
    /\ seen \in [Reads -> Past \cup {None}]
    /\ \A r \in Reads : pc[r] \in {"store", "answer"} <=> seen[r] # None

StreamOK == lastKey \in Past \cup {None} /\ sent \in Seq(Past)

PageOK ==
    /\ mounted \in BOOLEAN /\ handle \in BOOLEAN /\ timers \in Nat
    /\ source \in {"connecting", "open", "closed"}
    /\ shown \in Past /\ from \in {"page", "stream", "refresh"}

\* The variables stay in their domains; a call answers with a summary it holds, and no summary
\* that is published, cached, sent or shown is ahead of the tables.  A published one is made of
\* metrics of its own inputs (market.service.ts:248).
TypeOK == DataOK /\ CallsOK /\ StreamOK /\ PageOK

\* What the server believes the page to have is the last event on its way, or else what the
\* page shows, as long as the page shows something the stream sent: neither checks that overtake
\* each other nor a broken connection part the two (market.controller.ts:59).
BelievedIsShown ==
    source = "open" =>
        IF sent # <<>> THEN lastKey = sent[Len(sent)]
        ELSE lastKey # None /\ from = "stream" => shown = lastKey

\* At most one interval polls, and it does so exactly while the page is open and the stream is
\* not: however often the stream fails (summary-stream.ts:34).
OneTimer ==
    /\ timers = IF handle THEN 1 ELSE 0
    /\ handle => mounted /\ source # "open"
    /\ mounted /\ source = "closed" => handle

\* A refresh that began earlier answered last: the server has sent the newer summary and does
\* not send it again.
LeftBehind == source = "open" /\ from = "refresh" /\ lastKey # None /\ shown # lastKey

\* Once the inputs stop changing, and connections and calls stop failing, an open page shows the
\* latest figures in the end, however the stream broke before, unless an overtaken refresh has
\* left it behind (live-market-dashboard.tsx:49).
EndsUpCurrent ==
    /\ <>[](tables = MaxVersion)
    /\ <>[][~ Error]_vars /\ <>[][\A r \in Reads : ~ Fail(r)]_vars
    => <>[](mounted => shown = MaxVersion \/ LeftBehind)
=============================================================================
