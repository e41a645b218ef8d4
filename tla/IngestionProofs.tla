-------------------------- MODULE IngestionProofs --------------------------
(***************************************************************************)
(* Proofs about Ingestion, for every number of runs, products and          *)
(* providers, every price, age and skew.  Type correctness and the order   *)
(* of the latest rows hold of every behaviour, with runs that overlap; the *)
(* two properties on prices are proved of runs that do not (Serial).       *)
(***************************************************************************)
EXTENDS Ingestion, TLAPS

-----------------------------------------------------------------------------
(* Type correctness *)

\* Whatever a provider answers is a set of typed quotes.
LEMMA AnswerType ==
  ASSUME now \in 0 .. MaxTime, NEW f \in Feeds, NEW s \in Sources
  PROVE  /\ ProviderQuotes(f, s) \subseteq Quotes
         /\ DatedQuotes(f, s) \subseteq Quotes
         /\ ScrapedQuotes(f, s) \subseteq Quotes
<1>1. 0 .. now + MaxSkew \subseteq Times /\ now \in Times
  BY IngestionAssumption DEF Times
<1>2. DatedQuotes(f, s) \subseteq Quotes
  BY <1>1 DEF DatedQuotes, Quotes
<1>3. UndatedQuotes(f, s) \subseteq Quotes /\ ScrapedQuotes(f, s) \subseteq Quotes
  BY <1>1 DEF UndatedQuotes, ScrapedQuotes, Quotes
<1>. QED  BY <1>2, <1>3 DEF ProviderQuotes

\* A run that fetches typed quotes, with none judged, stays typed.
LEMMA FetchedType ==
  ASSUME TypeOK, NEW r \in Runs, NEW qs \in SUBSET Quotes, NEW label \in Labels,
         judged[r] = NoQuote \/ judged[r] \in qs, Fetched(r, qs, label)
  PROVE  TypeOK'
BY DEF TypeOK, Fetched, UniqueKeys, SameKey

\* Before the quotes of both domestic providers are merged none is judged.
Unjudged == \A r \in Runs : next[r] = "official" => judged[r] = NoQuote

\* The upsert keeps the rows typed and their keys unique.
LEMMA UpsertType ==
  ASSUME rows \subseteq Rows, UniqueKeys, NEW row \in Rows, Upsert(row)
  PROVE  rows' \subseteq Rows /\ UniqueKeys'
<1>1. CASE \E x \in rows : SameKey(x, row)
  BY <1>1 DEF Upsert, UniqueKeys
<1>2. CASE ~\E x \in rows : SameKey(x, row)
  <2>1. rows' = rows \cup {row}
    BY <1>2 DEF Upsert
  <2>2. \A x \in rows : ~SameKey(x, row) /\ ~SameKey(row, x)
    BY <1>2 DEF SameKey
  <2>. QED  BY <2>1, <2>2 DEF UniqueKeys
<1>. QED  BY <1>1, <1>2

\* A fetch keeps the types.
LEMMA TypeFetch ==
  ASSUME TypeOK, Unjudged, NEW r \in Runs,
         FetchWorld(r) \/ FetchFx(r) \/ FetchMacro(r) \/ FetchDomestic(r) \/ FetchOfficial(r)
  PROVE  TypeOK'
<1>. now \in 0 .. MaxTime /\ quotes[r] \in SUBSET Quotes
  BY DEF TypeOK
<1>empty. quotes[r] = {} => judged[r] = NoQuote
  BY DEF TypeOK
<1>1. CASE FetchWorld(r)
  <2>1. \A s \in WorldSources : ProviderQuotes("world", s) \subseteq Quotes
    BY AnswerType DEF Feeds, Judged, Sources
  <2>. QED  BY <1>1, <2>1, <1>empty, FetchedType DEF FetchWorld, Ready, Labels
<1>2. CASE FetchFx(r)
  <2>1. ScrapedQuotes("fx", FxSource) \subseteq Quotes
    BY AnswerType DEF Feeds, Judged, Sources
  <2>. QED  BY <1>2, <2>1, <1>empty, FetchedType DEF FetchFx, Ready, Labels
<1>3. CASE FetchMacro(r)
  <2>1. ProviderQuotes("macro", MacroSource) \subseteq Quotes
    BY AnswerType DEF Feeds, Judged, Sources
  <2>. QED  BY <1>3, <2>1, <1>empty, FetchedType DEF FetchMacro, Ready, Labels
<1>4. CASE FetchDomestic(r)
  <2>1. CASE Fetched(r, {}, "official")
    BY <1>4, <2>1, <1>empty, FetchedType DEF FetchDomestic, Ready, Labels
  <2>2. CASE ~Fetched(r, {}, "official")
    <3>. PICK s \in [Products -> Aggregators] :
           \E q \in [1 .. MaxQuotes -> UNION {ProviderQuotes(p, s[p]) : p \in Products}] :
              Fetched(r, {q[i] : i \in 1 .. MaxQuotes}, "official")
      BY <1>4, <2>2 DEF FetchDomestic
    <3>1. PICK q \in [1 .. MaxQuotes -> UNION {ProviderQuotes(p, s[p]) : p \in Products}] :
            Fetched(r, {q[i] : i \in 1 .. MaxQuotes}, "official")
      OBVIOUS
    <3>2. \A p \in Products : ProviderQuotes(p, s[p]) \subseteq Quotes
      BY AnswerType DEF Feeds, Judged, Sources
    <3>3. UNION {ProviderQuotes(p, s[p]) : p \in Products} \subseteq Quotes
      BY <3>2
    <3>4. {q[i] : i \in 1 .. MaxQuotes} \in SUBSET Quotes
      BY <3>3
    <3>. QED  BY <1>4, <3>1, <3>4, <1>empty, FetchedType DEF FetchDomestic, Ready, Labels
  <2>. QED  BY <2>1, <2>2
<1>5. CASE FetchOfficial(r)
  <2>1. judged[r] = NoQuote
    BY <1>5 DEF FetchOfficial, Unjudged
  <2>2. DatedQuotes(OfficialProduct, Official) \subseteq Quotes
    BY AnswerType, IngestionAssumption DEF Feeds, Judged, Sources
  <2>3. \A q \in DatedQuotes(OfficialProduct, Official) :
          Merged(quotes[r], q) \in SUBSET Quotes
    BY <2>2 DEF Merged
  <2>. QED  BY <1>5, <2>1, <2>3, FetchedType DEF FetchOfficial, Labels
<1>. QED  BY <1>1, <1>2, <1>3, <1>4, <1>5

\* The verdicts on a quote are Booleans.
LEMMA VerdictType == ASSUME NEW q PROVE Verdicts(q) \subseteq BOOLEAN
  BY DEF Verdicts, PassesAlone, IsFresh, JumpTooHigh

\* Types, with the fact that makes them inductive, hold at first and are kept.
TypeInv == TypeOK /\ Unjudged

LEMMA TypeInit == Init => TypeInv
  BY IngestionAssumption
  DEF Init, TypeInv, TypeOK, Unjudged, Labels, UniqueKeys, SameKey

LEMMA TypeNext == TypeInv /\ [Next]_vars => TypeInv'
<1>. SUFFICES ASSUME TypeInv, [Next]_vars PROVE TypeInv'
  OBVIOUS
<1>1. CASE UNCHANGED vars
  BY <1>1 DEF TypeInv, TypeOK, Unjudged, UniqueKeys, SameKey, vars
<1>2. CASE Tick
  BY <1>2, IngestionAssumption
  DEF Tick, TypeInv, TypeOK, Unjudged, UniqueKeys, SameKey
<1>3. ASSUME NEW r \in Runs, RunStep(r) PROVE TypeInv'
  <2>end. ASSUME EndRun(r) PROVE TypeInv'
    BY <2>end DEF EndRun, TypeInv, TypeOK, Unjudged, UniqueKeys, SameKey, Labels
  <2>1. CASE Start(r)
    BY <2>1 DEF Start, TypeInv, TypeOK, Unjudged, UniqueKeys, SameKey, Labels
  <2>2. CASE FetchWorld(r) \/ FetchFx(r) \/ FetchMacro(r) \/ FetchDomestic(r) \/ FetchOfficial(r)
    <3>1. TypeOK'
      BY <2>2, TypeFetch DEF TypeInv
    <3>2. /\ judged' = judged
          /\ \E label : next' = [next EXCEPT ![r] = label] /\ (label = "official" => quotes[r] = {})
      BY <2>2 DEF Fetched, FetchWorld, FetchFx, FetchMacro, FetchDomestic, FetchOfficial, Ready
    <3>3. quotes[r] = {} => judged[r] = NoQuote
      BY DEF TypeInv, TypeOK
    <3>4. Unjudged'
      BY <3>2, <3>3 DEF TypeInv, TypeOK, Unjudged
    <3>. QED  BY <3>1, <3>4 DEF TypeInv
  <2>3. CASE Judge(r)
    <3>1. PICK q \in quotes[r], v \in BOOLEAN :
            judged' = [judged EXCEPT ![r] = q] /\ verdict' = [verdict EXCEPT ![r] = v]
      BY <2>3, VerdictType DEF Judge
    <3>2. q \in Quotes
      BY <3>1 DEF TypeInv, TypeOK
    <3>. QED  BY <2>3, <3>1, <3>2 DEF Judge, TypeInv, TypeOK, Unjudged, UniqueKeys, SameKey
  <2>4. CASE Store(r)
    <3>1. judged[r] \in Quotes /\ verdict[r] \in BOOLEAN
      BY <2>4 DEF Store, TypeInv, TypeOK
    <3>2. RowOf(judged[r], verdict[r]) \in Rows
      BY <3>1 DEF RowOf, Quotes, Rows
    <3>3. rows' \subseteq Rows /\ UniqueKeys'
      BY <2>4, <3>2, UpsertType DEF Store, TypeInv, TypeOK
    <3>. QED  BY <2>4, <3>3 DEF Store, TypeInv, TypeOK, Unjudged
  <2>5. CASE Finish(r) \/ Fail(r)
    BY <2>5, <2>end DEF Finish, Fail
  <2>. QED  BY <1>3, <2>1, <2>2, <2>3, <2>4, <2>5 DEF RunStep
<1>. QED  BY <1>1, <1>2, <1>3 DEF Next

\* The types, and the unique keys of schema.prisma with them, hold always.
THEOREM TypeCorrect == Spec => []TypeOK
<1>1. Init => TypeInv
  BY TypeInit
<1>2. TypeInv /\ [Next]_vars => TypeInv'
  BY TypeNext
<1>3. TypeInv => TypeOK
  BY DEF TypeInv
<1>. QED  BY <1>1, <1>2, <1>3, PTL DEF Spec

-----------------------------------------------------------------------------
(* What a step does to the tables *)

\* A step leaves the tables alone, or stores the judged quote of one run as a
\* row with a key of its own.
LEMMA RowsChange ==
  ASSUME TypeInv, [Next]_vars
  PROVE  \/ rows' = rows
         \/ \E r \in Runs : LET row == RowOf(judged[r], verdict[r])
                            IN  /\ Store(r) /\ row \in Rows /\ row \notin rows
                                /\ rows' = rows \cup {row}
<1>1. CASE UNCHANGED vars \/ Tick
  BY <1>1 DEF vars, Tick
<1>2. ASSUME NEW r \in Runs, RunStep(r), ~Store(r) PROVE rows' = rows
  BY <1>2 DEF RunStep, Start, FetchWorld, FetchFx, FetchMacro, FetchDomestic, FetchOfficial,
              Fetched, Judge, Finish, Fail, EndRun
<1>3. ASSUME NEW r \in Runs, Store(r), rows' # rows
      PROVE  /\ RowOf(judged[r], verdict[r]) \in Rows
             /\ RowOf(judged[r], verdict[r]) \notin rows
             /\ rows' = rows \cup {RowOf(judged[r], verdict[r])}
  <2>1. judged[r] \in Quotes /\ verdict[r] \in BOOLEAN
    BY <1>3 DEF Store, TypeInv, TypeOK
  <2>2. RowOf(judged[r], verdict[r]) \in Rows
    BY <2>1 DEF RowOf, Quotes, Rows
  <2>. QED  BY <1>3, <2>2 DEF Store, Upsert, SameKey
<1>. QED  BY <1>1, <1>2, <1>3 DEF Next

\* No step takes a valid row away, and the only new one is the row stored.
LEMMA ValidRowsGrow ==
  ASSUME NEW f, NEW row, rows' = rows \cup {row}
  PROVE  /\ ValidRows(f) \subseteq ValidRows(f)'
         /\ ValidRows(f)' \subseteq ValidRows(f) \cup {row}
         /\ (row \in ValidRows(f)') <=> (row.feed = f /\ row.valid)
BY DEF ValidRows

\* The row the metrics read never goes back in time and never disappears, in
\* every behaviour, however runs overlap and providers lag or run ahead.
THEOREM LatestIsMonotone == Spec => LatestNeverRegresses
<1>1. ASSUME TypeInv, [Next]_vars
      PROVE  \A f \in Feeds : \A old \in Latest(f) :
                \E new \in Latest(f)' : new.time >= old.time
  <2>. SUFFICES ASSUME NEW f \in Feeds, NEW old \in Latest(f)
                PROVE  \E new \in Latest(f)' : new.time >= old.time
    OBVIOUS
  <2>0. \A x \in ValidRows(f) : x.time \in Int
    BY <1>1, IngestionAssumption DEF TypeInv, TypeOK, ValidRows, Rows, Times
  <2>1. old \in ValidRows(f) /\ \A y \in ValidRows(f) : y.time <= old.time
    BY DEF Latest
  <2>2. CASE rows' = rows
    <3>1. ValidRows(f)' = ValidRows(f)
      BY <2>2 DEF ValidRows
    <3>2. old \in Latest(f)'
      BY <3>1, <2>1 DEF Latest
    <3>. QED  BY <3>2, <2>1, <2>0
  <2>3. CASE \E row \in Rows : rows' = rows \cup {row}
    <3>. PICK row \in Rows : rows' = rows \cup {row}
      BY <2>3
    <3>1. row.time \in Int
      BY IngestionAssumption DEF Rows, Times
    <3>2. CASE row \in ValidRows(f)' /\ row.time >= old.time
      <4>1. \A y \in ValidRows(f)' : y.time <= row.time
        BY <2>0, <2>1, <3>1, <3>2, ValidRowsGrow
      <4>. QED  BY <4>1, <3>2 DEF Latest
    <3>3. CASE ~(row \in ValidRows(f)' /\ row.time >= old.time)
      <4>1. \A y \in ValidRows(f)' : y.time <= old.time
        BY <2>0, <2>1, <3>1, <3>3, ValidRowsGrow
      <4>2. old \in ValidRows(f)'
        BY <2>1, ValidRowsGrow
      <4>. QED  BY <4>1, <4>2, <2>0, <2>1 DEF Latest
    <3>. QED  BY <3>2, <3>3
  <2>. QED  BY <1>1, <2>2, <2>3, RowsChange
<1>2. Init => TypeInv
  BY TypeInit
<1>3. TypeInv /\ [Next]_vars => TypeInv'
  BY TypeNext
<1>. QED  BY <1>1, <1>2, <1>3, PTL DEF Spec, LatestNeverRegresses

-----------------------------------------------------------------------------
(* Prices, when runs do not overlap *)

\* At most one run is under way, and who is idle has nothing to judge or store.
OneRun ==
    /\ \A r1, r2 \in Runs : r1 # r2 => next[r1] = "idle" \/ next[r2] = "idle"
    /\ \A r \in Runs : next[r] = "idle" => quotes[r] = {} /\ judged[r] = NoQuote

\* A quote found valid is vouched for by a latest row, or there is no row.
Supported(f, price) ==
    \/ ValidRows(f) = {}
    \/ \E x \in PreviousRows(f) : ~JumpTooHigh(f, price, x.price)

JudgedAgainstLatest ==
    \A r \in Runs : judged[r] # NoQuote /\ verdict[r] /\ judged[r].feed \in Judged
                       => Supported(judged[r].feed, judged[r].price)

IInv == TypeInv /\ OneRun /\ JudgedAgainstLatest

LEMMA InvInit == Init => IInv
<1>1. Init => OneRun /\ JudgedAgainstLatest
  BY DEF Init, OneRun, JudgedAgainstLatest
<1>. QED  BY <1>1, TypeInit DEF IInv

\* A step of a run leaves the other runs alone.
LEMMA OthersWait ==
  ASSUME TypeInv, NEW r \in Runs, RunStep(r), NEW other \in Runs, other # r
  PROVE  /\ next'[other] = next[other] /\ quotes'[other] = quotes[other]
         /\ judged'[other] = judged[other] /\ verdict'[other] = verdict[other]
BY DEF TypeInv, TypeOK, RunStep, Start, FetchWorld, FetchFx, FetchMacro, FetchDomestic,
       FetchOfficial, Fetched, Judge, Store, Finish, Fail, EndRun

\* A run that is idle can only start.
LEMMA IdleStarts ==
  ASSUME OneRun, NEW r \in Runs, RunStep(r), next[r] = "idle"
  PROVE  Start(r)
BY DEF OneRun, RunStep, FetchWorld, FetchFx, FetchMacro, FetchDomestic, FetchOfficial,
       Ready, Judge, Store, Finish, Fail

\* Runs that start one at a time stay apart.
LEMMA OneRunNext ==
  ASSUME Serial, TypeInv, OneRun, [Next]_vars
  PROVE  OneRun'
<1>1. CASE UNCHANGED vars \/ Tick
  BY <1>1 DEF OneRun, vars, Tick
<1>2. ASSUME NEW r \in Runs, RunStep(r) PROVE OneRun'
  <2>1. \A other \in Runs : other # r => next[other] = "idle"
    BY <1>2, IdleStarts DEF OneRun, Start
  <2>2. \A other \in Runs : other # r =>
           next'[other] = "idle" /\ quotes'[other] = {} /\ judged'[other] = NoQuote
    BY <1>2, <2>1, OthersWait DEF OneRun
  <2>3. next'[r] = "idle" => quotes'[r] = {} /\ judged'[r] = NoQuote
    BY <1>2, IdleStarts
    DEF TypeInv, TypeOK, RunStep, Start, FetchWorld, FetchFx, FetchMacro, FetchDomestic,
        FetchOfficial, Fetched, Ready, Judge, Store, Finish, Fail, EndRun
  <2>. QED  BY <2>2, <2>3 DEF OneRun
<1>. QED  BY <1>1, <1>2 DEF Next

\* A verdict is reached against the latest valid rows there are.
LEMMA JudgeSupports ==
  ASSUME TypeInv, NEW q, q.feed \in Judged, TRUE \in Verdicts(q)
  PROVE  Supported(q.feed, q.price)
<1>1. q.feed # "macro"
  BY IngestionAssumption
<1>. QED  BY <1>1 DEF Verdicts, Supported

\* While one run judges and stores, no other changes the rows it judged by.
LEMMA JudgedNext ==
  ASSUME Serial, IInv, [Next]_vars
  PROVE  JudgedAgainstLatest'
<1>1. CASE UNCHANGED vars \/ Tick
  BY <1>1 DEF IInv, JudgedAgainstLatest, Supported, ValidRows, PreviousRows, vars, Tick
<1>2. ASSUME NEW r \in Runs, RunStep(r) PROVE JudgedAgainstLatest'
  <2>1. CASE Store(r)
    <3>1. next[r] # "idle"
      BY <2>1 DEF Store, IInv, OneRun
    <3>2. \A other \in Runs : judged'[other] = NoQuote
      BY <1>2, <2>1, <3>1, OthersWait DEF Store, IInv, OneRun, TypeInv, TypeOK
    <3>. QED  BY <3>2 DEF JudgedAgainstLatest
  <2>2. CASE ~Store(r)
    <3>1. rows' = rows
      BY <1>2, <2>2 DEF RunStep, Start, FetchWorld, FetchFx, FetchMacro, FetchDomestic,
                        FetchOfficial, Fetched, Judge, Finish, Fail, EndRun
    <3>2. \A f, price : Supported(f, price) => Supported(f, price)'
      BY <3>1 DEF Supported, ValidRows, PreviousRows
    <3>3. CASE Judge(r)
      <4>1. PICK q \in quotes[r] :
              /\ judged' = [judged EXCEPT ![r] = q]
              /\ \E v \in Verdicts(q) : verdict' = [verdict EXCEPT ![r] = v]
        BY <3>3 DEF Judge
      <4>2. judged'[r] = q /\ verdict'[r] \in Verdicts(q)
        BY <4>1 DEF IInv, TypeInv, TypeOK
      <4>3. verdict'[r] \in BOOLEAN
        BY <4>2, VerdictType
      <4>4. verdict'[r] /\ q.feed \in Judged => Supported(q.feed, q.price)
        BY <4>2, <4>3, JudgeSupports DEF IInv
      <4>. QED  BY <1>2, <4>2, <4>4, <3>2, OthersWait DEF IInv, JudgedAgainstLatest
    <3>4. CASE ~Judge(r)
      <4>1. judged'[r] = NoQuote \/ (judged'[r] = judged[r] /\ verdict'[r] = verdict[r])
        BY <1>2, <2>2, <3>4
        DEF IInv, TypeInv, TypeOK, RunStep, Start, FetchWorld, FetchFx, FetchMacro,
            FetchDomestic, FetchOfficial, Fetched, Finish, Fail, EndRun
      <4>. QED  BY <1>2, <4>1, <3>2, OthersWait DEF IInv, JudgedAgainstLatest
    <3>. QED  BY <3>3, <3>4
  <2>. QED  BY <2>1, <2>2
<1>. QED  BY <1>1, <1>2 DEF Next

LEMMA InvNext == Serial /\ IInv /\ [Next]_vars => IInv'
BY TypeNext, OneRunNext, JudgedNext DEF IInv

\* A row that is stored as valid has the support of the rows before it.
LEMMA StoredIsSupported ==
  ASSUME IInv, NEW r \in Runs, Store(r), NEW f \in Judged,
         NEW row, row = RowOf(judged[r], verdict[r]), row.feed = f, row.valid
  PROVE  Supported(f, row.price)
BY DEF IInv, JudgedAgainstLatest, RowOf, Store

\* The price the metrics read moves by at most what the feed allows, if
\* pipeline runs do not overlap.
THEOREM LatestIsSmooth ==
  ASSUME Serial
  PROVE  Spec => LatestMovesSmoothly
<1>1. ASSUME IInv, [Next]_vars
      PROVE  \A f \in Judged : \A new \in Latest(f)' \ Latest(f) :
                \/ ValidRows(f) = {}
                \/ \E old \in Latest(f) : ~JumpTooHigh(f, new.price, old.price)
  <2>. SUFFICES ASSUME NEW f \in Judged, NEW new \in Latest(f)', new \notin Latest(f)
                PROVE  \/ ValidRows(f) = {}
                       \/ \E old \in Latest(f) : ~JumpTooHigh(f, new.price, old.price)
    OBVIOUS
  <2>1. rows' # rows
    BY DEF Latest, ValidRows
  <2>. PICK r \in Runs : /\ Store(r)
                         /\ rows' = rows \cup {RowOf(judged[r], verdict[r])}
    BY <1>1, <2>1, RowsChange DEF IInv
  <2>. DEFINE row == RowOf(judged[r], verdict[r])
  <2>2. new = row
    <3>1. new \in ValidRows(f)' /\ \A y \in ValidRows(f)' : y.time <= new.time
      BY DEF Latest
    <3>2. ValidRows(f) \subseteq ValidRows(f)' /\ ValidRows(f)' \subseteq ValidRows(f) \cup {row}
      BY ValidRowsGrow
    <3>. QED  BY <3>1, <3>2 DEF Latest
  <2>3. row.feed = f /\ row.valid
    BY <2>2, ValidRowsGrow DEF Latest
  <2>4. Supported(f, row.price)
    BY <1>1, <2>3, StoredIsSupported
  <2>. QED  BY <2>2, <2>4 DEF Supported, PreviousRows, Latest
<1>2. Init => IInv
  BY InvInit
<1>3. IInv /\ [Next]_vars => IInv'
  BY InvNext
<1>. QED  BY <1>1, <1>2, <1>3, PTL DEF Spec, LatestMovesSmoothly

\* Storing one more row leaves every valid row of a judged feed vouched for.
LEMMA VouchedNext ==
  ASSUME IInv, NoOutlier, [Next]_vars, NEW f \in Judged
  PROVE  Vouched(f)'
<1>. Vouched(f)
  BY DEF NoOutlier
<1>1. CASE ValidRows(f)' = ValidRows(f)
  BY <1>1 DEF Vouched
<1>2. CASE ValidRows(f)' # ValidRows(f)
  <2>1. rows' # rows
    BY <1>2 DEF ValidRows
  <2>. PICK r \in Runs : /\ Store(r)
                         /\ RowOf(judged[r], verdict[r]) \notin rows
                         /\ rows' = rows \cup {RowOf(judged[r], verdict[r])}
    BY <2>1, RowsChange DEF IInv
  <2>. DEFINE row == RowOf(judged[r], verdict[r])
  <2>2. /\ ValidRows(f)' = ValidRows(f) \cup {row} /\ row \notin ValidRows(f)
        /\ row.feed = f /\ row.valid
    BY <1>2, ValidRowsGrow DEF ValidRows
  <2>3. Supported(f, row.price)
    BY <2>2, StoredIsSupported
  <2>4. CASE ValidRows(f) = {}
    BY <2>2, <2>4 DEF Vouched
  <2>5. CASE ValidRows(f) # {}
    <3>1. PICK x \in ValidRows(f) : ~JumpTooHigh(f, row.price, x.price)
      BY <2>3, <2>5 DEF Supported, PreviousRows
    <3>2. PICK first \in ValidRows(f) : \A y \in ValidRows(f) \ {first} :
            \E z \in ValidRows(f) \ {y} : ~JumpTooHigh(f, y.price, z.price)
      BY <2>5 DEF Vouched
    <3>3. \A y \in ValidRows(f)' \ {first} :
            \E z \in ValidRows(f)' \ {y} : ~JumpTooHigh(f, y.price, z.price)
      BY <2>2, <3>1, <3>2
    <3>. QED  BY <3>2, <3>3, <2>2 DEF Vouched
  <2>. QED  BY <2>4, <2>5
<1>. QED  BY <1>1, <1>2

\* No outlier stays in the history as valid, if pipeline runs do not overlap.
THEOREM NoOutlierIsStored ==
  ASSUME Serial
  PROVE  Spec => []NoOutlier
<1>1. Init => IInv /\ NoOutlier
  BY InvInit DEF Init, NoOutlier, Vouched, ValidRows
<1>2. (IInv /\ NoOutlier) /\ [Next]_vars => (IInv /\ NoOutlier)'
  BY InvNext, VouchedNext DEF NoOutlier
<1>3. (IInv /\ NoOutlier) => NoOutlier
  OBVIOUS
<1>. QED  BY <1>1, <1>2, <1>3, PTL DEF Spec
=============================================================================
