------------------------- MODULE SummaryStreamProofs -------------------------
(***************************************************************************)
(* Proofs about SummaryStream, for any number of calls, versions and       *)
(* events on their way.                                                    *)
(***************************************************************************)
EXTENDS SummaryStream, TLAPS

\* The count of intervals stays a number because at most one runs, and what the page shows is
\* what was sent because of both, so that the invariants are proved together.
IInv == TypeOK /\ OneTimer /\ BelievedIsShown

\* The initial state satisfies the invariant.
LEMMA InvInit == Init => IInv
<1>1. Init => DataOK /\ CallsOK
  BY StreamAssumption DEF Init, DataOK, CallsOK, Past, Versions, Labels
<1>2. Init => StreamOK /\ PageOK
  BY StreamAssumption DEF Init, StreamOK, PageOK, Past
<1>3. Init => OneTimer /\ BelievedIsShown
  BY DEF Init, OneTimer, BelievedIsShown
<1>. QED  BY <1>1, <1>2, <1>3 DEF IInv, TypeOK

\* What was in the past stays there when the tables are written.
LEMMA PastGrows ==
  ASSUME DataOK, Write
  PROVE  /\ tables' \in Versions /\ Past \subseteq Past'
         /\ \A s \in Seq(Past) : s \in Seq(Past')
<1>1. tables' \in Versions /\ Past \subseteq Past'
  BY StreamAssumption DEF DataOK, Write, Past, Versions
<1>2. \A s \in Seq(Past) : s \in Seq(Past')
  BY <1>1
<1>. QED  BY <1>1, <1>2

\* The worker's steps and the expiry of keys preserve the invariant.
LEMMA InvData ==
  ASSUME IInv, Write \/ Publish \/ SnapshotExpires \/ CacheExpires
  PROVE  IInv'
<1> USE DEF IInv, TypeOK
<1>1. CASE Write
  <2>1. DataOK' /\ CallsOK'
    BY <1>1, PastGrows DEF Write, DataOK, CallsOK, calls
  <2>2. StreamOK' /\ PageOK'
    BY <1>1, PastGrows DEF Write, StreamOK, PageOK, stream, page
  <2>3. OneTimer' /\ BelievedIsShown'
    BY <1>1 DEF Write, OneTimer, BelievedIsShown, stream, page
  <2>. QED  BY <2>1, <2>2, <2>3
<1>2. ASSUME tables' = tables, DataOK', UNCHANGED <<calls, stream, page>>
      PROVE  IInv'
  <2>1. CallsOK'
    BY <1>2 DEF CallsOK, Past, calls
  <2>2. StreamOK' /\ PageOK'
    BY <1>2 DEF StreamOK, PageOK, Past, stream, page
  <2>3. OneTimer' /\ BelievedIsShown'
    BY <1>2 DEF OneTimer, BelievedIsShown, stream, page
  <2>. QED  BY <1>2, <2>1, <2>2, <2>3
<1>3. CASE Publish
  <2>1. DataOK'
    BY <1>3, StreamAssumption DEF Publish, DataOK, Past, Versions
  <2>. QED  BY <1>2, <1>3, <2>1 DEF Publish
<1>4. CASE SnapshotExpires
  <2>1. DataOK'
    BY <1>4 DEF SnapshotExpires, DataOK, Past
  <2>. QED  BY <1>2, <1>4, <2>1 DEF SnapshotExpires
<1>5. CASE CacheExpires
  <2>1. DataOK'
    BY <1>5 DEF CacheExpires, DataOK, Past
  <2>. QED  BY <1>2, <1>5, <2>1 DEF CacheExpires
<1>. QED  BY <1>1, <1>3, <1>4, <1>5

\* A call begins, with or without a published summary, in a typed state.
LEMMA CallType ==
  ASSUME TypeOK, NEW r \in Reads, Call(r), live' \in [Reads -> BOOLEAN], tables' = tables
  PROVE  CallsOK'
<1>1. CASE snapshot # None
  BY <1>1 DEF TypeOK, DataOK, CallsOK, Call, Goto, Holds, Past, Labels
<1>2. CASE snapshot = None
  BY <1>2 DEF TypeOK, CallsOK, Call, Goto, Past, Labels
<1>. QED  BY <1>1, <1>2

\* A call that returns holds nothing.
LEMMA ReturnType ==
  ASSUME TypeOK, NEW r \in Reads, Return(r), tables' = tables
  PROVE  CallsOK'
  BY DEF TypeOK, CallsOK, Return, Goto, Holds, Past, Labels

\* The reads of getSummary preserve the invariant.
LEMMA InvRead ==
  ASSUME IInv, NEW r \in Reads, ReadCache(r) \/ Compose(r) \/ Store(r) \/ Fail(r)
  PROVE  IInv'
<1> USE DEF IInv, TypeOK
<1>1. UNCHANGED <<tables, stream, page>>
  BY DEF ReadCache, Compose, Store, Fail, data
<1>2. StreamOK' /\ PageOK'
  BY <1>1 DEF StreamOK, PageOK, Past, stream, page
<1>3. OneTimer' /\ BelievedIsShown'
  BY <1>1 DEF OneTimer, BelievedIsShown, stream, page
<1>4. CASE ReadCache(r)
  <2>1. DataOK'
    BY <1>4 DEF ReadCache, DataOK, Past, data
  <2>2. CASE tables = 0
    BY <1>1, <1>2, <1>3, <1>4, <2>1, <2>2, StreamAssumption
    DEF ReadCache, CallsOK, Goto, Holds, Past, Labels
  <2>3. CASE tables # 0 /\ cache # None
    BY <1>1, <1>2, <1>3, <1>4, <2>1, <2>3
    DEF ReadCache, DataOK, CallsOK, Goto, Holds, Past, Labels
  <2>4. CASE tables # 0 /\ cache = None
    BY <1>1, <1>2, <1>3, <1>4, <2>1, <2>4 DEF ReadCache, CallsOK, Goto, Past, Labels
  <2>. QED  BY <2>2, <2>3, <2>4
<1>5. CASE Compose(r)
  <2>1. DataOK'
    BY <1>5 DEF Compose, DataOK, Past, data
  <2>2. tables \in Past /\ tables # None
    BY StreamAssumption DEF DataOK, Past, Versions
  <2>3. CallsOK'
    BY <1>1, <1>5, <2>2 DEF Compose, CallsOK, Goto, Holds, Past, Labels
  <2>. QED  BY <1>2, <1>3, <2>1, <2>3
<1>6. CASE Store(r)
  <2>1. DataOK'
    BY <1>6 DEF Store, DataOK, CallsOK, Past
  <2>2. CallsOK'
    BY <1>1, <1>6 DEF Store, CallsOK, Goto, Past, Labels
  <2>. QED  BY <1>2, <1>3, <2>1, <2>2
<1>7. CASE Fail(r)
  <2>1. DataOK'
    BY <1>7 DEF Fail, DataOK, Past, data
  <2>2. CallsOK'
    BY <1>1, <1>7, ReturnType DEF Fail
  <2>. QED  BY <1>2, <1>3, <2>1, <2>2
<1>. QED  BY <1>4, <1>5, <1>6, <1>7

\* A step that leaves the tables and the keys alone keeps them typed.
LEMMA DataKept == DataOK /\ UNCHANGED data => DataOK' /\ Past' = Past
  BY DEF DataOK, Past, data

\* The checks of the stream and the refreshes of the page begin in the invariant.
LEMMA InvBegin ==
  ASSUME IInv, NEW r \in Reads, Check(r) \/ Refresh(r)
  PROVE  IInv'
<1>1. UNCHANGED <<data, stream, page>> /\ Call(r) /\ live' \in [Reads -> BOOLEAN]
  BY DEF Check, Refresh, IInv, TypeOK, CallsOK
<1>2. DataOK' /\ CallsOK'
  BY <1>1, CallType, DataKept DEF IInv, TypeOK, data
<1>3. StreamOK' /\ PageOK'
  BY <1>1 DEF IInv, TypeOK, StreamOK, PageOK, Past, data, stream, page
<1>4. OneTimer' /\ BelievedIsShown'
  BY <1>1 DEF IInv, OneTimer, BelievedIsShown, stream, page
<1>. QED  BY <1>2, <1>3, <1>4 DEF IInv, TypeOK

\* An answer of the stream is the last event on its way and the one that is remembered, or it
\* changes neither.
LEMMA InvSend ==
  ASSUME IInv, NEW r \in Reads, Send(r)
  PROVE  IInv'
<1>1. UNCHANGED <<data, page>> /\ Return(r) /\ seen[r] \in Past
  BY DEF Send, IInv, TypeOK, CallsOK
<1>2. DataOK' /\ CallsOK' /\ Past' = Past
  BY <1>1, ReturnType, DataKept DEF IInv, TypeOK, data
<1>3. PageOK' /\ OneTimer'
  BY <1>1, <1>2 DEF IInv, TypeOK, PageOK, OneTimer, page
<1>4. CASE lastKey' = seen[r] /\ sent' = Append(sent, seen[r])
  <2>1. StreamOK'
    BY <1>1, <1>2, <1>4 DEF IInv, TypeOK, StreamOK
  <2>2. sent' # <<>> /\ lastKey' = sent'[Len(sent')]
    BY <1>1, <1>4 DEF IInv, TypeOK, StreamOK
  <2>. QED  BY <1>2, <1>3, <2>1, <2>2 DEF IInv, TypeOK, BelievedIsShown
<1>5. CASE UNCHANGED <<lastKey, sent>>
  <2>1. StreamOK' /\ BelievedIsShown'
    BY <1>1, <1>2, <1>5 DEF IInv, TypeOK, StreamOK, BelievedIsShown, page
  <2>. QED  BY <1>2, <1>3, <2>1 DEF IInv, TypeOK
<1>. QED  BY <1>4, <1>5 DEF Send

\* Whatever the handle was, there is no interval after the polling is stopped, and there is one
\* after it is started.
LEMMA Polling ==
  ASSUME OneTimer, PageOK
  PROVE  /\ StopPolling => timers' = 0 /\ handle' = FALSE
         /\ StartPolling => timers' = 1 /\ handle' = TRUE
<1>1. CASE handle
  <2>1. timers = 1 /\ handle = TRUE
    BY <1>1 DEF OneTimer, PageOK
  <2>2. StopPolling => timers' = 0 /\ handle' = FALSE
    BY <1>1, <2>1 DEF StopPolling
  <2>3. StartPolling => UNCHANGED <<handle, timers>>
    BY <1>1 DEF StartPolling
  <2>. QED  BY <2>1, <2>2, <2>3
<1>2. CASE ~ handle
  <2>1. timers = 0 /\ handle = FALSE
    BY <1>2 DEF OneTimer, PageOK
  <2>2. StopPolling => UNCHANGED <<handle, timers>>
    BY <1>2 DEF StopPolling
  <2>3. StartPolling => timers' = timers + 1 /\ handle' = TRUE
    BY <1>2 DEF StartPolling
  <2>. QED  BY <2>1, <2>2, <2>3
<1>. QED  BY <1>1, <1>2

\* A new connection has sent nothing and ends the polling.
LEMMA InvConnect ==
  ASSUME IInv, NEW r \in Reads, Connect(r)
  PROVE  IInv'
<1>1. UNCHANGED data /\ Call(r) /\ live' \in [Reads -> BOOLEAN]
  BY DEF Connect, IInv, TypeOK, CallsOK
<1>2. DataOK' /\ CallsOK' /\ Past' = Past
  BY <1>1, CallType, DataKept DEF IInv, TypeOK, data
<1>3. StreamOK' /\ BelievedIsShown'
  BY <1>2 DEF Connect, StreamOK, BelievedIsShown
<1>4. timers' = 0 /\ handle' = FALSE
  BY Polling DEF Connect, IInv, TypeOK
<1>5. OneTimer'
  BY <1>4 DEF Connect, OneTimer
<1>6. PageOK'
  BY <1>2, <1>4 DEF Connect, IInv, TypeOK, PageOK
<1>. QED  BY <1>2, <1>3, <1>5, <1>6 DEF IInv, TypeOK

\* A broken connection starts the polling unless it runs.
LEMMA InvError == ASSUME IInv, Error PROVE IInv'
<1>1. DataOK' /\ Past' = Past
  BY DataKept DEF Error, IInv, TypeOK
<1>2. CallsOK'
  BY <1>1 DEF Error, IInv, TypeOK, CallsOK
<1>3. StreamOK' /\ BelievedIsShown'
  BY <1>1 DEF Error, IInv, TypeOK, StreamOK, BelievedIsShown
<1>4. timers' = 1 /\ handle' = TRUE
  BY Polling DEF Error, IInv, TypeOK
<1>5. OneTimer'
  BY <1>4 DEF Error, OneTimer
<1>6. PageOK'
  BY <1>1, <1>4 DEF Error, IInv, TypeOK, PageOK
<1>. QED  BY <1>1, <1>2, <1>3, <1>5, <1>6 DEF IInv, TypeOK

\* The page shows the first event on its way; if it was the only one it is the remembered one.
LEMMA InvDeliver == ASSUME IInv, Deliver PROVE IInv'
<1>1. DataOK' /\ Past' = Past
  BY DataKept DEF Deliver, IInv, TypeOK
<1>2. CallsOK' /\ OneTimer'
  BY <1>1 DEF Deliver, IInv, TypeOK, CallsOK, OneTimer, calls
<1>3. sent \in Seq(Past) /\ sent # <<>>
  BY DEF Deliver, IInv, TypeOK, StreamOK
<1>4. Head(sent) \in Past /\ Tail(sent) \in Seq(Past)
  BY <1>3
<1>5. StreamOK' /\ PageOK'
  BY <1>1, <1>4 DEF Deliver, IInv, TypeOK, StreamOK, PageOK
<1>6. Tail(sent) # <<>> => Tail(sent)[Len(Tail(sent))] = sent[Len(sent)]
  BY <1>3
<1>7. Tail(sent) = <<>> => Head(sent) = sent[Len(sent)]
  <2>1. Len(sent) \in Nat \ {0} /\ Len(Tail(sent)) = Len(sent) - 1
    BY <1>3
  <2>2. Tail(sent) = <<>> => Len(Tail(sent)) = 0
    OBVIOUS
  <2>3. Tail(sent) = <<>> => Len(sent) = 1
    BY <2>1, <2>2
  <2>. QED  BY <1>3, <2>3
<1>8. BelievedIsShown'
  BY <1>3, <1>6, <1>7 DEF Deliver, IInv, BelievedIsShown
<1>. QED  BY <1>1, <1>2, <1>5, <1>8 DEF IInv, TypeOK

\* A refresh is no event of the stream.
LEMMA InvShow ==
  ASSUME IInv, NEW r \in Reads, Show(r)
  PROVE  IInv'
<1>1. UNCHANGED data /\ Return(r) /\ seen[r] \in Past
  BY DEF Show, IInv, TypeOK, CallsOK
<1>2. DataOK' /\ CallsOK' /\ Past' = Past
  BY <1>1, ReturnType, DataKept DEF IInv, TypeOK, data
<1>3. StreamOK' /\ PageOK'
  BY <1>1, <1>2 DEF Show, IInv, TypeOK, StreamOK, PageOK, stream
<1>4. OneTimer' /\ BelievedIsShown'
  BY DEF Show, IInv, OneTimer, BelievedIsShown, stream
<1>. QED  BY <1>2, <1>3, <1>4 DEF IInv, TypeOK

\* Leaving the page ends the polling.
LEMMA InvLeave == ASSUME IInv, Leave PROVE IInv'
<1>1. DataOK' /\ Past' = Past
  BY DataKept DEF Leave, IInv, TypeOK
<1>2. CallsOK'
  BY <1>1 DEF Leave, IInv, TypeOK, CallsOK
<1>3. 0 \in Past
  BY StreamAssumption DEF IInv, TypeOK, DataOK, Past, Versions
<1>4. StreamOK' /\ BelievedIsShown'
  BY <1>1 DEF Leave, StreamOK, BelievedIsShown
<1>5. timers' = 0 /\ handle' = FALSE
  BY Polling DEF Leave, IInv, TypeOK
<1>6. OneTimer'
  BY <1>5 DEF Leave, OneTimer
<1>7. PageOK'
  BY <1>1, <1>3, <1>5 DEF Leave, IInv, TypeOK, PageOK
<1>. QED  BY <1>1, <1>2, <1>4, <1>6, <1>7 DEF IInv, TypeOK

\* Every step preserves the invariant.
LEMMA InvStep == IInv /\ [Next]_vars => IInv'
<1> SUFFICES ASSUME IInv, [Next]_vars PROVE IInv'
  OBVIOUS
<1>1. CASE Write \/ Publish \/ SnapshotExpires \/ CacheExpires
  BY <1>1, InvData
<1>2. ASSUME NEW r \in Reads, Step(r) \/ Fail(r) PROVE IInv'
  BY <1>2, InvRead, InvSend, InvShow DEF Step
<1>3. ASSUME NEW r \in StreamReads, Check(r) \/ Connect(r) PROVE IInv'
  BY <1>3, InvBegin, InvConnect DEF Reads
<1>4. ASSUME NEW r \in RefreshReads, Refresh(r) PROVE IInv'
  BY <1>4, InvBegin DEF Reads
<1>5. CASE Error \/ Deliver \/ Leave
  BY <1>5, InvError, InvDeliver, InvLeave
<1>6. CASE UNCHANGED vars
  <2>1. DataOK' /\ CallsOK'
    BY <1>6 DEF IInv, TypeOK, DataOK, CallsOK, Past, vars, data, calls
  <2>2. StreamOK' /\ PageOK'
    BY <1>6 DEF IInv, TypeOK, StreamOK, PageOK, Past, vars, data, stream, page
  <2>3. OneTimer' /\ BelievedIsShown'
    BY <1>6 DEF IInv, OneTimer, BelievedIsShown, vars, stream, page
  <2>. QED  BY <2>1, <2>2, <2>3 DEF IInv, TypeOK
<1>. QED  BY <1>1, <1>2, <1>3, <1>4, <1>5, <1>6 DEF Next

\* The invariant holds in every behaviour.
LEMMA Invariant == Spec => []IInv
  BY InvInit, InvStep, PTL DEF Spec

\* No summary is ahead of the tables, and none is published that is not settled.
THEOREM TypeCorrect == Spec => []TypeOK
<1>1. IInv => TypeOK
  BY DEF IInv
<1>. QED  BY <1>1, Invariant, PTL

\* What the server remembers is what the page shows or will show, whatever calls overtake each
\* other and however often the connection breaks.
THEOREM BelievedCorrect == Spec => []BelievedIsShown
<1>1. IInv => BelievedIsShown
  BY DEF IInv
<1>. QED  BY <1>1, Invariant, PTL

\* However often the stream fails one interval polls at most, and none does while it is open or
\* after the page is left.
THEOREM TimerCorrect == Spec => []OneTimer
<1>1. IInv => OneTimer
  BY DEF IInv
<1>. QED  BY <1>1, Invariant, PTL
=============================================================================
