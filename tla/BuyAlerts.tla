------------------------------ MODULE BuyAlerts ------------------------------
(***************************************************************************)
(* The buy-alert job of the worker (apps/worker/src/jobs/buy-alerts.ts and *)
(* alert-lock.ts): concurrent runs of sendBuyAlerts, the Redis lock they   *)
(* compete for, the rows they read and write in PostgreSQL, and the mails  *)
(* they hand to the SMTP server.                                           *)
(*                                                                         *)
(* A run is one call of sendBuyAlerts, made by a pipeline run that has     *)
(* published a snapshot (market-pipeline.ts).  Every await of the code that reads *)
(* or writes shared state is a step of its own, so that other runs, the    *)
(* pipeline that rewrites the market data, the API that changes            *)
(* subscriptions, crashes and failing calls fall between any two of them.  *)
(*                                                                         *)
(* Time is counted in coarse instants, premiums in whole half percentage   *)
(* points (PREMIUM_DROP_STEP): only differences of whole steps matter.     *)
(***************************************************************************)
EXTENDS Integers, Sequences, FiniteSets

CONSTANTS
    Subscribers,     \* the rows of notification_subscribers
    TestRecipients,  \* those whose address is UNLIMITED_ALERT_EMAIL
    Slots,           \* job slots: each executes one run after another
    NoOne,           \* no subscriber is being served
    NoRun,           \* the lock key does not exist
    Orphan,          \* the key holds the token of a run that is gone
    MaxTime,         \* bound: the last instant
    LastDay,         \* bound: the last Vietnam calendar day
    DayOf,           \* the Vietnam calendar day of each instant
    DayMs,           \* DAY_MS, in instants
    MinGapMs,        \* MIN_GAP_MS, in instants
    FreshMs,         \* FRESH_METRIC_MS, in instants
    MaxPremium,      \* bound: the highest premium, in half points
    SmtpConfigured,  \* createTransporter returns a transporter
    MaxFaults,       \* bound: crashes and failed calls in a behaviour
    Prompt           \* no run outlives ALERT_LOCK_TTL_MS

Times    == 0 .. MaxTime
Days     == 1 .. LastDay
Premiums == 0 .. MaxPremium
Levels   == 1 .. MaxPremium

\* None is an absent premium history, and the sentAt of a row that is absent.
None == -1

\* The unique fingerprint "code:premium-drop:<Vietnam day>:<level>".
Fingerprints == Days \X Levels

ASSUME ConstantsAssumption ==
    /\ NoRun \notin Slots /\ Orphan \notin Slots /\ NoRun # Orphan
    /\ TestRecipients \subseteq Subscribers /\ NoOne \notin Subscribers
    /\ MaxTime \in Nat /\ LastDay \in Nat \ {0} /\ MaxPremium \in Nat \ {0}
    /\ DayOf \in [Times -> Days]
    /\ DayMs \in Nat \ {0} /\ MinGapMs \in Nat \ {0} /\ FreshMs \in Nat
    /\ MaxFaults \in Nat
    /\ SmtpConfigured \in BOOLEAN /\ Prompt \in BOOLEAN

\* Where a run stands: the await it executes next.
Labels == {"idle", "select", "upsert", "collect", "subscribers", "dispatch", "send",
           "record", "count", "release"}

NoChoice == [event |-> <<0, 0>>, at |-> 0]

VARIABLES
    \* the environment: the clock and the market rows of DOJI_RING_9999
    time,
    premium,            \* premiumSellPct of the latest metric
    metricAt,           \* time of the latest metric
    buy,                \* the latest signal is BUY_DCA and has the metric's time
    closes,             \* the last premium of each ended day; 0 is before day 1
    \* the tables of the alerts
    occurredAt,         \* buy_alert_events: occurredAt, None when absent
    sentAt,             \* buy_alert_deliveries: sentAt, None when absent
    active,             \* status = "active" and buyAlertEnabled
    notificationCount,
    \* Redis
    lock,               \* the token under the send-lock key
    \* the runs
    pc, now, choice, pending, queue, recipient, selected,
    \* observations, not part of the program
    mailed,             \* mails that carried an event to a subscriber, counted
    lost,               \* those of them whose record was never written
    mailLog,            \* the instants at which a subscriber was mailed
    faults

marketVars == <<premium, metricAt, buy, closes>>
tableVars  == <<occurredAt, sentAt, notificationCount>>
localVars  == <<now, choice, pending, queue, recipient, selected>>
seenVars   == <<mailed, lost, mailLog>>
vars == <<time, marketVars, tableVars, active, lock, pc, localVars, seenVars, faults>>

-----------------------------------------------------------------------------
(* What the job reads *)

\* The premium findPreviousTradingDayPremium returns for a run that began at n:
\* the last one before the Vietnam day of n, None when there is no history.
PreviousPremium(n) == closes[DayOf[n] - 1]

\* BUY_DCA, metric and signal of one time, and a metric at most FRESH_METRIC_MS
\* older than the run's own idea of the present.
MarketQualifies(n) == buy /\ n - metricAt <= FreshMs

\* selectPremiumDropAlertEvent: the whole steps the premium has dropped.
DropLevel(n) == PreviousPremium(n) - premium

\* Faulty variant: an event at any level, a rise included.
QualifiesAtAnyLevel(n) == MarketQualifies(n) /\ PreviousPremium(n) # None

QualifiesForEvent(n) ==
    /\ MarketQualifies(n)
    /\ PreviousPremium(n) # None
    /\ DropLevel(n) >= 1

\* The events of the last 24 hours, one per level: the one that occurred last.
InWindow(n) == {e \in Fingerprints : occurredAt[e] # None /\ occurredAt[e] >= n - DayMs}

LatestPerLevel(E) ==
    {e \in E : \A f \in E : f[2] = e[2] => occurredAt[f] <= occurredAt[e]}

PendingEvents(n) == IF MarketQualifies(n) THEN LatestPerLevel(InWindow(n)) ELSE {}

Delivered(s) == {e \in Fingerprints : sentAt[s][e] # None}

\* selectTemporaryAlertRecipients over the active subscribers.
Recipients == {s \in TestRecipients : active[s]}

\* canDispatchNotification counts delivery rows, not mails.
CanDispatch(s, n) ==
    LET recent == {e \in Delivered(s) : n - sentAt[s][e] < DayMs}
    IN  /\ Cardinality(recent) < 2
        /\ \A e \in recent : n - sentAt[s][e] >= MinGapMs

MayMail(s, n) == s \in TestRecipients \/ CanDispatch(s, n)

-----------------------------------------------------------------------------
(* Initial states: an empty alert history on some market *)

Init ==
    /\ time = 0
    /\ premium \in Premiums /\ metricAt = 0 /\ buy \in BOOLEAN
    /\ \E base \in Premiums \cup {None} :
         closes = [d \in 0 .. LastDay |-> IF d = 0 THEN base ELSE None]
    /\ occurredAt = [e \in Fingerprints |-> None]
    /\ sentAt = [s \in Subscribers |-> [e \in Fingerprints |-> None]]
    /\ active \in [Subscribers -> BOOLEAN]
    /\ notificationCount = [s \in Subscribers |-> 0]
    /\ lock = NoRun
    /\ pc = [r \in Slots |-> "idle"]
    /\ now = [r \in Slots |-> 0]
    /\ choice = [r \in Slots |-> NoChoice]
    /\ pending = [r \in Slots |-> {}]
    /\ queue = [r \in Slots |-> {}]
    /\ recipient = [r \in Slots |-> NoOne]
    /\ selected = [r \in Slots |-> {}]
    /\ mailed = [s \in Subscribers |-> [e \in Fingerprints |-> 0]]
    /\ lost = [s \in Subscribers |-> [e \in Fingerprints |-> 0]]
    /\ mailLog = [s \in Subscribers |-> <<>>]
    /\ faults = 0

-----------------------------------------------------------------------------
(* The environment *)

\* The clock moves on.  At midnight the premium that stands becomes the close
\* of the day that ends.
Tick ==
    /\ time < MaxTime
    /\ time' = time + 1
    /\ closes' = IF DayOf[time + 1] = DayOf[time]
                 THEN closes
                 ELSE [closes EXCEPT ![DayOf[time]] = premium]
    /\ UNCHANGED <<premium, metricAt, buy, tableVars, active, lock, pc, localVars,
                   seenVars, faults>>

\* The pipeline writes a metric, and a signal that may or may not qualify.
MarketMoves ==
    /\ premium' \in Premiums
    /\ buy' \in BOOLEAN
    /\ metricAt' = time
    /\ UNCHANGED <<time, closes, tableVars, active, lock, pc, localVars, seenVars, faults>>

\* The API subscribes or unsubscribes somebody.
SubscriptionChanges(s) ==
    /\ active' = [active EXCEPT ![s] = ~ @]
    /\ UNCHANGED <<time, marketVars, tableVars, lock, pc, localVars, seenVars, faults>>

\* Faulty variant: the key is set without PX.
LockNeverExpires == FALSE /\ UNCHANGED vars

\* The key's PX runs out.  With Prompt, only a key whose run is gone lives that long.
LockExpires ==
    /\ lock # NoRun
    /\ Prompt => lock = Orphan
    /\ lock' = NoRun
    /\ UNCHANGED <<time, marketVars, tableVars, active, pc, localVars, seenVars, faults>>

-----------------------------------------------------------------------------
(* A run *)

\* The common frame of a run's own steps.
GoTo(r, from, to) ==
    /\ pc[r] = from
    /\ pc' = [pc EXCEPT ![r] = to]
    /\ UNCHANGED <<time, marketVars, active>>

\* Faulty variant: SET without NX.
AcquireOverwriting(r) ==
    /\ GoTo(r, "idle", "select")
    /\ lock' = r
    /\ now' = [now EXCEPT ![r] = time]
    /\ UNCHANGED <<tableVars, choice, pending, queue, recipient, selected, seenVars, faults>>

\* A pipeline run has published a snapshot and calls sendBuyAlerts: SET NX with
\* a fresh token succeeds, then now = new Date().  A refused call returns
\* "already_running" and changes nothing.  A refresh that fails, or publishes
\* nothing because some product is out of line (MarketSnapshot), makes no call.
Acquire(r) ==
    /\ lock = NoRun
    /\ GoTo(r, "idle", "select")
    /\ lock' = r
    /\ now' = [now EXCEPT ![r] = time]
    /\ UNCHANGED <<tableVars, choice, pending, queue, recipient, selected, seenVars, faults>>

\* Read the product, its latest metric and signal, and the previous premium.
SelectDrop(r) ==
    /\ IF QualifiesForEvent(now[r])
       THEN /\ GoTo(r, "select", "upsert")
            /\ choice' = [choice EXCEPT ![r] =
                            [event |-> <<DayOf[metricAt], DropLevel(now[r])>>, at |-> metricAt]]
       ELSE GoTo(r, "select", "collect") /\ UNCHANGED choice
    /\ UNCHANGED <<tableVars, lock, now, pending, queue, recipient, selected, seenVars, faults>>

\* Upsert by fingerprint; an existing event is left as it is.
UpsertEvent(r) ==
    /\ GoTo(r, "upsert", "collect")
    /\ occurredAt' = [occurredAt EXCEPT ![choice[r].event] =
                        IF @ = None THEN choice[r].at ELSE @]
    /\ choice' = [choice EXCEPT ![r] = NoChoice]
    /\ UNCHANGED <<sentAt, notificationCount, lock, now, pending, queue, recipient,
                   selected, seenVars, faults>>

\* Read the events with the market rows as they are by now.
CollectPending(r) ==
    /\ GoTo(r, "collect", IF PendingEvents(now[r]) = {} THEN "release" ELSE "subscribers")
    /\ pending' = [pending EXCEPT ![r] = PendingEvents(now[r])]
    /\ UNCHANGED <<tableVars, lock, now, choice, queue, recipient, selected, seenVars, faults>>

\* Read the subscribers, once, and create the transporter.
ReadSubscribers(r) ==
    /\ GoTo(r, "subscribers", "dispatch")
    /\ queue' = [queue EXCEPT ![r] = IF SmtpConfigured THEN Recipients ELSE {}]
    /\ UNCHANGED <<tableVars, lock, now, choice, pending, recipient, selected, seenVars, faults>>

\* Faulty variant: what is delivered already is selected again.
ServeNextRepeating(r) ==
    \E s \in queue[r] :
        /\ queue' = [queue EXCEPT ![r] = @ \ {s}]
        /\ GoTo(r, "dispatch", "send")
        /\ recipient' = [recipient EXCEPT ![r] = s]
        /\ selected' = [selected EXCEPT ![r] = pending[r]]
        /\ UNCHANGED <<tableVars, lock, now, choice, pending, seenVars, faults>>

\* Take the next subscriber, read the deliveries, and select what is not delivered.
ServeNext(r) ==
    \E s \in queue[r] :
        LET fresh == pending[r] \ Delivered(s) IN
        /\ queue' = [queue EXCEPT ![r] = @ \ {s}]
        /\ IF MayMail(s, now[r]) /\ fresh # {}
           THEN /\ GoTo(r, "dispatch", "send")
                /\ recipient' = [recipient EXCEPT ![r] = s]
                /\ selected' = [selected EXCEPT ![r] = fresh]
           ELSE GoTo(r, "dispatch", "dispatch") /\ UNCHANGED <<recipient, selected>>
        /\ UNCHANGED <<tableVars, lock, now, choice, pending, seenVars, faults>>

AllServed(r) ==
    /\ queue[r] = {}
    /\ GoTo(r, "dispatch", "release")
    /\ UNCHANGED <<tableVars, lock, localVars, seenVars, faults>>

\* One more for each event of E in a counter of subscriber s.
Bump(counter, s, E) ==
    [counter EXCEPT ![s] = [e \in Fingerprints |->
        IF e \in E THEN counter[s][e] + 1 ELSE counter[s][e]]]

\* The SMTP server has the mail.
Deliver(r) ==
    /\ mailed' = Bump(mailed, recipient[r], selected[r])
    /\ mailLog' = [mailLog EXCEPT ![recipient[r]] = Append(@, time)]

\* The loop goes on with the next subscriber.
DropRecipient(r) ==
    /\ recipient' = [recipient EXCEPT ![r] = NoOne]
    /\ selected' = [selected EXCEPT ![r] = {}]

SendMail(r) ==
    /\ GoTo(r, "send", "record")
    /\ Deliver(r)
    /\ UNCHANGED <<tableVars, lock, localVars, lost, faults>>

\* createMany with skipDuplicates, stamped with the run's start.
RecordDeliveries(r) ==
    /\ GoTo(r, "record", "count")
    /\ sentAt' = [sentAt EXCEPT ![recipient[r]] = [e \in Fingerprints |->
                    IF e \in selected[r] /\ @[e] = None THEN now[r] ELSE @[e]]]
    /\ UNCHANGED <<occurredAt, notificationCount, lock, localVars, seenVars, faults>>

\* Faulty variant: one per event instead of one per mail.
CountEvents(r) ==
    /\ GoTo(r, "count", "dispatch")
    /\ notificationCount' =
         [notificationCount EXCEPT ![recipient[r]] = @ + Cardinality(selected[r])]
    /\ DropRecipient(r)
    /\ UNCHANGED <<occurredAt, sentAt, lock, now, choice, pending, queue, seenVars, faults>>

CountNotification(r) ==
    /\ GoTo(r, "count", "dispatch")
    /\ notificationCount' = [notificationCount EXCEPT ![recipient[r]] = @ + 1]
    /\ DropRecipient(r)
    /\ UNCHANGED <<occurredAt, sentAt, lock, now, choice, pending, queue, seenVars, faults>>

\* The run forgets everything it holds.
EndRun(r) ==
    /\ pc' = [pc EXCEPT ![r] = "idle"]
    /\ now' = [now EXCEPT ![r] = 0]
    /\ choice' = [choice EXCEPT ![r] = NoChoice]
    /\ pending' = [pending EXCEPT ![r] = {}]
    /\ queue' = [queue EXCEPT ![r] = {}]
    /\ DropRecipient(r)

\* Faulty variant: delete whatever token is there.
ReleaseAny(r) ==
    /\ pc[r] = "release"
    /\ EndRun(r)
    /\ lock' = NoRun
    /\ UNCHANGED <<time, marketVars, tableVars, active, seenVars, faults>>

\* Compare and delete: only the run's own token is removed.
Release(r) ==
    /\ pc[r] = "release"
    /\ EndRun(r)
    /\ lock' = IF lock = r THEN NoRun ELSE lock
    /\ UNCHANGED <<time, marketVars, tableVars, active, seenVars, faults>>

-----------------------------------------------------------------------------
(* Failures *)

Fault == faults < MaxFaults /\ faults' = faults + 1

\* The key is set and the reply is lost: no run knows that it holds it.
AcquireReplyLost ==
    /\ Fault
    /\ lock = NoRun
    /\ lock' = Orphan
    /\ UNCHANGED <<time, marketVars, tableVars, active, pc, localVars, seenVars>>

\* Faulty variant: the error leaves the job without the finally block.
QueryFailsHolding(r) ==
    /\ Fault
    /\ pc[r] \in {"select", "upsert", "collect", "subscribers"}
    /\ EndRun(r)
    /\ UNCHANGED <<time, marketVars, tableVars, active, lock, seenVars>>

\* A query before the loop throws: the finally block releases the lock.
QueryFails(r) ==
    /\ Fault
    /\ \E from \in {"select", "upsert", "collect", "subscribers"} : GoTo(r, from, "release")
    /\ UNCHANGED <<tableVars, lock, localVars, seenVars>>

\* A query about one subscriber throws: the loop skips that subscriber.
SubscriberQueryFails(r) ==
    /\ Fault
    /\ GoTo(r, "dispatch", "dispatch")
    /\ \E s \in queue[r] : queue' = [queue EXCEPT ![r] = @ \ {s}]
    /\ UNCHANGED <<tableVars, lock, now, choice, pending, recipient, selected, seenVars>>

\* Faulty variant: the error is swallowed and the mail recorded all the same.
SendFailsSwallowed(r) ==
    /\ Fault
    /\ GoTo(r, "send", "record")
    /\ UNCHANGED <<tableVars, lock, localVars, seenVars>>

\* sendMail throws; the server may have accepted the mail all the same.
SendFails(r) ==
    /\ Fault
    /\ GoTo(r, "send", "dispatch")
    /\ DropRecipient(r)
    /\ \/ UNCHANGED seenVars
       \/ Deliver(r) /\ lost' = Bump(lost, recipient[r], selected[r])
    /\ UNCHANGED <<tableVars, lock, now, choice, pending, queue>>

\* createMany throws after the mail is out.
RecordFails(r) ==
    /\ Fault
    /\ GoTo(r, "record", "dispatch")
    /\ DropRecipient(r)
    /\ lost' = Bump(lost, recipient[r], selected[r])
    /\ UNCHANGED <<tableVars, lock, now, choice, pending, queue, mailed, mailLog>>

CountFails(r) ==
    /\ Fault
    /\ GoTo(r, "count", "dispatch")
    /\ DropRecipient(r)
    /\ UNCHANGED <<tableVars, lock, now, choice, pending, queue, seenVars>>

\* The run is gone, with its process or because the release throws; its token
\* stays under the key until it expires.
Crash(r) ==
    /\ Fault
    /\ pc[r] # "idle"
    /\ EndRun(r)
    /\ lock' = IF lock = r THEN Orphan ELSE lock
    /\ lost' = IF pc[r] = "record" THEN Bump(lost, recipient[r], selected[r]) ELSE lost
    /\ UNCHANGED <<time, marketVars, tableVars, active, mailed, mailLog>>

-----------------------------------------------------------------------------
(* The specification *)

Environment ==
    \/ Tick
    \/ MarketMoves
    \/ \E s \in Subscribers : SubscriptionChanges(s)
    \/ LockExpires

RunStep(r) ==
    \/ SelectDrop(r)
    \/ UpsertEvent(r)
    \/ CollectPending(r)
    \/ ReadSubscribers(r)
    \/ ServeNext(r)
    \/ AllServed(r)
    \/ SendMail(r)
    \/ RecordDeliveries(r)
    \/ CountNotification(r)
    \/ Release(r)

Failure(r) ==
    \/ QueryFails(r)
    \/ SubscriberQueryFails(r)
    \/ SendFails(r)
    \/ RecordFails(r)
    \/ CountFails(r)
    \/ Crash(r)

Next ==
    \/ Environment
    \/ AcquireReplyLost
    \/ \E r \in Slots : Acquire(r) \/ RunStep(r) \/ Failure(r)

Spec == Init /\ [][Next]_vars

\* A run that is alive takes its next step, and Redis expires the key of a run
\* that is gone.  Nothing is promised of Acquire: a call is only as certain as
\* the publication before it.  Nor is anything made to depend on the expiry of
\* a live run's key, which may happen at any time.
FairSpec ==
    /\ Spec
    /\ \A r \in Slots : WF_vars(RunStep(r))
    /\ WF_vars(lock = Orphan /\ LockExpires)

-----------------------------------------------------------------------------
(* Properties *)

MarketTypeOK ==
    /\ time \in Times
    /\ premium \in Premiums /\ metricAt \in Times /\ buy \in BOOLEAN
    /\ closes \in [0 .. LastDay -> Premiums \cup {None}]
    /\ active \in [Subscribers -> BOOLEAN]

TablesTypeOK ==
    /\ occurredAt \in [Fingerprints -> Times \cup {None}]
    /\ sentAt \in [Subscribers -> [Fingerprints -> Times \cup {None}]]
    /\ notificationCount \in [Subscribers -> Nat]

RunsTypeOK ==
    /\ lock \in Slots \cup {NoRun, Orphan}
    /\ pc \in [Slots -> Labels]
    /\ now \in [Slots -> Times]
    /\ choice \in [Slots -> [event : Fingerprints \cup {NoChoice.event}, at : Times]]
    /\ \A r \in Slots : pc[r] = "upsert" => choice[r].event \in Fingerprints
    /\ pending \in [Slots -> SUBSET Fingerprints]
    /\ queue \in [Slots -> SUBSET Subscribers]
    /\ recipient \in [Slots -> Subscribers \cup {NoOne}]
    /\ \A r \in Slots : pc[r] \in {"send", "record", "count"} => recipient[r] \in Subscribers
    /\ selected \in [Slots -> SUBSET Fingerprints]

SeenTypeOK ==
    /\ mailed \in [Subscribers -> [Fingerprints -> Nat]]
    /\ lost \in [Subscribers -> [Fingerprints -> Nat]]
    /\ mailLog \in [Subscribers -> Seq(Times)]
    /\ faults \in 0 .. MaxFaults

TypeOK == MarketTypeOK /\ TablesTypeOK /\ RunsTypeOK /\ SeenTypeOK

\* As long as no run outlives the lock, at most one run is between taking and
\* releasing it, whatever crashes and whatever replies are lost.
OneSender ==
    Prompt => \A r, q \in Slots : pc[r] # "idle" /\ pc[q] # "idle" => r = q

\* An event reaches a subscriber by mail at most once more than the number of
\* its mails whose delivery record was lost: without such a failure, once.
NoDuplicateMail ==
    \A s \in Subscribers, e \in Fingerprints : mailed[s][e] <= lost[s][e] + 1

\* A delivery row is never written for an event that was not mailed, so a
\* failure can repeat an alert but not swallow it.
RecordedWasMailed ==
    \A s \in Subscribers : \A e \in Delivered(s) : mailed[s][e] >= 1

\* notificationCount never runs ahead of the mails the subscriber was sent.
CountWithinMails ==
    \A s \in Subscribers : notificationCount[s] <= Len(mailLog[s])

\* The inductive strengthening of the three invariants that matter.  With
\* Prompt the lock belongs to whoever runs (LockHeld); what is about to be
\* mailed is not delivered (NotYetDelivered); what is about to be recorded was
\* mailed (AlreadyMailed); and a mail whose record was not lost is either
\* recorded or about to be (Accounted).
LockHeld == Prompt => \A r \in Slots : pc[r] # "idle" => lock = r

NotYetDelivered ==
    Prompt => \A r \in Slots : pc[r] = "send" =>
        \A e \in selected[r] : sentAt[recipient[r]][e] = None

AlreadyMailed ==
    \A r \in Slots : pc[r] = "record" =>
        \A e \in selected[r] : mailed[recipient[r]][e] >= 1

InFlight(s, e) == \E r \in Slots : pc[r] = "record" /\ recipient[r] = s /\ e \in selected[r]

Accounted ==
    Prompt => \A s \in Subscribers, e \in Fingerprints :
        /\ mailed[s][e] <= lost[s][e] + 1
        /\ sentAt[s][e] = None /\ ~ InFlight(s, e) => mailed[s][e] <= lost[s][e]

IInv ==
    /\ TypeOK
    /\ LockHeld
    /\ NotYetDelivered
    /\ AlreadyMailed
    /\ RecordedWasMailed
    /\ Accounted

\* A live run's lock key goes away by that run's own step or by expiry: the
\* release of a run whose key expired spares the key of the run that follows.
ReleaseSparesOthers ==
    [][\A r \in Slots : lock = r /\ lock' # r => pc'[r] # pc[r] \/ pc' = pc]_vars

\* The pipeline keeps publishing, so that call after call takes the lock: it is
\* never left free for good.
CallsContinue == []<>(lock # NoRun)

\* An event that stays pending for an active test recipient is recorded as
\* delivered in the end if calls continue, in spite of finitely many failures
\* and expiring locks.
StaysPending(s, e) ==
    SmtpConfigured /\ s \in Recipients /\ e \in PendingEvents(time)

PendingIsDelivered ==
    CallsContinue =>
        \A s \in Subscribers, e \in Fingerprints :
            <>[]StaysPending(s, e) => <>(e \in Delivered(s))

\* However the calls of a run fail, the run gives its lock back by its own
\* steps: expiry is needed only for the lock of a run that is gone.
LockComesFree == []<>(lock = NoRun)

\* The promise of AlertOutbox, kept as long as no run outlives the lock.
Outbox == INSTANCE AlertOutbox WITH recorded <- [s \in Subscribers |-> Delivered(s)]

ImplementsOutbox == Outbox!OutboxSpec
=============================================================================
