--------------------------- MODULE BuyAlertsProofs ---------------------------
(***************************************************************************)
(* Proofs about BuyAlerts, for every number of job slots, subscribers,     *)
(* instants, days, premium steps and failures.                             *)
(***************************************************************************)
EXTENDS BuyAlerts, FiniteSetTheorems, TLAPS

-----------------------------------------------------------------------------
(* Type correctness *)

\* A counter stays a table of naturals when some of its entries go up by one.
LEMMA BumpType ==
    ASSUME NEW counter \in [Subscribers -> [Fingerprints -> Nat]],
           NEW s \in Subscribers, NEW E
    PROVE  Bump(counter, s, E) \in [Subscribers -> [Fingerprints -> Nat]]
BY DEF Bump

\* A step of one run's control leaves the market alone and the other runs where they are.
LEMMA GoToType ==
    ASSUME TypeOK, NEW r \in Slots, NEW from, NEW to \in Labels, GoTo(r, from, to)
    PROVE  /\ MarketTypeOK'
           /\ pc' \in [Slots -> Labels]
           /\ pc[r] = from /\ pc'[r] = to
           /\ \A q \in Slots : q # r => pc'[q] = pc[q]
BY DEF GoTo, TypeOK, MarketTypeOK, RunsTypeOK, marketVars

\* Forgetting the recipient keeps the types of what a run holds.
LEMMA DropType ==
    ASSUME RunsTypeOK, NEW r \in Slots, DropRecipient(r)
    PROVE  /\ recipient' \in [Slots -> Subscribers \cup {NoOne}]
           /\ selected' \in [Slots -> SUBSET Fingerprints]
           /\ \A q \in Slots : q # r => recipient'[q] = recipient[q]
BY DEF RunsTypeOK, DropRecipient

\* The server's mail extends the mail log and the counter of its events.
LEMMA DeliverType ==
    ASSUME TypeOK, NEW r \in Slots, recipient[r] \in Subscribers, Deliver(r)
    PROVE  /\ mailed' \in [Subscribers -> [Fingerprints -> Nat]]
           /\ mailLog' \in [Subscribers -> Seq(Times)]
<1>1. mailed' \in [Subscribers -> [Fingerprints -> Nat]]
  BY BumpType DEF Deliver, TypeOK, SeenTypeOK
<1>2. Append(mailLog[recipient[r]], time) \in Seq(Times)
  BY DEF TypeOK, SeenTypeOK, MarketTypeOK
<1>3. mailLog' = [mailLog EXCEPT ![recipient[r]] = Append(mailLog[recipient[r]], time)]
  BY DEF Deliver, TypeOK, SeenTypeOK
<1>4. mailLog \in [Subscribers -> Seq(Times)]
  BY DEF TypeOK, SeenTypeOK
<1>5. QED
  BY <1>1, <1>2, <1>3, <1>4

\* The initial state is typed.
LEMMA TypeInit == Init => TypeOK
BY ConstantsAssumption DEF Init, TypeOK, MarketTypeOK, TablesTypeOK, RunsTypeOK, SeenTypeOK,
   Times, Premiums, None, NoChoice, Labels

\* The event a run selects is one the tables can hold.
LEMMA SelectionType ==
    ASSUME TypeOK, NEW n \in Times, QualifiesForEvent(n)
    PROVE  <<DayOf[metricAt], DropLevel(n)>> \in Fingerprints
<1>1. DayOf[n] - 1 \in 0 .. LastDay /\ DayOf[metricAt] \in Days
  BY ConstantsAssumption DEF TypeOK, MarketTypeOK, Days
<1>2. PreviousPremium(n) \in Premiums /\ premium \in Premiums
  BY <1>1 DEF TypeOK, MarketTypeOK, PreviousPremium, QualifiesForEvent
<1>3. DropLevel(n) \in Levels
  BY <1>2, ConstantsAssumption DEF DropLevel, QualifiesForEvent, Premiums, Levels
<1>4. QED
  BY <1>1, <1>3 DEF Fingerprints

\* Every step of the environment, of a run and of a failure preserves the types.
LEMMA TypeStep == TypeOK /\ [Next]_vars => TypeOK'
<1> SUFFICES ASSUME TypeOK, [Next]_vars PROVE TypeOK'
  OBVIOUS
<1> USE ConstantsAssumption
    DEF tableVars, localVars, seenVars, marketVars, TypeOK, TablesTypeOK, RunsTypeOK, SeenTypeOK
<1>1. CASE Tick
  <2>1. time' \in Times /\ DayOf[time] \in 0 .. LastDay
    BY <1>1 DEF Tick, MarketTypeOK, Times, Days
  <2>2. closes' \in [0 .. LastDay -> Premiums \cup {None}]
    BY <1>1, <2>1 DEF Tick, MarketTypeOK
  <2>3. QED
    BY <1>1, <2>1, <2>2 DEF Tick, MarketTypeOK
<1>2. CASE MarketMoves
  BY <1>2 DEF MarketMoves, MarketTypeOK
<1>3. ASSUME NEW s \in Subscribers, SubscriptionChanges(s) PROVE TypeOK'
  BY <1>3 DEF SubscriptionChanges, MarketTypeOK
<1>4. CASE LockExpires
  BY <1>4 DEF LockExpires, MarketTypeOK
<1>5. CASE AcquireReplyLost
  BY <1>5 DEF AcquireReplyLost, Fault, MarketTypeOK
<1>6. ASSUME NEW r \in Slots, Acquire(r) PROVE TypeOK'
  BY <1>6, GoToType DEF Acquire, Labels, MarketTypeOK
<1>7. ASSUME NEW r \in Slots, SelectDrop(r) PROVE TypeOK'
  <2>1. CASE QualifiesForEvent(now[r])
    <3>1. /\ MarketTypeOK' /\ pc' \in [Slots -> Labels]
          /\ pc'[r] = "upsert" /\ \A q \in Slots : q # r => pc'[q] = pc[q]
      BY <1>7, <2>1, GoToType DEF SelectDrop, Labels
    <3>2. <<DayOf[metricAt], DropLevel(now[r])>> \in Fingerprints /\ metricAt \in Times
      BY <2>1, SelectionType DEF MarketTypeOK
    <3>3. choice' = [choice EXCEPT ![r] =
                       [event |-> <<DayOf[metricAt], DropLevel(now[r])>>, at |-> metricAt]]
      BY <1>7, <2>1 DEF SelectDrop
    <3>4. choice' \in [Slots -> [event : Fingerprints \cup {NoChoice.event}, at : Times]]
      BY <3>2, <3>3
    <3>5. \A q \in Slots : pc'[q] = "upsert" => choice'[q].event \in Fingerprints
      BY <3>1, <3>2, <3>3
    <3>6. QED
      BY <1>7, <3>1, <3>4, <3>5 DEF SelectDrop
  <2>2. CASE ~ QualifiesForEvent(now[r])
    BY <1>7, <2>2, GoToType DEF SelectDrop, Labels
  <2>3. QED
    BY <2>1, <2>2
<1>8. ASSUME NEW r \in Slots, UpsertEvent(r) PROVE TypeOK'
  <2>1. /\ MarketTypeOK' /\ pc' \in [Slots -> Labels] /\ pc[r] = "upsert"
        /\ pc'[r] = "collect" /\ \A q \in Slots : q # r => pc'[q] = pc[q]
    BY <1>8, GoToType DEF UpsertEvent, Labels
  <2>2. occurredAt' \in [Fingerprints -> Times \cup {None}]
    BY <1>8, <2>1 DEF UpsertEvent
  <2>3. choice' \in [Slots -> [event : Fingerprints \cup {NoChoice.event}, at : Times]]
    BY <1>8 DEF UpsertEvent, NoChoice, Times
  <2>4. \A q \in Slots : pc'[q] = "upsert" => choice'[q].event \in Fingerprints
    BY <1>8, <2>1 DEF UpsertEvent
  <2>5. QED
    BY <1>8, <2>1, <2>2, <2>3, <2>4 DEF UpsertEvent
<1>9. ASSUME NEW r \in Slots, CollectPending(r) PROVE TypeOK'
  BY <1>9, GoToType DEF CollectPending, PendingEvents, LatestPerLevel, InWindow, Labels
<1>10. ASSUME NEW r \in Slots, ReadSubscribers(r) PROVE TypeOK'
  BY <1>10, GoToType DEF ReadSubscribers, Recipients, Labels
<1>11. ASSUME NEW r \in Slots, ServeNext(r) PROVE TypeOK'
  <2>1. PICK s \in queue[r] :
          /\ queue' = [queue EXCEPT ![r] = @ \ {s}]
          /\ \/ /\ GoTo(r, "dispatch", "send")
                /\ recipient' = [recipient EXCEPT ![r] = s]
                /\ selected' = [selected EXCEPT ![r] = pending[r] \ Delivered(s)]
             \/ GoTo(r, "dispatch", "dispatch") /\ UNCHANGED <<recipient, selected>>
          /\ UNCHANGED <<tableVars, lock, now, choice, pending, seenVars, faults>>
    BY <1>11 DEF ServeNext
  <2>2. /\ MarketTypeOK' /\ pc' \in [Slots -> Labels] /\ pc[r] = "dispatch"
        /\ \A q \in Slots : q # r => pc'[q] = pc[q]
    BY <2>1, GoToType DEF Labels
  <2>3. (pc'[r] = "send" /\ recipient'[r] = s) \/ pc'[r] = "dispatch"
    BY <2>1, GoToType DEF Labels
  <2>4. /\ queue' \in [Slots -> SUBSET Subscribers]
        /\ recipient' \in [Slots -> Subscribers \cup {NoOne}]
        /\ selected' \in [Slots -> SUBSET Fingerprints]
        /\ \A q \in Slots : q # r => recipient'[q] = recipient[q]
    <3>1. s \in Subscribers /\ pending[r] \ Delivered(s) \in SUBSET Fingerprints
      BY <2>1
    <3>2. queue' \in [Slots -> SUBSET Subscribers]
      BY <2>1
    <3>3. /\ recipient' \in [Slots -> Subscribers \cup {NoOne}]
          /\ \A q \in Slots : q # r => recipient'[q] = recipient[q]
      BY <2>1, <3>1
    <3>4. selected' \in [Slots -> SUBSET Fingerprints]
      BY <2>1, <3>1
    <3>5. QED
      BY <3>2, <3>3, <3>4
  <2>5. \A q \in Slots : pc'[q] \in {"send", "record", "count"} => recipient'[q] \in Subscribers
    BY <2>1, <2>2, <2>3, <2>4
  <2>6. QED
    BY <2>1, <2>2, <2>3, <2>4, <2>5
<1>12. ASSUME NEW r \in Slots, AllServed(r) PROVE TypeOK'
  BY <1>12, GoToType DEF AllServed, Labels
<1>13. ASSUME NEW r \in Slots, SendMail(r) PROVE TypeOK'
  <2>1. /\ MarketTypeOK' /\ pc' \in [Slots -> Labels] /\ pc[r] = "send" /\ pc'[r] = "record"
        /\ \A q \in Slots : q # r => pc'[q] = pc[q]
    BY <1>13, GoToType DEF SendMail, Labels
  <2>2. mailed' \in [Subscribers -> [Fingerprints -> Nat]] /\ mailLog' \in [Subscribers -> Seq(Times)]
    BY <1>13, <2>1, DeliverType DEF SendMail
  <2>3. QED
    BY <1>13, <2>1, <2>2 DEF SendMail
<1>14. ASSUME NEW r \in Slots, RecordDeliveries(r) PROVE TypeOK'
  BY <1>14, GoToType DEF RecordDeliveries, Labels
<1>15. ASSUME NEW r \in Slots, CountNotification(r) PROVE TypeOK'
  <2>1. /\ MarketTypeOK' /\ pc' \in [Slots -> Labels] /\ pc[r] = "count"
        /\ pc'[r] = "dispatch" /\ \A q \in Slots : q # r => pc'[q] = pc[q]
    BY <1>15, GoToType DEF CountNotification, Labels
  <2>2. notificationCount' \in [Subscribers -> Nat]
    BY <1>15, <2>1 DEF CountNotification
  <2>3. QED
    BY <1>15, <2>1, <2>2, DropType DEF CountNotification
<1>16. ASSUME NEW r \in Slots, Release(r) PROVE TypeOK'
  <2>1. RunsTypeOK'
    BY <1>16, DropType DEF Release, EndRun, NoChoice, Times, Labels
  <2>2. QED
    BY <1>16, <2>1 DEF Release, MarketTypeOK
<1>17. ASSUME NEW r \in Slots, QueryFails(r) PROVE TypeOK'
  <2>1. PICK from \in {"select", "upsert", "collect", "subscribers"} : GoTo(r, from, "release")
    BY <1>17 DEF QueryFails
  <2>2. /\ MarketTypeOK' /\ pc' \in [Slots -> Labels] /\ pc'[r] = "release"
        /\ \A q \in Slots : q # r => pc'[q] = pc[q]
    BY <2>1, GoToType DEF Labels
  <2>3. QED
    BY <1>17, <2>2 DEF QueryFails, Fault
<1>18. ASSUME NEW r \in Slots, SubscriberQueryFails(r) PROVE TypeOK'
  BY <1>18, GoToType DEF SubscriberQueryFails, Fault, Labels
<1>19. ASSUME NEW r \in Slots, SendFails(r) PROVE TypeOK'
  <2>1. /\ MarketTypeOK' /\ pc' \in [Slots -> Labels] /\ pc[r] = "send"
        /\ pc'[r] = "dispatch" /\ \A q \in Slots : q # r => pc'[q] = pc[q]
    BY <1>19, GoToType DEF SendFails, Labels
  <2>2. RunsTypeOK'
    BY <1>19, <2>1, DropType DEF SendFails
  <2>3. /\ mailed' \in [Subscribers -> [Fingerprints -> Nat]]
        /\ lost' \in [Subscribers -> [Fingerprints -> Nat]]
        /\ mailLog' \in [Subscribers -> Seq(Times)]
    <3>1. CASE UNCHANGED seenVars
      BY <3>1
    <3>2. CASE Deliver(r) /\ lost' = Bump(lost, recipient[r], selected[r])
      BY <2>1, <3>2, BumpType, DeliverType
    <3>3. QED
      BY <1>19, <3>1, <3>2 DEF SendFails
  <2>4. QED
    BY <1>19, <2>1, <2>2, <2>3 DEF SendFails, Fault
<1>20. ASSUME NEW r \in Slots, RecordFails(r) PROVE TypeOK'
  <2>1. /\ MarketTypeOK' /\ pc' \in [Slots -> Labels] /\ pc[r] = "record"
        /\ pc'[r] = "dispatch" /\ \A q \in Slots : q # r => pc'[q] = pc[q]
    BY <1>20, GoToType DEF RecordFails, Labels
  <2>2. RunsTypeOK'
    BY <1>20, <2>1, DropType DEF RecordFails
  <2>3. lost' \in [Subscribers -> [Fingerprints -> Nat]]
    BY <1>20, <2>1, BumpType DEF RecordFails
  <2>4. QED
    BY <1>20, <2>1, <2>2, <2>3 DEF RecordFails, Fault
<1>21. ASSUME NEW r \in Slots, CountFails(r) PROVE TypeOK'
  <2>1. /\ MarketTypeOK' /\ pc' \in [Slots -> Labels] /\ pc'[r] = "dispatch"
        /\ \A q \in Slots : q # r => pc'[q] = pc[q]
    BY <1>21, GoToType DEF CountFails, Labels
  <2>2. RunsTypeOK'
    BY <1>21, <2>1, DropType DEF CountFails
  <2>3. QED
    BY <1>21, <2>1, <2>2 DEF CountFails, Fault
<1>22. ASSUME NEW r \in Slots, Crash(r) PROVE TypeOK'
  <2>1. RunsTypeOK'
    BY <1>22, DropType DEF Crash, EndRun, NoChoice, Times, Labels
  <2>2. lost' \in [Subscribers -> [Fingerprints -> Nat]]
    BY <1>22, BumpType DEF Crash
  <2>3. QED
    BY <1>22, <2>1, <2>2 DEF Crash, Fault, MarketTypeOK
<1>23. CASE UNCHANGED vars
  BY <1>23 DEF vars, MarketTypeOK
<1>24. QED
  BY <1>1, <1>2, <1>3, <1>4, <1>5, <1>6, <1>7, <1>8, <1>9, <1>10, <1>11, <1>12, <1>13,
     <1>14, <1>15, <1>16, <1>17, <1>18, <1>19, <1>20, <1>21, <1>22, <1>23
     DEF Next, Environment, RunStep, Failure

\* Every state of the job has the types TypeOK gives its variables.
THEOREM TypeCorrect == Spec => []TypeOK
BY TypeInit, TypeStep, PTL DEF Spec

-----------------------------------------------------------------------------
(* The lock *)

\* With the timing assumption the lock key always names the run that is going on.
LEMMA LockStep == TypeOK /\ LockHeld /\ [Next]_vars => LockHeld'
<1> SUFFICES ASSUME TypeOK, LockHeld, [Next]_vars, Prompt,
                    NEW q \in Slots, pc'[q] # "idle"
             PROVE  lock' = q
  BY DEF LockHeld
<1> DEFINE Kept == lock' = lock /\ pc[q] # "idle"
<1>1. Kept => lock' = q
  BY DEF LockHeld
<1>2. CASE Environment \/ AcquireReplyLost
  <2>1. pc' = pc
    BY <1>2 DEF Environment, Tick, MarketMoves, SubscriptionChanges, LockExpires,
       AcquireReplyLost
  <2>2. lock = q /\ lock # NoRun /\ lock # Orphan
    BY <2>1, ConstantsAssumption DEF LockHeld
  <2>3. QED
    BY <1>2, <2>2 DEF Environment, Tick, MarketMoves, SubscriptionChanges, LockExpires,
       AcquireReplyLost
<1>3. ASSUME NEW r \in Slots, Acquire(r) PROVE lock' = q
  <2>1. pc[q] = "idle"
    BY <1>3, ConstantsAssumption DEF Acquire, LockHeld
  <2>2. q = r
    BY <1>3, <2>1, GoToType DEF Acquire, Labels
  <2>3. QED
    BY <1>3, <2>2 DEF Acquire
<1>4. ASSUME NEW r \in Slots, Release(r) \/ Crash(r) PROVE lock' = q
  <2>1. pc[r] # "idle" /\ pc' = [pc EXCEPT ![r] = "idle"]
    BY <1>4 DEF Release, Crash, EndRun
  <2>2. q # r /\ pc[q] # "idle"
    BY <2>1 DEF TypeOK, RunsTypeOK
  <2>3. QED
    BY <2>1, <2>2 DEF LockHeld
<1>5. ASSUME NEW r \in Slots, NEW from \in Labels \ {"idle"}, NEW to \in Labels,
             GoTo(r, from, to), lock' = lock
      PROVE  Kept
  BY <1>5, GoToType
<1>6. ASSUME NEW r \in Slots, RunStep(r), ~ Release(r) PROVE Kept
  <2>1. CASE SelectDrop(r)
    BY <2>1, <1>5 DEF SelectDrop, Labels
  <2>2. CASE UpsertEvent(r)
    BY <2>2, <1>5 DEF UpsertEvent, Labels
  <2>3. CASE CollectPending(r)
    BY <2>3, <1>5 DEF CollectPending, Labels
  <2>4. CASE ReadSubscribers(r)
    BY <2>4, <1>5 DEF ReadSubscribers, Labels
  <2>5. CASE ServeNext(r)
    BY <2>5, <1>5 DEF ServeNext, Labels
  <2>6. CASE AllServed(r)
    BY <2>6, <1>5 DEF AllServed, Labels
  <2>7. CASE SendMail(r)
    BY <2>7, <1>5 DEF SendMail, Labels
  <2>8. CASE RecordDeliveries(r)
    BY <2>8, <1>5 DEF RecordDeliveries, Labels
  <2>9. CASE CountNotification(r)
    BY <2>9, <1>5 DEF CountNotification, Labels
  <2>10. QED
    BY <1>6, <2>1, <2>2, <2>3, <2>4, <2>5, <2>6, <2>7, <2>8, <2>9 DEF RunStep
<1>7. ASSUME NEW r \in Slots, Failure(r), ~ Crash(r) PROVE Kept
  <2>1. CASE QueryFails(r)
    BY <2>1, <1>5 DEF QueryFails, Labels
  <2>2. CASE SubscriberQueryFails(r)
    BY <2>2, <1>5 DEF SubscriberQueryFails, Labels
  <2>3. CASE SendFails(r)
    BY <2>3, <1>5 DEF SendFails, Labels
  <2>4. CASE RecordFails(r)
    BY <2>4, <1>5 DEF RecordFails, Labels
  <2>5. CASE CountFails(r)
    BY <2>5, <1>5 DEF CountFails, Labels
  <2>6. QED
    BY <1>7, <2>1, <2>2, <2>3, <2>4, <2>5 DEF Failure
<1>8. CASE UNCHANGED vars
  BY <1>8, <1>1 DEF vars
<1>9. QED
  BY <1>1, <1>2, <1>3, <1>4, <1>6, <1>7, <1>8 DEF Next

\* At most one run is between taking and releasing the lock.
LEMMA LockHeldOneSender == LockHeld => OneSender
BY DEF LockHeld, OneSender

-----------------------------------------------------------------------------
(* Mails and their records *)

\* A step is quiet when no mail leaves, no record is written, and no run
\* starts to send, starts to record, or gives up a mail it must record.
Quiet ==
    /\ UNCHANGED <<sentAt, mailed, lost>>
    /\ \A q \in Slots : pc'[q] = "send" =>
         pc[q] = "send" /\ recipient'[q] = recipient[q] /\ selected'[q] = selected[q]
    /\ \A q \in Slots : pc'[q] = "record" <=> pc[q] = "record"
    /\ \A q \in Slots : pc[q] = "record" =>
         recipient'[q] = recipient[q] /\ selected'[q] = selected[q]

MailStep(r) ==
    ServeNext(r) \/ SendMail(r) \/ RecordDeliveries(r) \/ SendFails(r) \/ RecordFails(r) \/ Crash(r)

\* Bump raises the counter of the named events by one and no other.
LEMMA BumpValue ==
    ASSUME NEW counter \in [Subscribers -> [Fingerprints -> Nat]],
           NEW s \in Subscribers, NEW E, NEW t \in Subscribers, NEW e \in Fingerprints
    PROVE  Bump(counter, s, E)[t][e] =
             IF t = s /\ e \in E THEN counter[t][e] + 1 ELSE counter[t][e]
BY DEF Bump

\* Only the steps of MailStep touch mails, their records, or the labels around them.
LEMMA QuietStep ==
    ASSUME TypeOK, [Next]_vars, \A r \in Slots : ~ MailStep(r)
    PROVE  Quiet
<1> USE DEF Quiet, tableVars, seenVars, localVars
<1>1. CASE Environment \/ AcquireReplyLost
  BY <1>1 DEF Environment, Tick, MarketMoves, SubscriptionChanges, LockExpires, AcquireReplyLost
<1>2. ASSUME NEW r \in Slots,
             NEW from \in Labels \ {"record"}, NEW to \in Labels \ {"send", "record"},
             GoTo(r, from, to),
             UNCHANGED <<sentAt, mailed, lost>>,
             \A q \in Slots : q # r => recipient'[q] = recipient[q] /\ selected'[q] = selected[q]
      PROVE  Quiet
  BY <1>2, GoToType
<1>3. ASSUME NEW r \in Slots, Acquire(r) PROVE Quiet
  BY <1>3, <1>2 DEF Acquire, Labels
<1>4. ASSUME NEW r \in Slots, RunStep(r) PROVE Quiet
  <2>1. CASE SelectDrop(r)
    BY <2>1, <1>2 DEF SelectDrop, Labels
  <2>2. CASE UpsertEvent(r)
    BY <2>2, <1>2 DEF UpsertEvent, Labels
  <2>3. CASE CollectPending(r)
    BY <2>3, <1>2 DEF CollectPending, Labels
  <2>4. CASE ReadSubscribers(r)
    BY <2>4, <1>2 DEF ReadSubscribers, Labels
  <2>5. CASE AllServed(r)
    BY <2>5, <1>2 DEF AllServed, Labels
  <2>6. CASE CountNotification(r)
    <3>1. \A q \in Slots : q # r => recipient'[q] = recipient[q] /\ selected'[q] = selected[q]
      BY <2>6 DEF CountNotification, DropRecipient, TypeOK, RunsTypeOK
    <3>2. GoTo(r, "count", "dispatch") /\ UNCHANGED <<sentAt, mailed, lost>>
      BY <2>6 DEF CountNotification
    <3>3. QED
      BY <3>1, <3>2, <1>2 DEF Labels
  <2>7. CASE Release(r)
    <3>1. pc[r] = "release" /\ pc' = [pc EXCEPT ![r] = "idle"]
      BY <2>7 DEF Release, EndRun
    <3>2. \A q \in Slots : q # r => recipient'[q] = recipient[q] /\ selected'[q] = selected[q]
      BY <2>7 DEF Release, EndRun, DropRecipient, TypeOK, RunsTypeOK
    <3>3. QED
      BY <2>7, <3>1, <3>2 DEF Release, TypeOK, RunsTypeOK
  <2>8. QED
    BY <1>4, <2>1, <2>2, <2>3, <2>4, <2>5, <2>6, <2>7 DEF RunStep, MailStep
<1>5. ASSUME NEW r \in Slots, Failure(r) PROVE Quiet
  <2>1. CASE QueryFails(r)
    BY <2>1, <1>2 DEF QueryFails, Labels
  <2>2. CASE SubscriberQueryFails(r)
    BY <2>2, <1>2 DEF SubscriberQueryFails, Labels
  <2>3. CASE CountFails(r)
    <3>1. \A q \in Slots : q # r => recipient'[q] = recipient[q] /\ selected'[q] = selected[q]
      BY <2>3 DEF CountFails, DropRecipient, TypeOK, RunsTypeOK
    <3>2. GoTo(r, "count", "dispatch") /\ UNCHANGED <<sentAt, mailed, lost>>
      BY <2>3 DEF CountFails
    <3>3. QED
      BY <3>1, <3>2, <1>2 DEF Labels
  <2>4. QED
    BY <1>5, <2>1, <2>2, <2>3 DEF Failure, MailStep
<1>6. CASE UNCHANGED vars
  BY <1>6 DEF vars
<1>7. QED
  BY <1>1, <1>3, <1>4, <1>5, <1>6 DEF Next

MailInv == NotYetDelivered /\ AlreadyMailed /\ RecordedWasMailed /\ Accounted

\* A quiet step preserves what is said about mails and records.
LEMMA QuietKeeps ==
    ASSUME TypeOK, MailInv, Quiet
    PROVE  MailInv'
<1> USE DEF MailInv, Quiet
<1>1. NotYetDelivered'
  BY DEF NotYetDelivered, Delivered
<1>2. AlreadyMailed'
  BY DEF AlreadyMailed
<1>3. RecordedWasMailed'
  BY DEF RecordedWasMailed, Delivered
<1>4. Accounted'
  <2>1. \A s \in Subscribers, e \in Fingerprints : InFlight(s, e) => InFlight(s, e)'
    BY DEF InFlight
  <2>2. QED
    BY <2>1 DEF Accounted
<1>5. QED
  BY <1>1, <1>2, <1>3, <1>4

\* The run that takes a mail step is the only one that is going on.
LEMMA Alone ==
    ASSUME LockHeld, Prompt, NEW r \in Slots, pc[r] # "idle", NEW q \in Slots, pc[q] # "idle"
    PROVE  q = r
BY DEF LockHeld

\* A run that selects what is not delivered yet preserves MailInv.
LEMMA ServeNextKeeps ==
    ASSUME TypeOK, LockHeld, MailInv, NEW r \in Slots, ServeNext(r)
    PROVE  MailInv'
<1>1. PICK s \in queue[r] :
        /\ \/ /\ GoTo(r, "dispatch", "send")
              /\ recipient' = [recipient EXCEPT ![r] = s]
              /\ selected' = [selected EXCEPT ![r] = pending[r] \ Delivered(s)]
           \/ GoTo(r, "dispatch", "dispatch") /\ UNCHANGED <<recipient, selected>>
        /\ UNCHANGED <<sentAt, mailed, lost>>
  BY DEF ServeNext, tableVars, seenVars
<1>2. /\ pc[r] = "dispatch" /\ pc'[r] # "record"
      /\ \A q \in Slots : q # r => pc'[q] = pc[q]
      /\ \A q \in Slots : q # r => recipient'[q] = recipient[q] /\ selected'[q] = selected[q]
  BY <1>1, GoToType DEF Labels, TypeOK, RunsTypeOK
<1>3. pc'[r] = "send" => recipient'[r] = s /\ selected'[r] = pending[r] \ Delivered(s)
  BY <1>1, GoToType DEF Labels, TypeOK, RunsTypeOK
<1>4. NotYetDelivered'
  <2> SUFFICES ASSUME Prompt, NEW q \in Slots, pc'[q] = "send", NEW e \in selected'[q]
               PROVE  sentAt'[recipient'[q]][e] = None
    BY DEF NotYetDelivered
  <2>1. CASE q = r
    <3>1. e \in pending[r] /\ e \notin Delivered(s) /\ recipient'[q] = s
      BY <2>1, <1>3
    <3>2. QED
      BY <3>1, <1>1 DEF Delivered, TypeOK, RunsTypeOK
  <2>2. CASE q # r
    BY <2>2, <1>1, <1>2 DEF MailInv, NotYetDelivered
  <2>3. QED
    BY <2>1, <2>2
<1>5. AlreadyMailed'
  BY <1>1, <1>2 DEF MailInv, AlreadyMailed
<1>6. RecordedWasMailed'
  BY <1>1 DEF MailInv, RecordedWasMailed, Delivered
<1>7. Accounted'
  <2>1. \A t \in Subscribers, e \in Fingerprints : InFlight(t, e) => InFlight(t, e)'
    BY <1>2 DEF InFlight
  <2>2. QED
    BY <1>1, <2>1 DEF MailInv, Accounted
<1>8. QED
  BY <1>4, <1>5, <1>6, <1>7 DEF MailInv

\* A mail moves its events from not yet delivered to mailed and in flight.
LEMMA SendMailKeeps ==
    ASSUME TypeOK, LockHeld, MailInv, NEW r \in Slots, SendMail(r)
    PROVE  MailInv'
<1> DEFINE s == recipient[r]
<1>1. /\ pc[r] = "send" /\ pc'[r] = "record" /\ s \in Subscribers
      /\ \A q \in Slots : q # r => pc'[q] = pc[q]
      /\ selected[r] \in SUBSET Fingerprints
      /\ UNCHANGED <<sentAt, recipient, selected, lost>>
  BY GoToType DEF SendMail, TypeOK, RunsTypeOK, tableVars, localVars, Labels
<1>2. \A t \in Subscribers, e \in Fingerprints :
        mailed'[t][e] = IF t = s /\ e \in selected[r] THEN mailed[t][e] + 1 ELSE mailed[t][e]
  <2>1. mailed' = Bump(mailed, s, selected[r])
    BY DEF SendMail, Deliver
  <2>2. mailed \in [Subscribers -> [Fingerprints -> Nat]]
    BY DEF TypeOK, SeenTypeOK
  <2> HIDE DEF s
  <2>3. QED
    BY <1>1, <2>1, <2>2, BumpValue
<1>3. \A t \in Subscribers, e \in Fingerprints : mailed[t][e] \in Nat /\ lost[t][e] \in Nat
  BY DEF TypeOK, SeenTypeOK
<1>4. NotYetDelivered'
  BY <1>1 DEF MailInv, NotYetDelivered
<1>5. AlreadyMailed'
  <2> SUFFICES ASSUME NEW q \in Slots, pc'[q] = "record", NEW e \in selected[q]
               PROVE  mailed'[recipient[q]][e] >= 1
    BY <1>1 DEF AlreadyMailed
  <2>1. recipient[q] \in Subscribers /\ e \in Fingerprints
    BY <1>1 DEF TypeOK, RunsTypeOK
  <2>2. CASE q = r
    BY <2>1, <2>2, <1>2, <1>3
  <2>3. CASE q # r
    BY <2>1, <2>3, <1>1, <1>2, <1>3 DEF MailInv, AlreadyMailed
  <2>4. QED
    BY <2>2, <2>3
<1>6. RecordedWasMailed'
  BY <1>1, <1>2, <1>3 DEF MailInv, RecordedWasMailed, Delivered
<1>7. Accounted'
  <2> SUFFICES ASSUME Prompt, NEW t \in Subscribers, NEW e \in Fingerprints
               PROVE  /\ mailed'[t][e] <= lost[t][e] + 1
                      /\ sentAt[t][e] = None /\ ~ InFlight(t, e)' => mailed'[t][e] <= lost[t][e]
    BY <1>1 DEF Accounted
  <2>1. ~ InFlight(t, e)
    BY <1>1, Alone DEF InFlight
  <2>2. CASE t = s /\ e \in selected[r]
    <3>1. sentAt[t][e] = None
      BY <2>2, <1>1 DEF MailInv, NotYetDelivered
    <3>2. mailed[t][e] <= lost[t][e]
      BY <2>1, <3>1 DEF MailInv, Accounted
    <3>3. InFlight(t, e)'
      BY <2>2, <1>1 DEF InFlight
    <3>4. QED
      BY <2>2, <3>2, <3>3, <1>2, <1>3
  <2>3. CASE ~ (t = s /\ e \in selected[r])
    BY <2>1, <2>3, <1>2 DEF MailInv, Accounted
  <2>4. QED
    BY <2>2, <2>3
<1>8. QED
  BY <1>4, <1>5, <1>6, <1>7 DEF MailInv

\* The record of a mail settles the events that were in flight.
LEMMA RecordDeliveriesKeeps ==
    ASSUME TypeOK, LockHeld, MailInv, NEW r \in Slots, RecordDeliveries(r)
    PROVE  MailInv'
<1> DEFINE s == recipient[r]
<1>1. /\ pc[r] = "record" /\ pc'[r] = "count" /\ s \in Subscribers /\ now[r] \in Times
      /\ \A q \in Slots : q # r => pc'[q] = pc[q]
      /\ UNCHANGED <<recipient, selected, mailed, lost>>
  BY GoToType DEF RecordDeliveries, TypeOK, RunsTypeOK, seenVars, localVars, Labels
<1>2. \A t \in Subscribers, e \in Fingerprints :
        sentAt'[t][e] = IF t = s /\ e \in selected[r] /\ sentAt[t][e] = None
                        THEN now[r] ELSE sentAt[t][e]
  BY <1>1 DEF RecordDeliveries, TypeOK, TablesTypeOK
<1>3. now[r] # None
  BY <1>1, ConstantsAssumption DEF Times, None
<1>4. NotYetDelivered'
  <2> SUFFICES ASSUME Prompt, NEW q \in Slots, pc'[q] = "send" PROVE FALSE
    BY DEF NotYetDelivered
  <2>1. q # r /\ pc[q] = "send"
    BY <1>1
  <2>2. QED
    BY <2>1, <1>1, Alone
<1>5. AlreadyMailed'
  BY <1>1 DEF MailInv, AlreadyMailed
<1>6. RecordedWasMailed'
  <2> SUFFICES ASSUME NEW t \in Subscribers, NEW e \in Fingerprints, sentAt'[t][e] # None
               PROVE  mailed[t][e] >= 1
    BY <1>1 DEF RecordedWasMailed, Delivered
  <2>1. CASE sentAt[t][e] # None
    BY <2>1 DEF MailInv, RecordedWasMailed, Delivered
  <2>2. CASE sentAt[t][e] = None
    BY <2>2, <1>1, <1>2 DEF MailInv, AlreadyMailed
  <2>3. QED
    BY <2>1, <2>2
<1>7. Accounted'
  <2> SUFFICES ASSUME Prompt, NEW t \in Subscribers, NEW e \in Fingerprints
               PROVE  /\ mailed[t][e] <= lost[t][e] + 1
                      /\ sentAt'[t][e] = None => mailed[t][e] <= lost[t][e]
    BY <1>1 DEF Accounted
  <2>1. sentAt'[t][e] = None => sentAt[t][e] = None /\ ~ (t = s /\ e \in selected[r])
    BY <1>2, <1>3
  <2>2. InFlight(t, e) => t = s /\ e \in selected[r]
    BY <1>1, Alone DEF InFlight
  <2>3. QED
    BY <2>1, <2>2 DEF MailInv, Accounted
<1>8. QED
  BY <1>4, <1>5, <1>6, <1>7 DEF MailInv

\* A run that gives up the mail it must record books its events as lost.
LEMMA GivingUpKeeps ==
    ASSUME TypeOK, LockHeld, MailInv, NEW r \in Slots,
           pc[r] = "record", pc'[r] \notin {"send", "record"},
           \A q \in Slots : q # r =>
             pc'[q] = pc[q] /\ recipient'[q] = recipient[q] /\ selected'[q] = selected[q],
           UNCHANGED <<sentAt, mailed>>,
           lost' = Bump(lost, recipient[r], selected[r])
    PROVE  MailInv'
<1>1. recipient[r] \in Subscribers
  BY DEF TypeOK, RunsTypeOK
<1>2. \A t \in Subscribers, e \in Fingerprints :
        lost'[t][e] = IF t = recipient[r] /\ e \in selected[r] THEN lost[t][e] + 1 ELSE lost[t][e]
  <2>1. lost \in [Subscribers -> [Fingerprints -> Nat]]
    BY DEF TypeOK, SeenTypeOK
  <2>2. QED
    BY <1>1, <2>1, BumpValue
<1>3. \A t \in Subscribers, e \in Fingerprints : mailed[t][e] \in Nat /\ lost[t][e] \in Nat
  BY DEF TypeOK, SeenTypeOK
<1>4. NotYetDelivered' /\ AlreadyMailed' /\ RecordedWasMailed'
  BY DEF MailInv, NotYetDelivered, AlreadyMailed, RecordedWasMailed, Delivered
<1>5. Accounted'
  <2> SUFFICES ASSUME Prompt, NEW t \in Subscribers, NEW e \in Fingerprints
               PROVE  /\ mailed[t][e] <= lost'[t][e] + 1
                      /\ sentAt[t][e] = None => mailed[t][e] <= lost'[t][e]
    BY DEF Accounted
  <2>1. mailed[t][e] <= lost[t][e] + 1
    BY DEF MailInv, Accounted
  <2>2. CASE t = recipient[r] /\ e \in selected[r]
    BY <2>1, <2>2, <1>2, <1>3
  <2>3. CASE ~ (t = recipient[r] /\ e \in selected[r])
    <3>1. ~ InFlight(t, e)
      BY <2>3, Alone DEF InFlight
    <3>2. QED
      BY <2>1, <2>3, <3>1, <1>2 DEF MailInv, Accounted
  <2>4. QED
    BY <2>2, <2>3
<1>6. QED
  BY <1>4, <1>5 DEF MailInv

\* A failed sendMail leaves either no mail or a mail that is booked as lost.
LEMMA SendFailsKeeps ==
    ASSUME TypeOK, LockHeld, MailInv, NEW r \in Slots, SendFails(r)
    PROVE  MailInv'
<1>1. /\ pc[r] = "send" /\ pc'[r] = "dispatch" /\ recipient[r] \in Subscribers
      /\ \A q \in Slots : q # r => pc'[q] = pc[q]
      /\ \A q \in Slots : q # r => recipient'[q] = recipient[q] /\ selected'[q] = selected[q]
      /\ sentAt' = sentAt
  BY GoToType DEF SendFails, DropRecipient, TypeOK, RunsTypeOK, tableVars, Labels
<1>2. CASE UNCHANGED seenVars
  <2>1. Quiet
    BY <1>1, <1>2 DEF Quiet, seenVars
  <2>2. QED
    BY <2>1, QuietKeeps
<1>3. CASE Deliver(r) /\ lost' = Bump(lost, recipient[r], selected[r])
  <2>1. \A t \in Subscribers, e \in Fingerprints :
          \/ mailed'[t][e] = mailed[t][e] /\ lost'[t][e] = lost[t][e]
          \/ mailed'[t][e] = mailed[t][e] + 1 /\ lost'[t][e] = lost[t][e] + 1
    <3>1. mailed' = Bump(mailed, recipient[r], selected[r])
      BY <1>3 DEF Deliver
    <3>2. /\ mailed \in [Subscribers -> [Fingerprints -> Nat]]
          /\ lost \in [Subscribers -> [Fingerprints -> Nat]]
      BY DEF TypeOK, SeenTypeOK
    <3>3. \A t \in Subscribers, e \in Fingerprints :
            mailed'[t][e] = IF t = recipient[r] /\ e \in selected[r]
                            THEN mailed[t][e] + 1 ELSE mailed[t][e]
      BY <1>1, <3>1, <3>2, BumpValue
    <3>4. \A t \in Subscribers, e \in Fingerprints :
            lost'[t][e] = IF t = recipient[r] /\ e \in selected[r]
                          THEN lost[t][e] + 1 ELSE lost[t][e]
      BY <1>1, <1>3, <3>2, BumpValue
    <3>5. QED
      BY <3>3, <3>4
  <2>2. \A t \in Subscribers, e \in Fingerprints : mailed[t][e] \in Nat /\ lost[t][e] \in Nat
    BY DEF TypeOK, SeenTypeOK
  <2>3. NotYetDelivered'
    BY <1>1 DEF MailInv, NotYetDelivered
  <2>4. AlreadyMailed'
    <3> SUFFICES ASSUME NEW q \in Slots, pc'[q] = "record", NEW e \in selected'[q]
                 PROVE  mailed'[recipient'[q]][e] >= 1
      BY DEF AlreadyMailed
    <3>1. /\ pc[q] = "record" /\ e \in selected[q] /\ recipient'[q] = recipient[q]
          /\ recipient[q] \in Subscribers /\ e \in Fingerprints
      BY <1>1 DEF TypeOK, RunsTypeOK
    <3>2. mailed[recipient[q]][e] >= 1
      BY <3>1 DEF MailInv, AlreadyMailed
    <3>3. QED
      BY <3>1, <3>2, <2>1, <2>2
  <2>5. RecordedWasMailed'
    BY <1>1, <2>1, <2>2 DEF MailInv, RecordedWasMailed, Delivered
  <2>6. Accounted'
    <3>1. \A t \in Subscribers, e \in Fingerprints : InFlight(t, e) => InFlight(t, e)'
      BY <1>1 DEF InFlight
    <3>2. QED
      BY <1>1, <2>1, <2>2, <3>1 DEF MailInv, Accounted
  <2>7. QED
    BY <2>3, <2>4, <2>5, <2>6 DEF MailInv
<1>4. QED
  BY <1>2, <1>3 DEF SendFails

\* Every step that touches mails preserves MailInv.
LEMMA MailStepKeeps ==
    ASSUME TypeOK, LockHeld, MailInv, NEW r \in Slots, MailStep(r)
    PROVE  MailInv'
<1>1. CASE RecordFails(r)
  <2>1. /\ pc[r] = "record" /\ pc'[r] = "dispatch"
        /\ \A q \in Slots : q # r =>
             pc'[q] = pc[q] /\ recipient'[q] = recipient[q] /\ selected'[q] = selected[q]
        /\ UNCHANGED <<sentAt, mailed>>
        /\ lost' = Bump(lost, recipient[r], selected[r])
    BY <1>1, GoToType DEF RecordFails, DropRecipient, TypeOK, RunsTypeOK, tableVars, Labels
  <2>2. QED
    BY <2>1, GivingUpKeeps
<1>2. CASE Crash(r)
  <2>1. /\ pc'[r] = "idle"
        /\ \A q \in Slots : q # r =>
             pc'[q] = pc[q] /\ recipient'[q] = recipient[q] /\ selected'[q] = selected[q]
        /\ UNCHANGED <<sentAt, mailed>>
    BY <1>2 DEF Crash, EndRun, DropRecipient, TypeOK, RunsTypeOK, tableVars
  <2>2. CASE pc[r] = "record"
    BY <1>2, <2>1, <2>2, GivingUpKeeps DEF Crash
  <2>3. CASE pc[r] # "record"
    <3>1. Quiet
      BY <1>2, <2>1, <2>3 DEF Crash, Quiet
    <3>2. QED
      BY <3>1, QuietKeeps
  <2>4. QED
    BY <2>2, <2>3
<1>3. QED
  BY <1>1, <1>2, ServeNextKeeps, SendMailKeeps, RecordDeliveriesKeeps, SendFailsKeeps
     DEF MailStep

-----------------------------------------------------------------------------
(* The invariants *)

\* IInv holds initially.
LEMMA IInvInit == Init => IInv
<1>1. Init => LockHeld /\ MailInv
  BY DEF Init, LockHeld, MailInv, NotYetDelivered, AlreadyMailed, RecordedWasMailed, Delivered,
     Accounted, InFlight, Fingerprints
<1>2. QED
  BY <1>1, TypeInit DEF IInv, MailInv

\* IInv is inductive.
LEMMA IInvStep == IInv /\ [Next]_vars => IInv'
<1> SUFFICES ASSUME IInv, [Next]_vars PROVE IInv'
  OBVIOUS
<1>1. TypeOK /\ LockHeld /\ MailInv
  BY DEF IInv, MailInv
<1>2. TypeOK' /\ LockHeld'
  BY <1>1, TypeStep, LockStep
<1>3. MailInv'
  <2>1. CASE \E r \in Slots : MailStep(r)
    BY <2>1, <1>1, MailStepKeeps
  <2>2. CASE \A r \in Slots : ~ MailStep(r)
    BY <2>2, <1>1, QuietStep, QuietKeeps
  <2>3. QED
    BY <2>1, <2>2
<1>4. QED
  BY <1>2, <1>3 DEF IInv, MailInv

\* IInv holds in every behaviour.
LEMMA Invariance == Spec => []IInv
BY IInvInit, IInvStep, PTL DEF Spec

\* While no run outlives the lock's time to live, at most one run of
\* sendBuyAlerts is between acquireAlertLock and releaseAlertLock.
THEOREM MutualExclusion == Spec => []OneSender
<1>1. IInv => OneSender
  BY LockHeldOneSender DEF IInv
<1>2. QED
  BY <1>1, Invariance, PTL

\* While no run outlives the lock's time to live, an event is mailed to a
\* subscriber at most once more than the number of its lost records.
THEOREM NoDuplicates ==
    ASSUME Prompt
    PROVE  Spec => []NoDuplicateMail
<1>1. IInv => NoDuplicateMail
  BY DEF IInv, Accounted, NoDuplicateMail
<1>2. QED
  BY <1>1, Invariance, PTL

\* buy_alert_deliveries never holds a row for an event that was not mailed,
\* even when runs overlap.
THEOREM RecordsAreTrue == Spec => []RecordedWasMailed
<1>1. IInv => RecordedWasMailed
  BY DEF IInv
<1>2. QED
  BY <1>1, Invariance, PTL

-----------------------------------------------------------------------------
(* The implementation of AlertOutbox *)

\* Every step of the job mails, records or stutters for AlertOutbox.
LEMMA OutboxStep ==
    ASSUME Prompt
    PROVE  IInv /\ IInv' /\ [Next]_vars => [Outbox!OutboxNext]_(Outbox!outboxVars)
<1> SUFFICES ASSUME IInv, IInv', [Next]_vars
             PROVE  [Outbox!OutboxNext]_(Outbox!outboxVars)
  OBVIOUS
<1> DEFINE rec == [s \in Subscribers |-> Delivered(s)]
<1>1. TypeOK /\ LockHeld /\ MailInv /\ TypeOK'
  BY DEF IInv, MailInv
<1>2. ASSUME sentAt' = sentAt, mailed' = mailed
      PROVE  UNCHANGED Outbox!outboxVars
  BY <1>2 DEF Outbox!outboxVars, Delivered
<1>3. ASSUME NEW r \in Slots, Deliver(r), pc[r] = "send", sentAt' = sentAt
      PROVE  UNCHANGED Outbox!outboxVars \/ Outbox!OutboxNext
  <2>1. recipient[r] \in Subscribers /\ selected[r] \in SUBSET Fingerprints
    BY <1>1, <1>3 DEF TypeOK, RunsTypeOK
  <2>2. CASE selected[r] = {}
    <3>1. mailed' = mailed
      BY <2>1, <2>2, <1>1, <1>3 DEF Deliver, Bump, TypeOK, SeenTypeOK
    <3>2. QED
      BY <3>1, <1>2, <1>3
  <2>3. CASE selected[r] # {}
    <3>1. selected[r] \cap rec[recipient[r]] = {}
      BY <2>1, <1>1, <1>3 DEF MailInv, NotYetDelivered, Delivered
    <3>2. rec' = rec
      BY <1>3 DEF Delivered
    <3>3. mailed' = [mailed EXCEPT ![recipient[r]] = [e \in Fingerprints |->
                       IF e \in selected[r] THEN mailed[recipient[r]][e] + 1
                       ELSE mailed[recipient[r]][e]]]
      BY <1>3 DEF Deliver, Bump
    <3>4. Outbox!Mail(recipient[r], selected[r])
      BY <2>3, <3>1, <3>2, <3>3, <2>1, <1>1 DEF Outbox!Mail, TypeOK, SeenTypeOK
    <3>5. QED
      BY <3>4, <2>1 DEF Outbox!OutboxNext
  <2>4. QED
    BY <2>2, <2>3
<1>4. CASE \A r \in Slots : ~ MailStep(r)
  BY <1>1, <1>2, <1>4, QuietStep DEF Quiet
<1>5. ASSUME NEW r \in Slots, ServeNext(r) \/ RecordFails(r) \/ Crash(r)
      PROVE  UNCHANGED Outbox!outboxVars
  BY <1>2, <1>5 DEF ServeNext, RecordFails, Crash, tableVars, seenVars
<1>6. ASSUME NEW r \in Slots, SendMail(r)
      PROVE  UNCHANGED Outbox!outboxVars \/ Outbox!OutboxNext
  BY <1>3, <1>6 DEF SendMail, GoTo, tableVars
<1>7. ASSUME NEW r \in Slots, SendFails(r)
      PROVE  UNCHANGED Outbox!outboxVars \/ Outbox!OutboxNext
  <2>1. pc[r] = "send" /\ sentAt' = sentAt
    BY <1>7 DEF SendFails, GoTo, tableVars
  <2>2. mailed' = mailed \/ Deliver(r)
    BY <1>7 DEF SendFails, seenVars
  <2>3. QED
    BY <2>1, <2>2, <1>2, <1>3
<1>8. ASSUME NEW r \in Slots, RecordDeliveries(r)
      PROVE  Outbox!OutboxNext
  <2>1. /\ pc[r] = "record" /\ recipient[r] \in Subscribers /\ now[r] \in Times
        /\ selected[r] \in SUBSET Fingerprints /\ mailed' = mailed
    BY <1>1, <1>8 DEF RecordDeliveries, GoTo, TypeOK, RunsTypeOK, seenVars
  <2>2. now[r] # None
    BY <2>1, ConstantsAssumption DEF Times, None
  <2>3. \A s \in Subscribers, e \in Fingerprints :
          sentAt'[s][e] # None <=>
            sentAt[s][e] # None \/ (s = recipient[r] /\ e \in selected[r])
    BY <1>1, <1>8, <2>1, <2>2 DEF RecordDeliveries, TypeOK, TablesTypeOK
  <2>4. rec' = [rec EXCEPT ![recipient[r]] = @ \cup selected[r]]
    BY <2>1, <2>3 DEF Delivered
  <2>5. \A e \in selected[r] : mailed[recipient[r]][e] > 0
    BY <1>1, <2>1 DEF MailInv, AlreadyMailed, TypeOK, SeenTypeOK
  <2>6. Outbox!Record(recipient[r], selected[r])
    BY <2>1, <2>4, <2>5 DEF Outbox!Record
  <2>7. QED
    BY <2>1, <2>6 DEF Outbox!OutboxNext
<1>9. QED
  BY <1>4, <1>5, <1>6, <1>7, <1>8 DEF MailStep

\* While no run outlives the lock's time to live, the job with its lock, its
\* concurrent runs and its failures keeps the promise of AlertOutbox.
THEOREM Implementation ==
    ASSUME Prompt
    PROVE  Spec => ImplementsOutbox
<1>1. Init => Outbox!OutboxInit
  BY DEF Init, Outbox!OutboxInit, Delivered
<1>2. QED
  BY <1>1, OutboxStep, Invariance, PTL DEF Spec, ImplementsOutbox, Outbox!OutboxSpec

-----------------------------------------------------------------------------
(* The counter of the mails *)

\* The runs that have mailed a subscriber and not yet counted that mail.
Owed(s) == {r \in Slots : pc[r] \in {"record", "count"} /\ recipient[r] = s}

\* What the counter may still grow by is owed by runs that have mailed: without it,
\* CountWithinMails would not be inductive.
Counted ==
    \A s \in Subscribers :
        /\ IsFiniteSet(Owed(s))
        /\ notificationCount[s] + Cardinality(Owed(s)) <= Len(mailLog[s])

\* A step that counts nothing and after which at most the runs that owed still owe.
NoneOwesMore ==
    /\ notificationCount' = notificationCount
    /\ \A s \in Subscribers : Owed(s)' \subseteq Owed(s) /\ Len(mailLog[s]) <= Len(mailLog'[s])

LEMMA CountedKept == TypeOK /\ TypeOK' /\ Counted /\ NoneOwesMore => Counted'
<1> SUFFICES ASSUME TypeOK, TypeOK', Counted, NoneOwesMore, NEW s \in Subscribers
             PROVE  /\ IsFiniteSet(Owed(s)')
                    /\ notificationCount'[s] + Cardinality(Owed(s)') <= Len(mailLog'[s])
  BY DEF Counted
<1> DEFINE old == Owed(s)
           new == Owed(s)'
<1>1. IsFiniteSet(old) /\ new \subseteq old
  BY DEF Counted, NoneOwesMore
<1> HIDE DEF old, new
<1>2. IsFiniteSet(new) /\ Cardinality(new) <= Cardinality(old)
  BY <1>1, FS_Subset
<1>3. Cardinality(new) \in Nat /\ Cardinality(old) \in Nat
  BY <1>1, <1>2, FS_CardinalityType
<1>4. notificationCount[s] \in Nat /\ Len(mailLog[s]) \in Nat /\ Len(mailLog'[s]) \in Nat
  BY DEF TypeOK, TablesTypeOK, SeenTypeOK
<1>5. /\ notificationCount[s] + Cardinality(old) <= Len(mailLog[s])
      /\ notificationCount'[s] = notificationCount[s]
      /\ Len(mailLog[s]) <= Len(mailLog'[s])
  BY DEF Counted, NoneOwesMore, old
<1>6. QED
  BY <1>2, <1>3, <1>4, <1>5 DEF new

\* A run that neither has mailed without counting it, nor is about to, owes nothing more.
LEMMA OneRunMoves ==
    ASSUME TypeOK, NEW r \in Slots,
           \A q \in Slots : q # r => pc'[q] = pc[q] /\ recipient'[q] = recipient[q],
           \/ pc'[r] \notin {"record", "count"}
           \/ pc[r] = "record" /\ recipient'[r] = recipient[r],
           notificationCount' = notificationCount,
           \A s \in Subscribers : Len(mailLog[s]) <= Len(mailLog'[s])
    PROVE  NoneOwesMore
BY DEF NoneOwesMore, Owed

\* A mail makes the log of its recipient one longer and leaves the others.
LEMMA DeliverLog ==
    ASSUME TypeOK, NEW r \in Slots, recipient[r] \in Subscribers, Deliver(r)
    PROVE  \A s \in Subscribers :
               /\ s = recipient[r] => Len(mailLog'[s]) = Len(mailLog[s]) + 1
               /\ s # recipient[r] => Len(mailLog'[s]) = Len(mailLog[s])
<1> SUFFICES ASSUME NEW s \in Subscribers
             PROVE  /\ s = recipient[r] => Len(mailLog'[s]) = Len(mailLog[s]) + 1
                    /\ s # recipient[r] => Len(mailLog'[s]) = Len(mailLog[s])
  OBVIOUS
<1>1. mailLog[s] \in Seq(Times) /\ time \in Times
  BY DEF TypeOK, SeenTypeOK, MarketTypeOK
<1>2. mailLog'[s] = IF s = recipient[r] THEN Append(mailLog[s], time) ELSE mailLog[s]
  BY DEF Deliver, TypeOK, SeenTypeOK
<1>3. Len(Append(mailLog[s], time)) = Len(mailLog[s]) + 1 /\ Len(mailLog[s]) \in Nat
  BY <1>1
<1>4. CASE s = recipient[r]
  BY <1>2, <1>3, <1>4
<1>5. CASE s # recipient[r]
  <2>1. mailLog'[s] = mailLog[s]
    BY <1>2, <1>5
  <2>2. QED
    BY <1>3, <1>5, <2>1
<1>6. QED
  BY <1>4, <1>5

\* Only the mail itself and the count that follows it move the counter or what is owed.
LEMMA OthersOweNoMore ==
    ASSUME TypeOK, [Next]_vars, \A r \in Slots : ~ SendMail(r) /\ ~ CountNotification(r)
    PROVE  NoneOwesMore
<1> DEFINE SameLog == \A s \in Subscribers : Len(mailLog[s]) <= Len(mailLog'[s])
<1> USE DEF tableVars, localVars, seenVars
<1>1. /\ pc \in [Slots -> Labels]
      /\ recipient \in [Slots -> Subscribers \cup {NoOne}]
      /\ \A s \in Subscribers : Len(mailLog[s]) \in Nat
  BY DEF TypeOK, RunsTypeOK, SeenTypeOK
<1>2. mailLog' = mailLog => SameLog
  BY <1>1
<1>3. ASSUME pc' = pc, recipient' = recipient, notificationCount' = notificationCount,
             mailLog' = mailLog
      PROVE  NoneOwesMore
  BY <1>2, <1>3 DEF NoneOwesMore, Owed
<1>4. CASE Environment \/ AcquireReplyLost \/ UNCHANGED vars
  BY <1>3, <1>4 DEF Environment, Tick, MarketMoves, SubscriptionChanges, LockExpires,
     AcquireReplyLost, vars
<1>5. ASSUME NEW r \in Slots, NEW from, NEW to \in Labels \ {"record", "count"},
             GoTo(r, from, to), notificationCount' = notificationCount, SameLog,
             recipient' = recipient \/ DropRecipient(r) \/
                \E s \in Subscribers : recipient' = [recipient EXCEPT ![r] = s]
      PROVE  NoneOwesMore
  <2>1. \A q \in Slots : q # r => pc'[q] = pc[q] /\ recipient'[q] = recipient[q]
    BY <1>1, <1>5 DEF GoTo, DropRecipient
  <2>2. pc'[r] \notin {"record", "count"}
    BY <1>1, <1>5 DEF GoTo
  <2>3. QED
    BY <1>5, <2>1, <2>2, OneRunMoves
<1>6. ASSUME NEW r \in Slots, Release(r) \/ Crash(r)
      PROVE  NoneOwesMore
  <2>1. EndRun(r) /\ notificationCount' = notificationCount /\ mailLog' = mailLog
    BY <1>6 DEF Release, Crash
  <2>2. \A q \in Slots : q # r => pc'[q] = pc[q] /\ recipient'[q] = recipient[q]
    BY <1>1, <2>1 DEF EndRun, DropRecipient
  <2>3. pc'[r] = "idle"
    BY <1>1, <2>1 DEF EndRun
  <2>4. QED
    BY <1>2, <2>1, <2>2, <2>3, OneRunMoves
<1>7. ASSUME NEW r \in Slots, Acquire(r) \/ RunStep(r), ~ Release(r)
      PROVE  NoneOwesMore
  <2>1. CASE Acquire(r)
    BY <2>1, <1>2, <1>5 DEF Acquire, Labels
  <2>2. CASE SelectDrop(r)
    BY <2>2, <1>2, <1>5 DEF SelectDrop, Labels
  <2>3. CASE UpsertEvent(r)
    BY <2>3, <1>2, <1>5 DEF UpsertEvent, Labels
  <2>4. CASE CollectPending(r)
    BY <2>4, <1>2, <1>5 DEF CollectPending, Labels
  <2>5. CASE ReadSubscribers(r)
    BY <2>5, <1>2, <1>5 DEF ReadSubscribers, Labels
  <2>6. CASE ServeNext(r)
    <3>1. PICK s \in queue[r] :
            \/ GoTo(r, "dispatch", "send") /\ recipient' = [recipient EXCEPT ![r] = s]
            \/ GoTo(r, "dispatch", "dispatch") /\ recipient' = recipient
      BY <2>6 DEF ServeNext
    <3>2. s \in Subscribers
      BY <3>1 DEF TypeOK, RunsTypeOK
    <3>3. notificationCount' = notificationCount /\ mailLog' = mailLog
      BY <2>6 DEF ServeNext
    <3>4. QED
      BY <3>1, <3>2, <3>3, <1>2, <1>5 DEF Labels
  <2>7. CASE AllServed(r)
    BY <2>7, <1>2, <1>5 DEF AllServed, Labels
  <2>8. CASE RecordDeliveries(r)
    <3>1. \A q \in Slots : q # r => pc'[q] = pc[q] /\ recipient'[q] = recipient[q]
      BY <1>1, <2>8 DEF RecordDeliveries, GoTo
    <3>2. /\ pc[r] = "record" /\ recipient'[r] = recipient[r]
          /\ notificationCount' = notificationCount /\ mailLog' = mailLog
      BY <2>8 DEF RecordDeliveries, GoTo
    <3>3. QED
      BY <1>2, <3>1, <3>2, OneRunMoves
  <2>9. QED
    BY <1>7, <2>1, <2>2, <2>3, <2>4, <2>5, <2>6, <2>7, <2>8 DEF RunStep
<1>8. ASSUME NEW r \in Slots, Failure(r), ~ Crash(r)
      PROVE  NoneOwesMore
  <2>1. CASE QueryFails(r)
    BY <2>1, <1>2, <1>5 DEF QueryFails, Labels
  <2>2. CASE SubscriberQueryFails(r)
    BY <2>2, <1>2, <1>5 DEF SubscriberQueryFails, Labels
  <2>3. CASE SendFails(r)
    <3>1. /\ GoTo(r, "send", "dispatch") /\ DropRecipient(r)
          /\ notificationCount' = notificationCount /\ (mailLog' = mailLog \/ Deliver(r))
      BY <2>3 DEF SendFails
    <3>2. recipient[r] \in Subscribers
      BY <3>1 DEF GoTo, TypeOK, RunsTypeOK
    <3>3. SameLog
      <4>1. ASSUME Deliver(r), NEW s \in Subscribers
            PROVE  Len(mailLog[s]) <= Len(mailLog'[s])
        <5>1. \/ Len(mailLog'[s]) = Len(mailLog[s]) + 1
              \/ Len(mailLog'[s]) = Len(mailLog[s])
          BY <3>2, <4>1, DeliverLog
        <5>2. QED
          BY <1>1, <5>1
      <4>2. QED
        BY <1>2, <3>1, <4>1
    <3>4. QED
      BY <3>1, <3>3, <1>5 DEF Labels
  <2>4. CASE RecordFails(r)
    BY <2>4, <1>2, <1>5 DEF RecordFails, Labels
  <2>5. CASE CountFails(r)
    BY <2>5, <1>2, <1>5 DEF CountFails, Labels
  <2>6. QED
    BY <1>8, <2>1, <2>2, <2>3, <2>4, <2>5 DEF Failure
<1>9. QED
  BY <1>4, <1>6, <1>7, <1>8 DEF Next, RunStep

LEMMA CountedStep == TypeOK /\ TypeOK' /\ Counted /\ [Next]_vars => Counted'
<1> SUFFICES ASSUME TypeOK, TypeOK', Counted, [Next]_vars
             PROVE  Counted'
  OBVIOUS
<1> USE DEF tableVars, localVars, seenVars
<1>1. /\ pc \in [Slots -> Labels]
      /\ recipient \in [Slots -> Subscribers \cup {NoOne}]
      /\ notificationCount \in [Subscribers -> Nat]
      /\ \A s \in Subscribers : Len(mailLog[s]) \in Nat
  BY DEF TypeOK, RunsTypeOK, SeenTypeOK, TablesTypeOK
<1>2. ASSUME NEW r \in Slots, SendMail(r), NEW s \in Subscribers
      PROVE  IsFiniteSet(Owed(s)') /\ notificationCount'[s] + Cardinality(Owed(s)') <= Len(mailLog'[s])
  <2>1. /\ pc[r] = "send" /\ pc' = [pc EXCEPT ![r] = "record"] /\ recipient' = recipient
        /\ notificationCount' = notificationCount /\ Deliver(r)
    BY <1>2 DEF SendMail, GoTo
  <2>2. recipient[r] \in Subscribers
    BY <2>1 DEF TypeOK, RunsTypeOK
  <2>3. /\ s = recipient[r] => Len(mailLog'[s]) = Len(mailLog[s]) + 1
        /\ s # recipient[r] => Len(mailLog'[s]) = Len(mailLog[s])
    BY <2>1, <2>2, DeliverLog
  <2>4. /\ r \notin Owed(s)
        /\ Owed(s)' = IF s = recipient[r] THEN Owed(s) \cup {r} ELSE Owed(s)
    BY <1>1, <2>1 DEF Owed
  <2>5. /\ IsFiniteSet(Owed(s))
        /\ notificationCount[s] + Cardinality(Owed(s)) <= Len(mailLog[s])
    BY DEF Counted
  <2>6. /\ IsFiniteSet(Owed(s) \cup {r})
        /\ Cardinality(Owed(s) \cup {r}) = Cardinality(Owed(s)) + 1
        /\ Cardinality(Owed(s)) \in Nat
    BY <2>4, <2>5, FS_AddElement, FS_CardinalityType
  <2>7. CASE s = recipient[r]
    BY <1>1, <2>1, <2>3, <2>4, <2>5, <2>6, <2>7
  <2>8. CASE s # recipient[r]
    BY <1>1, <2>1, <2>3, <2>4, <2>5, <2>8
  <2>9. QED
    BY <2>7, <2>8
<1>3. ASSUME NEW r \in Slots, CountNotification(r), NEW s \in Subscribers
      PROVE  IsFiniteSet(Owed(s)') /\ notificationCount'[s] + Cardinality(Owed(s)') <= Len(mailLog'[s])
  <2>1. /\ pc[r] = "count" /\ pc' = [pc EXCEPT ![r] = "dispatch"] /\ mailLog' = mailLog
        /\ recipient' = [recipient EXCEPT ![r] = NoOne]
        /\ notificationCount' =
             [notificationCount EXCEPT ![recipient[r]] = notificationCount[recipient[r]] + 1]
    BY <1>1, <1>3 DEF CountNotification, GoTo, DropRecipient, TypeOK, RunsTypeOK
  <2>2. recipient[r] \in Subscribers
    BY <2>1 DEF TypeOK, RunsTypeOK
  <2>3. /\ s = recipient[r] => r \in Owed(s)
        /\ Owed(s)' = IF s = recipient[r] THEN Owed(s) \ {r} ELSE Owed(s)
    BY <1>1, <2>1 DEF Owed
  <2>4. notificationCount'[s] = notificationCount[s] + (IF s = recipient[r] THEN 1 ELSE 0)
    BY <1>1, <2>1, <2>2
  <2>5. /\ IsFiniteSet(Owed(s))
        /\ notificationCount[s] + Cardinality(Owed(s)) <= Len(mailLog[s])
        /\ Cardinality(Owed(s)) \in Nat
    BY FS_CardinalityType DEF Counted
  <2>6. CASE s = recipient[r]
    <3>1. IsFiniteSet(Owed(s) \ {r}) /\ Cardinality(Owed(s) \ {r}) = Cardinality(Owed(s)) - 1
      BY <2>3, <2>5, <2>6, FS_RemoveElement
    <3>2. QED
      BY <1>1, <2>1, <2>3, <2>4, <2>5, <2>6, <3>1
  <2>7. CASE s # recipient[r]
    BY <1>1, <2>1, <2>3, <2>4, <2>5, <2>7
  <2>8. QED
    BY <2>6, <2>7
<1>4. CASE \E r \in Slots : SendMail(r) \/ CountNotification(r)
  BY <1>2, <1>3, <1>4 DEF Counted
<1>5. CASE \A r \in Slots : ~ SendMail(r) /\ ~ CountNotification(r)
  BY <1>5, OthersOweNoMore, CountedKept
<1>6. QED
  BY <1>4, <1>5

\* notification_count never runs ahead of the mails, whatever fails and even when runs overlap.
THEOREM CountsAreHonest == Spec => []CountWithinMails
<1>1. Init => Counted
  <2>1. SUFFICES ASSUME Init, NEW s \in Subscribers
                 PROVE  IsFiniteSet(Owed(s)) /\ notificationCount[s] + Cardinality(Owed(s)) <= Len(mailLog[s])
    BY DEF Counted
  <2>2. Owed(s) = {} /\ notificationCount[s] = 0 /\ Len(mailLog[s]) = 0
    BY <2>1 DEF Init, Owed
  <2>3. QED
    BY <2>2, FS_EmptySet
<1>2. TypeOK /\ Counted => CountWithinMails
  <2>1. SUFFICES ASSUME TypeOK, Counted, NEW s \in Subscribers
                 PROVE  notificationCount[s] <= Len(mailLog[s])
    BY DEF CountWithinMails
  <2>2. Cardinality(Owed(s)) \in Nat
    BY <2>1, FS_CardinalityType DEF Counted
  <2>3. notificationCount[s] \in Nat /\ Len(mailLog[s]) \in Nat
    BY <2>1 DEF TypeOK, TablesTypeOK, SeenTypeOK
  <2>4. QED
    BY <2>1, <2>2, <2>3 DEF Counted
<1>3. QED
  BY <1>1, <1>2, CountedStep, TypeCorrect, PTL DEF Spec

-----------------------------------------------------------------------------
(* The release of the lock *)

\* A key goes away by a step of the run whose token it holds or by expiry: releaseAlertLock
\* compares before it deletes, so that a run that outlived its key spares the next one's.
THEOREM ReleaseIsSelective == Spec => ReleaseSparesOthers
<1>1. ASSUME TypeOK, [Next]_vars, NEW r \in Slots, lock = r, lock' # r
      PROVE  pc'[r] # pc[r] \/ pc' = pc
  <2>1. lock # NoRun
    BY <1>1, ConstantsAssumption
  <2>2. CASE Environment \/ UNCHANGED vars
    BY <2>2 DEF Environment, Tick, MarketMoves, SubscriptionChanges, LockExpires, vars
  <2>3. ~ AcquireReplyLost /\ \A q \in Slots : ~ Acquire(q)
    BY <2>1 DEF AcquireReplyLost, Acquire
  <2>4. ASSUME NEW q \in Slots, Release(q) \/ Crash(q)
        PROVE  pc'[r] # pc[r]
    <3>1. q = r /\ pc[q] # "idle"
      BY <1>1, <2>4 DEF Release, Crash
    <3>2. QED
      BY <1>1, <2>4, <3>1 DEF Release, Crash, EndRun, TypeOK, RunsTypeOK
  <2>5. ASSUME NEW q \in Slots, RunStep(q) \/ Failure(q), ~ Release(q), ~ Crash(q)
        PROVE  FALSE
    BY <1>1, <2>5 DEF RunStep, Failure, SelectDrop, UpsertEvent, CollectPending,
       ReadSubscribers, ServeNext, AllServed, SendMail, RecordDeliveries, CountNotification,
       QueryFails, SubscriberQueryFails, SendFails, RecordFails, CountFails
  <2>6. QED
    BY <1>1, <2>2, <2>3, <2>4, <2>5 DEF Next
<1>2. TypeOK /\ [Next]_vars =>
        [\A r \in Slots : lock = r /\ lock' # r => pc'[r] # pc[r] \/ pc' = pc]_vars
  BY <1>1
<1>3. QED
  BY <1>2, TypeCorrect, PTL DEF Spec, ReleaseSparesOthers
=============================================================================
