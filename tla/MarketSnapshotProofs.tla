------------------------ MODULE MarketSnapshotProofs ------------------------
(***************************************************************************)
(* Proofs about MarketSnapshot, for every number of runs, products, keys   *)
(* and inputs.  Type correctness holds of every behaviour.  The two        *)
(* invariants about the current snapshot are proved of the behaviours in   *)
(* which pipeline runs and deploy cleanups do not overlap (Serial),        *)
(* from the inductive invariant IInv; the runs show that they fail in the  *)
(* others.                                                                 *)
(***************************************************************************)
EXTENDS MarketSnapshot, TLAPS

-----------------------------------------------------------------------------
(* Type correctness *)

\* The absent row and the empty snapshot have their types.
LEMMA EmptyTypes == NoRow \in Rows /\ NoRows \in [Products -> Rows] /\ NoBody \in Bodies
  BY SnapshotAssumption DEF NoRow, Rows, Times, NoRows, NoBody, Bodies

\* Removing keys leaves sets of suffixes and typed bodies.
LEMMA UnlinkType ==
  ASSUME RedisTypeOK, NEW K, Unlink(K)
  PROVE  stored' \in [Ids -> SUBSET Suffixes] /\ body' \in [Ids -> Bodies]
<1>1. stored' \in [Ids -> SUBSET Suffixes]
  BY DEF RedisTypeOK, Unlink
<1>2. body' = [i \in Ids |-> IF stored'[i] = {} THEN NoBody ELSE body[i]]
  BY DEF Unlink
<1>. QED  BY <1>1, <1>2, EmptyTypes DEF RedisTypeOK

\* The end of a run leaves typed local variables, whatever is left alone.
LEMMA EndRunType ==
  ASSUME RunsTypeOK, NEW w \in Workers, EndRun(w)
  PROVE  RunsTypeOK'
  BY EmptyTypes, SnapshotAssumption DEF RunsTypeOK, EndRun, Forget, Labels, Times

\* What a run publishes is typed: an aligned run has read its inputs.
LEMMA ExecType ==
  ASSUME TypeOK, NEW w \in Workers, Exec(w)
  PROVE  RedisTypeOK' /\ DatabaseTypeOK' /\ at[w] \in Ids
  BY SnapshotAssumption
  DEF TypeOK, RedisTypeOK, DatabaseTypeOK, RunsTypeOK, Exec, Aligned, dbVars, Ids, Times

\* The initial state is typed.
LEMMA TypeInit == Init => TypeOK
  BY EmptyTypes, SnapshotAssumption
  DEF Init, TypeOK, DatabaseTypeOK, RedisTypeOK, RunsTypeOK, CallsTypeOK, Times, Labels, Keys

\* Every step of a run preserves the types.
LEMMA TypeRun ==
  ASSUME TypeOK, NEW w \in Workers,
         Start(w) \/ PipelineStep(w) \/ Fail(w) \/ ExecReplyLost(w)
  PROVE  TypeOK'
<1>ended. ASSUME EndRun(w) PROVE RunsTypeOK'
  BY <1>ended, EndRunType DEF TypeOK
<1>published. ASSUME Exec(w) PROVE RedisTypeOK' /\ DatabaseTypeOK'
  BY <1>published, ExecType
<1> USE EmptyTypes, SnapshotAssumption
    DEF TypeOK, DatabaseTypeOK, RedisTypeOK, RunsTypeOK, CallsTypeOK, GoTo,
        dbVars, redisVars, localVars, readerVars, deployVars, vars
<1>1. CASE Start(w)
  BY <1>1 DEF Start, Labels
<1>2. CASE FetchInputs(w)
  BY <1>2 DEF FetchInputs, Labels, Times
<1>3. CASE FetchQuotes(w)
  <2>1. quote' \in [Products -> 0 .. MaxQuote]
    BY <1>3 DEF FetchQuotes
  <2>. QED  BY <1>3, <2>1 DEF FetchQuotes, Labels
<1>4. CASE StartMetrics(w)
  BY <1>4 DEF StartMetrics, Labels
<1>5. CASE ReadPrice(w)
  <2>. PICK p \in todo[w] :
        /\ todo' = [todo EXCEPT ![w] = @ \ {p}]
        /\ \/ quote[p] = 0 /\ GoTo(w, "price", "price") /\ UNCHANGED <<item, row>>
           \/ /\ GoTo(w, "price", "metric")
              /\ item' = [item EXCEPT ![w] = p]
              /\ row' = [row EXCEPT ![w] = [time |-> at[w], quote |-> quote[p]]]
        /\ UNCHANGED <<dbVars, redisVars, at, reads, rows, scan, faults>>
    BY <1>5 DEF ReadPrice
  <2>1. p \in Products /\ [time |-> at[w], quote |-> quote[p]] \in Rows
    BY DEF Rows
  <2>. QED  BY <2>1 DEF Labels
<1>6. CASE UpsertMetric(w)
  BY <1>6 DEF UpsertMetric, Labels, Forget
<1>7. CASE StartSignals(w)
  BY <1>7 DEF StartSignals, Labels, Times
<1>8. CASE ReadMetric(w)
  BY <1>8 DEF ReadMetric, Labels
<1>9. CASE UpsertSignal(w)
  BY <1>9 DEF UpsertSignal, Labels, Forget
<1>10. CASE StartPublish(w)
  BY <1>10 DEF StartPublish, Labels
<1>11. CASE ReadForSnapshot(w)
  <2>1. PICK kind \in reads[w] :
        /\ reads' = [reads EXCEPT ![w] = @ \ {kind}]
        /\ GoTo(w, "read", IF reads'[w] = {} THEN "publish" ELSE "read")
        /\ at' = IF kind = "inputs" THEN [at EXCEPT ![w] = inputTime] ELSE at
        /\ rows' = CASE kind = "inputs"  -> rows
                     [] kind = "metrics" -> [rows EXCEPT ![w].metric = metric]
                     [] kind = "signals" -> [rows EXCEPT ![w].signal = signal]
        /\ UNCHANGED <<dbVars, redisVars, todo, item, row, scan, faults>>
    BY <1>11 DEF ReadForSnapshot
  <2>2. kind \in ReadKinds
    OBVIOUS
  <2>3. rows' \in [Workers -> Bodies]
    <3>1. CASE kind = "inputs"
      BY <2>1, <3>1
    <3>2. CASE kind = "metrics"
      <4>1. [rows[w] EXCEPT !.metric = metric] \in Bodies
        BY DEF Bodies
      <4>2. rows' = [rows EXCEPT ![w] = [rows[w] EXCEPT !.metric = metric]]
        BY <2>1, <3>2
      <4>. QED  BY <4>1, <4>2
    <3>3. CASE kind = "signals"
      <4>1. [rows[w] EXCEPT !.signal = signal] \in Bodies
        BY DEF Bodies
      <4>2. rows' = [rows EXCEPT ![w] = [rows[w] EXCEPT !.signal = signal]]
        BY <2>1, <3>3
      <4>. QED  BY <4>1, <4>2
    <3>. QED  BY <2>2, <3>1, <3>2, <3>3 DEF ReadKinds
  <2>4. pc' \in [Workers -> Labels] /\ pc'[w] \in {"read", "publish"}
    BY <2>1 DEF Labels
  <2>. QED  BY <2>1, <2>2, <2>3, <2>4
<1>12. CASE RefusePublish(w)
  BY <1>12, <1>ended DEF RefusePublish, EndRun
<1>13. CASE Publish(w)
  <2>1. {k \in Keys : k[1] # at[w] /\ k[2] \in stored[k[1]]} \in SUBSET Keys
    OBVIOUS
  <2>2. RedisTypeOK' /\ DatabaseTypeOK'
    BY <1>13, <1>published DEF Publish
  <2>. QED  BY <1>13, <2>1, <2>2 DEF Publish, Labels
<1>14. CASE CleanBatch(w)
  BY <1>14, UnlinkType DEF CleanBatch, Labels
<1>15. CASE CleanDone(w)
  BY <1>15 DEF CleanDone, Labels
<1>16. CASE SendAlerts(w)
  BY <1>16, <1>ended DEF SendAlerts, EndRun
<1>17. CASE Fail(w)
  BY <1>17, <1>ended DEF Fail, EndRun
<1>18. CASE ExecReplyLost(w)
  BY <1>18, <1>ended, <1>published DEF ExecReplyLost, EndRun
<1>. QED
  BY <1>1, <1>2, <1>3, <1>4, <1>5, <1>6, <1>7, <1>8, <1>9, <1>10, <1>11, <1>12, <1>13,
     <1>14, <1>15, <1>16, <1>17, <1>18 DEF PipelineStep

\* Every other step preserves the types.
LEMMA TypeOthers ==
  ASSUME TypeOK,
         \/ \E r \in Readers : ReaderStep(r)
         \/ DeployStep
         \/ \E i \in Ids : Expire(i)
         \/ UNCHANGED vars
  PROVE  TypeOK'
<1> USE SnapshotAssumption
    DEF TypeOK, DatabaseTypeOK, RedisTypeOK, RunsTypeOK, CallsTypeOK,
        dbVars, redisVars, localVars, readerVars, deployVars, vars
<1>1. ASSUME NEW r \in Readers, ReadPointer(r) PROVE TypeOK'
  BY <1>1 DEF ReadPointer
<1>2. ASSUME NEW r \in Readers, ReadValue(r) PROVE TypeOK'
  <2>1. 0 \in Times
    BY DEF Times
  <2>. QED  BY <1>2, <2>1 DEF ReadValue
<1>3. ASSUME NEW r \in Readers, ReadDatabase(r) PROVE TypeOK'
  <2>1. \A p \in Products : metric[p].time \in Times
    BY DEF Rows
  <2>. QED  BY <1>3, <2>1 DEF ReadDatabase
<1>4. ASSUME NEW r \in Readers, Respond(r) PROVE TypeOK'
  BY <1>4 DEF Respond, Times
<1>5. CASE DeployStep
  <2>1. CASE DeployReadPointer
    BY <2>1 DEF DeployReadPointer
  <2>2. CASE DeployScan
    BY <2>2 DEF DeployScan, Stale, Present, Times
  <2>3. CASE DeployUnlink
    BY <2>3, UnlinkType DEF DeployUnlink, Times
  <2>. QED  BY <1>5, <2>1, <2>2, <2>3 DEF DeployStep
<1>6. ASSUME NEW i \in Ids, Expire(i) PROVE TypeOK'
  BY <1>6, UnlinkType DEF Expire, Times
<1>7. CASE UNCHANGED vars
  BY <1>7
<1>. QED  BY <1>1, <1>2, <1>3, <1>4, <1>5, <1>6, <1>7 DEF ReaderStep

\* The model is typed, in every behaviour.
THEOREM SnapshotTypeCorrect == Spec => []TypeOK
<1>1. TypeOK /\ [Next]_vars => TypeOK'
  BY TypeRun, TypeOthers DEF Next
<1>. QED  BY TypeInit, <1>1, PTL DEF Spec

-----------------------------------------------------------------------------
(* The pointer *)

\* Initially nothing is published and nobody runs.
LEMMA PointerInit == Init => PointerInv
  BY DEF Init, PointerInv, OneRun, DeployAlone, CleanerSparesCurrent, PointerComplete

\* A step of the run that is alive which leaves the pointer and the keys alone,
\* and does not begin a cleanup, preserves the invariant.
LEMMA PointerQuiet ==
  ASSUME TypeOK, PointerInv, NEW w \in Workers, pc[w] # "idle",
         NEW to, to # "clean", pc' = [pc EXCEPT ![w] = to], deployVars' = deployVars,
         pointer' = pointer, stored' = stored,
         \A v \in Workers : at'[v] = at[v] \/ v = w
  PROVE  PointerInv'
<1> USE DEF TypeOK, RunsTypeOK, PointerInv, OneRun
<1>1. OneRun'
  OBVIOUS
<1>2. DeployAlone'
  <2>1. keep = 0 /\ listed = {}
    BY DEF DeployAlone
  <2>. QED  BY <2>1 DEF DeployAlone, deployVars
<1>3. CleanerSparesCurrent' /\ PointerComplete'
  BY DEF CleanerSparesCurrent, PointerComplete
<1>. QED  BY <1>1, <1>2, <1>3

\* A publication makes its own snapshot complete and current.
LEMMA PointerExec ==
  ASSUME TypeOK, NEW w \in Workers, Exec(w)
  PROVE  pointer' = at[w] /\ PointerComplete'
  BY ExecType DEF TypeOK, RedisTypeOK, Exec, PointerComplete

\* Every step of a run that nothing disturbs preserves the invariant.
LEMMA PointerRun ==
  ASSUME Serial, TypeOK, PointerInv, NEW w \in Workers,
         Start(w) \/ PipelineStep(w) \/ Fail(w) \/ ExecReplyLost(w)
  PROVE  PointerInv'
<1> USE DEF TypeOK, RunsTypeOK
<1>1. CASE Start(w)
  <2>1. keep = 0 /\ \A v \in Workers : pc[v] = "idle"
    BY <1>1 DEF Start
  <2>. QED
    BY <1>1, <2>1
    DEF Start, GoTo, redisVars, deployVars, localVars, PointerInv, OneRun, DeployAlone,
        CleanerSparesCurrent, PointerComplete
<1>2. CASE FetchInputs(w) \/ FetchQuotes(w)
  BY <1>2, PointerQuiet DEF FetchInputs, FetchQuotes, GoTo, redisVars, localVars
<1>3. CASE StartMetrics(w) \/ StartSignals(w) \/ StartPublish(w)
  BY <1>3, PointerQuiet DEF StartMetrics, StartSignals, StartPublish, GoTo, redisVars
<1>4. CASE ReadPrice(w) \/ ReadMetric(w)
  BY <1>4, PointerQuiet DEF ReadPrice, ReadMetric, GoTo, redisVars
<1>5. CASE UpsertMetric(w) \/ UpsertSignal(w)
  BY <1>5, PointerQuiet DEF UpsertMetric, UpsertSignal, GoTo, redisVars
<1>6. CASE ReadForSnapshot(w)
  <2>1. PICK to \in {"read", "publish"} : GoTo(w, "read", to)
    BY <1>6 DEF ReadForSnapshot
  <2>2. \A v \in Workers : at'[v] = at[v] \/ v = w
    BY <1>6 DEF ReadForSnapshot
  <2>. QED  BY <1>6, <2>1, <2>2, PointerQuiet DEF ReadForSnapshot, GoTo, redisVars
<1>7. CASE RefusePublish(w) \/ SendAlerts(w) \/ Fail(w)
  BY <1>7, PointerQuiet DEF RefusePublish, SendAlerts, Fail, EndRun, redisVars
<1>8. CASE CleanDone(w)
  BY <1>8, PointerQuiet DEF CleanDone, GoTo, redisVars
<1>9. CASE Publish(w)
  <2>1. pc[w] = "publish" /\ pc' = [pc EXCEPT ![w] = "clean"] /\ at' = at
    BY <1>9 DEF Publish, GoTo
  <2>2. pointer' = at[w] /\ PointerComplete'
    BY <1>9, PointerExec DEF Publish
  <2>3. OneRun'
    BY <2>1 DEF PointerInv, OneRun
  <2>4. CleanerSparesCurrent'
    BY <2>1, <2>2 DEF PointerInv, OneRun, CleanerSparesCurrent
  <2>. QED
    BY <1>9, <2>2, <2>3, <2>4 DEF Publish, GoTo, PointerInv, DeployAlone, deployVars
<1>10. CASE ExecReplyLost(w)
  <2>1. pc[w] = "publish" /\ pc' = [pc EXCEPT ![w] = "idle"] /\ deployVars' = deployVars
    BY <1>10 DEF ExecReplyLost, Exec, EndRun
  <2>2. PointerComplete'
    BY <1>10, PointerExec DEF ExecReplyLost
  <2>3. OneRun'
    BY <2>1 DEF PointerInv, OneRun
  <2>4. CleanerSparesCurrent'
    BY <2>1 DEF PointerInv, OneRun, CleanerSparesCurrent
  <2>. QED  BY <2>1, <2>2, <2>3, <2>4 DEF PointerInv, DeployAlone, deployVars
<1>11. CASE CleanBatch(w)
  <2>1. pc[w] = "clean" /\ pc' = pc /\ at' = at /\ pointer' = pointer
        /\ deployVars' = deployVars
    BY <1>11 DEF CleanBatch, GoTo
  <2>2. PICK K \in SUBSET Stale(at[w]) : Unlink(K)
    BY <1>11 DEF CleanBatch
  <2>3. pointer # 0 => pointer \in Ids /\ pointer = at[w]
    BY <2>1, SnapshotAssumption
    DEF PointerInv, CleanerSparesCurrent, RedisTypeOK, Ids, Times
  <2>4. pointer # 0 => stored'[pointer] = stored[pointer]
    BY <2>2, <2>3 DEF Unlink, Stale, RedisTypeOK
  <2>. QED
    BY <2>1, <2>4
    DEF PointerInv, OneRun, DeployAlone, deployVars, CleanerSparesCurrent, PointerComplete
<1>. QED
  BY <1>1, <1>2, <1>3, <1>4, <1>5, <1>6, <1>7, <1>8, <1>9, <1>10, <1>11 DEF PipelineStep

\* API calls, expiry, stuttering and a deploy cleanup that nothing disturbs
\* preserve the invariant.
LEMMA PointerOthers ==
  ASSUME Serial, TypeOK, PointerInv,
         \/ \E r \in Readers : ReaderStep(r)
         \/ DeployStep
         \/ \E i \in Ids : Expire(i)
         \/ UNCHANGED vars
  PROVE  PointerInv'
<1> USE DEF PointerInv, OneRun, DeployAlone, CleanerSparesCurrent, PointerComplete,
            redisVars, localVars, deployVars, vars
<1>1. ASSUME NEW r \in Readers, ReaderStep(r) PROVE PointerInv'
  BY <1>1 DEF ReaderStep, ReadPointer, ReadValue, ReadDatabase, Respond
<1>2. CASE DeployReadPointer
  BY <1>2 DEF DeployReadPointer
<1>3. CASE DeployScan
  BY <1>3 DEF DeployScan, Stale
<1>4. CASE DeployUnlink
  <2>1. PICK k \in listed : /\ Unlink({k}) /\ listed' = listed \ {k}
                            /\ keep' = IF listed' = {} THEN 0 ELSE keep
    BY <1>4 DEF DeployUnlink
  <2>2. keep # 0 /\ k[1] # keep /\ pointer' = pointer /\ pc' = pc /\ at' = at
    BY <1>4, <2>1 DEF DeployUnlink
  <2>3. pointer # 0 => pointer \in Ids /\ pointer = keep
    BY <2>2, SnapshotAssumption DEF TypeOK, RedisTypeOK, Ids, Times
  <2>4. pointer # 0 => stored'[pointer] = stored[pointer]
    BY <2>1, <2>2, <2>3 DEF Unlink, TypeOK, RedisTypeOK
  <2>. QED  BY <2>1, <2>2, <2>4
<1>5. ASSUME NEW i \in Ids, Expire(i) PROVE PointerInv'
  <2>1. pointer' # 0 => pointer' = pointer /\ pointer # i /\ pointer \in Ids
    BY <1>5, SnapshotAssumption DEF Expire, TypeOK, RedisTypeOK, Ids, Times
  <2>2. pointer' # 0 => stored'[pointer] = stored[pointer]
    BY <1>5, <2>1 DEF Expire, Unlink, TypeOK, RedisTypeOK
  <2>. QED  BY <1>5, <2>1, <2>2 DEF Expire
<1>6. CASE UNCHANGED vars
  BY <1>6
<1>. QED  BY <1>1, <1>2, <1>3, <1>4, <1>5, <1>6 DEF DeployStep

\* As long as pipeline runs and deploy cleanups do not overlap, the pointer never
\* names a snapshot of which a key is missing.
THEOREM PointerIsComplete ==
  ASSUME Serial
  PROVE  Spec => []PointerComplete
<1>1. TypeOK /\ PointerInv /\ [Next]_vars => PointerInv'
  BY PointerRun, PointerOthers DEF Next
<1>2. PointerInv => PointerComplete
  BY DEF PointerInv
<1>. QED  BY SnapshotTypeCorrect, PointerInit, <1>1, <1>2, PTL DEF Spec

-----------------------------------------------------------------------------
(* The signals *)

\* What SignalInv says about one run.
RunAgrees(w) ==
    /\ pc[w] = "price" => at[w] # 0 \/ todo[w] = {}
    /\ pc[w] = "metric" => at[w] # 0 /\ row[w].time = at[w]
    /\ pc[w] = "signals" => \A p \in Products \ todo[w] : signal[p] = metric[p]
    /\ pc[w] = "signal" =>
          /\ row[w] = metric[item[w]] /\ row[w].time # 0
          /\ \A p \in Products \ (todo[w] \cup {item[w]}) : signal[p] = metric[p]
    /\ pc[w] = "read" =>
          /\ signal = metric
          /\ "metrics" \notin reads[w] => rows[w].metric = metric
          /\ "signals" \notin reads[w] => rows[w].signal = signal
    /\ pc[w] = "publish" => rows[w].signal = rows[w].metric

\* The invariant is the sum of what it says about each run.
LEMMA SignalInvByRun ==
  SignalInv <=> SignalsBehind /\ BodiesMatch /\ \A w \in Workers : RunAgrees(w)
  BY DEF SignalInv, RunsHaveInputs, SignalsCatchUp, ReadsAgree, RunAgrees

\* A run that is idle agrees with everything, so only the run that takes the
\* step has to be looked at.
LEMMA SignalOfOne ==
  ASSUME TypeOK, PointerInv, NEW w \in Workers, pc[w] # "idle",
         \A v \in Workers \ {w} : pc'[v] = pc[v],
         SignalsBehind', BodiesMatch', RunAgrees(w)'
  PROVE  SignalInv'
<1>1. \A v \in Workers \ {w} : pc'[v] = "idle"
  BY DEF PointerInv, OneRun
<1>2. \A v \in Workers \ {w} : RunAgrees(v)'
  BY <1>1 DEF RunAgrees
<1>. QED  BY <1>2 DEF SignalInv, RunsHaveInputs, SignalsCatchUp, ReadsAgree, RunAgrees

\* Initially every table is empty and nobody runs.
LEMMA SignalInit == Init => SignalInv
  BY DEF Init, SignalInv, SignalsBehind, RunsHaveInputs, SignalsCatchUp, ReadsAgree,
         BodiesMatch, Absent, NoRow, NoRows, NoBody

\* Removing keys forgets bodies and changes none.
LEMMA UnlinkBodies ==
  ASSUME BodiesMatch, NEW K, Unlink(K)
  PROVE  BodiesMatch'
  BY DEF BodiesMatch, Unlink, NoBody

\* What an agreeing run publishes shows each metric with its signal.
LEMMA ExecBodies ==
  ASSUME TypeOK, SignalInv, NEW w \in Workers, Exec(w)
  PROVE  BodiesMatch' /\ SignalsBehind'
<1>1. rows[w].signal = rows[w].metric
  BY DEF SignalInv, ReadsAgree, Exec
<1>2. body' = [body EXCEPT ![at[w]] = rows[w]]
  BY DEF Exec
<1>3. BodiesMatch'
  BY <1>1, <1>2 DEF SignalInv, BodiesMatch, TypeOK, RedisTypeOK
<1>. QED  BY <1>3 DEF SignalInv, SignalsBehind, Exec, dbVars, Absent

\* Every step of a run that nothing disturbs preserves the invariant.
LEMMA SignalRun ==
  ASSUME Serial, TypeOK, PointerInv, SignalInv, NEW w \in Workers,
         Start(w) \/ PipelineStep(w) \/ Fail(w) \/ ExecReplyLost(w)
  PROVE  SignalInv'
<1>w. SignalsBehind /\ BodiesMatch /\ RunAgrees(w)
  BY SignalInvByRun
<1>k. SignalsBehind' <=> \A p \in Products :
        signal'[p].time <= metric'[p].time /\ Absent(signal'[p]) /\ Absent(metric'[p])
  BY DEF SignalsBehind, Absent
<1>t. /\ pc \in [Workers -> Labels] /\ at \in [Workers -> Times]
      /\ todo \in [Workers -> SUBSET Products] /\ reads \in [Workers -> SUBSET ReadKinds]
      /\ row \in [Workers -> Rows] /\ rows \in [Workers -> Bodies]
      /\ item \in [Workers -> Products \cup {Nobody}]
      /\ pc[w] \in {"metric", "signal"} => item[w] \in Products
      /\ metric \in [Products -> Rows] /\ signal \in [Products -> Rows]
  BY DEF TypeOK, RunsTypeOK, DatabaseTypeOK
<1>1. CASE Start(w)
  <2>1. \A v \in Workers : pc'[v] \in {"idle", "inputs"}
    BY <1>1, <1>t DEF Start, GoTo
  <2>2. \A v \in Workers : RunAgrees(v)'
    BY <2>1 DEF RunAgrees
  <2>. QED
    BY <1>1, <1>w, <2>2
    DEF Start, dbVars, redisVars, SignalInv, SignalsBehind, BodiesMatch, Absent,
        RunsHaveInputs, SignalsCatchUp, ReadsAgree, RunAgrees
<1>2. CASE FetchInputs(w) \/ FetchQuotes(w)
  <2>1. pc'[w] \in {"quotes", "metrics"}
    BY <1>2, <1>t DEF FetchInputs, FetchQuotes, GoTo
  <2>2. SignalsBehind' /\ BodiesMatch' /\ RunAgrees(w)'
    BY <1>2, <1>w, <2>1
    DEF FetchInputs, FetchQuotes, redisVars, SignalsBehind, BodiesMatch, RunAgrees, Absent
  <2>. QED  BY <1>2, <1>t, <2>2, SignalOfOne DEF FetchInputs, FetchQuotes, GoTo
<1>3. CASE StartMetrics(w)
  <2>1. RunAgrees(w)'
    BY <1>3, <1>t DEF StartMetrics, GoTo, RunAgrees
  <2>2. SignalsBehind' /\ BodiesMatch'
    BY <1>3, <1>w DEF StartMetrics, dbVars, redisVars, SignalsBehind, BodiesMatch, Absent
  <2>. QED  BY <1>3, <1>t, <2>1, <2>2, SignalOfOne DEF StartMetrics, GoTo
<1>4. CASE ReadPrice(w)
  <2>1. RunAgrees(w)'
    BY <1>4, <1>w, <1>t DEF ReadPrice, GoTo, RunAgrees
  <2>2. SignalsBehind' /\ BodiesMatch'
    BY <1>4, <1>w DEF ReadPrice, dbVars, redisVars, SignalsBehind, BodiesMatch, Absent
  <2>. QED  BY <1>4, <1>t, <2>1, <2>2, SignalOfOne DEF ReadPrice, GoTo
<1>5. CASE UpsertMetric(w)
  <2>1. RunAgrees(w)'
    BY <1>5, <1>w, <1>t DEF UpsertMetric, GoTo, RunAgrees
  <2>2. item[w] \in Products /\ row[w].time # 0 /\ row[w] \in Rows
    BY <1>5, <1>w, <1>t DEF UpsertMetric, GoTo, RunAgrees
  <2>3. signal' = signal /\ body' = body
    BY <1>5 DEF UpsertMetric, redisVars
  <2>4. \A p \in Products : metric'[p].time >= metric[p].time /\ Absent(metric'[p])
    <3>. SUFFICES ASSUME NEW p \in Products
                  PROVE  metric'[p].time >= metric[p].time /\ Absent(metric'[p])
      OBVIOUS
    <3>1. metric'[p] = metric[p] \/ (metric'[p] = row[w] /\ row[w].time >= metric[p].time)
      BY <1>5, <1>t, <2>2 DEF UpsertMetric
    <3>2. metric[p].time \in Int
      BY <1>t, SnapshotAssumption DEF Rows, Times
    <3>. QED  BY <1>w, <2>2, <3>1, <3>2 DEF SignalsBehind, Absent
  <2>5. \A p \in Products : /\ signal[p].time \in Int /\ metric[p].time \in Int
                            /\ metric'[p].time \in Int
    BY <1>5, <1>t, <2>2, SnapshotAssumption DEF UpsertMetric, Rows, Times
  <2>6. SignalsBehind'
    BY <1>k, <1>w, <2>3, <2>4, <2>5 DEF SignalsBehind
  <2>7. BodiesMatch'
    BY <1>w, <2>3 DEF BodiesMatch
  <2>. QED  BY <1>5, <1>t, <2>1, <2>6, <2>7, SignalOfOne DEF UpsertMetric, GoTo
<1>6. CASE StartSignals(w)
  <2>1. RunAgrees(w)'
    BY <1>6, <1>t DEF StartSignals, GoTo, RunAgrees
  <2>2. SignalsBehind' /\ BodiesMatch'
    BY <1>6, <1>w DEF StartSignals, dbVars, redisVars, SignalsBehind, BodiesMatch, Absent
  <2>. QED  BY <1>6, <1>t, <2>1, <2>2, SignalOfOne DEF StartSignals, GoTo
<1>7. CASE ReadMetric(w)
  <2>1. PICK p \in todo[w] :
          /\ todo' = [todo EXCEPT ![w] = @ \ {p}]
          /\ \/ metric[p] = NoRow /\ GoTo(w, "signals", "signals") /\ UNCHANGED <<item, row>>
             \/ /\ metric[p] # NoRow
                /\ GoTo(w, "signals", "signal")
                /\ item' = [item EXCEPT ![w] = p]
                /\ row' = [row EXCEPT ![w] = metric[p]]
    BY <1>7 DEF ReadMetric
  <2>2. metric' = metric /\ signal' = signal /\ body' = body
    BY <1>7 DEF ReadMetric, dbVars, redisVars
  <2>3. \A q \in Products \ todo[w] : signal[q] = metric[q]
    BY <1>w, <2>1 DEF RunAgrees, GoTo
  <2>4. p \in Products /\ todo'[w] = todo[w] \ {p}
    BY <1>t, <2>1
  <2>5. CASE metric[p] = NoRow
    <3>1. signal[p].time \in Nat
      BY <1>t, <2>4, SnapshotAssumption DEF Rows, Times
    <3>2. signal[p] = NoRow
      BY <1>w, <2>4, <2>5, <3>1 DEF SignalsBehind, Absent, NoRow
    <3>3. pc'[w] = "signals"
      BY <1>t, <2>1, <2>5 DEF GoTo
    <3>. QED
      BY <1>7, <1>w, <1>t, <2>2, <2>3, <2>4, <2>5, <3>2, <3>3, <2>1, SignalOfOne
      DEF GoTo, RunAgrees, SignalsBehind, BodiesMatch, Absent
  <2>6. CASE metric[p] # NoRow
    <3>1. metric[p].time # 0
      BY <1>w, <2>4, <2>6 DEF SignalsBehind, Absent
    <3>2. pc'[w] = "signal" /\ row'[w] = metric[p] /\ item'[w] = p
      BY <1>t, <2>1, <2>6 DEF GoTo
    <3>. QED
      BY <1>7, <1>w, <1>t, <2>2, <2>3, <2>4, <2>6, <3>1, <3>2, <2>1, SignalOfOne
      DEF GoTo, RunAgrees, SignalsBehind, BodiesMatch, Absent
  <2>. QED  BY <2>5, <2>6
<1>8. CASE UpsertSignal(w)
  <2>1. /\ pc[w] = "signal" /\ pc'[w] = "signals" /\ item[w] \in Products
        /\ metric' = metric /\ body' = body /\ todo' = todo
        /\ row[w] = metric[item[w]]
    BY <1>8, <1>w, <1>t DEF UpsertSignal, GoTo, RunAgrees, redisVars
  <2>2. signal[item[w]].time <= row[w].time
        /\ signal[item[w]].time \in Int /\ row[w].time \in Int
    BY <1>w, <1>t, <2>1, SnapshotAssumption DEF SignalsBehind, Rows, Times
  <2>3. signal' = [signal EXCEPT ![item[w]] = metric[item[w]]]
    BY <1>8, <1>t, <2>1, <2>2 DEF UpsertSignal
  <2>4. SignalsBehind'
    <3>. SUFFICES ASSUME NEW p \in Products
                  PROVE  signal'[p].time <= metric'[p].time /\ Absent(signal'[p])
                         /\ Absent(metric'[p])
      BY <1>k
    <3>1. signal'[p] = signal[p] \/ signal'[p] = metric[p]
      BY <1>t, <2>1, <2>3
    <3>2. metric[p].time \in Int
      BY <1>t, SnapshotAssumption DEF Rows, Times
    <3>. QED  BY <1>w, <2>1, <3>1, <3>2 DEF SignalsBehind, Absent
  <2>5. RunAgrees(w)'
    BY <1>w, <1>t, <2>1, <2>3 DEF RunAgrees
  <2>6. BodiesMatch'
    BY <1>w, <2>1 DEF BodiesMatch
  <2>. QED  BY <1>8, <1>t, <2>4, <2>5, <2>6, SignalOfOne DEF UpsertSignal, GoTo
<1>9. CASE StartPublish(w)
  <2>1. signal = metric
    BY <1>9, <1>w, <1>t DEF StartPublish, GoTo, RunAgrees
  <2>2. reads'[w] = ReadKinds /\ pc'[w] = "read" /\ metric' = metric /\ signal' = signal
        /\ body' = body
    BY <1>9, <1>t DEF StartPublish, GoTo, dbVars, redisVars
  <2>3. RunAgrees(w)'
    BY <2>1, <2>2 DEF RunAgrees, ReadKinds
  <2>. QED
    BY <1>9, <1>w, <1>t, <2>2, <2>3, SignalOfOne
    DEF StartPublish, GoTo, SignalsBehind, BodiesMatch, Absent
<1>10. CASE ReadForSnapshot(w)
  <2>1. PICK kind \in reads[w] :
          /\ reads' = [reads EXCEPT ![w] = @ \ {kind}]
          /\ GoTo(w, "read", IF reads'[w] = {} THEN "publish" ELSE "read")
          /\ rows' = CASE kind = "inputs"  -> rows
                       [] kind = "metrics" -> [rows EXCEPT ![w].metric = metric]
                       [] kind = "signals" -> [rows EXCEPT ![w].signal = signal]
    BY <1>10 DEF ReadForSnapshot
  <2>2. metric' = metric /\ signal' = signal /\ body' = body
    BY <1>10 DEF ReadForSnapshot, dbVars, redisVars
  <2>3. kind \in ReadKinds /\ reads'[w] = reads[w] \ {kind}
    BY <1>t, <2>1
  <2>4. /\ pc[w] = "read" /\ signal = metric
        /\ "metrics" \notin reads[w] => rows[w].metric = metric
        /\ "signals" \notin reads[w] => rows[w].signal = signal
    BY <1>w, <2>1 DEF GoTo, RunAgrees
  <2>5. /\ "metrics" \notin reads'[w] => rows'[w].metric = metric
        /\ "signals" \notin reads'[w] => rows'[w].signal = signal
    <3>1. CASE kind = "inputs"
      BY <2>1, <2>3, <2>4, <3>1
    <3>2. CASE kind = "metrics"
      <4>1. rows' = [rows EXCEPT ![w] = [rows[w] EXCEPT !.metric = metric]]
        BY <2>1, <3>2
      <4>2. rows'[w].metric = metric /\ rows'[w].signal = rows[w].signal
        BY <1>t, <4>1 DEF Bodies
      <4>. QED  BY <2>3, <2>4, <3>2, <4>2
    <3>3. CASE kind = "signals"
      <4>1. rows' = [rows EXCEPT ![w] = [rows[w] EXCEPT !.signal = signal]]
        BY <2>1, <3>3
      <4>2. rows'[w].signal = signal /\ rows'[w].metric = rows[w].metric
        BY <1>t, <4>1 DEF Bodies
      <4>. QED  BY <2>3, <2>4, <3>3, <4>2
    <3>. QED  BY <2>3, <3>1, <3>2, <3>3 DEF ReadKinds
  <2>6. pc'[w] = IF reads'[w] = {} THEN "publish" ELSE "read"
    BY <1>t, <2>1 DEF GoTo
  <2>7. RunAgrees(w)'
    BY <2>2, <2>4, <2>5, <2>6 DEF RunAgrees
  <2>8. \A v \in Workers \ {w} : pc'[v] = pc[v]
    BY <1>t, <2>1 DEF GoTo
  <2>. QED
    BY <1>w, <2>2, <2>4, <2>7, <2>8, SignalOfOne DEF SignalsBehind, BodiesMatch, Absent
<1>11. CASE RefusePublish(w) \/ SendAlerts(w) \/ Fail(w)
  <2>1. pc' = [pc EXCEPT ![w] = "idle"] /\ pc[w] # "idle"
        /\ metric' = metric /\ signal' = signal /\ body' = body
    BY <1>11 DEF RefusePublish, SendAlerts, Fail, EndRun, dbVars, redisVars
  <2>2. RunAgrees(w)'
    BY <1>t, <2>1 DEF RunAgrees
  <2>. QED
    BY <1>w, <1>t, <2>1, <2>2, SignalOfOne DEF SignalsBehind, BodiesMatch, Absent
<1>12. CASE Publish(w)
  <2>1. pc[w] = "publish" /\ pc' = [pc EXCEPT ![w] = "clean"]
    BY <1>12 DEF Publish, GoTo
  <2>2. RunAgrees(w)'
    BY <1>t, <2>1 DEF RunAgrees
  <2>3. BodiesMatch' /\ SignalsBehind'
    BY <1>12, ExecBodies DEF Publish
  <2>. QED  BY <1>t, <2>1, <2>2, <2>3, SignalOfOne
<1>13. CASE ExecReplyLost(w)
  <2>1. pc[w] = "publish" /\ pc' = [pc EXCEPT ![w] = "idle"]
    BY <1>13 DEF ExecReplyLost, Exec, EndRun
  <2>2. RunAgrees(w)'
    BY <1>t, <2>1 DEF RunAgrees
  <2>3. BodiesMatch' /\ SignalsBehind'
    BY <1>13, ExecBodies DEF ExecReplyLost
  <2>. QED  BY <1>t, <2>1, <2>2, <2>3, SignalOfOne
<1>14. CASE CleanBatch(w) \/ CleanDone(w)
  <2>1. pc[w] = "clean" /\ pc'[w] \in {"clean", "alerts"}
        /\ \A v \in Workers \ {w} : pc'[v] = pc[v]
    BY <1>14, <1>t DEF CleanBatch, CleanDone, GoTo
  <2>2. metric' = metric /\ signal' = signal
    BY <1>14 DEF CleanBatch, CleanDone, dbVars
  <2>3. BodiesMatch'
    <3>1. CASE CleanBatch(w)
      BY <1>w, <3>1, UnlinkBodies DEF CleanBatch
    <3>2. CASE CleanDone(w)
      BY <1>w, <3>2 DEF CleanDone, redisVars, BodiesMatch
    <3>. QED  BY <1>14, <3>1, <3>2
  <2>4. RunAgrees(w)'
    BY <2>1 DEF RunAgrees
  <2>. QED  BY <1>w, <2>1, <2>2, <2>3, <2>4, SignalOfOne DEF SignalsBehind, Absent
<1>. QED
  BY <1>1, <1>2, <1>3, <1>4, <1>5, <1>6, <1>7, <1>8, <1>9, <1>10, <1>11, <1>12, <1>13,
     <1>14 DEF PipelineStep

\* API calls, deploys, expiry and stuttering leave rows and runs alone.
LEMMA SignalOthers ==
  ASSUME SignalInv,
         \/ \E r \in Readers : ReaderStep(r)
         \/ DeployStep
         \/ \E i \in Ids : Expire(i)
         \/ UNCHANGED vars
  PROVE  SignalInv'
<1>1. UNCHANGED <<dbVars, pc, localVars>>
  BY DEF ReaderStep, ReadPointer, ReadValue, ReadDatabase, Respond, DeployStep,
         DeployReadPointer, DeployScan, DeployUnlink, Expire, vars
<1>2. BodiesMatch'
  <2>1. body' = body \/ \E K : Unlink(K)
    BY DEF ReaderStep, ReadPointer, ReadValue, ReadDatabase, Respond, DeployStep,
           DeployReadPointer, DeployScan, DeployUnlink, Expire, vars, redisVars
  <2>2. BodiesMatch
    BY DEF SignalInv
  <2>. QED  BY <2>1, <2>2, UnlinkBodies DEF BodiesMatch
<1>. QED
  BY <1>1, <1>2
  DEF SignalInv, SignalsBehind, RunsHaveInputs, SignalsCatchUp, ReadsAgree, Absent,
      dbVars, localVars

\* IInv is inductive.
LEMMA IInvStep == IInv /\ [Next]_vars => IInv'
  BY TypeRun, TypeOthers, PointerRun, PointerOthers, SignalRun, SignalOthers
  DEF IInv, Next

\* As long as pipeline runs and deploy cleanups do not overlap, the current
\* snapshot shows each metric with the signal that was computed from it.
THEOREM SignalsMatchMetrics ==
  ASSUME Serial
  PROVE  Spec => []SignalMatchesMetric
<1>1. Init => IInv
  BY TypeInit, PointerInit, SignalInit DEF IInv
<1>2. IInv => SignalMatchesMetric
  BY SnapshotAssumption
  DEF IInv, TypeOK, RedisTypeOK, SignalInv, BodiesMatch, SignalMatchesMetric, Ids, Times
<1>. QED  BY <1>1, IInvStep, <1>2, PTL DEF Spec

-----------------------------------------------------------------------------
(* The cleanup *)

\* What is left to remove is still to be seen by the scan, and nothing is left after it.
Swept ==
  \A w \in Workers :
    /\ pc[w] = "clean" => Stale(at[w]) \subseteq scan[w]
    /\ pc[w] = "alerts" => Stale(at[w]) = {}

CleanInv == OneRun /\ Swept

\* No key appears under a snapshot while keys are only removed.
LEMMA UnlinkStale ==
  ASSUME NEW K, Unlink(K) \/ stored' = stored, NEW i
  PROVE  Stale(i)' \subseteq Stale(i)
  BY DEF Unlink, Stale, Present, Keys

\* A run that is alive leaves the others idle, so that only its own step counts.
LEMMA CleanOfOne ==
  ASSUME TypeOK, CleanInv, NEW w \in Workers, pc[w] # "idle",
         NEW to, pc' = [pc EXCEPT ![w] = to],
         to = "clean" => Stale(at[w])' \subseteq scan'[w],
         to = "alerts" => Stale(at[w])' = {}
  PROVE  CleanInv'
<1>1. /\ pc'[w] = to
      /\ \A v \in Workers : v # w => pc[v] = "idle" /\ pc'[v] = "idle"
  BY DEF TypeOK, RunsTypeOK, CleanInv, OneRun
<1>2. OneRun'
  BY <1>1 DEF OneRun
<1>3. Swept'
  BY <1>1 DEF Swept
<1>. QED  BY <1>2, <1>3 DEF CleanInv

\* A step of a run that is alive keeps the rest of its cleanup in sight.
LEMMA CleanRun ==
  ASSUME Serial, TypeOK, CleanInv, NEW w \in Workers,
         Start(w) \/ PipelineStep(w) \/ Fail(w) \/ ExecReplyLost(w)
  PROVE  CleanInv'
<1> USE DEF GoTo
<1>1. CASE Start(w)
  <2>1. \A v \in Workers : pc[v] = "idle"
    BY <1>1 DEF Start
  <2>2. \A v \in Workers : pc'[v] = IF v = w THEN "inputs" ELSE "idle"
    BY <1>1, <2>1 DEF Start, TypeOK, RunsTypeOK
  <2>. QED
    BY <2>2 DEF CleanInv, OneRun, Swept
<1>2. CASE CleanBatch(w)
  <2>1. /\ pc[w] = "clean" /\ pc' = [pc EXCEPT ![w] = "clean"] /\ at' = at
    BY <1>2 DEF CleanBatch
  <2>2. PICK K : Unlink(K) /\ scan' = [scan EXCEPT ![w] = scan[w] \ K]
    BY <1>2 DEF CleanBatch, TypeOK, RunsTypeOK
  <2>3. Stale(at[w])' \subseteq Stale(at[w]) \ K
    BY <2>1, <2>2 DEF Unlink, Stale, Present, Keys
  <2>4. scan'[w] = scan[w] \ K /\ Stale(at[w]) \subseteq scan[w]
    BY <2>1, <2>2 DEF TypeOK, RunsTypeOK, CleanInv, Swept
  <2>. QED
    BY <2>1, <2>3, <2>4, CleanOfOne
<1>3. CASE CleanDone(w)
  <2>1. /\ pc[w] = "clean" /\ pc' = [pc EXCEPT ![w] = "alerts"] /\ at' = at
        /\ stored' = stored /\ scan[w] \cap Present = {}
    BY <1>3 DEF CleanDone, redisVars
  <2>2. Stale(at[w]) = {}
    BY <2>1 DEF CleanInv, Swept, Stale
  <2>3. Stale(at[w])' = {}
    BY <2>1, <2>2 DEF Stale, Present
  <2>. QED
    BY <2>1, <2>3, CleanOfOne
<1>4. CASE Publish(w)
  <2>1. /\ pc[w] = "publish" /\ pc' = [pc EXCEPT ![w] = "clean"] /\ at' = at
        /\ stored' = [stored EXCEPT ![at[w]] = Suffixes]
        /\ scan' = [scan EXCEPT ![w] = {k \in Keys : k[1] # at[w] /\ k[2] \in stored[k[1]]}]
    BY <1>4 DEF Publish, Exec
  <2>2. scan'[w] = {k \in Keys : k[1] # at[w] /\ k[2] \in stored[k[1]]}
    BY <2>1 DEF TypeOK, RunsTypeOK
  <2>3. \A i \in Ids : i # at[w] => stored'[i] = stored[i]
    BY <2>1 DEF TypeOK, RedisTypeOK
  <2>4. Stale(at[w])' \subseteq scan'[w]
    BY <2>1, <2>2, <2>3 DEF Stale, Present, Keys
  <2>. QED
    BY <2>1, <2>4, CleanOfOne
<1>5. CASE SendAlerts(w) \/ RefusePublish(w) \/ Fail(w) \/ ExecReplyLost(w)
  <2>1. pc[w] # "idle" /\ pc' = [pc EXCEPT ![w] = "idle"]
    BY <1>5 DEF SendAlerts, RefusePublish, Fail, ExecReplyLost, Exec, EndRun
  <2>. QED
    BY <2>1, CleanOfOne
<1>6. ASSUME NEW from, NEW to, GoTo(w, from, to), from # "idle", to \notin {"clean", "alerts"}
      PROVE  CleanInv'
  BY <1>6, CleanOfOne
<1>7. CASE FetchInputs(w) \/ FetchQuotes(w) \/ StartMetrics(w) \/ UpsertMetric(w)
           \/ StartSignals(w) \/ UpsertSignal(w) \/ StartPublish(w)
  BY <1>6, <1>7 DEF FetchInputs, FetchQuotes, StartMetrics, UpsertMetric, StartSignals,
     UpsertSignal, StartPublish
<1>8. CASE ReadPrice(w)
  BY <1>6, <1>8 DEF ReadPrice
<1>9. CASE ReadMetric(w)
  BY <1>6, <1>9 DEF ReadMetric
<1>10. CASE ReadForSnapshot(w)
  BY <1>6, <1>10 DEF ReadForSnapshot
<1>. QED
  BY <1>1, <1>2, <1>3, <1>4, <1>5, <1>7, <1>8, <1>9, <1>10 DEF PipelineStep

\* API calls, the deploy step and expiry add no key and move no run.
LEMMA CleanOthers ==
  ASSUME CleanInv,
         \/ \E r \in Readers : ReaderStep(r)
         \/ DeployStep
         \/ \E i \in Ids : Expire(i)
         \/ UNCHANGED vars
  PROVE  CleanInv'
<1>1. UNCHANGED <<pc, at, scan>> /\ (stored' = stored \/ \E K : Unlink(K))
  BY DEF ReaderStep, ReadPointer, ReadValue, ReadDatabase, Respond, DeployStep,
         DeployReadPointer, DeployScan, DeployUnlink, Expire, vars, redisVars, localVars
<1>2. ASSUME NEW i PROVE Stale(i)' \subseteq Stale(i)
  BY <1>1, UnlinkStale
<1>3. \A w \in Workers : Stale(at[w])' \subseteq Stale(at[w])
  BY <1>1 DEF Unlink, Stale, Present, Keys
<1>. QED
  BY <1>1, <1>3 DEF CleanInv, OneRun, Swept

\* When cleanupStaleMarketSnapshots returns, no key of another snapshot is left, whatever expires
\* or is unlinked by a deploy meanwhile, and however the scan divides its replies.
THEOREM CleanupLeavesNothing == Spec => []CleanupIsThorough
<1>1. CASE Serial
  <2>1. Init => CleanInv
    BY DEF Init, CleanInv, OneRun, Swept
  <2>2. TypeOK /\ CleanInv /\ [Next]_vars => CleanInv'
    BY <1>1, CleanRun, CleanOthers DEF Next
  <2>3. CleanInv => CleanupIsThorough
    BY DEF CleanInv, Swept, CleanupIsThorough
  <2>. QED  BY <2>1, <2>2, <2>3, SnapshotTypeCorrect, PTL DEF Spec
<1>2. CASE ~ Serial
  <2>1. CleanupIsThorough
    BY <1>2 DEF CleanupIsThorough
  <2>. QED  BY <2>1, PTL
<1>. QED  BY <1>1, <1>2

-----------------------------------------------------------------------------
(* The answers *)

\* Neither what is published, nor what a run has read for it, nor what a call has to reach is
\* newer than any product's latest metric.
NothingAhead ==
  \A p \in Products :
    /\ pointer <= metric[p].time
    /\ \A w \in Workers : rows[w].metric[p].time <= metric[p].time
    /\ \A r \in Readers : floor[r] <= metric[p].time

\* A call asks for a snapshot no older than the one it found.
CallsReach ==
  \A r \in Readers :
    /\ rpc[r] = "value" => rid[r] >= floor[r]
    /\ rpc[r] = "answered" => answer[r] >= floor[r]

\* The latest metric of a product never gets older.
LEMMA MetricsAdvance ==
  ASSUME TypeOK, [Next]_vars, NEW p \in Products
  PROVE  metric[p].time <= metric'[p].time
<1>1. metric[p].time \in Nat
  BY SnapshotAssumption DEF TypeOK, DatabaseTypeOK, Rows, Times
<1>2. ASSUME NEW w \in Workers, UpsertMetric(w)
      PROVE  metric[p].time <= metric'[p].time
  <2>1. metric'[p] = IF p = item[w] /\ row[w].time >= metric[p].time THEN row[w] ELSE metric[p]
    BY <1>2 DEF UpsertMetric, TypeOK, DatabaseTypeOK
  <2>2. row[w].time \in Nat
    BY SnapshotAssumption DEF TypeOK, RunsTypeOK, Rows, Times
  <2>. QED  BY <1>1, <2>1, <2>2
<1>3. CASE metric' = metric
  BY <1>1, <1>3
<1>4. metric' = metric \/ \E w \in Workers : UpsertMetric(w)
  BY DEF Next, PipelineStep, Start, FetchInputs, FetchQuotes, StartMetrics, ReadPrice,
     StartSignals, ReadMetric, UpsertSignal, StartPublish, ReadForSnapshot, RefusePublish,
     Publish, Exec, CleanBatch, CleanDone, SendAlerts, Fail, ExecReplyLost, ReaderStep,
     ReadPointer, ReadValue, ReadDatabase, Respond, DeployStep, DeployReadPointer, DeployScan,
     DeployUnlink, Expire, vars, dbVars
<1>. QED  BY <1>2, <1>3, <1>4

\* What a run holds or publishes was in the table before.
LEMMA AheadRun ==
  ASSUME TypeOK, TypeOK', NothingAhead, NEW w \in Workers,
         Start(w) \/ PipelineStep(w) \/ Fail(w) \/ ExecReplyLost(w),
         \A p \in Products : metric[p].time <= metric'[p].time
  PROVE  NothingAhead'
<1>t. /\ pointer \in Nat /\ pointer' \in Nat
      /\ \A p \in Products : metric[p].time \in Nat /\ metric'[p].time \in Nat
      /\ \A v \in Workers, p \in Products : rows[v].metric[p].time \in Nat
      /\ \A r \in Readers : floor[r] \in Nat
  BY SnapshotAssumption
  DEF TypeOK, DatabaseTypeOK, RedisTypeOK, RunsTypeOK, CallsTypeOK, Bodies, Rows, Times
<1>1. floor' = floor
  BY DEF Start, PipelineStep, FetchInputs, FetchQuotes, StartMetrics, ReadPrice, UpsertMetric,
     StartSignals, ReadMetric, UpsertSignal, StartPublish, ReadForSnapshot, RefusePublish,
     Publish, CleanBatch, CleanDone, SendAlerts, Fail, ExecReplyLost, GoTo, EndRun, readerVars
<1>2. ASSUME NEW v \in Workers, NEW p \in Products
      PROVE  rows'[v].metric[p].time <= metric'[p].time
  <2>1. CASE rows'[v] = rows[v]
    BY <1>t, <2>1 DEF NothingAhead
  <2>2. CASE rows'[v] = NoBody
    BY <1>t, <2>2 DEF NoBody, NoRows, NoRow
  <2>3. CASE rows'[v].metric \in {rows[v].metric, metric}
    BY <1>t, <2>3 DEF NothingAhead
  <2>4. \/ rows'[v] = rows[v] \/ rows'[v] = NoBody
        \/ rows'[v].metric \in {rows[v].metric, metric}
    <3>1. CASE ReadForSnapshot(w)
      <4>1. PICK kind \in reads[w] :
              rows' = CASE kind = "inputs"  -> rows
                        [] kind = "metrics" -> [rows EXCEPT ![w].metric = metric]
                        [] kind = "signals" -> [rows EXCEPT ![w].signal = signal]
        BY <3>1 DEF ReadForSnapshot
      <4>2. kind \in {"inputs", "metrics", "signals"}
        BY DEF TypeOK, RunsTypeOK, ReadKinds
      <4>3. rows \in [Workers -> Bodies]
        BY DEF TypeOK, RunsTypeOK
      <4>. QED  BY <4>1, <4>2, <4>3 DEF Bodies
    <3>2. CASE ~ ReadForSnapshot(w)
      <4>1. rows' = rows \/ rows' = [rows EXCEPT ![w] = NoBody]
        BY <3>2 DEF Start, PipelineStep, FetchInputs, FetchQuotes, StartMetrics, ReadPrice,
           UpsertMetric, StartSignals, ReadMetric, UpsertSignal, StartPublish, RefusePublish,
           Publish, CleanBatch, CleanDone, SendAlerts, Fail, ExecReplyLost, EndRun, localVars
      <4>. QED  BY <4>1 DEF TypeOK, RunsTypeOK
    <3>. QED  BY <3>1, <3>2
  <2>. QED  BY <2>1, <2>2, <2>3, <2>4
<1>3. ASSUME NEW p \in Products
      PROVE  pointer' <= metric'[p].time
  <2>1. CASE pointer' = pointer
    BY <1>t, <2>1 DEF NothingAhead
  <2>2. CASE Exec(w)
    <3>1. pointer' = rows[w].metric[p].time
      BY <2>2 DEF Exec, Aligned
    <3>. QED  BY <1>t, <3>1 DEF NothingAhead
  <2>3. pointer' = pointer \/ Exec(w)
    BY DEF Start, PipelineStep, FetchInputs, FetchQuotes, StartMetrics, ReadPrice, UpsertMetric,
       StartSignals, ReadMetric, UpsertSignal, StartPublish, ReadForSnapshot, RefusePublish,
       Publish, CleanBatch, CleanDone, SendAlerts, Fail, ExecReplyLost, redisVars
  <2>. QED  BY <2>1, <2>2, <2>3
<1>4. ASSUME NEW r \in Readers, NEW p \in Products
      PROVE  floor'[r] <= metric'[p].time
  BY <1>t, <1>1 DEF NothingAhead
<1>. QED  BY <1>2, <1>3, <1>4 DEF NothingAhead

\* A call is given the pointer to reach; nothing else moves but the pointer, to nothing.
LEMMA AheadOthers ==
  ASSUME TypeOK, NothingAhead,
         \/ \E r \in Readers : ReaderStep(r)
         \/ DeployStep
         \/ \E i \in Ids : Expire(i)
         \/ UNCHANGED vars
  PROVE  NothingAhead'
<1>t. \A p \in Products : metric[p].time \in Nat
  BY SnapshotAssumption DEF TypeOK, DatabaseTypeOK, Rows, Times
<1>1. metric' = metric /\ rows' = rows /\ pointer' \in {pointer, 0}
  BY DEF ReaderStep, ReadPointer, ReadValue, ReadDatabase, Respond, DeployStep,
         DeployReadPointer, DeployScan, DeployUnlink, Expire, vars, dbVars, redisVars, localVars
<1>2. \A r \in Readers : floor'[r] \in {floor[r], pointer, 0}
  BY DEF ReaderStep, ReadPointer, ReadValue, ReadDatabase, Respond, DeployStep, TypeOK, CallsTypeOK,
         DeployReadPointer, DeployScan, DeployUnlink, Expire, vars, readerVars
<1>. QED  BY <1>t, <1>1, <1>2 DEF NothingAhead

\* A call keeps to what it found.
LEMMA ReachStep ==
  TypeOK /\ NothingAhead /\ CallsReach /\ [Next]_vars => CallsReach'
<1> SUFFICES ASSUME TypeOK, NothingAhead, CallsReach, [Next]_vars
             PROVE  CallsReach'
  OBVIOUS
<1>t. /\ rid \in [Readers -> Times] /\ floor \in [Readers -> Times]
      /\ answer \in [Readers -> Times] /\ pointer \in Nat
      /\ rpc \in [Readers -> {"idle", "value", "database", "answered"}]
      /\ \A n \in Times : n \in Nat /\ n >= 0
  BY SnapshotAssumption DEF TypeOK, CallsTypeOK, RedisTypeOK, Times
<1>1. ASSUME NEW r \in Readers, ReadPointer(r) PROVE CallsReach'
  BY <1>t, <1>1 DEF ReadPointer, CallsReach
<1>2. ASSUME NEW r \in Readers, ReadValue(r) PROVE CallsReach'
  <2>1. /\ rpc[r] = "value" /\ floor' = floor
        /\ rid' = [rid EXCEPT ![r] = 0]
        /\ \/ /\ rpc' = [rpc EXCEPT ![r] = "answered"]
              /\ answer' = [answer EXCEPT ![r] = rid[r]]
           \/ rpc' = [rpc EXCEPT ![r] = "database"] /\ answer' = answer
    BY <1>2 DEF ReadValue
  <2>. QED  BY <1>t, <2>1 DEF CallsReach
<1>3. ASSUME NEW r \in Readers, ReadDatabase(r) PROVE CallsReach'
  <2>1. PICK p \in Products : answer' = [answer EXCEPT ![r] = metric[p].time]
    BY <1>3 DEF ReadDatabase
  <2>2. metric[p].time >= floor[r]
    BY <1>t, SnapshotAssumption DEF NothingAhead, TypeOK, DatabaseTypeOK, Rows, Times
  <2>. QED  BY <1>t, <1>3, <2>1, <2>2 DEF ReadDatabase, CallsReach
<1>4. ASSUME NEW r \in Readers, Respond(r) PROVE CallsReach'
  BY <1>t, <1>4 DEF Respond, CallsReach
<1>5. CASE UNCHANGED readerVars
  BY <1>5 DEF readerVars, CallsReach
<1>6. UNCHANGED readerVars \/ \E r \in Readers : ReaderStep(r)
  BY DEF Next, PipelineStep, Start, FetchInputs, FetchQuotes, StartMetrics, ReadPrice, UpsertMetric,
     StartSignals, ReadMetric, UpsertSignal, StartPublish, ReadForSnapshot, RefusePublish,
     Publish, Exec, CleanBatch, CleanDone, SendAlerts, Fail, ExecReplyLost, GoTo, EndRun,
     DeployStep, DeployReadPointer, DeployScan, DeployUnlink, Expire, vars
<1>. QED  BY <1>1, <1>2, <1>3, <1>4, <1>5, <1>6 DEF ReaderStep

\* A call of the API never answers with data older than the snapshot that was current when it
\* began: what is published was in the tables before, and their latest rows only get newer, so
\* that the fallback to the database cannot fall behind. Overlapping runs change nothing in this.
THEOREM AnswersStayFresh == Spec => []AnswersAreFresh
<1>1. Init => NothingAhead /\ CallsReach
  BY DEF Init, NothingAhead, CallsReach, NoBody, NoRows, NoRow
<1>2. TypeOK /\ TypeOK' /\ NothingAhead /\ [Next]_vars => NothingAhead'
  <2>1. TypeOK /\ [Next]_vars => \A p \in Products : metric[p].time <= metric'[p].time
    BY MetricsAdvance
  <2>. QED  BY <2>1, AheadRun, AheadOthers DEF Next
<1>3. CallsReach => AnswersAreFresh
  BY DEF CallsReach, AnswersAreFresh
<1>. QED  BY <1>1, <1>2, <1>3, ReachStep, SnapshotTypeCorrect, PTL DEF Spec
=============================================================================
