-------------------------- MODULE ProspectRowProofs --------------------------
(***************************************************************************)
(* Theorems about the rows of the kernel that the work of a shard is       *)
(* counted and recorded in, for every number of runs, sources, calls,      *)
(* pages, leases and kernel starts: a source that has been read to its end *)
(* is never asked for again; every row moves as its table in the MySQL     *)
(* store allows; and the counters of a checkpoint are those of its ledger, *)
(* its attempts and its pages.                                             *)
(***************************************************************************)
EXTENDS ProspectWorkProofs, FiniteSetTheorems

-----------------------------------------------------------------------------
(* The inductive invariant: WorkInv, and who may read a source.            *)

\* A shard that may still send a request, now or later.
Lives(st) == st \notin Done \cup {"cancel_requested"}

\* Active runs share no source.
OneReader ==
  \A s, t \in Shards :
    /\ ScopeOf[s] = ScopeOf[t]
    /\ run[RunOf[s]].status \in Active /\ run[RunOf[t]].status \in Active
    => s = t

\* A run that is not yet created has read nothing, and who has begun to read a
\* source that is exhausted reads no more of it.
SourceRow(s) ==
  /\ run[RunOf[s]].status = "none" => ~ckpt[s].exists
  /\ ckpt[s].exists /\ position[ScopeOf[s]] = "exhausted" => ~Lives(shard[s])
SourceRows == \A s \in Shards : SourceRow(s)

SourceInv == WorkInv /\ OneReader /\ SourceRows

-----------------------------------------------------------------------------
(* Steps of runs and shards.                                               *)

\* A run becomes active only when it is created, and is never taken back.
RunsMoveOn ==
  \A r \in Runs :
    /\ run'[r].status = "none" => run[r].status = "none"
    /\ run'[r].status \in Active => run[r].status \in Active \/ CreateRun(r)

\* A shard that ends or goes back may end its run or bring it to rest, and makes
\* no run active.
LEMMA EndsMovesRuns ==
  ASSUME TypeOK, NEW s \in Shards, Ends(s) \/ GoesBack(s) \/ run' = run
  PROVE  RunsMoveOn
<1> DEFINE r == RunOf[s]
<1>0. r \in Runs /\ run[r] \in RunRecord
  BY KernelConstants DEF TypeOK
<1>1. run' = run \/ \E rec : /\ run' = [run EXCEPT ![r] = rec]
                             /\ \/ rec = run[r] \/ rec.status \in Done
                                \/ run[r].status = "pause_requested" /\ rec.status = "paused"
  <2>1. CASE Ends(s)
    <3>1. PICK sh, ck :
            \E rec \in {FinishRun(r, sh, ck), Rest(FinishRun(r, sh, ck), r, sh, lease')} :
              run' = [run EXCEPT ![r] = rec]
      BY <2>1 DEF Ends
    <3> DEFINE one == FinishRun(r, sh, ck)
               all == {one, Rest(one, r, sh, lease'), Rest(run[r], r, sh, lease')}
    <3>2. PICK rec \in all : run' = [run EXCEPT ![r] = rec]
      BY <3>1
    <3>3. \A x \in all : \/ x = run[r]
                         \/ x.status \in Done
                         \/ run[r].status = "pause_requested" /\ x.status = "paused"
      BY <1>0, RunAfter
    <3> QED
      BY <3>2, <3>3
  <2>2. CASE GoesBack(s)
    <3>1. PICK sh : run' = [run EXCEPT ![r] = Rest(run[r], r, sh, lease')]
      BY <2>2 DEF GoesBack
    <3> DEFINE rec == Rest(run[r], r, sh, lease')
    <3>2. rec = run[r] \/ (run[r].status = "pause_requested" /\ rec.status = "paused")
      BY <1>0, RestEffect
    <3> QED
      BY <3>1, <3>2
  <2>3. CASE run' = run
    BY <2>3
  <2> QED
    BY <2>1, <2>2, <2>3
<1>2. run \in [Runs -> RunRecord]
  BY DEF TypeOK
<1> QED
  BY <1>0, <1>1, <1>2 DEF RunsMoveOn, Active, Done

\* So no kernel step but a creation makes a run active.
LEMMA RunsStep ==
  ASSUME StoreInv, TypeOK', [Next]_vars
  PROVE  RunsMoveOn
<1> USE DEF StoreInv, KernelInv
<1>1. ASSUME run' = run PROVE RunsMoveOn
  BY <1>1 DEF RunsMoveOn
<1>2. ASSUME NEW r \in Runs, CreateRun(r) PROVE RunsMoveOn
  <2>1. run'[r].status = "queued" /\ \A q \in Runs \ {r} : run'[q] = run[q]
    BY <1>2 DEF CreateRun, TypeOK
  <2> QED
    BY <1>2, <2>1 DEF RunsMoveOn
<1>3. ASSUME NEW r \in Runs, RequestPause(r) \/ Resume(r) \/ RequestCancel(r)
      PROVE  RunsMoveOn
  <2>1. run[r].status \in Active /\ \A q \in Runs \ {r} : run'[q] = run[q]
    BY <1>3 DEF RequestPause, Resume, RequestCancel, TypeOK, Active
  <2>2. run'[r].status # "none"
    <3>1. CASE RequestPause(r)
      BY <3>1 DEF RequestPause, TypeOK, RunRecord
    <3>2. CASE Resume(r)
      BY <3>2 DEF Resume, TypeOK, RunRecord
    <3>3. CASE RequestCancel(r)
      BY <3>3 DEF RequestCancel, TypeOK, RunRecord
    <3> QED
      BY <1>3, <3>1, <3>2, <3>3
  <2> QED
    BY <2>1, <2>2 DEF RunsMoveOn
<1>4. ASSUME NEW Gone, RecoverLeases(Gone) PROVE RunsMoveOn
  <2> SUFFICES ASSUME NEW q \in Runs
               PROVE  /\ run'[q].status = "none" => run[q].status = "none"
                      /\ run'[q].status \in Active => run[q].status \in Active
    BY DEF RunsMoveOn
  <2>1. \E sh : run'[q] \in {run[q], FinishRun(q, sh, ckpt),
                             Rest(FinishRun(q, sh, ckpt), q, sh, lease'),
                             Rest(run[q], q, sh, lease')}
    BY <1>4 DEF RecoverLeases
  <2> QED
    BY <2>1, RunAfter DEF Active, Done
<1>5. ASSUME ClaimNext PROVE RunsMoveOn
  <2> SUFFICES ASSUME NEW q \in Runs
               PROVE  /\ run'[q].status = "none" => run[q].status = "none"
                      /\ run'[q].status \in Active => run[q].status \in Active
    BY DEF RunsMoveOn
  <2>1. CASE \E s \in Chosen : RunOf[s] = q
    <3>1. run'[q] = [run[q] EXCEPT !.status = "running"]
      BY <1>5, <2>1 DEF ClaimNext
    <3>2. run[q].status \in {"queued", "running"}
      BY <2>1 DEF Chosen, Claimable
    <3>3. run'[q].status = "running"
      BY <3>1 DEF TypeOK, RunRecord
    <3> QED
      BY <3>2, <3>3 DEF Active
  <2>2. CASE ~\E s \in Chosen : RunOf[s] = q
    <3>1. PICK sh : run'[q] \in {run[q], FinishRun(q, sh, ckpt')}
      BY <1>5, <2>2 DEF ClaimNext
    <3>2. FinishRun(q, sh, ckpt') = run[q] \/ FinishRun(q, sh, ckpt').status \in Done
      BY FinishRunEffect
    <3> QED
      BY <3>1, <3>2 DEF Active, Done
  <2> QED
    BY <2>1, <2>2
<1>6. ASSUME NEW s \in Shards, DispatchFails(s) PROVE RunsMoveOn
  BY <1>6, DispatchFailsEnds, EndsMovesRuns
<1>7. ASSUME NEW s \in Shards, NEW n \in CallNos,
             SettleLate(s, n) \/ SettleSuccess(s, n) \/ SettleFailure(s, n)
      PROVE  RunsMoveOn
  <2>1. Ends(s) \/ GoesBack(s) \/ run' = run
    BY <1>7, SettleShape
  <2> QED
    BY <2>1, EndsMovesRuns
<1> QED
  BY <1>1, <1>2, <1>3, <1>4, <1>5, <1>6, <1>7
     DEF Next, vars, Start, RecoverExpired, WindowOpens, Lapse, RetryDue, Prepare, Defer,
         SendRequest, CallLost, PersistResponse

\* Whoever lives after a step has lived before.
LEMMA LivesStep ==
  ASSUME WorkInv, TypeOK', [Next]_vars, NEW t \in Shards, Lives(shard'[t])
  PROVE  Lives(shard[t])
<1> USE DEF WorkInv, StoreInv, KernelInv
<1>0. shard[t] \in ShardStatus /\ WorkRow(t)
  BY DEF TypeOK, WorkRows
<1>1. ASSUME shard'[t] = shard[t] \/ (shard[t] \in Done /\ shard'[t] \in Done)
      PROVE  Lives(shard[t])
  BY <1>1 DEF Lives
<1>2. ASSUME NEW r \in Runs, RequestPause(r) PROVE Lives(shard[t])
  <2>1. CASE t \in ShardsOf(r)
    <3>1. run[RunOf[t]].status \in {"queued", "running"}
      BY <1>2, <2>1 DEF RequestPause, ShardsOf
    <3>2. shard[t] # "cancel_requested"
      BY <3>1, WorkingShape
    <3>3. shard[t] \in Done => shard'[t] = shard[t]
      BY <1>2 DEF RequestPause
    <3> QED
      BY <3>2, <3>3 DEF Lives
  <2>2. CASE t \notin ShardsOf(r)
    BY <1>1, <1>2, <2>2 DEF RequestPause
  <2> QED
    BY <2>1, <2>2
<1>3. ASSUME NEW r \in Runs, Resume(r) PROVE Lives(shard[t])
  BY <1>1, <1>3 DEF Resume, Lives, Done
<1>4. ASSUME NEW r \in Runs, RequestCancel(r) PROVE Lives(shard[t])
  BY <1>1, <1>4 DEF RequestCancel, Lives, Done
<1>5. ASSUME NEW Gone \in SUBSET {s \in Shards : Held(s)}, RecoverLeases(Gone)
      PROVE  Lives(shard[t])
  <2>1. CASE t \notin Gone
    BY <1>1, <1>5, <2>1, RecoverPlaces DEF Done
  <2>2. CASE t \in Gone /\ Current(t).started
    BY <1>5, <2>2, RecoverPlaces DEF Lives
  <2>3. CASE t \in Gone /\ ~Current(t).started
    BY <1>0, <2>3, UnusedGoesOn DEF Lives, Done, WorkRow
  <2> QED
    BY <2>1, <2>2, <2>3
<1>6. ASSUME ClaimNext PROVE Lives(shard[t])
  <2>1. t \in Skipped \cup Chosen => shard[t] \in {"queued", "retry_scheduled"}
    BY DEF Skipped, Chosen, Claimable
  <2>2. t \notin Skipped \cup Chosen => shard'[t] = shard[t]
    BY <1>6 DEF ClaimNext
  <2> QED
    BY <1>1, <2>1, <2>2 DEF Lives, Done
<1>7. ASSUME NEW s \in Shards, Defer(s) PROVE Lives(shard[t])
  <2>1. shard[s] = "running"
    BY <1>7, RequesterWorks DEF Defer, MayDispatch
  <2>2. t # s => shard'[t] = shard[t]
    BY <1>7 DEF Defer
  <2> QED
    BY <1>1, <2>1, <2>2 DEF Lives, Done
<1>8. ASSUME NEW s \in Shards, DispatchFails(s) PROVE Lives(shard[t])
  <2>1. OthersStay(s) /\ shard'[s] \in Done
    BY <1>8, DispatchFailsEnds, EndsEffect
  <2> QED
    BY <1>1, <2>1 DEF OthersStay, Lives
<1>9. ASSUME NEW s \in Shards, NEW n \in CallNos,
             SettleLate(s, n) \/ SettleSuccess(s, n) \/ SettleFailure(s, n)
      PROVE  Lives(shard[t])
  <2>1. WorkRow(s) /\ ledger[s][n].status = "response_received"
    BY <1>9, SettleShape DEF WorkRows
  <2>2. CASE t # s
    BY <1>1, <1>9, <2>1, <2>2, SettleLeavesOthers DEF Done
  <2>3. CASE t = s /\ OnTime(s, n)
    BY <2>1, <2>3, OnTimeWorks DEF Lives, Done
  <2>4. CASE t = s /\ ~OnTime(s, n)
    <3>1. SettleLate(s, n)
      BY <1>9, <2>4 DEF SettleSuccess, SettleFailure
    <3>2. CASE run[RunOf[s]].status = "cancel_requested"
      <4> DEFINE sh == [shard EXCEPT ![s] = "cancelled"]
      <4>1. shard'[s] = FinishShards({RunOf[s]}, sh)[s]
        BY <3>1, <3>2 DEF SettleLate
      <4>2. sh[s] = "cancelled"
        BY DEF TypeOK
      <4> HIDE DEF sh
      <4> QED
        BY <2>4, <4>1, <4>2, FinishShardsEffect DEF Lives, Done
    <3>3. CASE run[RunOf[s]].status # "cancel_requested"
      BY <1>1, <2>4, <3>1, <3>3 DEF SettleLate
    <3> QED
      BY <3>2, <3>3
  <2> QED
    BY <2>2, <2>3, <2>4
<1>10. ASSUME shard' = shard PROVE Lives(shard[t])
  BY <1>1, <1>10
<1>11. {s \in Shards : Held(s)} \in SUBSET {s \in Shards : Held(s)}
       /\ {s \in Shards : Held(s) /\ Current(s).lapsed} \in SUBSET {s \in Shards : Held(s)}
  OBVIOUS
<1> QED
  BY <1>2, <1>3, <1>4, <1>5, <1>6, <1>7, <1>8, <1>9, <1>10, <1>11
     DEF Next, vars, CreateRun, Start, RecoverExpired, WindowOpens, Lapse, RetryDue, Prepare,
         SendRequest, CallLost, PersistResponse

-----------------------------------------------------------------------------
(* Reading a source.                                                       *)

\* Only a page of a source that has no more moves its position to the end.
LEMMA PositionMoves ==
  ASSUME TypeOK, [Next]_vars, NEW c \in Scopes, position'[c] # position[c]
  PROVE  \E s \in Shards, n \in CallNos :
           /\ SettleSuccess(s, n) /\ ScopeOf[s] = c
           /\ position'[c] = "exhausted" => ~ledger[s][n].resp.more
<1>1. PICK s \in Shards, n \in CallNos : SettleSuccess(s, n)
  BY DEF Next, vars, CreateRun, RequestPause, Resume, RequestCancel, Start, RecoverExpired,
         ClaimNext, WindowOpens, Lapse, RetryDue, Prepare, Defer, SendRequest, DispatchFails,
         CallLost, PersistResponse, SettleLate, SettleFailure
<1>2. position' = PositionAfter(s, ledger[s][n].resp)
  BY <1>1 DEF SettleSuccess
<1>3. ScopeOf[s] = c
  BY <1>2 DEF PositionAfter, TypeOK
<1>4. position'[c] = IF ledger[s][n].resp.more THEN "continuable" ELSE "exhausted"
  BY <1>2, <1>3 DEF PositionAfter, TypeOK
<1> QED
  BY <1>1, <1>3, <1>4

\* Whose page is settled reads its source, and ends if that has no more.
LEMMA SettlerReads ==
  ASSUME WorkInv, NEW s \in Shards, NEW n \in CallNos, SettleSuccess(s, n)
  PROVE  /\ ckpt[s].exists /\ Lives(shard[s]) /\ run[RunOf[s]].status \in Active
         /\ ~ledger[s][n].resp.more => ~Lives(shard'[s])
<1> USE DEF WorkInv, StoreInv, KernelInv
<1>1. OnTime(s, n) /\ ledger[s][n].status = "response_received" /\ WorkRow(s)
  BY SettleShape DEF SettleSuccess, WorkRows
<1>2. ckpt[s].exists
  BY SettleCloses
<1>3. Lives(shard[s]) /\ run[RunOf[s]].status \in Active
  BY <1>1, OnTimeWorks DEF Lives, Done, OnTime, Active
<1>4. ASSUME ~ledger[s][n].resp.more PROVE ~Lives(shard'[s])
  <2>1. PICK st \in Done, err \in {"none"} : FinishShard(s, st, err)
    BY <1>4 DEF SettleSuccess, Done
  <2> DEFINE sh == [shard EXCEPT ![s] = st]
  <2>2. shard'[s] = FinishShards({RunOf[s]}, sh)[s]
    BY <2>1 DEF FinishShard
  <2>3. sh[s] = st
    BY DEF TypeOK
  <2> HIDE DEF sh
  <2> QED
    BY <2>2, <2>3, FinishShardsEffect DEF Lives, Done
<1> QED
  BY <1>2, <1>3, <1>4

\* A claim reads no source that is exhausted, and no source of a run that has
\* not been created.
LEMMA ClaimReads ==
  ASSUME ClaimNext, NEW s \in Shards, ~ckpt[s].exists, ckpt'[s].exists
  PROVE  /\ run[RunOf[s]].status \in Active
         /\ position[ScopeOf[s]] = "exhausted" => ~Lives(shard'[s])
<1>1. s \in Skipped \cup Chosen
  BY DEF ClaimNext
<1>2. run[RunOf[s]].status \in Active
  BY <1>1 DEF Skipped, Chosen, Claimable, Active
<1>3. ASSUME position[ScopeOf[s]] = "exhausted" PROVE ~Lives(shard'[s])
  <2>1. s \in Skipped
    BY <1>1, <1>3 DEF Chosen, Exhausted
  <2>2. shard'[s] = "succeeded_empty"
    BY <2>1 DEF ClaimNext
  <2> QED
    BY <2>2 DEF Lives, Done
<1> QED
  BY <1>2, <1>3

\* A checkpoint comes into being only in a claim.
LEMMA ExistsKept ==
  ASSUME TypeOK, [Next]_vars, ~ClaimNext, NEW t \in Shards
  PROVE  ckpt'[t].exists = ckpt[t].exists
<1>1. CASE UNCHANGED vars
  BY <1>1 DEF vars
<1>2. CASE \E s \in Shards : SendRequest(s)
  <2>1. PICK s \in Shards : SendRequest(s)
    BY <1>2
  <2> DEFINE c == [ckpt[s] EXCEPT !.calls = @ + 1, !.total = @ + 1, !.retry = "none"]
  <2>2. ckpt' = [ckpt EXCEPT ![s] = c] /\ ckpt[s] \in Checkpoint
    BY <2>1 DEF SendRequest, TypeOK
  <2>3. c.exists = ckpt[s].exists
    BY <2>2 DEF Checkpoint
  <2> HIDE DEF c
  <2> QED
    BY <2>2, <2>3 DEF TypeOK
<1>3. CASE Next /\ \A s \in Shards : ~SendRequest(s)
  BY <1>3, CheckpointsKept DEF CheckpointKept
<1> QED
  BY <1>1, <1>2, <1>3

-----------------------------------------------------------------------------
(* The invariant.                                                          *)

\* Of the shards of active runs none shares its source with another.
LEMMA OneReaderStep ==
  ASSUME SourceInv, TypeOK', [Next]_vars
  PROVE  OneReader'
<1> USE DEF SourceInv, WorkInv, StoreInv, KernelInv
<1> SUFFICES ASSUME NEW s \in Shards, NEW t \in Shards, ScopeOf[s] = ScopeOf[t],
                    run'[RunOf[s]].status \in Active, run'[RunOf[t]].status \in Active
             PROVE  s = t
  BY DEF OneReader
<1>1. RunOf[s] \in Runs /\ RunOf[t] \in Runs
  BY KernelConstants
<1>2. CASE RunOf[s] = RunOf[t]
  BY <1>2, KernelConstants
<1>3. ASSUME NEW x \in {s, t}, NEW y \in {s, t}, RunOf[x] # RunOf[y], CreateRun(RunOf[x])
      PROVE  FALSE
  <2>1. run'[RunOf[y]] = run[RunOf[y]]
    BY <1>1, <1>3 DEF CreateRun, TypeOK
  <2>2. run[RunOf[y]].status \notin Active
    BY <1>1, <1>3 DEF CreateRun, ShardsOf
  <2> QED
    BY <2>1, <2>2
<1>4. RunsMoveOn
  BY RunsStep
<1> QED
  BY <1>1, <1>2, <1>3, <1>4 DEF RunsMoveOn, OneReader

\* Who reads an exhausted source reads no more of it.
LEMMA SourceRowsStep ==
  ASSUME SourceInv, TypeOK', [Next]_vars
  PROVE  SourceRows'
<1> USE DEF SourceInv, WorkInv, StoreInv, KernelInv
<1> SUFFICES ASSUME NEW s \in Shards PROVE SourceRow(s)'
  BY DEF SourceRows
<1>1. SourceRow(s) /\ RunOf[s] \in Runs /\ ScopeOf[s] \in Scopes
  BY KernelConstants DEF SourceRows
<1>2. run'[RunOf[s]].status = "none" => ~ckpt'[s].exists
  <2>1. run'[RunOf[s]].status = "none" => run[RunOf[s]].status = "none"
    BY <1>1, RunsStep DEF RunsMoveOn
  <2> QED
    BY <1>1, <2>1, ExistsKept, ClaimReads DEF SourceRow, Active
<1>3. ASSUME ckpt'[s].exists, position'[ScopeOf[s]] = "exhausted", Lives(shard'[s])
      PROVE  FALSE
  <2>1. Lives(shard[s])
    BY <1>3, LivesStep
  <2>2. CASE position[ScopeOf[s]] = "exhausted"
    BY <1>1, <1>3, <2>1, <2>2, ExistsKept, ClaimReads DEF SourceRow
  <2>3. CASE position[ScopeOf[s]] # "exhausted"
    <3>1. PICK t \in Shards, n \in CallNos :
            SettleSuccess(t, n) /\ ScopeOf[t] = ScopeOf[s] /\ ~ledger[t][n].resp.more
      BY <1>1, <1>3, <2>3, PositionMoves
    <3>2. run[RunOf[t]].status \in Active /\ ~Lives(shard'[t])
      BY <3>1, SettlerReads
    <3>3. t # s
      BY <1>3, <3>2
    <3>4. run[RunOf[s]].status \notin Active
      BY <3>1, <3>2, <3>3 DEF OneReader
    <3>5. ckpt[s].exists
      <4>1. WorkRow(t)
        BY DEF WorkRows
      <4>2. ckpt'[s] = ckpt[s]
        BY <3>1, <3>3, <4>1, SettleEffect
      <4> QED
        BY <1>3, <4>2
    <3>6. run[RunOf[s]].status \in Done
      <4>1. run[RunOf[s]].status # "none"
        BY <1>1, <3>5 DEF SourceRow
      <4> QED
        BY <1>1, <3>4, <4>1 DEF TypeOK, RunRecord, RunStatus, Active, Done
    <3>7. shard[s] \in Done
      BY <1>1, <3>6 DEF RunRows, AllDone, ShardsOf
    <3> QED
      BY <2>1, <3>7 DEF Lives
  <2> QED
    BY <2>2, <2>3
<1> QED
  BY <1>2, <1>3 DEF SourceRow

\* The invariant of the source positions holds at the start, where no run is created.
LEMMA SourceInitInv == Init => SourceInv
<1> SUFFICES ASSUME Init PROVE SourceInv
  OBVIOUS
<1>1. WorkInv
  BY WorkInitInv
<1>2. \A s \in Shards : run[RunOf[s]].status = "none" /\ ~ckpt[s].exists
  BY KernelConstants DEF Init, NoCheckpoint
<1> QED
  BY <1>1, <1>2 DEF SourceInv, OneReader, SourceRows, SourceRow, Active

\* Every kernel step keeps it.
LEMMA SourceStepInv == SourceInv /\ [Next]_vars => SourceInv'
<1> SUFFICES ASSUME SourceInv, [Next]_vars PROVE SourceInv'
  OBVIOUS
<1>1. WorkInv'
  BY WorkStepInv DEF SourceInv
<1>2. TypeOK'
  BY <1>1 DEF WorkInv, StoreInv, KernelInv
<1> QED
  BY <1>1, <1>2, OneReaderStep, SourceRowsStep DEF SourceInv

\* Active runs share no source, a run reads nothing before it is created, and
\* whoever has begun to read a source that is now exhausted is done with it.
THEOREM SourceInvariance == Spec => []SourceInv
BY SourceInitInv, SourceStepInv, PTL DEF Spec

\* A source read to its end stays so, and no later request is sent for it: not
\* by the run that has read it, nor by one that was created before or after,
\* however many pause, crash, or settle late answers.
THEOREM ExhaustedStays == Spec => ExhaustedIsFinal
<1>1. ASSUME SourceInv, SourceInv', [Next]_vars, NEW s \in Shards,
             position[ScopeOf[s]] = "exhausted"
      PROVE  position'[ScopeOf[s]] = "exhausted" /\ ckpt'[s].total = ckpt[s].total
  <2> USE <1>1 DEF SourceInv, WorkInv, StoreInv, KernelInv
  <2>1. ScopeOf[s] \in Scopes
    BY KernelConstants
  <2>2. position'[ScopeOf[s]] = "exhausted"
    <3>1. SUFFICES ASSUME position'[ScopeOf[s]] # position[ScopeOf[s]] PROVE FALSE
      OBVIOUS
    <3>2. PICK t \in Shards, n \in CallNos : SettleSuccess(t, n) /\ ScopeOf[t] = ScopeOf[s]
      BY <2>1, <3>1, PositionMoves
    <3> QED
      BY <3>2, SettlerReads DEF SourceRows, SourceRow
  <2>3. CASE UNCHANGED vars
    BY <2>3 DEF vars
  <2>4. CASE ClaimNext
    <3>1. ckpt'[s] = ckpt[s] \/ (~ckpt[s].exists /\ ckpt'[s] = NewCheckpoint(s))
      BY <2>4 DEF ClaimNext
    <3>2. NewCheckpoint(s).total = 0
      BY DEF NewCheckpoint, NoCheckpoint
    <3> QED
      BY <2>2, <3>1, <3>2 DEF CheckpointRows
  <2>5. ASSUME NEW t \in Shards, SendRequest(t)
        PROVE  ckpt'[s].total = ckpt[s].total
    <3>1. MayRequest(t)
      BY <2>5 DEF SendRequest, MayDispatch
    <3>2. ckpt[t].exists /\ Lives(shard[t])
      BY <3>1, RequesterWorks DEF Lives, Done
    <3>3. t # s
      BY <3>2 DEF SourceRows, SourceRow
    <3> QED
      BY <2>5, <3>3 DEF SendRequest
  <2>6. CASE Next /\ ~ClaimNext /\ \A t \in Shards : ~SendRequest(t)
    BY <2>2, <2>6, CheckpointsKept DEF CheckpointKept
  <2> QED
    BY <2>2, <2>3, <2>4, <2>5, <2>6
<1>2. SourceInv /\ SourceInv' /\ [Next]_vars =>
        [\A s \in Shards : position[ScopeOf[s]] = "exhausted" =>
           /\ position'[ScopeOf[s]] = "exhausted"
           /\ ckpt'[s].total = ckpt[s].total]_vars
  BY <1>1
<1> QED
  BY SourceInvariance, <1>2, PTL DEF Spec, ExhaustedIsFinal

-----------------------------------------------------------------------------
(* How a lease and its attempt move.                                       *)

\* The lease ends, and with it the attempt, unless its answer is stored.
Ended(a, b) ==
  /\ a.status = "active" /\ b.status \in {"released", "expired"}
  /\ b.started = a.started
  /\ b.attempt \in {a.attempt, IF a.started THEN "request_outcome_unknown" ELSE "failed"}

\* Nothing changes, but that the lease may lapse.
Lapsed(a, b) ==
  /\ a.status = "active" /\ b.status = "active"
  /\ b.started = a.started /\ b.attempt = a.attempt

Issued(a, b) ==
  /\ a = NoLease /\ b.status = "active" /\ b.attempt = "claimed" /\ ~b.started

\* The request of the attempt is sent.
Used(a, b) ==
  /\ a.status = "active" /\ a.attempt = "claimed" /\ ~a.started
  /\ b.status = "active" /\ b.attempt = "request_started" /\ b.started

\* The attempt is settled, after its lease has ended.
Judged(a, b) ==
  /\ a.status \in {"released", "expired"} /\ b = [a EXCEPT !.attempt = b.attempt]
  /\ \/ a.attempt = "request_started" /\ b.attempt \in {"succeeded", "failed", "cancelled_late"}
     \/ a.attempt = "request_outcome_unknown" /\ b.attempt = "cancelled_late"

LeaseMove(s, f) ==
  LET a == lease[s][f]
      b == lease'[s][f]
  IN
  \/ b = a
  \/ Ended(a, b)
  \/ Lapsed(a, b)
  \/ Issued(a, b) /\ f = fence[s] + 1 /\ fence'[s] = f
  \/ Used(a, b) /\ f = fence[s] /\ SendRequest(s)
  \/ Judged(a, b)

\* Beyond the highest fence there is no lease, and an active one says in both
\* ways whether its request has been sent.
AttemptRow(s, f) ==
  /\ f > fence[s] => lease[s][f] = NoLease
  /\ lease[s][f].status = "active" =>
       lease[s][f].attempt = IF lease[s][f].started THEN "request_started" ELSE "claimed"
AttemptRows == \A s \in Shards, f \in Fences : AttemptRow(s, f)

\* The lease that is held ends.
LEMMA EndLeaseMoves ==
  ASSUME TypeOK, NEW s \in Shards, Held(s), NEW st \in {"released", "expired"}, NEW at, NEW why,
         at = IF Current(s).started THEN "request_outcome_unknown" ELSE "failed",
         lease' = EndLease(s, st, at, why), NEW t \in Shards, NEW f \in Fences
  PROVE  LeaseMove(t, f)
<1> DEFINE l == [lease[s][fence[s]] EXCEPT !.status = st, !.attempt = at,
                                           !.reason = why, !.lapsed = FALSE]
<1>1. lease[s][fence[s]] \in Lease /\ fence[s] \in Fences
  BY CurrentType DEF Current
<1>2. l.status = st /\ l.attempt = at /\ l.started = lease[s][fence[s]].started
  BY <1>1 DEF Lease
<1>3. lease' = [lease EXCEPT ![s][fence[s]] = l]
  BY DEF EndLease
<1> HIDE DEF l
<1>4. (t = s /\ f = fence[s] /\ lease'[t][f] = l) \/ lease'[t][f] = lease[t][f]
  BY <1>3 DEF TypeOK
<1> QED
  BY <1>2, <1>4 DEF LeaseMove, Ended, Held, Current

\* An unused lease is given back.
LEMMA GiveBackMoves ==
  ASSUME TypeOK, NEW r \in Runs, NEW why, lease' = GiveBack(r, why),
         NEW t \in Shards, NEW f \in Fences
  PROVE  LeaseMove(t, f)
<1>1. CASE t \notin HeldIn(r) \ Busy(r)
  BY <1>1 DEF GiveBack, LeaseMove
<1>2. CASE t \in HeldIn(r) \ Busy(r)
  <2> DEFINE l == [lease[t][fence[t]] EXCEPT !.status = "released", !.attempt = "failed",
                                             !.reason = why, !.lapsed = FALSE]
  <2>1. Held(t) /\ ~Current(t).started
    BY <1>2 DEF HeldIn, Busy
  <2>2. lease[t][fence[t]] \in Lease
    BY <2>1, CurrentType DEF Current
  <2>3. l.status = "released" /\ l.attempt = "failed" /\ l.started = lease[t][fence[t]].started
    BY <2>2 DEF Lease
  <2>4. lease'[t] = [lease[t] EXCEPT ![fence[t]] = l]
    BY <1>2 DEF GiveBack
  <2> HIDE DEF l
  <2>5. (f = fence[t] /\ lease'[t][f] = l) \/ lease'[t][f] = lease[t][f]
    BY <2>4 DEF TypeOK
  <2> QED
    BY <2>1, <2>3, <2>5 DEF LeaseMove, Ended, Held, Current
<1> QED
  BY <1>1, <1>2

\* Leases are recovered.
LEMMA RecoverMoves ==
  ASSUME TypeOK, LeaseRowsValid, NEW Gone \in SUBSET {s \in Shards : Held(s)},
         RecoverLeases(Gone), NEW t \in Shards, NEW f \in Fences
  PROVE  LeaseMove(t, f)
<1>1. CASE t \notin Gone
  BY <1>1, RecoverFalls DEF LeaseMove
<1>2. CASE t \in Gone
  <2>1. Held(t) /\ Current(t) \in Lease
    BY <1>2, CurrentType
  <2>2. /\ RecoveredLease(t).status = "expired"
        /\ RecoveredLease(t).started = Current(t).started
        /\ RecoveredLease(t).attempt
             \in {Current(t).attempt,
                  IF Current(t).started THEN "request_outcome_unknown" ELSE "failed"}
    BY <2>1 DEF RecoveredLease, Lease
  <2>3. (f = fence[t] /\ lease'[t][f] = RecoveredLease(t)) \/ lease'[t][f] = lease[t][f]
    BY <1>2, RecoverFalls
  <2> QED
    BY <2>1, <2>2, <2>3 DEF LeaseMove, Ended, Held, Current
<1> QED
  BY <1>1, <1>2

\* An attempt is settled.
LEMMA CloseMoves ==
  ASSUME TypeOK, NEW s \in Shards, NEW n \in CallNos, NEW kind, NEW at, Close(s, n, kind, at),
         Settleable(s, n),
         \/ at = "cancelled_late"
         \/ at \in {"succeeded", "failed"} /\ AnswerLease(s, n).attempt = "request_started",
         NEW t \in Shards, NEW f \in Fences
  PROVE  LeaseMove(t, f)
<1> DEFINE g == ledger[s][n].by
           a == lease[s][g]
           l == [a EXCEPT !.attempt = at]
<1>1. lease' = [lease EXCEPT ![s][g] = l]
  BY DEF Close
<1>2. /\ a.status \in {"released", "expired"}
      /\ a.attempt \in {"request_started", "request_outcome_unknown"}
      /\ a.attempt = "request_outcome_unknown" => at = "cancelled_late"
  BY DEF Settleable, AnswerLease
<1>3. a \in Lease /\ g \in Fences => l.attempt = at /\ l = [a EXCEPT !.attempt = l.attempt]
  BY DEF Lease
<1>4. g \in Fences => a \in Lease
  BY DEF TypeOK
<1> HIDE DEF l, a
<1>5. (t = s /\ f = g /\ lease'[t][f] = l) \/ lease'[t][f] = lease[t][f]
  BY <1>1 DEF TypeOK
<1>6. CASE t = s /\ f = g /\ lease'[t][f] = l
  <2>1. lease[t][f] = a /\ l.attempt = at /\ l = [a EXCEPT !.attempt = l.attempt]
    BY <1>3, <1>4, <1>6 DEF a
  <2>2. Judged(a, l)
    BY <1>2, <2>1 DEF Judged
  <2> QED
    BY <1>6, <2>1, <2>2 DEF LeaseMove
<1> QED
  BY <1>5, <1>6 DEF LeaseMove

\* Every step moves every lease, and its attempt, in one of these ways.
LEMMA LeasesMove ==
  ASSUME StoreInv, AttemptRows, [Next]_vars, NEW t \in Shards, NEW f \in Fences
  PROVE  LeaseMove(t, f)
<1> USE DEF StoreInv, KernelInv
<1>1. ASSUME NEW r \in Runs, RequestPause(r) \/ RequestCancel(r) PROVE LeaseMove(t, f)
  BY <1>1, GiveBackMoves DEF RequestPause, RequestCancel
<1>2. ASSUME Start \/ RecoverExpired PROVE LeaseMove(t, f)
  <2>1. PICK Gone \in SUBSET {s \in Shards : Held(s)} : RecoverLeases(Gone)
    BY <1>2 DEF Start, RecoverExpired
  <2> QED
    BY <2>1, RecoverMoves
<1>3. ASSUME ClaimNext PROVE LeaseMove(t, f)
  <2>1. CASE t \notin Chosen
    BY <1>3, <2>1 DEF ClaimNext, LeaseMove
  <2>2. CASE t \in Chosen
    <3>1. /\ lease'[t] = [lease[t] EXCEPT ![fence[t] + 1] = NewLease(t)]
          /\ fence'[t] = fence[t] + 1 /\ fence[t] \in Nat
      BY <1>3, <2>2 DEF ClaimNext, TypeOK
    <3>2. f # fence[t] + 1 => lease'[t][f] = lease[t][f]
      BY <3>1 DEF TypeOK
    <3>3. f = fence[t] + 1 => lease[t][f] = NoLease /\ lease'[t][f] = NewLease(t)
      BY <3>1 DEF TypeOK, AttemptRows, AttemptRow
    <3>4. NewLease(t).status = "active" /\ NewLease(t).attempt = "claimed" /\ ~NewLease(t).started
      BY DEF NewLease, NoLease
    <3> HIDE DEF AttemptRows
    <3> QED
      BY <3>1, <3>2, <3>3, <3>4 DEF LeaseMove, Issued
  <2> QED
    BY <2>1, <2>2
<1>4. ASSUME NEW s \in Shards, Lapse(s) PROVE LeaseMove(t, f)
  <2> DEFINE l == [lease[s][fence[s]] EXCEPT !.lapsed = TRUE]
  <2>1. lease[s][fence[s]] \in Lease /\ Held(s)
    BY <1>4, CurrentType DEF Lapse, Current
  <2>2. /\ l.status = lease[s][fence[s]].status /\ l.started = lease[s][fence[s]].started
        /\ l.attempt = lease[s][fence[s]].attempt
    BY <2>1 DEF Lease
  <2>3. lease' = [lease EXCEPT ![s][fence[s]] = l]
    BY <1>4 DEF Lapse
  <2> HIDE DEF l
  <2>4. (t = s /\ f = fence[s] /\ lease'[t][f] = l) \/ lease'[t][f] = lease[t][f]
    BY <2>3 DEF TypeOK
  <2> QED
    BY <2>1, <2>2, <2>4 DEF LeaseMove, Lapsed, Held, Current
<1>5. ASSUME NEW s \in Shards, Defer(s) PROVE LeaseMove(t, f)
  <2>1. Held(s) /\ ~Current(s).started
    BY <1>5 DEF Defer, MayDispatch, MayRequest, Usable
  <2> QED
    BY <1>5, <2>1, EndLeaseMoves DEF Defer
<1>6. ASSUME NEW s \in Shards, SendRequest(s) PROVE LeaseMove(t, f)
  <2> DEFINE l == [lease[s][fence[s]] EXCEPT !.attempt = "request_started", !.started = TRUE]
  <2>1. /\ lease[s][fence[s]] \in Lease /\ Held(s)
        /\ Current(s).attempt = "claimed" /\ ~Current(s).started
    BY <1>6, CurrentType DEF SendRequest, MayDispatch, MayRequest, Usable, Current
  <2>2. l.status = lease[s][fence[s]].status /\ l.started /\ l.attempt = "request_started"
    BY <2>1 DEF Lease
  <2>3. lease' = [lease EXCEPT ![s][fence[s]] = l]
    BY <1>6 DEF SendRequest
  <2> HIDE DEF l
  <2>4. (t = s /\ f = fence[s] /\ lease'[t][f] = l) \/ lease'[t][f] = lease[t][f]
    BY <2>3 DEF TypeOK
  <2> QED
    BY <1>6, <2>1, <2>2, <2>4 DEF LeaseMove, Used, Held, Current
<1>7. ASSUME NEW s \in Shards, DispatchFails(s) PROVE LeaseMove(t, f)
  BY <1>7, EndLeaseMoves DEF DispatchFails
<1>8. ASSUME NEW s \in Shards, NEW n \in CallNos, NEW resp \in Responses,
             PersistResponse(s, n, resp)
      PROVE  LeaseMove(t, f)
  <2> DEFINE g == ledger[s][n].by
             l == [lease[s][g] EXCEPT !.status = "released", !.lapsed = FALSE,
                                      !.reason = "RESPONSE_RECEIVED_PENDING_SETTLEMENT"]
  <2>1. \/ lease' = lease
        \/ lease' = [lease EXCEPT ![s][g] = l] /\ lease[s][g].status = "active"
    BY <1>8 DEF PersistResponse
  <2>2. g \in Fences => /\ l.status = "released" /\ l.started = lease[s][g].started
                        /\ l.attempt = lease[s][g].attempt
    BY DEF TypeOK, Lease
  <2> HIDE DEF g, l
  <2>3. \/ /\ t = s /\ f = g /\ lease'[t][f] = l /\ lease[s][g].status = "active"
        \/ lease'[t][f] = lease[t][f]
    BY <2>1 DEF TypeOK
  <2> QED
    BY <2>2, <2>3 DEF LeaseMove, Ended
<1>9. ASSUME NEW s \in Shards, NEW n \in CallNos, SettleLate(s, n) PROVE LeaseMove(t, f)
  <2>1. Settleable(s, n) /\ Close(s, n, "cancelled_late", "cancelled_late")
    BY <1>9 DEF SettleLate
  <2> QED
    BY <2>1, CloseMoves
<1>10. ASSUME NEW s \in Shards, NEW n \in CallNos, SettleSuccess(s, n) PROVE LeaseMove(t, f)
  <2>1. Settleable(s, n) /\ OnTime(s, n) /\ Close(s, n, "success", "succeeded")
    BY <1>10 DEF SettleSuccess
  <2>2. AnswerLease(s, n).attempt = "request_started"
    BY <2>1 DEF OnTime, Late, Settleable
  <2> QED
    BY <2>1, <2>2, CloseMoves
<1>11. ASSUME NEW s \in Shards, NEW n \in CallNos, SettleFailure(s, n) PROVE LeaseMove(t, f)
  <2>1. Settleable(s, n) /\ OnTime(s, n) /\ Close(s, n, "failure", "failed")
    BY <1>11 DEF SettleFailure
  <2>2. AnswerLease(s, n).attempt = "request_started"
    BY <2>1 DEF OnTime, Late, Settleable
  <2> QED
    BY <2>1, <2>2, CloseMoves
<1>12. ASSUME lease' = lease PROVE LeaseMove(t, f)
  BY <1>12 DEF LeaseMove
<1> QED
  BY <1>1, <1>2, <1>3, <1>4, <1>5, <1>6, <1>7, <1>8, <1>9, <1>10, <1>11, <1>12
     DEF Next, vars, CreateRun, Resume, RetryDue, WindowOpens, Prepare, CallLost

\* Fences only rise, by one, in a claim.
LEMMA FenceMoves ==
  ASSUME StoreInv, [Next]_vars, NEW t \in Shards
  PROVE  \/ fence'[t] = fence[t]
         \/ ClaimNext /\ t \in Chosen /\ fence'[t] = fence[t] + 1
<1> USE DEF StoreInv, KernelInv
<1>1. CASE UNCHANGED vars
  BY <1>1 DEF vars
<1>2. CASE Next /\ ~ClaimNext
  BY <1>2, OnlyClaimsMakeLeases DEF NoNewLease
<1>3. CASE ClaimNext
  BY <1>3 DEF ClaimNext
<1> QED
  BY <1>1, <1>2, <1>3

\* Every kernel step keeps the attempts in line with their leases.
LEMMA AttemptRowsStep ==
  ASSUME StoreInv, AttemptRows, TypeOK', [Next]_vars
  PROVE  AttemptRows'
<1> SUFFICES ASSUME NEW s \in Shards, NEW f \in Fences PROVE AttemptRow(s, f)'
  BY DEF AttemptRows
<1>1. LeaseMove(s, f) /\ AttemptRow(s, f) /\ fence'[s] \in {fence[s], fence[s] + 1}
  BY LeasesMove, FenceMoves DEF AttemptRows
<1>2. fence[s] \in Nat /\ fence'[s] \in Nat /\ f \in Nat /\ NoLease.status = "none"
  BY DEF StoreInv, KernelInv, TypeOK, Fences, NoLease
<1>3. CASE lease'[s][f] = lease[s][f]
  BY <1>1, <1>2, <1>3 DEF AttemptRow
<1>4. CASE lease[s][f].status # "none"
  <2>1. f <= fence[s]
    BY <1>1, <1>2, <1>4 DEF AttemptRow
  <2>2. ~(f > fence'[s])
    BY <1>1, <1>2, <2>1
  <2>3. Judged(lease[s][f], lease'[s][f]) => lease'[s][f].status # "active"
    <3>1. lease[s][f] \in Lease
      BY DEF StoreInv, KernelInv, TypeOK
    <3> QED
      BY <3>1 DEF Judged, Lease
  <2> QED
    BY <1>1, <1>2, <1>4, <2>2, <2>3 DEF AttemptRow, LeaseMove, Ended, Lapsed, Issued, Used
<1>5. CASE Issued(lease[s][f], lease'[s][f]) /\ fence'[s] = f
  BY <1>2, <1>5 DEF AttemptRow, Issued
<1> QED
  BY <1>1, <1>3, <1>4, <1>5 DEF LeaseMove, Ended, Lapsed, Used, Judged

\* A lease moves as the store's tables of leases and attempts allow.
LEMMA AttemptRowMoves ==
  ASSUME StoreInv, AttemptRows, [Next]_vars, NEW s \in Shards, NEW f \in Fences
  PROVE  /\ LeaseStep(lease[s][f], lease'[s][f])
         /\ Moves(AttemptTransitions, lease[s][f].attempt, lease'[s][f].attempt)
<1> DEFINE a == lease[s][f]
           b == lease'[s][f]
<1>1. LeaseMove(s, f) /\ AttemptRow(s, f) /\ a \in Lease
  BY LeasesMove DEF AttemptRows, StoreInv, KernelInv, TypeOK
<1>2. a = NoLease => a.status = "none" /\ a.attempt = "none"
  BY DEF NoLease
<1>3. [a EXCEPT !.attempt = a.attempt] = a
  BY <1>1 DEF Lease
<1>4. /\ AttemptTransitions["none"] = {"claimed"}
      /\ AttemptTransitions["claimed"] = {"request_started", "failed"}
      /\ AttemptTransitions["request_started"]
           = {"succeeded", "failed", "request_outcome_unknown", "cancelled_late"}
      /\ AttemptTransitions["request_outcome_unknown"] = {"cancelled_late"}
  BY DEF AttemptTransitions, AttemptStatus
<1>5. LeaseStep(a, b)
  <2>1. b = a => LeaseStep(a, b)
    BY <1>3 DEF LeaseStep
  <2>2. Judged(a, b) => LeaseStep(a, b)
    BY DEF LeaseStep, Judged
  <2> QED
    BY <1>1, <1>2, <2>1, <2>2 DEF LeaseMove, Ended, Lapsed, Issued, Used, LeaseStep
<1>6. Moves(AttemptTransitions, a.attempt, b.attempt)
  <2>1. CASE b = a \/ Lapsed(a, b)
    BY <2>1 DEF Lapsed, Moves
  <2>2. CASE Ended(a, b)
    BY <1>1, <1>4, <2>2 DEF Ended, AttemptRow, Moves
  <2>3. CASE Issued(a, b) \/ Used(a, b)
    BY <1>2, <1>4, <2>3 DEF Issued, Used, Moves
  <2>4. CASE Judged(a, b)
    BY <1>4, <2>4 DEF Judged, Moves
  <2> QED
    BY <1>1, <2>1, <2>2, <2>3, <2>4 DEF LeaseMove
<1> QED
  BY <1>5, <1>6

-----------------------------------------------------------------------------
(* The rows of jobs and their retry times.                                 *)

\* The job of a shard at work is at work; a retry time that is still to come is
\* that of the job of a shard that waits, which has a checkpoint.
JobRow(s) ==
  /\ shard[s] \in {"running", "pause_requested"} => job[s].status = "running"
  /\ ckpt[s].retry = "later" => /\ job[s].status = "retry_scheduled" /\ job[s].next = "later"
                                /\ shard[s] \in {"retry_scheduled", "paused"}
  /\ ~ckpt[s].exists => ckpt[s].retry = "none" /\ shard[s] # "retry_scheduled"
JobRows == \A s \in Shards : JobRow(s)

\* Jobs that are not touched, of shards that stay or have ended.
LEMMA JobRowKept ==
  ASSUME NEW t \in Shards, JobRow(t), job'[t] = job[t],
         shard'[t] = shard[t] \/ (shard[t] \in Done /\ shard'[t] \in Done),
         ckpt'[t].retry = ckpt[t].retry, ckpt'[t].exists = ckpt[t].exists
  PROVE  JobRow(t)'
BY DEF JobRow, Done

\* Who does not work holds no lease, and who waits has no stored answer.
LEMMA IdleShard ==
  ASSUME StoreInv, NEW t \in Shards, shard[t] \notin Working
  PROVE  /\ ~Held(t)
         /\ shard[t] \notin Done => \A n \in CallNos : ledger[t][n].status # "response_received"
<1>1. ~Held(t)
  BY HeldAtWork DEF StoreInv, KernelInv
<1>2. ASSUME shard[t] \notin Done, NEW n \in CallNos PROVE ledger[t][n].status # "response_received"
  BY <1>2 DEF StoreInv, LedgerRows, LedgerRow, Open
<1> QED
  BY <1>1, <1>2

\* What the bridge says of the job of a shard.
LEMMA BridgedJob ==
  ASSUME NEW r \in Runs, BridgeOK(r), NEW t \in ShardsOf(r)
  PROVE  /\ shard[t] \in {"running", "pause_requested"} => job[t].status = "running"
         /\ shard[t] = "queued" => job[t].status = "queued"
         /\ shard[t] = "paused" => job[t].status \in {"queued", "retry_scheduled"}
BY DEF BridgeOK, ChildStatuses

\* And after the step.
LEMMA BridgedJobAfter ==
  ASSUME NEW r \in Runs, BridgeOK(r)', NEW t \in ShardsOf(r)
  PROVE  shard'[t] \in {"running", "pause_requested"} => job'[t].status = "running"
BY DEF BridgeOK, ChildStatuses

\* The jobs after a pause is asked for.
LEMMA PauseKeepsJobs ==
  ASSUME WorkInv, JobRows, NEW r \in Runs, RequestPause(r), NEW t \in Shards
  PROVE  JobRow(t)'
<1> USE DEF WorkInv
<1>0. JobRow(t) /\ ckpt' = ckpt /\ BridgeOK(r)'
  BY DEF JobRows, RequestPause
<1>1. CASE t \notin ShardsOf(r)
  <2>1. job'[t] = job[t] /\ shard'[t] = shard[t]
    BY <1>1 DEF RequestPause, HeldIn
  <2> QED
    BY <1>0, <2>1, JobRowKept
<1>2. CASE t \in ShardsOf(r)
  <2>1. shard'[t] \in {"running", "pause_requested"} => job'[t].status = "running"
    BY <1>0, <1>2, BridgedJobAfter
  <2>2. ASSUME ckpt[t].retry = "later"
        PROVE  /\ job'[t].status = "retry_scheduled" /\ job'[t].next = "later"
               /\ shard'[t] = "paused"
    <3>1. shard[t] \in {"retry_scheduled", "paused"}
      BY <1>0, <2>2 DEF JobRow
    <3>2. ~Held(t) /\ \A n \in CallNos : ledger[t][n].status # "response_received"
      BY <3>1, IdleShard DEF Working, Done
    <3>3. t \notin Busy(r) /\ t \notin HeldIn(r)
      BY <1>2, <3>2, BusyMeans DEF HeldIn
    <3>4. job'[t] = job[t] /\ shard'[t] = "paused"
      BY <1>2, <3>1, <3>3 DEF RequestPause, Done
    <3> QED
      BY <1>0, <2>2, <3>4 DEF JobRow
  <2>3. shard'[t] # "retry_scheduled"
    BY <1>2 DEF RequestPause, Done
  <2> QED
    BY <1>0, <2>1, <2>2, <2>3 DEF JobRow
<1> QED
  BY <1>1, <1>2

\* The jobs after a run is resumed.
LEMMA ResumeKeepsJobs ==
  ASSUME WorkInv, JobRows, NEW r \in Runs, Resume(r), NEW t \in Shards
  PROVE  JobRow(t)'
<1> USE DEF WorkInv, StoreInv, KernelInv
<1>0. /\ JobRow(t) /\ BridgeOK(r)' /\ ckpt[t] \in Checkpoint /\ job[t] \in JobRecord
  BY DEF JobRows, Resume, TypeOK
<1>1. CASE ~(t \in ShardsOf(r) /\ shard[t] = "paused")
  <2>1. job'[t] = job[t] /\ shard'[t] = shard[t] /\ ckpt'[t] = ckpt[t]
    BY <1>1 DEF Resume
  <2> QED
    BY <1>0, <2>1, JobRowKept
<1>2. CASE t \in ShardsOf(r) /\ shard[t] = "paused"
  <2>1. shard'[t] \in {"queued", "retry_scheduled"}
    BY <1>2 DEF Resume
  <2>2. CASE ckpt[t].retry = "later"
    <3>1. ckpt[t].exists
      BY <1>0, <2>2 DEF JobRow
    <3>2. /\ job'[t] = [job[t] EXCEPT !.status = "retry_scheduled", !.next = "later"]
          /\ shard'[t] = "retry_scheduled"
          /\ ckpt'[t] = [ckpt[t] EXCEPT !.sealed = IF @ = 0 THEN 0 ELSE run[r].epoch + 1,
                                        !.retry = @]
      BY <1>2, <2>2, <3>1 DEF Resume
    <3>3. job'[t].status = "retry_scheduled" /\ job'[t].next = "later"
      BY <1>0, <3>2 DEF JobRecord
    <3>4. ckpt'[t].exists
      BY <1>0, <3>1, <3>2 DEF Checkpoint
    <3> QED
      BY <3>2, <3>3, <3>4 DEF JobRow
  <2>3. CASE ckpt[t].retry # "later"
    <3>1. shard'[t] = "queued"
      BY <1>2, <2>3 DEF Resume
    <3>2. ckpt'[t].retry = "none" \/ (~ckpt[t].exists /\ ckpt'[t] = ckpt[t])
      BY <1>0, <1>2, <2>3 DEF Resume, Checkpoint
    <3>3. ckpt'[t].retry = "none"
      BY <1>0, <3>2 DEF JobRow
    <3> QED
      BY <3>1, <3>3 DEF JobRow
  <2> QED
    BY <2>2, <2>3
<1> QED
  BY <1>1, <1>2

\* The jobs after a run is cancelled.
LEMMA CancelKeepsJobs ==
  ASSUME WorkInv, JobRows, NEW r \in Runs, RequestCancel(r), NEW t \in Shards
  PROVE  JobRow(t)'
<1> USE DEF WorkInv, StoreInv, KernelInv
<1>0. /\ JobRow(t) /\ BridgeOK(r)' /\ ckpt[t] \in Checkpoint /\ WorkRow(t)
  BY DEF JobRows, RequestCancel, TypeOK, WorkRows
<1>1. CASE t \notin ShardsOf(r)
  <2>1. job'[t] = job[t] /\ shard'[t] = shard[t] /\ ckpt'[t] = ckpt[t]
    BY <1>1 DEF RequestCancel
  <2> QED
    BY <1>0, <2>1, JobRowKept
<1>2. CASE t \in ShardsOf(r)
  <2>1. shard'[t] \in {"cancel_requested", "cancelled"}
    BY <1>2 DEF RequestCancel
  <2>2. ckpt'[t].retry # "later"
    <3>1. CASE ckpt[t].exists /\ ~ckpt[t].done
      <4>1. ckpt'[t] = [ckpt[t] EXCEPT !.sealed = 0, !.retry = "none", !.done = TRUE]
        BY <1>2, <3>1 DEF RequestCancel
      <4> QED
        BY <1>0, <4>1 DEF Checkpoint
    <3>2. CASE ~(ckpt[t].exists /\ ~ckpt[t].done)
      <4>1. ckpt'[t] = ckpt[t]
        BY <3>2 DEF RequestCancel
      <4>2. ckpt[t].retry # "later"
        BY <1>0, <3>2 DEF JobRow, WorkRow, WaitRow, GoesOn, Done
      <4> QED
        BY <4>1, <4>2
    <3> QED
      BY <3>1, <3>2
  <2>3. ~ckpt'[t].exists => ckpt'[t].retry = "none"
    <3>1. CASE ckpt[t].exists /\ ~ckpt[t].done
      <4>1. ckpt'[t] = [ckpt[t] EXCEPT !.sealed = 0, !.retry = "none", !.done = TRUE]
        BY <1>2, <3>1 DEF RequestCancel
      <4> QED
        BY <1>0, <4>1 DEF Checkpoint
    <3>2. CASE ~(ckpt[t].exists /\ ~ckpt[t].done)
      BY <1>0, <3>2 DEF RequestCancel, JobRow
    <3> QED
      BY <3>1, <3>2
  <2> QED
    BY <2>1, <2>2, <2>3 DEF JobRow
<1> QED
  BY <1>1, <1>2

\* The jobs after a recovery.
LEMMA RecoverKeepsJobs ==
  ASSUME WorkInv, JobRows, NEW Gone \in SUBSET {s \in Shards : Held(s)}, RecoverLeases(Gone),
         ckpt' = ckpt, NEW t \in Shards
  PROVE  JobRow(t)'
<1> USE DEF WorkInv, StoreInv, KernelInv
<1>0. JobRow(t)
  BY DEF JobRows
<1>1. CASE t \notin Gone
  <2>1. job'[t] = job[t]
    BY <1>1 DEF RecoverLeases
  <2>2. shard'[t] = shard[t] \/ (shard[t] \in Done /\ shard'[t] \in Done)
    BY <1>1, RecoverPlaces DEF Done
  <2> QED
    BY <1>0, <2>1, <2>2, JobRowKept
<1>2. CASE t \in Gone
  <2>1. Held(t) /\ shard[t] \in Working
    BY <1>2, HeldAtWork
  <2>2. ckpt[t].retry # "later"
    BY <1>0, <2>1 DEF JobRow, Working
  <2>3. shard'[t] \in Done \cup {"queued", "paused"}
    BY <1>2, RecoverPlaces
  <2> QED
    BY <1>0, <2>2, <2>3 DEF JobRow, Done
<1> QED
  BY <1>1, <1>2

\* The jobs after a claim.
LEMMA ClaimKeepsJobs ==
  ASSUME WorkInv, JobRows, ClaimNext, NEW t \in Shards
  PROVE  JobRow(t)'
<1> USE DEF WorkInv, StoreInv, KernelInv
<1>0. JobRow(t)
  BY DEF JobRows
<1>1. CASE t \notin Skipped \cup Chosen
  <2>1. job'[t] = job[t] /\ shard'[t] = shard[t] /\ ckpt'[t] = ckpt[t]
    BY <1>1 DEF ClaimNext
  <2> QED
    BY <1>0, <2>1, JobRowKept
<1>2. CASE t \in Skipped \cup Chosen
  <2>1. job[t].next # "later" /\ RunOf[t] \in Runs
    BY <1>2, KernelConstants DEF Skipped, Chosen, Claimable
  <2>2. shard'[t] \in {"succeeded_empty", "running"}
    BY <1>2 DEF ClaimNext
  <2>3. shard'[t] \in {"running", "pause_requested"} => job'[t].status = "running"
    <3>1. BridgeOK(RunOf[t])' /\ t \in ShardsOf(RunOf[t])
      BY <1>2 DEF ClaimNext, ShardsOf
    <3> QED
      BY <2>1, <3>1, BridgedJobAfter
  <2>4. ckpt'[t] = ckpt[t] \/ ckpt'[t] = NewCheckpoint(t)
    BY <1>2 DEF ClaimNext
  <2>5. NewCheckpoint(t).retry = "none" /\ NewCheckpoint(t).exists
    BY DEF NewCheckpoint, NoCheckpoint
  <2> QED
    BY <1>0, <2>1, <2>2, <2>3, <2>4, <2>5 DEF JobRow
<1> QED
  BY <1>1, <1>2

\* The jobs after retry times have come.
LEMMA RetryKeepsJobs ==
  ASSUME WorkInv, JobRows, NEW S, RetryFalls(S), shard' = shard, NEW t \in Shards
  PROVE  JobRow(t)'
<1>0. JobRow(t) /\ ckpt[t] \in Checkpoint /\ job[t] \in JobRecord
  BY DEF JobRows, WorkInv, StoreInv, KernelInv, TypeOK
<1>1. /\ ckpt'[t] = IF t \in S /\ ckpt[t].retry = "later"
                    THEN [ckpt[t] EXCEPT !.retry = "due"] ELSE ckpt[t]
      /\ job'[t] = IF t \in S /\ job[t].next = "later"
                   THEN [job[t] EXCEPT !.next = "due"] ELSE job[t]
  BY DEF RetryFalls
<1>2. job'[t].status = job[t].status
  BY <1>0, <1>1 DEF JobRecord
<1>3. ckpt'[t].exists = ckpt[t].exists
  BY <1>0, <1>1 DEF Checkpoint
<1>4. ckpt'[t].retry = "later" => ckpt[t].retry = "later" /\ t \notin S
  BY <1>0, <1>1 DEF Checkpoint
<1>5. t \notin S => job'[t] = job[t]
  BY <1>1
<1>6. ckpt[t].retry = "none" => ckpt'[t].retry = "none"
  BY <1>1
<1> QED
  BY <1>0, <1>2, <1>3, <1>4, <1>5, <1>6 DEF JobRow

\* The jobs after a claim is put off.
LEMMA DeferKeepsJobs ==
  ASSUME WorkInv, JobRows, NEW s \in Shards, Defer(s), NEW t \in Shards
  PROVE  JobRow(t)'
<1> USE DEF WorkInv, StoreInv, KernelInv
<1>0. JobRow(t) /\ ckpt[s] \in Checkpoint /\ job[s] \in JobRecord /\ ckpt[s].exists
  BY RequesterWorks DEF JobRows, TypeOK, Defer, MayDispatch
<1>1. /\ job' = [job EXCEPT ![s] = [@ EXCEPT !.status = "retry_scheduled",
                                             !.next = "later", !.err = "throttled"]]
      /\ ckpt' = [ckpt EXCEPT ![s] = [@ EXCEPT !.retry = "later"]]
      /\ shard' = [shard EXCEPT ![s] = "retry_scheduled"]
  BY DEF Defer
<1>2. CASE t # s
  <2>1. job'[t] = job[t] /\ ckpt'[t] = ckpt[t] /\ shard'[t] = shard[t]
    BY <1>1, <1>2
  <2> QED
    BY <1>0, <2>1, JobRowKept
<1>3. CASE t = s
  <2>1. job'[t].status = "retry_scheduled" /\ job'[t].next = "later"
    BY <1>0, <1>1, <1>3 DEF JobRecord, TypeOK
  <2>2. ckpt'[t].exists
    BY <1>0, <1>1, <1>3 DEF Checkpoint, TypeOK
  <2>3. shard'[t] = "retry_scheduled"
    BY <1>1, <1>3 DEF TypeOK
  <2> QED
    BY <2>1, <2>2, <2>3 DEF JobRow
<1> QED
  BY <1>2, <1>3

\* The jobs after a request is sent.
LEMMA SendKeepsJobs ==
  ASSUME WorkInv, JobRows, NEW s \in Shards, SendRequest(s), NEW t \in Shards
  PROVE  JobRow(t)'
<1> USE DEF WorkInv, StoreInv, KernelInv
<1> DEFINE c == [ckpt[s] EXCEPT !.calls = @ + 1, !.total = @ + 1, !.retry = "none"]
<1>0. JobRow(t) /\ ckpt[s] \in Checkpoint
  BY DEF JobRows, TypeOK
<1>1. ckpt' = [ckpt EXCEPT ![s] = c] /\ job' = job /\ shard' = shard
  BY DEF SendRequest
<1>2. c.retry = "none" /\ c.exists = ckpt[s].exists
  BY <1>0 DEF Checkpoint
<1> HIDE DEF c
<1>3. ckpt'[t] = ckpt[t] \/ (t = s /\ ckpt'[t] = c)
  BY <1>1 DEF TypeOK
<1> QED
  BY <1>0, <1>1, <1>2, <1>3 DEF JobRow

\* The jobs after a call has failed.
LEMMA DispatchFailsJobs ==
  ASSUME WorkInv, JobRows, NEW s \in Shards, DispatchFails(s), NEW t \in Shards
  PROVE  JobRow(t)'
<1> USE DEF WorkInv, StoreInv, KernelInv
<1>0. JobRow(t) /\ ckpt' = ckpt /\ Held(s)
  BY DEF JobRows, DispatchFails
<1>1. OthersStay(s) /\ shard'[s] \in Done /\ \A u \in Shards \ {s} : job'[u] = job[u]
  BY DispatchFailsEnds, EndsEffect
<1>2. CASE t # s
  BY <1>0, <1>1, <1>2, JobRowKept DEF OthersStay
<1>3. CASE t = s
  <2>1. shard[t] \in Working
    BY <1>0, <1>3, HeldAtWork
  <2> QED
    BY <1>0, <1>1, <1>3, <2>1 DEF JobRow, Working, Done
<1> QED
  BY <1>2, <1>3

\* The jobs after a settlement.
LEMMA SettleKeepsJobs ==
  ASSUME WorkInv, TypeOK', JobRows, NEW s \in Shards, NEW k \in CallNos,
         SettleLate(s, k) \/ SettleSuccess(s, k) \/ SettleFailure(s, k), NEW t \in Shards
  PROVE  JobRow(t)'
<1> USE DEF WorkInv, StoreInv, KernelInv
<1>0. /\ JobRow(t) /\ WorkRow(s) /\ ckpt[s] \in Checkpoint /\ job[s] \in JobRecord
      /\ ckpt'[s].exists /\ ckpt[s].exists
  BY SettleEffect, SettleCloses DEF JobRows, WorkRows, TypeOK
<1>1. CASE t # s
  <2>1. job'[t] = job[t] /\ ckpt'[t] = ckpt[t]
    BY <1>0, <1>1, SettleShape, SettleEffect
  <2>2. shard'[t] = shard[t] \/ (shard[t] \in Done /\ shard'[t] = "cancelled")
    BY <1>0, <1>1, SettleLeavesOthers
  <2> QED
    BY <1>0, <2>1, <2>2, JobRowKept DEF Done
<1>2. CASE t = s /\ SettleLate(s, k)
  <2>1. ckpt' = ckpt /\ ledger[s][k].status = "response_received"
    BY <1>2, SettleShape DEF SettleLate
  <2>2. shard[s] \in Working \cup Done
    BY <2>1 DEF LedgerRows, LedgerRow, Open
  <2>3. ckpt[s].retry # "later"
    BY <1>0, <1>2, <2>2 DEF JobRow, Working, Done
  <2>4. CASE run[RunOf[s]].status = "cancel_requested"
    <3> DEFINE sh == [shard EXCEPT ![s] = "cancelled"]
    <3>1. shard'[s] = FinishShards({RunOf[s]}, sh)[s]
      BY <1>2, <2>4 DEF SettleLate
    <3>2. sh[s] = "cancelled"
      BY DEF TypeOK
    <3> HIDE DEF sh
    <3>3. shard'[s] = "cancelled"
      BY <3>1, <3>2, FinishShardsEffect
    <3> QED
      BY <1>0, <1>2, <2>1, <2>3, <3>3 DEF JobRow
  <2>5. CASE run[RunOf[s]].status # "cancel_requested"
    BY <1>0, <1>2, <2>1, <2>5, JobRowKept DEF SettleLate
  <2> QED
    BY <2>4, <2>5
<1>3. CASE t = s /\ SettleSuccess(s, k)
  <2>1. ckpt'[s].retry = "none"
    <3> DEFINE resp == ledger[s][k].resp
               take == Taken(s, resp)
               page == [ckpt[s] EXCEPT !.pages = @ + 1, !.accepted = @ + take,
                               !.partial = @ \/ resp.partial \/ take # resp.accepted,
                               !.retry = "none"]
               last == [page EXCEPT !.sealed = 0, !.done = TRUE]
               next == [page EXCEPT !.no = @ + 1, !.calls = 0, !.sealed = run[RunOf[s]].epoch]
    <3>1. ckpt' = [ckpt EXCEPT ![s] = last] \/ ckpt' = [ckpt EXCEPT ![s] = next]
      BY <1>3 DEF SettleSuccess
    <3>2. page.retry = "none" /\ last.retry = page.retry /\ next.retry = page.retry
      <4>1. page.retry = "none" /\ DOMAIN page = DOMAIN ckpt[s]
        BY <1>0 DEF Checkpoint
      <4>2. DOMAIN ckpt[s] = {"exists", "no", "calls", "total", "accepted", "pages",
                              "partial", "retry", "sealed", "done"}
        BY <1>0 DEF Checkpoint
      <4> HIDE DEF page
      <4> QED
        BY <4>1, <4>2
    <3> HIDE DEF last, next, page
    <3> QED
      BY <3>1, <3>2 DEF TypeOK
  <2>2. shard'[s] \in Done \cup {"queued", "paused"}
    <3>1. ASSUME NEW st \in Done, NEW err, FinishShard(s, st, err) PROVE shard'[s] \in Done
      <4> DEFINE sh == [shard EXCEPT ![s] = st]
      <4>1. shard'[s] = FinishShards({RunOf[s]}, sh)[s] /\ sh[s] = st
        BY <3>1 DEF FinishShard, TypeOK
      <4> HIDE DEF sh
      <4> QED
        BY <4>1, FinishShardsEffect DEF Done
    <3>2. ASSUME KeepShard(s, "queued") PROVE shard'[s] \in {"queued", "paused"}
      BY <3>2 DEF KeepShard, TypeOK
    <3>3. (\E st \in Done : FinishShard(s, st, "none")) \/ KeepShard(s, "queued")
      BY <1>3 DEF SettleSuccess, Done
    <3> QED
      BY <3>1, <3>2, <3>3
  <2> QED
    BY <1>0, <1>3, <2>1, <2>2 DEF JobRow, Done
<1>4. CASE t = s /\ SettleFailure(s, k)
  <2>1. CASE ledger[s][k].resp.retryable /\ ckpt[s].calls < CallLimit
    <3>1. job'[s].status = "retry_scheduled" /\ job'[s].next = "later"
      <4>1. job' = [job EXCEPT ![s] = [job[s] EXCEPT !.status = "retry_scheduled",
                                       !.next = "later", !.finished = FALSE, !.err = "provider"]]
        BY <1>4, <2>1 DEF SettleFailure
      <4> QED
        BY <1>0, <4>1 DEF JobRecord, TypeOK
    <3>2. shard'[s] \in {"retry_scheduled", "paused"}
      BY <1>4, <2>1 DEF SettleFailure, KeepShard, TypeOK
    <3> QED
      BY <1>0, <1>4, <3>1, <3>2 DEF JobRow
  <2>2. CASE ~(ledger[s][k].resp.retryable /\ ckpt[s].calls < CallLimit)
    <3>1. ckpt' = [ckpt EXCEPT ![s] = [ckpt[s] EXCEPT !.retry = "none", !.done = TRUE,
                                                  !.partial = ckpt[s].accepted > 0]]
      BY <1>4, <2>2 DEF SettleFailure
    <3>2. ckpt'[s].retry = "none"
      BY <1>0, <3>1 DEF Checkpoint, TypeOK
    <3>3. PICK st \in Done : FinishShard(s, st, "provider")
      BY <1>4, <2>2 DEF SettleFailure, Done
    <3> DEFINE sh == [shard EXCEPT ![s] = st]
    <3>4. shard'[s] = FinishShards({RunOf[s]}, sh)[s] /\ sh[s] = st
      BY <3>3 DEF FinishShard, TypeOK
    <3> HIDE DEF sh
    <3>5. shard'[s] \in Done
      BY <3>4, FinishShardsEffect DEF Done
    <3> QED
      BY <1>0, <1>4, <3>2, <3>5 DEF JobRow, Done
  <2> QED
    BY <2>1, <2>2
<1> QED
  BY <1>1, <1>2, <1>3, <1>4

\* Every kernel step keeps the jobs in line with their shards.
LEMMA JobRowsStep ==
  ASSUME WorkInv, TypeOK', JobRows, [Next]_vars
  PROVE  JobRows'
<1> SUFFICES ASSUME NEW t \in Shards PROVE JobRow(t)'
  BY DEF JobRows
<1>1. ASSUME Start \/ RecoverExpired PROVE JobRow(t)'
  <2>1. PICK Gone \in SUBSET {s \in Shards : Held(s)} : RecoverLeases(Gone)
    BY <1>1 DEF Start, RecoverExpired
  <2>2. ckpt' = ckpt
    BY <1>1 DEF Start, RecoverExpired
  <2> QED
    BY <2>1, <2>2, RecoverKeepsJobs
<1>2. ASSUME NEW S, RetryFalls(S), shard' = shard PROVE JobRow(t)'
  BY <1>2, RetryKeepsJobs
<1>3. ASSUME UNCHANGED <<shard, job, ckpt>> PROVE JobRow(t)'
  BY <1>3, JobRowKept DEF JobRows
<1> QED
  BY <1>1, <1>2, <1>3, PauseKeepsJobs, ResumeKeepsJobs, CancelKeepsJobs, ClaimKeepsJobs,
     DeferKeepsJobs, SendKeepsJobs, DispatchFailsJobs, SettleKeepsJobs
     DEF Next, vars, CreateRun, WindowOpens, Lapse, RetryDue, Prepare, CallLost, PersistResponse

-----------------------------------------------------------------------------
(* The tables of the store.                                                *)

\* What the tables allow, end by end.
LEMMA RunTable ==
  /\ RunTransitions["none"] = {"queued"}
  /\ RunTransitions["queued"] = {"running", "paused", "cancelled", "succeeded_empty"}
  /\ RunTransitions["running"] = {"pause_requested", "paused", "cancel_requested"} \cup Done
  /\ RunTransitions["pause_requested"] = {"paused", "cancel_requested"} \cup Done
  /\ RunTransitions["paused"] = {"queued", "cancelled"}
  /\ RunTransitions["cancel_requested"] = {"cancelled"}
BY DEF RunTransitions, RunStatus

\* What isValidPersistedShardTransition lists.
LEMMA ShardTable ==
  /\ ShardTransitions["queued"] = {"running", "paused", "cancelled", "succeeded_empty"}
  /\ ShardTransitions["running"]
       = {"queued", "retry_scheduled", "pause_requested", "paused", "cancel_requested"} \cup Done
  /\ {"running", "paused", "cancelled"} \subseteq ShardTransitions["retry_scheduled"]
  /\ ShardTransitions["pause_requested"] = {"paused", "cancel_requested"} \cup Done
  /\ ShardTransitions["paused"] = {"queued", "retry_scheduled", "cancelled"}
  /\ \A st \in {"cancel_requested", "succeeded", "succeeded_empty", "partial_success", "failed"} :
       ShardTransitions[st] = {"cancelled"}
BY DEF ShardTransitions, ShardStatus

\* What validAgentJobTransition lists.
LEMMA JobTable ==
  /\ {"running", "cancelled", "succeeded"} \subseteq JobTransitions["queued"]
  /\ JobTransitions["running"] = JobStatus \ {"running"}
  /\ {"queued", "running", "cancelled"} \subseteq JobTransitions["retry_scheduled"]
  /\ "cancelled" \in JobTransitions["succeeded"]
  /\ \A st \in {"failed", "dead_letter"} : "cancelled" \in JobTransitions[st]
BY DEF JobTransitions, JobStatus

\* Any shard, and any job, may be cancelled.
LEMMA MayBeCancelled ==
  /\ \A st \in ShardStatus : Moves(ShardTransitions, st, "cancelled")
  /\ \A st \in JobStatus : Moves(JobTransitions, st, "cancelled")
<1>1. ASSUME NEW st \in ShardStatus PROVE Moves(ShardTransitions, st, "cancelled")
  BY ShardTable DEF Moves, ShardStatus, Done
<1>2. ASSUME NEW st \in JobStatus PROVE Moves(JobTransitions, st, "cancelled")
  BY JobTable DEF Moves, JobStatus
<1> QED
  BY <1>1, <1>2

-----------------------------------------------------------------------------
(* The rows of runs.                                                       *)

\* A run at work that finishes or comes to rest makes a step of its table.
LEMMA WorkingRunMoves ==
  ASSUME TypeOK, NEW r \in Runs, run[r].status \in Working, NEW sh, NEW ck, NEW ls,
         run'[r] \in {run[r], FinishRun(r, sh, ck), Rest(FinishRun(r, sh, ck), r, sh, ls),
                      Rest(run[r], r, sh, ls)}
  PROVE  RunRow(r)
<1> DEFINE one == FinishRun(r, sh, ck)
<1>0. run[r] \in RunRecord /\ one \in RunRecord
  BY FinishRunType DEF TypeOK
<1>1. one = run[r] \/ (one.status \in Done /\ (run[r].status = "cancel_requested"
                                               => one.status = "cancelled"))
  <2>1. FinalStatus(r, sh, ck) \in Done
    BY DEF FinalStatus, Done
  <2>2. run[r].status = "cancel_requested" => FinalStatus(r, sh, ck) = "cancelled"
    BY DEF FinalStatus
  <2>3. one = run[r] \/ one.status = FinalStatus(r, sh, ck)
    BY <1>0 DEF FinishRun, RunRecord
  <2> QED
    BY <2>1, <2>2, <2>3
<1> HIDE DEF one
<1>2. \A rec \in {run[r], one} : \/ Rest(rec, r, sh, ls) = rec
                                 \/ rec.status = "pause_requested"
                                    /\ Rest(rec, r, sh, ls).status = "paused"
  BY <1>0, RestEffect
<1>3. \/ run'[r].status = run[r].status
      \/ run'[r].status \in Done /\ (run[r].status = "cancel_requested"
                                     => run'[r].status = "cancelled")
      \/ run[r].status = "pause_requested" /\ run'[r].status = "paused"
  BY <1>1, <1>2 DEF one, Done
<1> QED
  BY <1>3, RunTable DEF RunRow, Moves, Working

\* What the store accepts of a run that a kernel step has left.
RunAccepted(r) ==
  \/ run'[r].status \in {"pause_requested", "cancel_requested"}
  \/ run[r].status = "queued" /\ run'[r].status \in {"succeeded", "partial_success"}
  \/ RunRow(r)

\* Runs after a shard has ended, or gone back to wait.
LEMMA EndsRuns ==
  ASSUME TypeOK, NEW s \in Shards, Ends(s) \/ GoesBack(s), run[RunOf[s]].status \in Working,
         NEW q \in Runs
  PROVE  RunRow(q)
<1> DEFINE r == RunOf[s]
<1>0. run \in [Runs -> RunRecord] /\ r \in Runs
  BY KernelConstants DEF TypeOK
<1>1. CASE Ends(s)
  <2>1. PICK sh, ck :
          \E rec \in {FinishRun(r, sh, ck), Rest(FinishRun(r, sh, ck), r, sh, lease')} :
            run' = [run EXCEPT ![r] = rec]
    BY <1>1 DEF Ends
  <2>2. q # r => run'[q] = run[q]
    BY <1>0, <2>1
  <2>3. run'[r] \in {FinishRun(r, sh, ck), Rest(FinishRun(r, sh, ck), r, sh, lease')}
    BY <1>0, <2>1
  <2> QED
    BY <1>0, <2>2, <2>3, WorkingRunMoves DEF RunRow, Moves
<1>2. CASE GoesBack(s)
  <2>1. PICK sh : run' = [run EXCEPT ![r] = Rest(run[r], r, sh, lease')]
    BY <1>2 DEF GoesBack
  <2>2. q # r => run'[q] = run[q]
    BY <1>0, <2>1
  <2>3. run'[r] = Rest(run[r], r, sh, lease')
    BY <1>0, <2>1
  <2> QED
    BY <1>0, <2>2, <2>3, WorkingRunMoves DEF RunRow, Moves
<1> QED
  BY <1>1, <1>2

\* Runs after a recovery.
LEMMA RecoverRuns ==
  ASSUME StoreInv, NEW Gone \in SUBSET {s \in Shards : Held(s)}, RecoverLeases(Gone), NEW q \in Runs
  PROVE  RunRow(q)
<1> USE DEF StoreInv, KernelInv
<1> DEFINE lost     == {s \in Gone : Current(s).started /\ ~Answered(s)}
           unused   == {s \in Gone : ~Current(s).started}
           caught   == {s \in unused : CancelCaught(s)}
           finished == {RunOf[s] : s \in lost \cup caught}
           resting  == {RunOf[s] : s \in {t \in lost \cup unused : ~CancelCaught(t)}}
           sh == [s \in Shards |->
                    IF s \in lost THEN UnknownShard(s)
                    ELSE IF s \in caught THEN "cancelled"
                    ELSE IF s \notin unused THEN shard[s]
                    ELSE IF run[RunOf[s]].status = "pause_requested" THEN "paused"
                    ELSE "queued"]
<1>1. run'[q] = LET rec == IF q \in finished THEN FinishRun(q, sh, ckpt) ELSE run[q]
                IN  IF q \in resting THEN Rest(rec, q, sh, lease') ELSE rec
  BY DEF RecoverLeases
<1>2. finished \cup resting \subseteq {RunOf[s] : s \in Gone}
  OBVIOUS
<1>3. q \in finished \cup resting => run[q].status \in Working
  BY <1>2, HeldAtWork
<1> HIDE DEF sh, finished, resting
<1>4. CASE q \notin finished \cup resting
  BY <1>1, <1>4 DEF RunRow, Moves
<1>5. CASE q \in finished \cup resting
  <2>1. run'[q] \in {run[q], FinishRun(q, sh, ckpt), Rest(FinishRun(q, sh, ckpt), q, sh, lease'),
                     Rest(run[q], q, sh, lease')}
    BY <1>1
  <2> QED
    BY <1>3, <1>5, <2>1, WorkingRunMoves
<1> QED
  BY <1>4, <1>5

\* Runs after a claim.
LEMMA ClaimRuns ==
  ASSUME WorkInv, ClaimNext, NEW q \in Runs
  PROVE  RunAccepted(q)
<1> USE DEF WorkInv, StoreInv, KernelInv
<1>0. run[q] \in RunRecord
  BY DEF TypeOK
<1>1. CASE \E s \in Chosen : RunOf[s] = q
  <2>1. run'[q] = [run[q] EXCEPT !.status = "running"]
    BY <1>1 DEF ClaimNext
  <2>2. run[q].status \in {"queued", "running"}
    BY <1>1 DEF Chosen, Claimable
  <2>3. run'[q].status = "running"
    BY <1>0, <2>1 DEF RunRecord
  <2> QED
    BY <2>2, <2>3, RunTable DEF RunAccepted, RunRow, Moves
<1>2. CASE ~(\E s \in Chosen : RunOf[s] = q) /\ \E s \in Skipped : RunOf[s] = q
  <2> DEFINE sh == [s \in Shards |-> IF s \in Skipped THEN "succeeded_empty"
                                     ELSE IF s \in Chosen THEN "running" ELSE shard[s]]
  <2>1. PICK s \in Skipped : RunOf[s] = q
    BY <1>2
  <2>2. run'[q] = FinishRun(q, sh, ckpt')
    BY <1>2 DEF ClaimNext
  <2>3. run[q].status \in {"queued", "running"} /\ s \in Shards
    BY <2>1 DEF Skipped, Claimable
  <2>4. s \in ShardsOf(q) /\ sh[s] = "succeeded_empty"
    BY <2>1, <2>3 DEF ShardsOf
  <2> HIDE DEF sh
  <2>5. FinalStatus(q, sh, ckpt') \in {"succeeded", "succeeded_empty", "partial_success"}
    BY <2>3, <2>4 DEF FinalStatus
  <2>6. run'[q] = run[q] \/ run'[q].status = FinalStatus(q, sh, ckpt')
    BY <1>0, <2>2 DEF FinishRun, RunRecord
  <2> QED
    BY <2>3, <2>5, <2>6, RunTable DEF RunAccepted, RunRow, Moves, Done
<1>3. CASE ~\E s \in Skipped \cup Chosen : RunOf[s] = q
  <2>1. run'[q] = run[q]
    BY <1>3 DEF ClaimNext
  <2> QED
    BY <2>1 DEF RunAccepted, RunRow, Moves
<1> QED
  BY <1>1, <1>2, <1>3

\* Runs after any step.
LEMMA RunsAccepted ==
  ASSUME WorkInv, TypeOK', [Next]_vars, NEW q \in Runs
  PROVE  RunAccepted(q)
<1> USE DEF WorkInv, StoreInv, KernelInv
<1>0. run \in [Runs -> RunRecord] /\ run[q] \in RunRecord
  BY DEF TypeOK
<1>1. ASSUME run'[q] = run[q] PROVE RunAccepted(q)
  BY <1>1 DEF RunAccepted, RunRow, Moves
<1>2. ASSUME NEW r \in Runs, CreateRun(r) PROVE RunAccepted(q)
  <2>1. q # r => run'[q] = run[q]
    BY <1>0, <1>2 DEF CreateRun
  <2>2. run[r].status = "none" /\ run'[r].status = "queued"
    BY <1>0, <1>2 DEF CreateRun
  <2> QED
    BY <1>1, <2>1, <2>2, RunTable DEF RunAccepted, RunRow, Moves
<1>3. ASSUME NEW r \in Runs, RequestPause(r) PROVE RunAccepted(q)
  <2>1. q # r => run'[q] = run[q]
    BY <1>0, <1>3 DEF RequestPause
  <2>2. run[r].status \in {"queued", "running"} /\ run'[r].status \in {"paused", "pause_requested"}
    BY <1>0, <1>3 DEF RequestPause, RunRecord
  <2> QED
    BY <1>1, <2>1, <2>2, RunTable DEF RunAccepted, RunRow, Moves
<1>4. ASSUME NEW r \in Runs, Resume(r) PROVE RunAccepted(q)
  <2>1. q # r => run'[q] = run[q]
    BY <1>0, <1>4 DEF Resume
  <2>2. run[r].status = "paused" /\ run'[r].status = "queued"
    BY <1>0, <1>4 DEF Resume, RunRecord
  <2> QED
    BY <1>1, <2>1, <2>2, RunTable DEF RunAccepted, RunRow, Moves
<1>5. ASSUME NEW r \in Runs, RequestCancel(r) PROVE RunAccepted(q)
  <2>1. q # r => run'[q] = run[q]
    BY <1>0, <1>5 DEF RequestCancel
  <2>2. run[r].status \in {"queued", "running", "pause_requested", "paused"}
        /\ run'[r].status \in {"cancelled", "cancel_requested"}
    BY <1>0, <1>5 DEF RequestCancel, RunRecord
  <2> QED
    BY <1>1, <2>1, <2>2, RunTable DEF RunAccepted, RunRow, Moves, Done
<1>6. ASSUME Start \/ RecoverExpired PROVE RunAccepted(q)
  <2>1. PICK Gone \in SUBSET {s \in Shards : Held(s)} : RecoverLeases(Gone)
    BY <1>6 DEF Start, RecoverExpired
  <2> QED
    BY <2>1, RecoverRuns DEF RunAccepted
<1>7. ASSUME NEW s \in Shards, DispatchFails(s) PROVE RunAccepted(q)
  <2>1. Ends(s) /\ run[RunOf[s]].status \in Working
    BY <1>7, DispatchFailsEnds, HeldAtWork DEF DispatchFails
  <2> QED
    BY <2>1, EndsRuns DEF RunAccepted
<1>8. ASSUME NEW s \in Shards, NEW n \in CallNos,
             SettleLate(s, n) \/ SettleSuccess(s, n) \/ SettleFailure(s, n)
      PROVE  RunAccepted(q)
  <2>1. WorkRow(s)
    BY DEF WorkRows
  <2>2. run' = run \/ (run[RunOf[s]].status \in Working /\ (Ends(s) \/ GoesBack(s)))
    <3>1. Ends(s) \/ GoesBack(s) \/ run' = run
      BY <1>8, SettleShape
    <3>2. run[RunOf[s]].status \in Working \/ run' = run
      BY <1>8, <2>1, SettleEffect DEF SettledEnd, SettledBack, Working
    <3> QED
      BY <3>1, <3>2
  <2> QED
    BY <1>1, <2>2, EndsRuns DEF RunAccepted
<1> QED
  BY <1>1, <1>2, <1>3, <1>4, <1>5, <1>6, <1>7, <1>8, ClaimRuns
     DEF Next, vars, WindowOpens, Lapse, RetryDue, Prepare, Defer, SendRequest, CallLost,
         PersistResponse

-----------------------------------------------------------------------------
(* The rows of shards.                                                     *)

ShardAccepted(s) == shard'[s] = "cancel_requested" \/ ShardRow(s)

\* A shard that stays, or is cancelled.
LEMMA StaysOrCancelled ==
  ASSUME TypeOK, NEW t \in Shards, shard'[t] = shard[t] \/ shard'[t] = "cancelled"
  PROVE  ShardAccepted(t)
<1>1. shard[t] \in ShardStatus
  BY DEF TypeOK
<1> QED
  BY <1>1, MayBeCancelled DEF ShardAccepted, ShardRow, Moves

\* A shard at work that ends; one that is about to be cancelled is.
LEMMA WorkerEnds ==
  ASSUME NEW t \in Shards, shard[t] \in Working, shard'[t] \in Done,
         shard[t] = "cancel_requested" => shard'[t] = "cancelled"
  PROVE  ShardAccepted(t)
BY ShardTable DEF ShardAccepted, ShardRow, Moves, Working

\* Finishing shards cancels those that it moves.
LEMMA FinishedShard ==
  ASSUME NEW R, NEW sh, NEW t \in Shards
  PROVE  FinishShards(R, sh)[t] \in {sh[t], "cancelled"}
BY FinishShardsEffect

\* Shards after a pause is asked for.
LEMMA PauseShards ==
  ASSUME WorkInv, NEW r \in Runs, RequestPause(r), NEW t \in Shards
  PROVE  ShardAccepted(t)
<1> USE DEF WorkInv, StoreInv, KernelInv
<1>1. CASE t \notin ShardsOf(r) \/ shard[t] \in Done
  BY <1>1, StaysOrCancelled DEF RequestPause
<1>2. CASE t \in ShardsOf(r) /\ shard[t] \notin Done
  <2>1. run[RunOf[t]].status \in {"queued", "running"}
    BY <1>2 DEF RequestPause, ShardsOf
  <2>2. shard[t] \in {"queued", "running", "retry_scheduled"}
    <3>1. shard[t] \in ShardStatus
      BY DEF TypeOK
    <3> QED
      BY <1>2, <2>1, <3>1, WorkingShape DEF ShardStatus, Done
  <2>3. CASE t \in Busy(r)
    <3>1. Held(t) \/ \E n \in CallNos : ledger[t][n].status = "response_received"
      BY <1>2, <2>3, BusyMeans
    <3>2. shard[t] = "running"
      BY <1>2, <2>2, <3>1, IdleShard DEF Working
    <3>3. shard'[t] = "pause_requested"
      BY <1>2, <2>3 DEF RequestPause
    <3> QED
      BY <3>2, <3>3, ShardTable DEF ShardAccepted, ShardRow, Moves
  <2>4. CASE t \notin Busy(r)
    <3>1. shard'[t] = "paused"
      BY <1>2, <2>4 DEF RequestPause
    <3> QED
      BY <2>2, <3>1, ShardTable DEF ShardAccepted, ShardRow, Moves
  <2> QED
    BY <2>3, <2>4
<1> QED
  BY <1>1, <1>2

\* Shards after a recovery.
LEMMA RecoverShards ==
  ASSUME WorkInv, NEW Gone \in SUBSET {s \in Shards : Held(s)}, RecoverLeases(Gone), NEW t \in Shards
  PROVE  ShardAccepted(t)
<1> USE DEF WorkInv, StoreInv, KernelInv
<1>1. CASE t \notin Gone
  BY <1>1, RecoverPlaces, StaysOrCancelled
<1>2. CASE t \in Gone
  <2>1. Held(t) /\ shard[t] \in Working
    BY <1>2, HeldAtWork
  <2>2. shard[t] = "cancel_requested" => CancelCaught(t)
    BY <2>1, WorkingShape, CaughtIffCancelled
  <2>3. CASE Current(t).started
    BY <1>2, <2>1, <2>2, <2>3, RecoverPlaces, WorkerEnds
  <2>4. CASE ~Current(t).started
    <3>1. ~CancelCaught(t)
      BY <2>1, <2>4, UnusedGoesOn DEF WorkRows, WorkRow
    <3>2. shard[t] \in {"running", "pause_requested"}
      BY <2>1, <2>2, <3>1 DEF Working
    <3>3. shard'[t] \in {"queued", "paused"}
      BY <1>2, <2>4, RecoverPlaces
    <3>4. shard[t] = "pause_requested" => shard'[t] = "paused"
      BY <1>2, <3>3, RecoverPlaces, WorkingShape
    <3> QED
      BY <3>2, <3>3, <3>4, ShardTable DEF ShardAccepted, ShardRow, Moves
  <2> QED
    BY <2>3, <2>4
<1> QED
  BY <1>1, <1>2

\* Shards after a claim: who is skipped has read nothing, so it waits for no
\* retry.
LEMMA ClaimShards ==
  ASSUME WorkInv, JobRows, ClaimNext, NEW t \in Shards
  PROVE  ShardAccepted(t)
<1>1. CASE t \in Skipped
  <2>1. shard'[t] = "succeeded_empty"
    BY <1>1 DEF ClaimNext
  <2>2. shard[t] = "queued"
    BY <1>1 DEF Skipped, Claimable, Exhausted, JobRows, JobRow
  <2> QED
    BY <2>1, <2>2, ShardTable DEF ShardAccepted, ShardRow, Moves
<1>2. CASE t \in Chosen
  <2>1. shard'[t] = "running"
    BY <1>2 DEF ClaimNext, Skipped, Chosen
  <2>2. shard[t] \in {"queued", "retry_scheduled"}
    BY <1>2 DEF Chosen, Claimable
  <2> QED
    BY <2>1, <2>2, ShardTable DEF ShardAccepted, ShardRow, Moves
<1>3. CASE t \notin Skipped \cup Chosen
  <2>1. shard'[t] = shard[t]
    BY <1>3 DEF ClaimNext
  <2> QED
    BY <2>1 DEF ShardAccepted, ShardRow, Moves
<1> QED
  BY <1>1, <1>2, <1>3

\* Shards after a call has failed.
LEMMA DispatchFailsShards ==
  ASSUME WorkInv, NEW s \in Shards, DispatchFails(s), NEW t \in Shards
  PROVE  ShardAccepted(t)
<1> USE DEF WorkInv, StoreInv, KernelInv
<1> DEFINE sh == [shard EXCEPT ![s] = UnknownShard(s)]
<1>1. Held(s) /\ shard[s] \in Working
  BY HeldAtWork DEF DispatchFails
<1>2. shard'[t] = FinishShards({RunOf[s]}, sh)[t]
  BY DEF DispatchFails
<1>3. sh[t] = IF t = s THEN UnknownShard(s) ELSE shard[t]
  BY DEF TypeOK
<1> HIDE DEF sh
<1>4. shard'[t] \in {sh[t], "cancelled"}
  BY <1>2, FinishedShard
<1>5. CASE t # s
  BY <1>3, <1>4, <1>5, StaysOrCancelled
<1>6. CASE t = s
  <2>1. shard[s] = "cancel_requested" => CancelCaught(s)
    BY <1>1, WorkingShape, CaughtIffCancelled
  <2>2. UnknownShard(s) \in Done /\ (CancelCaught(s) => UnknownShard(s) = "cancelled")
    BY <1>1, UnknownEnd DEF UnknownShard
  <2> QED
    BY <1>1, <1>3, <1>4, <1>6, <2>1, <2>2, WorkerEnds DEF Done
<1> QED
  BY <1>5, <1>6

\* Shards after a settlement.
LEMMA SettleShards ==
  ASSUME WorkInv, TypeOK', NEW s \in Shards, NEW k \in CallNos,
         SettleLate(s, k) \/ SettleSuccess(s, k) \/ SettleFailure(s, k), NEW t \in Shards
  PROVE  ShardAccepted(t)
<1> USE DEF WorkInv, StoreInv, KernelInv
<1>0. WorkRow(s) /\ ledger[s][k].status = "response_received"
  BY SettleShape DEF WorkRows
<1>1. CASE t # s
  BY <1>0, <1>1, SettleLeavesOthers, StaysOrCancelled
<1>2. CASE t = s /\ SettleLate(s, k)
  <2>1. CASE run[RunOf[s]].status = "cancel_requested"
    <3> DEFINE sh == [shard EXCEPT ![s] = "cancelled"]
    <3>1. shard'[s] = FinishShards({RunOf[s]}, sh)[s] /\ sh[s] = "cancelled"
      BY <1>2, <2>1 DEF SettleLate, TypeOK
    <3> HIDE DEF sh
    <3> QED
      BY <1>2, <3>1, FinishedShard, StaysOrCancelled
  <2>2. CASE run[RunOf[s]].status # "cancel_requested"
    BY <1>2, <2>2, StaysOrCancelled DEF SettleLate
  <2> QED
    BY <2>1, <2>2
<1>3. CASE t = s /\ (SettleSuccess(s, k) \/ SettleFailure(s, k))
  <2>1. OnTime(s, k)
    BY <1>3 DEF SettleSuccess, SettleFailure
  <2>2. shard[s] \in {"running", "pause_requested"}
    BY <1>0, <2>1, OnTimeWorks
  <2>3. CASE SettledEnd(s)
    <3>1. PICK st \in Done : EndsAs(RunOf[s], s, st, {RunOf[s]}, ckpt')
      BY <2>3 DEF SettledEnd
    <3> DEFINE sh == [shard EXCEPT ![s] = st]
    <3>2. shard'[s] = FinishShards({RunOf[s]}, sh)[s] /\ sh[s] = st
      BY <3>1 DEF EndsAs, ShardsOf, TypeOK
    <3> HIDE DEF sh
    <3> QED
      BY <1>3, <2>2, <3>2, FinishedShard, WorkerEnds DEF Done, Working
  <2>4. CASE SettledBack(s)
    <3>1. PICK st : BackTo(RunOf[s], s, st)
      BY <2>4 DEF SettledBack
    <3>2. shard'[s] = st
      BY <3>1 DEF BackTo, ShardsOf, TypeOK
    <3>3. shard[s] = "pause_requested" => st = "paused"
      BY <3>1, WorkingShape DEF BackTo
    <3> QED
      BY <1>3, <2>2, <3>1, <3>2, <3>3, ShardTable DEF BackTo, ShardAccepted, ShardRow, Moves
  <2>5. CASE UNCHANGED shard
    BY <2>5, StaysOrCancelled
  <2> QED
    BY <1>0, <1>3, <2>3, <2>4, <2>5, SettleEffect
<1> QED
  BY <1>1, <1>2, <1>3

\* Shards after any step.
LEMMA ShardsAccepted ==
  ASSUME WorkInv, JobRows, TypeOK', [Next]_vars, NEW t \in Shards
  PROVE  ShardAccepted(t)
<1> USE DEF WorkInv, StoreInv, KernelInv
<1>1. ASSUME shard' = shard PROVE ShardAccepted(t)
  BY <1>1, StaysOrCancelled
<1>2. ASSUME NEW r \in Runs, Resume(r) PROVE ShardAccepted(t)
  <2>1. \/ shard'[t] = shard[t]
        \/ shard[t] = "paused" /\ shard'[t] \in {"queued", "retry_scheduled"}
    BY <1>2 DEF Resume
  <2> QED
    BY <2>1, ShardTable DEF ShardAccepted, ShardRow, Moves
<1>3. ASSUME NEW r \in Runs, RequestCancel(r) PROVE ShardAccepted(t)
  <2>1. shard'[t] \in {shard[t], "cancel_requested", "cancelled"}
    BY <1>3 DEF RequestCancel
  <2> QED
    BY <2>1, StaysOrCancelled DEF ShardAccepted
<1>4. ASSUME Start \/ RecoverExpired PROVE ShardAccepted(t)
  <2>1. PICK Gone \in SUBSET {s \in Shards : Held(s)} : RecoverLeases(Gone)
    BY <1>4 DEF Start, RecoverExpired
  <2> QED
    BY <2>1, RecoverShards
<1>5. ASSUME NEW s \in Shards, Defer(s) PROVE ShardAccepted(t)
  <2>1. shard[s] = "running"
    BY <1>5, RequesterWorks DEF Defer, MayDispatch
  <2>2. shard'[t] = shard[t] \/ (t = s /\ shard'[t] = "retry_scheduled")
    BY <1>5 DEF Defer, TypeOK
  <2> QED
    BY <2>1, <2>2, ShardTable DEF ShardAccepted, ShardRow, Moves
<1> QED
  BY <1>1, <1>2, <1>3, <1>4, <1>5, PauseShards, ClaimShards, DispatchFailsShards, SettleShards
     DEF Next, vars, CreateRun, WindowOpens, Lapse, RetryDue, Prepare, SendRequest, CallLost,
         PersistResponse

-----------------------------------------------------------------------------
(* The rows of jobs.                                                       *)

JobAccepted(s) == Moves(JobTransitions, job[s].status, job'[s].status)

\* A job at work may become anything.
LEMMA BusyJobMoves ==
  ASSUME TypeOK, TypeOK', NEW t \in Shards, job[t].status = "running"
  PROVE  JobAccepted(t)
<1>1. job'[t].status \in JobStatus
  BY DEF TypeOK, JobRecord
<1> QED
  BY <1>1, JobTable DEF JobAccepted, Moves

\* A cancelled job is cancelled.
LEMMA CancelledJobMoves ==
  ASSUME TypeOK, NEW t \in Shards, job'[t] = CancelledJob(job[t])
  PROVE  JobAccepted(t)
<1>1. job[t] \in JobRecord
  BY DEF TypeOK
<1>2. job'[t].status = "cancelled" /\ job[t].status \in JobStatus
  BY <1>1 DEF CancelledJob, JobRecord
<1> QED
  BY <1>2, MayBeCancelled DEF JobAccepted

\* Jobs after any step.
LEMMA JobsAccepted ==
  ASSUME WorkInv, JobRows, TypeOK', [Next]_vars, NEW t \in Shards
  PROVE  JobAccepted(t)
<1> USE DEF WorkInv, StoreInv, KernelInv
<1>0. JobRow(t) /\ job[t] \in JobRecord /\ RunOf[t] \in Runs /\ t \in ShardsOf(RunOf[t])
  BY KernelConstants DEF JobRows, TypeOK, ShardsOf
<1>1. ASSUME job'[t].status = job[t].status PROVE JobAccepted(t)
  BY <1>1 DEF JobAccepted, Moves
<1>2. ASSUME Held(t) PROVE JobAccepted(t)
  BY <1>2, HeldAtWork, BusyJobMoves
<1>3. ASSUME NEW r \in Runs, RequestPause(r) PROVE JobAccepted(t)
  BY <1>1, <1>2, <1>3 DEF RequestPause, HeldIn
<1>4. ASSUME NEW r \in Runs, Resume(r) PROVE JobAccepted(t)
  <2>1. CASE ~(t \in ShardsOf(r) /\ shard[t] = "paused")
    BY <1>1, <1>4, <2>1 DEF Resume
  <2>2. CASE t \in ShardsOf(r) /\ shard[t] = "paused"
    <3>1. job[t].status \in {"queued", "retry_scheduled"}
      BY <1>4, <2>2, BridgedJob DEF Resume
    <3>2. CASE ckpt[t].retry = "later"
      <4>1. job'[t] = [job[t] EXCEPT !.status = "retry_scheduled", !.next = "later"]
        BY <1>4, <2>2, <3>2 DEF Resume
      <4>2. job'[t].status = "retry_scheduled" /\ job[t].status = "retry_scheduled"
        BY <1>0, <3>2, <4>1 DEF JobRow, JobRecord
      <4> QED
        BY <1>1, <4>2
    <3>3. CASE ckpt[t].retry # "later"
      <4>1. job'[t] = [job[t] EXCEPT !.status = "queued", !.next = "none"]
        BY <1>4, <2>2, <3>3 DEF Resume
      <4>2. job'[t].status = "queued"
        BY <1>0, <4>1 DEF JobRecord
      <4> QED
        BY <3>1, <4>2, JobTable DEF JobAccepted, Moves
    <3> QED
      BY <3>2, <3>3
  <2> QED
    BY <2>1, <2>2
<1>5. ASSUME NEW r \in Runs, RequestCancel(r) PROVE JobAccepted(t)
  <2>1. job'[t] \in {job[t], CancelledJob(job[t])}
    BY <1>5 DEF RequestCancel
  <2> QED
    BY <1>1, <2>1, CancelledJobMoves
<1>6. ASSUME Start \/ RecoverExpired PROVE JobAccepted(t)
  <2>1. PICK Gone \in SUBSET {s \in Shards : Held(s)} : RecoverLeases(Gone)
    BY <1>6 DEF Start, RecoverExpired
  <2>2. t \notin Gone => job'[t] = job[t]
    BY <2>1 DEF RecoverLeases
  <2> QED
    BY <1>1, <1>2, <2>2
<1>7. ASSUME ClaimNext PROVE JobAccepted(t)
  <2>1. CASE t \in Skipped \cup Chosen
    <3>1. BridgeOK(RunOf[t])
      BY <1>7, <2>1 DEF ClaimNext
    <3>2. job[t].status \in {"queued", "retry_scheduled"}
      BY <2>1 DEF Skipped, Chosen, Claimable
    <3>3. CASE t \in Skipped
      <4>1. shard[t] = "queued"
        BY <1>0, <3>3 DEF Skipped, Claimable, Exhausted, JobRow
      <4>2. job[t].status = "queued"
        BY <1>0, <3>1, <4>1, BridgedJob
      <4>3. job'[t].status = "succeeded"
        BY <1>7, <3>3 DEF ClaimNext, QueuedJob
      <4> QED
        BY <4>2, <4>3, JobTable DEF JobAccepted, Moves
    <3>4. CASE t \notin Skipped
      <4>1. job'[t].status = "running"
        BY <1>7, <2>1, <3>4 DEF ClaimNext, QueuedJob
      <4> QED
        BY <3>2, <4>1, JobTable DEF JobAccepted, Moves
    <3> QED
      BY <3>3, <3>4
  <2>2. CASE t \notin Skipped \cup Chosen
    BY <1>1, <1>7, <2>2 DEF ClaimNext
  <2> QED
    BY <2>1, <2>2
<1>8. ASSUME NEW S, RetryFalls(S) PROVE JobAccepted(t)
  <2>1. job'[t].status = job[t].status
    BY <1>0, <1>8 DEF RetryFalls, JobRecord
  <2> QED
    BY <1>1, <2>1
<1>9. ASSUME NEW s \in Shards, Defer(s) PROVE JobAccepted(t)
  <2>1. Held(s) /\ (t # s => job'[t] = job[t])
    BY <1>9 DEF Defer, MayDispatch, MayRequest, Usable
  <2> QED
    BY <1>1, <1>2, <2>1
<1>10. ASSUME NEW s \in Shards, DispatchFails(s) PROVE JobAccepted(t)
  <2>1. Held(s) /\ (t # s => job'[t] = job[t])
    BY <1>10 DEF DispatchFails
  <2> QED
    BY <1>1, <1>2, <2>1
<1>11. ASSUME NEW s \in Shards, NEW n \in CallNos,
              SettleLate(s, n) \/ SettleSuccess(s, n) \/ SettleFailure(s, n)
       PROVE  JobAccepted(t)
  <2>1. /\ WorkRow(s) /\ ledger[s][n].status = "response_received"
        /\ t # s => job'[t] = job[t]
    BY <1>11, SettleShape DEF WorkRows
  <2>2. CASE t = s /\ SettleLate(s, n)
    <3>1. job'[t] \in {job[t], CancelledJob(job[t])}
      BY <2>2 DEF SettleLate, TypeOK
    <3> QED
      BY <1>1, <3>1, CancelledJobMoves
  <2>3. CASE t = s /\ ~SettleLate(s, n)
    <3>1. OnTime(s, n)
      BY <1>11, <2>3 DEF SettleSuccess, SettleFailure
    <3>2. job[t].status = "running"
      BY <1>0, <2>1, <2>3, <3>1, OnTimeWorks DEF JobRow
    <3> QED
      BY <3>2, BusyJobMoves
  <2> QED
    BY <1>1, <2>1, <2>2, <2>3
<1>12. ASSUME job' = job PROVE JobAccepted(t)
  BY <1>1, <1>12
<1> QED
  BY <1>3, <1>4, <1>5, <1>6, <1>7, <1>8, <1>9, <1>10, <1>11, <1>12
     DEF Next, vars, CreateRun, WindowOpens, Lapse, RetryDue, Prepare, SendRequest, CallLost,
         PersistResponse

-----------------------------------------------------------------------------
(* The rows of the ledger and of source positions, and the theorem.        *)

\* An entry moves as the ledger's two tables allow.
LEMMA EntriesAccepted ==
  ASSUME StoreInv, [Next]_vars, NEW s \in Shards, NEW n \in CallNos
  PROVE  /\ Moves(Book!LedgerTransitions, ledger[s][n].status, ledger'[s][n].status)
         /\ Moves(Book!DispatchTransitions, ledger[s][n].dispatch, ledger'[s][n].dispatch)
<1> DEFINE a == ledger[s][n]
           b == ledger'[s][n]
           u == View(a)
           v == View(b)
<1>0. LedgerRow(s, n)
  BY DEF StoreInv, LedgerRows
<1>1. /\ u.status = a.status /\ u.dispatch = a.dispatch
      /\ v.status = b.status /\ v.dispatch = b.dispatch
  BY DEF View, Row
<1>2. /\ Book!LedgerTransitions["none"] = {"prepared"}
      /\ {"dispatch_started", "settled"} \subseteq Book!LedgerTransitions["prepared"]
      /\ {"response_received", "outcome_unknown"} \subseteq Book!LedgerTransitions["dispatch_started"]
      /\ "response_received" \in Book!LedgerTransitions["outcome_unknown"]
      /\ Book!LedgerTransitions["response_received"] = {"settled", "cancelled_late"}
  BY DEF Book!LedgerTransitions, Book!LedgerStatus
<1>3. /\ Book!DispatchTransitions["none"] = {"started"}
      /\ {"response_received", "outcome_unknown"} \subseteq Book!DispatchTransitions["started"]
      /\ "response_received" \in Book!DispatchTransitions["outcome_unknown"]
  BY DEF Book!DispatchTransitions, Book!DispatchStatus
<1>4. CASE v = u
  BY <1>1, <1>4 DEF Moves
<1>5. CASE Book!Prepares(u, v)
  <2>1. u.status = "none" /\ v.status = "prepared" /\ v.dispatch = u.dispatch
    BY <1>5 DEF Book!Prepares, Book!Blank
  <2> QED
    BY <1>1, <1>2, <2>1 DEF Moves
<1>6. CASE Book!Sends(u, v)
  <2>1. u.status = "prepared" /\ v.status = "dispatch_started" /\ v.dispatch = "started"
    BY <1>6 DEF Book!Sends, View, Row
  <2>2. a.dispatch = "none"
    BY <1>0, <1>1, <2>1 DEF LedgerRow, Unsent
  <2> QED
    BY <1>1, <1>2, <1>3, <2>1, <2>2 DEF Moves
<1>7. CASE Book!Answers(u, v)
  <2>1. /\ u.status \in {"dispatch_started", "outcome_unknown"}
        /\ v.status = "response_received" /\ v.dispatch = "response_received"
    BY <1>7 DEF Book!Answers, View, Row
  <2>2. a.dispatch \in {"started", "outcome_unknown"}
    BY <1>0, <1>1, <2>1 DEF LedgerRow, Open
  <2> QED
    BY <1>1, <1>2, <1>3, <2>1, <2>2 DEF Moves
<1>8. CASE Book!GivesUp(u, v)
  <2>1. /\ u.status = "dispatch_started"
        /\ v.status = "outcome_unknown" /\ v.dispatch = "outcome_unknown"
    BY <1>8 DEF Book!GivesUp, View, Row
  <2>2. a.dispatch = "started"
    BY <1>0, <1>1, <2>1 DEF LedgerRow, Open
  <2> QED
    BY <1>1, <1>2, <1>3, <2>1, <2>2 DEF Moves
<1>9. CASE Book!Settles(u, v)
  <2>1. /\ u.status = "response_received" /\ v.status \in {"settled", "cancelled_late"}
        /\ v.dispatch = u.dispatch
    BY <1>9 DEF Book!Settles, View, Row
  <2> QED
    BY <1>1, <1>2, <2>1 DEF Moves
<1>10. CASE Book!Withdraws(u, v)
  <2>1. u.status = "prepared" /\ v.status = "settled" /\ v.dispatch = u.dispatch
    BY <1>10 DEF Book!Withdraws, View, Row
  <2> QED
    BY <1>1, <1>2, <2>1 DEF Moves
<1>11. EntryStep(s, n)
  BY EntriesStep, EntryStays DEF vars
<1> QED
  BY <1>4, <1>5, <1>6, <1>7, <1>8, <1>9, <1>10, <1>11 DEF EntryStep

\* The rows of the kernel's own tables: the sources, the leases and the jobs.
RowInv == SourceInv /\ AttemptRows /\ JobRows

\* The invariant of the rows holds at the start.
LEMMA RowInitInv == Init => RowInv
<1> SUFFICES ASSUME Init PROVE RowInv
  OBVIOUS
<1>1. SourceInv
  BY SourceInitInv
<1>2. AttemptRows
  BY DEF Init, AttemptRows, AttemptRow, NoLease
<1>3. JobRows
  BY DEF Init, JobRows, JobRow, NoCheckpoint
<1> QED
  BY <1>1, <1>2, <1>3 DEF RowInv

\* Every kernel step keeps it.
LEMMA RowStepInv == RowInv /\ [Next]_vars => RowInv'
<1> SUFFICES ASSUME RowInv, [Next]_vars PROVE RowInv'
  OBVIOUS
<1>1. SourceInv'
  BY SourceStepInv DEF RowInv
<1>2. TypeOK'
  BY <1>1 DEF SourceInv, WorkInv, StoreInv, KernelInv
<1>3. AttemptRows'
  BY <1>2, AttemptRowsStep DEF RowInv, SourceInv, WorkInv
<1>4. JobRows'
  BY <1>2, JobRowsStep DEF RowInv, SourceInv
<1> QED
  BY <1>1, <1>3, <1>4 DEF RowInv

\* Leases, attempts, jobs and retry times tell the same story in every
\* reachable state.
THEOREM RowInvariance == Spec => []RowInv
BY RowInitInv, RowStepInv, PTL DEF Spec

\* Every step of the kernel moves every row of runs, shards, jobs, leases,
\* attempts, requests and source positions as its table in the store allows,
\* whatever operators, crashes and late answers come between; left out are the
\* rows that RowsAccepted names.
THEOREM RowsAreAccepted == Spec => RowsAccepted
<1> DEFINE Accepted ==
             /\ \A r \in Runs :
                  \/ run'[r].status \in {"pause_requested", "cancel_requested"}
                  \/ run[r].status = "queued" /\ run'[r].status \in {"succeeded", "partial_success"}
                  \/ RunRow(r)
             /\ \A s \in Shards : shard'[s] = "cancel_requested" \/ ShardRow(s)
             /\ OtherRows
<1>1. ASSUME RowInv, RowInv', [Next]_vars PROVE Accepted
  <2> USE <1>1 DEF RowInv, SourceInv, WorkInv
  <2>0. TypeOK'
    BY DEF StoreInv, KernelInv
  <2>1. \A r \in Runs : RunAccepted(r)
    BY <2>0, RunsAccepted
  <2>2. \A s \in Shards : ShardAccepted(s)
    BY <2>0, ShardsAccepted
  <2>3. \A s \in Shards : JobAccepted(s)
    BY <2>0, JobsAccepted
  <2>4. \A s \in Shards, f \in Fences :
          /\ LeaseStep(lease[s][f], lease'[s][f])
          /\ Moves(AttemptTransitions, lease[s][f].attempt, lease'[s][f].attempt)
    BY AttemptRowMoves
  <2>5. \A s \in Shards, n \in CallNos :
          /\ Moves(Book!LedgerTransitions, ledger[s][n].status, ledger'[s][n].status)
          /\ Moves(Book!DispatchTransitions, ledger[s][n].dispatch, ledger'[s][n].dispatch)
    BY EntriesAccepted
  <2>6. ASSUME NEW c \in Scopes, position[c] = "exhausted" PROVE position'[c] = "exhausted"
    <3> SUFFICES ASSUME position'[c] # position[c] PROVE FALSE
      BY <2>6
    <3>1. PICK t \in Shards, n \in CallNos : SettleSuccess(t, n) /\ ScopeOf[t] = c
      BY PositionMoves DEF StoreInv, KernelInv
    <3> QED
      BY <2>6, <3>1, SettlerReads DEF SourceRows, SourceRow
  <2> QED
    BY <2>1, <2>2, <2>3, <2>4, <2>5, <2>6
       DEF RunAccepted, ShardAccepted, JobAccepted, OtherRows
<1>2. RowInv /\ RowInv' /\ [Next]_vars => [Accepted]_vars
  BY <1>1
<1> QED
  BY RowInvariance, <1>2, PTL DEF Spec, RowsAccepted

-----------------------------------------------------------------------------
(* The counters of a checkpoint.                                           *)

\* The requests that have brought a page.
Paged(s) == {n \in CallNos : ledger[s][n].pages = 1}

\* Every request up to the total has been sent; the last ones, as many as are
\* counted for the page that is being read, belong to that page and are
\* numbered in turn.  Who has brought a page is settled with its attempt.
CountEntry(s, n) ==
  LET c == ckpt[s]
      e == ledger[s][n]
  IN
  /\ n <= c.total => e.by # 0
  /\ e.by # 0 => IF n + c.calls > c.total
                 THEN e.no = c.no /\ e.call + c.total = n + c.calls
                 ELSE e.no < c.no
  /\ e.pages # 0 => /\ e.pages = 1 /\ e.by # 0 /\ e.status = "settled"
                    /\ AnswerLease(s, n).attempt = "succeeded"

\* No lease has sent two requests, and every one that was used has sent one.
CountRow(s) ==
  /\ ckpt[s].calls <= ckpt[s].total /\ ckpt[s].total <= MaxCalls
  /\ \A n \in CallNos : CountEntry(s, n)
  /\ \A m, n \in CallNos : /\ ledger[s][m].by # 0 /\ ledger[s][m].by = ledger[s][n].by
                           => m = n
  /\ \A f \in Fences : lease[s][f].started => \E n \in CallNos : ledger[s][n].by = f
  /\ ckpt[s].pages = Cardinality(Paged(s))
CountRows == \A s \in Shards : CountRow(s)

\* What a step leaves of an entry that is neither sent nor brings a page.
EntryKept(a, b) ==
  /\ b.by = a.by /\ b.pages = a.pages
  /\ a.by # 0 => b.no = a.no /\ b.call = a.call
  /\ a.status = "settled" => b.status = "settled"

\* Leases are recovered.
LEMMA RecoverKeepsEntries ==
  ASSUME StoreInv, NEW t \in Shards, NEW n \in CallNos,
         ledger'[t] \in {GivenUp(t), ledger[t]}
  PROVE  EntryKept(ledger[t][n], ledger'[t][n])
<1> USE DEF StoreInv, KernelInv
<1> DEFINE x == [ledger[t][n] EXCEPT !.status = "outcome_unknown", !.dispatch = "outcome_unknown"]
<1>1. x.by = ledger[t][n].by /\ x.no = ledger[t][n].no /\ x.call = ledger[t][n].call
      /\ x.pages = ledger[t][n].pages
  BY EntryType DEF LedgerEntry
<1>2. ledger[t][n].dispatch = "started" => ledger[t][n].status = "dispatch_started"
  BY DEF LedgerRows, LedgerRow, SentBy
<1>3. \/ ledger'[t][n] = ledger[t][n]
      \/ ledger[t][n].dispatch = "started" /\ ledger'[t][n] = x
  BY DEF GivenUp
<1> HIDE DEF x
<1> QED
  BY <1>1, <1>2, <1>3 DEF EntryKept

\* Requests that have not left are withdrawn.
LEMMA WithdrawKeepsEntries ==
  ASSUME StoreInv, NEW t \in Shards, NEW n \in CallNos,
         ledger'[t] \in {Withdrawn(t), ledger[t]}
  PROVE  EntryKept(ledger[t][n], ledger'[t][n])
<1> USE DEF StoreInv, KernelInv
<1> DEFINE x == [ledger[t][n] EXCEPT !.status = "settled", !.kind = "cancelled_before_dispatch"]
<1>1. x.by = ledger[t][n].by /\ x.no = ledger[t][n].no /\ x.call = ledger[t][n].call
      /\ x.pages = ledger[t][n].pages /\ x.status = "settled"
  BY EntryType DEF LedgerEntry
<1>2. ledger'[t][n] = ledger[t][n] \/ ledger'[t][n] = x
  BY DEF Withdrawn
<1> HIDE DEF x
<1> QED
  BY <1>1, <1>2 DEF EntryKept

\* A request is prepared.
LEMMA PrepareKeepsEntries ==
  ASSUME StoreInv, NEW s \in Shards, Prepare(s), NEW t \in Shards, NEW n \in CallNos
  PROVE  EntryKept(ledger[t][n], ledger'[t][n])
<1> USE DEF StoreInv, KernelInv
<1> DEFINE k == NextCall(s)
           b == [ledger[s][k] EXCEPT !.bound = fence[s]]
<1>1. \/ ledger' = [ledger EXCEPT ![s][k] = NewEntry(s)]
      \/ ledger' = [ledger EXCEPT ![s][k] = b]
  BY DEF Prepare
<1>2. ledger[s][k].status \in {"none", "prepared"}
  BY DEF Prepare
<1>3. NewEntry(s).by = 0 /\ NewEntry(s).pages = 0
  BY DEF NewEntry, NoEntry
<1>4. k \in CallNos => /\ b.by = ledger[s][k].by /\ b.pages = ledger[s][k].pages
                       /\ b.status = ledger[s][k].status
  BY EntryType DEF LedgerEntry
<1>5. k \in CallNos => ledger[s][k].by = 0 /\ ledger[s][k].pages = 0
  BY <1>2 DEF LedgerRows, LedgerRow, Unsent
<1> HIDE DEF b, k
<1>6. \/ ledger'[t][n] = ledger[t][n]
      \/ t = s /\ n = k /\ ledger'[t][n] \in {NewEntry(s), b}
  BY <1>1 DEF TypeOK
<1> QED
  BY <1>2, <1>3, <1>4, <1>5, <1>6 DEF EntryKept

\* An answer is stored.
LEMMA PersistKeepsEntries ==
  ASSUME StoreInv, NEW s \in Shards, NEW k \in CallNos, NEW resp \in Responses,
         PersistResponse(s, k, resp), NEW t \in Shards, NEW n \in CallNos
  PROVE  EntryKept(ledger[t][n], ledger'[t][n])
<1> USE DEF StoreInv, KernelInv
<1> DEFINE x == [ledger[s][k] EXCEPT !.status = "response_received", !.resp = resp,
                                     !.dispatch = "response_received"]
<1>1. ledger' = [ledger EXCEPT ![s][k] = x] /\ ledger[s][k].status # "settled"
  BY DEF PersistResponse, MayPersist
<1>2. x.by = ledger[s][k].by /\ x.no = ledger[s][k].no /\ x.call = ledger[s][k].call
      /\ x.pages = ledger[s][k].pages
  BY EntryType DEF LedgerEntry
<1> HIDE DEF x
<1>3. ledger'[t][n] = ledger[t][n] \/ (t = s /\ n = k /\ ledger'[t][n] = x)
  BY <1>1 DEF TypeOK
<1> QED
  BY <1>1, <1>2, <1>3 DEF EntryKept

\* The entry that is closed, and the others.
LEMMA CloseEntries ==
  ASSUME StoreInv, NEW s \in Shards, NEW k \in CallNos, Settleable(s, k),
         NEW kind \in {"success", "failure", "cancelled_late"}, NEW at, Close(s, k, kind, at)
  PROVE  /\ \A t \in Shards, n \in CallNos : t # s \/ n # k => ledger'[t][n] = ledger[t][n]
         /\ ledger[s][k].pages = 0 /\ ledger[s][k].status = "response_received"
         /\ LET a == ledger[s][k]
                b == ledger'[s][k]
            IN  /\ b.by = a.by /\ b.no = a.no /\ b.call = a.call
                /\ b.pages = IF kind = "success" THEN 1 ELSE 0
                /\ b.status = IF kind = "cancelled_late" THEN kind ELSE "settled"
<1> USE DEF StoreInv, KernelInv
<1> DEFINE x == [ClosedEntry(ledger[s][k], kind) EXCEPT !.evidence = 1]
<1>1. ledger' = [ledger EXCEPT ![s][k] = x]
  BY DEF Close
<1>2. /\ x.by = ledger[s][k].by /\ x.no = ledger[s][k].no /\ x.call = ledger[s][k].call
      /\ x.pages = IF kind = "success" THEN 1 ELSE 0
      /\ x.status = IF kind = "cancelled_late" THEN kind ELSE "settled"
  BY EntryType DEF ClosedEntry, LedgerEntry
<1> HIDE DEF x
<1>3. ledger'[s][k] = x
      /\ \A t \in Shards, n \in CallNos : t # s \/ n # k => ledger'[t][n] = ledger[t][n]
  BY <1>1 DEF TypeOK
<1> QED
  BY <1>2, <1>3 DEF Settleable

\* Only sending a request or accepting a page does more to an entry.
LEMMA EntriesKept ==
  ASSUME StoreInv, [Next]_vars, NEW t \in Shards, ~SendRequest(t),
         \A k \in CallNos : ~SettleSuccess(t, k), NEW n \in CallNos
  PROVE  EntryKept(ledger[t][n], ledger'[t][n])
<1> USE DEF StoreInv, KernelInv
<1>1. ASSUME ledger'[t] = ledger[t] PROVE EntryKept(ledger[t][n], ledger'[t][n])
  BY <1>1 DEF EntryKept
<1>2. ASSUME NEW r \in Runs, RequestCancel(r) PROVE EntryKept(ledger[t][n], ledger'[t][n])
  <2>1. ledger'[t] \in {Withdrawn(t), ledger[t]}
    BY <1>2 DEF RequestCancel
  <2> QED
    BY <2>1, WithdrawKeepsEntries
<1>3. ASSUME Start \/ RecoverExpired PROVE EntryKept(ledger[t][n], ledger'[t][n])
  <2>1. ledger'[t] \in {GivenUp(t), ledger[t]}
    BY <1>3 DEF Start, RecoverExpired, RecoverLeases
  <2> QED
    BY <2>1, RecoverKeepsEntries
<1>4. ASSUME NEW s \in Shards, DispatchFails(s) PROVE EntryKept(ledger[t][n], ledger'[t][n])
  <2>1. ledger'[t] \in {GivenUp(t), ledger[t]}
    BY <1>4 DEF DispatchFails, TypeOK
  <2> QED
    BY <2>1, RecoverKeepsEntries
<1>5. ASSUME NEW s \in Shards, SendRequest(s) PROVE EntryKept(ledger[t][n], ledger'[t][n])
  <2>1. s # t
    BY <1>5
  <2>2. ledger'[t] = ledger[t]
    BY <1>5, <2>1 DEF SendRequest, TypeOK
  <2> QED
    BY <1>1, <2>2
<1>6. ASSUME NEW s \in Shards, NEW k \in CallNos,
             SettleLate(s, k) \/ SettleSuccess(s, k) \/ SettleFailure(s, k)
      PROVE  EntryKept(ledger[t][n], ledger'[t][n])
  <2>1. Settleable(s, k)
    BY <1>6 DEF SettleLate, SettleSuccess, SettleFailure
  <2>2. PICK kind \in {"success", "failure", "cancelled_late"} :
          \E at : Close(s, k, kind, at) /\ (kind = "success" => SettleSuccess(s, k))
    BY <1>6 DEF SettleLate, SettleSuccess, SettleFailure
  <2>3. PICK at : Close(s, k, kind, at) /\ (kind = "success" => SettleSuccess(s, k))
    BY <2>2
  <2>4. CASE t # s \/ n # k
    BY <2>1, <2>3, <2>4, CloseEntries DEF EntryKept
  <2>5. CASE t = s /\ n = k
    <3>1. kind # "success"
      BY <2>3, <2>5
    <3> QED
      BY <2>1, <2>3, <2>5, <3>1, CloseEntries DEF EntryKept
  <2> QED
    BY <2>4, <2>5
<1>7. CASE UNCHANGED vars
  BY <1>1, <1>7 DEF vars
<1> QED
  BY <1>1, <1>2, <1>3, <1>4, <1>5, <1>6, <1>7, PrepareKeepsEntries, PersistKeepsEntries
     DEF Next, CreateRun, RequestPause, Resume, ClaimNext, Lapse, RetryDue, WindowOpens,
         Defer, CallLost

\* What a step leaves of the counters of a checkpoint that neither sends nor
\* accepts; who had no checkpoint gets an empty one.
CountersKept(t) ==
  LET c == ckpt[t]
      d == ckpt'[t]
  IN
  /\ d.total = c.total /\ d.calls = c.calls /\ d.pages = c.pages
  /\ d.no = c.no \/ c.total = 0

\* A claim counts nothing: the checkpoint it makes has sent no request yet.
LEMMA ClaimKeepsCounters ==
  ASSUME StoreInv, WorkRows, ClaimNext, NEW t \in Shards
  PROVE  CountersKept(t)
<1>1. ckpt'[t] = ckpt[t] \/ (~ckpt[t].exists /\ ckpt'[t] = NewCheckpoint(t))
  BY DEF ClaimNext
<1>2. NewCheckpoint(t).pages = 0 /\ NewCheckpoint(t).calls = 0 /\ NewCheckpoint(t).total = 0
  BY DEF NewCheckpoint, NoCheckpoint
<1>3. ~ckpt[t].exists => ckpt[t].pages = 0 /\ ckpt[t].calls = 0 /\ ckpt[t].total = 0
  BY DEF StoreInv, CheckpointRows, WorkRows, WorkRow, WaitRow, Unwritten
<1> QED
  BY <1>1, <1>2, <1>3 DEF CountersKept

\* Only a claim makes a checkpoint, only a dispatch and an accepted page count
\* on one.
LEMMA OtherCountersKept ==
  ASSUME StoreInv, WorkRows, [Next]_vars, NEW t \in Shards, ~SendRequest(t),
         \A k \in CallNos : ~SettleSuccess(t, k)
  PROVE  CountersKept(t)
<1> USE DEF StoreInv, KernelInv
<1> DEFINE Same(c, d) == /\ d.total = c.total /\ d.calls = c.calls /\ d.pages = c.pages
                         /\ d.no = c.no
<1>1. ckpt[t] \in Checkpoint
  BY DEF TypeOK
<1>2. ASSUME ckpt'[t] = ckpt[t] PROVE CountersKept(t)
  BY <1>2 DEF CountersKept
<1>3. ASSUME NEW S, RetryFalls(S) PROVE CountersKept(t)
  <2>1. Same(ckpt[t], [ckpt[t] EXCEPT !.retry = "due"])
    BY <1>1 DEF Checkpoint
  <2>2. ckpt'[t] \in {ckpt[t], [ckpt[t] EXCEPT !.retry = "due"]}
    BY <1>3 DEF RetryFalls
  <2> QED
    BY <2>1, <2>2 DEF CountersKept
<1>4. ASSUME NEW r \in Runs, RequestCancel(r) PROVE CountersKept(t)
  <2> DEFINE c == [ckpt[t] EXCEPT !.sealed = 0, !.retry = "none", !.done = TRUE]
  <2>1. Same(ckpt[t], c)
    BY <1>1 DEF Checkpoint
  <2>2. ckpt'[t] = ckpt[t] \/ ckpt'[t] = c
    BY <1>4 DEF RequestCancel
  <2> HIDE DEF c
  <2> QED
    BY <2>1, <2>2 DEF CountersKept
<1>5. ASSUME NEW r \in Runs, Resume(r) PROVE CountersKept(t)
  <2> DEFINE n == IF ckpt[t].sealed = 0 THEN 0 ELSE run[r].epoch + 1
             w == IF ckpt[t].retry = "later" THEN ckpt[t].retry ELSE "none"
             c == [ckpt[t] EXCEPT !.sealed = n, !.retry = w]
  <2>1. ckpt'[t] = ckpt[t] \/ ckpt'[t] = [ckpt[t] EXCEPT
                                !.sealed = IF @ = 0 THEN 0 ELSE run[r].epoch + 1,
                                !.retry  = IF ckpt[t].retry = "later" THEN @ ELSE "none"]
    BY <1>5 DEF Resume
  <2>2. ckpt'[t] = ckpt[t] \/ ckpt'[t] = c
    BY <1>1, <2>1 DEF Checkpoint
  <2> HIDE DEF n, w
  <2>3. Same(ckpt[t], c)
    BY <1>1 DEF Checkpoint
  <2> HIDE DEF c
  <2> QED
    BY <2>2, <2>3 DEF CountersKept
<1>6. ASSUME NEW s \in Shards, Defer(s) PROVE CountersKept(t)
  <2>1. ckpt'[t] = ckpt[t] \/ ckpt'[t] = [ckpt[t] EXCEPT !.retry = "later"]
    BY <1>6 DEF Defer, TypeOK
  <2> QED
    BY <1>1, <2>1 DEF Checkpoint, CountersKept
<1>7. ASSUME NEW s \in Shards, SendRequest(s) PROVE CountersKept(t)
  <2>1. s # t
    BY <1>7
  <2>2. ckpt'[t] = ckpt[t]
    BY <1>7, <2>1 DEF SendRequest, TypeOK
  <2> QED
    BY <1>2, <2>2
<1>8. ASSUME NEW s \in Shards, NEW k \in CallNos, SettleSuccess(s, k) PROVE CountersKept(t)
  <2>1. s # t
    BY <1>8
  <2>2. ckpt'[t] = ckpt[t]
    BY <1>8, <2>1 DEF SettleSuccess, TypeOK
  <2> QED
    BY <1>2, <2>2
<1>9. ASSUME NEW s \in Shards, NEW n \in CallNos, SettleFailure(s, n) PROVE CountersKept(t)
  <2> DEFINE part == ckpt[s].accepted > 0
             wait == [ckpt[s] EXCEPT !.retry = "later"]
             last == [ckpt[s] EXCEPT !.retry = "none", !.done = TRUE, !.partial = part]
  <2>1. ckpt[s] \in Checkpoint
    BY DEF TypeOK
  <2>2. ckpt' = [ckpt EXCEPT ![s] = wait] \/ ckpt' = [ckpt EXCEPT ![s] = last]
    BY <1>9, <2>1 DEF SettleFailure, TypeOK
  <2> HIDE DEF part
  <2>3. Same(ckpt[s], wait) /\ Same(ckpt[s], last)
    BY <2>1 DEF Checkpoint
  <2> HIDE DEF wait, last
  <2> QED
    BY <2>2, <2>3 DEF CountersKept, TypeOK
<1>10. CASE UNCHANGED vars
  BY <1>2, <1>10 DEF vars
<1> QED
  BY <1>2, <1>3, <1>4, <1>5, <1>6, <1>7, <1>8, <1>9, <1>10, ClaimKeepsCounters
     DEF Next, CreateRun, RequestPause, Start, RecoverExpired, WindowOpens, Lapse,
         RetryDue, Prepare, DispatchFails, CallLost, PersistResponse, SettleLate

\* Which leases have sent a request, and which attempts have succeeded.
LEMMA SendersKept ==
  ASSUME StoreInv, AttemptRows, [Next]_vars, NEW t \in Shards, ~SendRequest(t),
         NEW f \in Fences
  PROVE  /\ lease'[t][f].started = lease[t][f].started
         /\ lease[t][f].attempt = "succeeded" => lease'[t][f].attempt = "succeeded"
<1>1. LeaseMove(t, f) /\ AttemptRow(t, f)
  BY LeasesMove DEF AttemptRows
<1>2. lease[t][f] \in Lease
  BY DEF StoreInv, KernelInv, TypeOK
<1>3. NoLease.started = FALSE /\ NoLease.attempt = "none"
  BY DEF NoLease
<1>4. lease'[t][f] \in Lease
  <2>1. TypeOK'
    BY StepInv DEF StoreInv, KernelInv
  <2> QED
    BY <2>1 DEF TypeOK
<1>5. Issued(lease[t][f], lease'[t][f]) => lease'[t][f].started = lease[t][f].started
  BY <1>3, <1>4 DEF Issued, Lease
<1>6. CASE Judged(lease[t][f], lease'[t][f])
  <2>1. lease'[t][f] = [lease[t][f] EXCEPT !.attempt = lease'[t][f].attempt]
    BY <1>6 DEF Judged
  <2>2. \A x : [lease[t][f] EXCEPT !.attempt = x].started = lease[t][f].started
    BY <1>2 DEF Lease
  <2>3. lease'[t][f].started = lease[t][f].started
    BY <2>1, <2>2
  <2> QED
    BY <1>6, <2>3 DEF Judged
<1> QED
  BY <1>1, <1>3, <1>5, <1>6 DEF LeaseMove, AttemptRow, Ended, Lapsed, Issued

\* The row after a step that neither sends nor accepts.
LEMMA CountRowKept ==
  ASSUME StoreInv, WorkRows, AttemptRows, [Next]_vars, NEW t \in Shards, CountRow(t),
         ~SendRequest(t), \A k \in CallNos : ~SettleSuccess(t, k)
  PROVE  CountRow(t)'
<1> USE DEF StoreInv, KernelInv
<1>1. \A n \in CallNos : EntryKept(ledger[t][n], ledger'[t][n])
  BY EntriesKept
<1>2. CountersKept(t)
  BY OtherCountersKept
<1>3. Paged(t)' = Paged(t)
  BY <1>1 DEF Paged, EntryKept
<1>4. ASSUME NEW n \in CallNos PROVE CountEntry(t, n)'
  <2>1. CountEntry(t, n) /\ LedgerRow(t, n)
    BY DEF CountRow, LedgerRows
  <2>2. ledger[t][n].by # 0 => ledger[t][n].by \in Fences /\ n <= ckpt[t].total
    BY <2>1, SenderIsLease DEF LedgerRow, SentBy
  <2>3. ckpt[t].total = 0 => ledger[t][n].by = 0
    BY <2>2 DEF CallNos
  <2>4. ledger[t][n].pages # 0 => AnswerLease(t, n)'.attempt = "succeeded"
    <3>1. ASSUME ledger[t][n].pages # 0
          PROVE  lease'[t][ledger'[t][n].by].attempt = "succeeded"
      <4>1. /\ ledger[t][n].by # 0 /\ AnswerLease(t, n).attempt = "succeeded"
            /\ ledger'[t][n].by = ledger[t][n].by
        BY <1>1, <2>1, <3>1 DEF CountEntry, EntryKept
      <4> QED
        BY <2>2, <4>1, SendersKept DEF AnswerLease
    <3> QED
      BY <3>1 DEF AnswerLease
  <2> QED
    BY <1>1, <1>2, <2>1, <2>3, <2>4 DEF CountEntry, CountersKept, EntryKept
<1>5. \A m, n \in CallNos : ledger'[t][m].by # 0 /\ ledger'[t][m].by = ledger'[t][n].by => m = n
  BY <1>1 DEF CountRow, EntryKept
<1>6. \A f \in Fences : lease'[t][f].started => \E n \in CallNos : ledger'[t][n].by = f
  BY <1>1, SendersKept DEF CountRow, EntryKept
<1> QED
  BY <1>2, <1>3, <1>4, <1>5, <1>6 DEF CountRow, CountersKept

\* The request that is sent is the next one of the page that is being read,
\* and its lease has sent no other.
LEMMA SendCounts ==
  ASSUME StoreInv, RunShapes, WorkRows, NEW s \in Shards, CountRow(s), SendRequest(s)
  PROVE  CountRow(s)'
<1> USE DEF StoreInv, KernelInv
<1> DEFINE k == NextCall(s)
           g == fence[s]
           l == [lease[s][g] EXCEPT !.attempt = "request_started", !.started = TRUE]
           x == [ledger[s][k] EXCEPT !.status = "dispatch_started", !.by = g,
                                     !.dispatch = "started"]
           c == [ckpt[s] EXCEPT !.calls = @ + 1, !.total = @ + 1, !.retry = "none"]
<1>1. /\ MayRequest(s) /\ ledger[s][k].status = "prepared"
      /\ ledger[s][k].no = ckpt[s].no /\ ledger[s][k].call = ckpt[s].calls + 1
  BY DEF SendRequest, MayDispatch
<1>2. /\ Held(s) /\ ~Current(s).started /\ k \in CallNos
  BY <1>1, RequesterWorks, CallLeft
<1>3. /\ lease' = [lease EXCEPT ![s][g] = l]
      /\ ledger' = [ledger EXCEPT ![s][k] = x]
      /\ ckpt' = [ckpt EXCEPT ![s] = c]
  BY DEF SendRequest
<1>4. lease[s][g] \in Lease /\ g \in Fences /\ g # 0
  BY <1>2, CurrentType DEF Current, Held
<1>5. l.started
  BY <1>4 DEF Lease
<1>6. /\ x.status = "dispatch_started" /\ x.by = g /\ x.no = ledger[s][k].no
      /\ x.call = ledger[s][k].call /\ x.pages = ledger[s][k].pages
  BY <1>2, EntryType DEF LedgerEntry
<1>7. /\ c.calls = ckpt[s].calls + 1 /\ c.total = ckpt[s].total + 1 /\ c.pages = ckpt[s].pages
      /\ c.no = ckpt[s].no
      /\ ckpt[s].calls \in Nat /\ ckpt[s].total \in Nat
  <2>1. ckpt[s] \in Checkpoint
    BY DEF TypeOK
  <2> QED
    BY <2>1 DEF Checkpoint
<1> HIDE DEF l, x, c
<1>8. lease'[s][g] = l /\ \A f \in Fences : f # g => lease'[s][f] = lease[s][f]
  BY <1>3, <1>4 DEF TypeOK
<1>9. ledger'[s][k] = x /\ \A n \in CallNos : n # k => ledger'[s][n] = ledger[s][n]
  BY <1>2, <1>3 DEF TypeOK
<1>10. ckpt'[s] = c
  BY <1>3 DEF TypeOK
<1>11. ASSUME NEW n \in CallNos PROVE ledger[s][n].by # g /\ LedgerRow(s, n) /\ CountEntry(s, n)
  BY <1>2, <1>4, UnusedIsQuiet DEF LedgerRows, CountRow
<1>12. k = ckpt[s].total + 1 /\ k \in Nat /\ k <= MaxCalls
  BY <1>2, KernelConstants DEF CallNos, NextCall, MaxCalls
<1>13. ledger[s][k].by = 0 /\ ledger[s][k].pages = 0
  BY <1>1, <1>2, <1>11 DEF LedgerRow, Unsent
<1> HIDE DEF k, g
<1>14. Paged(s)' = Paged(s)
  BY <1>6, <1>9 DEF Paged
<1>15. ASSUME NEW n \in CallNos, n = k PROVE CountEntry(s, n)'
  <2>1. ledger'[s][n] = x /\ ckpt'[s] = c
    BY <1>9, <1>10, <1>15
  <2>2. n = ckpt[s].total + 1
    BY <1>12, <1>15
  <2>3. x.no = c.no /\ x.call = ckpt[s].calls + 1 /\ x.by # 0 /\ x.pages = 0
    BY <1>1, <1>4, <1>6, <1>7, <1>13
  <2> QED
    BY <1>7, <2>1, <2>2, <2>3 DEF CountEntry
<1>16. ASSUME NEW n \in CallNos, n # k PROVE CountEntry(s, n)'
  <2>1. ledger[s][n].by # 0 => n <= ckpt[s].total /\ ledger[s][n].by \in Fences
    BY <1>11, SenderIsLease DEF LedgerRow, SentBy
  <2>2. n \in Nat /\ ledger[s][n].call \in Nat
    BY EntryType DEF LedgerEntry
  <2>3. ledger[s][n].by # 0 => AnswerLease(s, n)' = AnswerLease(s, n)
    BY <1>8, <1>9, <1>11, <1>16, <2>1 DEF AnswerLease
  <2> QED
    BY <1>7, <1>9, <1>10, <1>11, <1>12, <1>16, <2>1, <2>2, <2>3 DEF CountEntry
<1>17. ASSUME NEW m \in CallNos, NEW n \in CallNos,
              ledger'[s][m].by # 0, ledger'[s][m].by = ledger'[s][n].by
       PROVE  m = n
  BY <1>6, <1>9, <1>11, <1>17 DEF CountRow
<1>18. ASSUME NEW f \in Fences, lease'[s][f].started
       PROVE  \E n \in CallNos : ledger'[s][n].by = f
  <2>1. CASE f = g
    BY <1>2, <1>6, <1>9, <2>1 DEF k
  <2>2. CASE f # g
    <3>1. PICK n \in CallNos : ledger[s][n].by = f
      BY <1>8, <1>18, <2>2 DEF CountRow
    <3>2. n # k
      BY <1>13, <3>1, KernelConstants DEF Fences
    <3> QED
      BY <1>9, <3>1, <3>2
  <2> QED
    BY <2>1, <2>2
<1>19. ckpt'[s].calls <= ckpt'[s].total /\ ckpt'[s].total <= MaxCalls
  BY <1>7, <1>10, <1>12 DEF CountRow
<1>20. ckpt'[s].pages = Cardinality(Paged(s)')
  BY <1>7, <1>10, <1>14 DEF CountRow
<1> QED
  BY <1>15, <1>16, <1>17, <1>18, <1>19, <1>20 DEF CountRow

\* The sets of requests and of pages are finite.
LEMMA CallNosFinite == ASSUME NEW s PROVE IsFiniteSet(CallNos) /\ IsFiniteSet(Paged(s))
<1>1. MaxCalls \in Int
  BY KernelConstants DEF MaxCalls
<1>2. IsFiniteSet(CallNos)
  BY <1>1, FS_Interval DEF CallNos
<1>3. Paged(s) \in SUBSET CallNos
  BY DEF Paged
<1> QED
  BY <1>2, <1>3, FS_Subset

\* A page is accepted: it is counted, and its request ends the page.
LEMMA AcceptCounts ==
  ASSUME StoreInv, NEW s \in Shards, CountRow(s), NEW k \in CallNos, SettleSuccess(s, k)
  PROVE  CountRow(s)'
<1> USE DEF StoreInv, KernelInv
<1> DEFINE g == ledger[s][k].by
           l == [lease[s][g] EXCEPT !.attempt = "succeeded"]
<1>1. Settleable(s, k) /\ Close(s, k, "success", "succeeded")
  BY DEF SettleSuccess
<1>2. LedgerRow(s, k) /\ ~Quiet(s, k) /\ g # 0 /\ g \in Fences
  <2>1. LedgerRow(s, k) /\ ~Quiet(s, k) /\ g # 0
    BY <1>1 DEF LedgerRows, Settleable, Quiet, LedgerRow, Open
  <2> QED
    BY <2>1, SenderIsLease DEF LedgerRow
<1>3. /\ \A n \in CallNos : n # k => ledger'[s][n] = ledger[s][n]
      /\ ledger[s][k].pages = 0
      /\ ledger'[s][k].by = g /\ ledger'[s][k].no = ledger[s][k].no
      /\ ledger'[s][k].call = ledger[s][k].call
      /\ ledger'[s][k].pages = 1 /\ ledger'[s][k].status = "settled"
  BY <1>1, CloseEntries
<1>4. lease' = [lease EXCEPT ![s][g] = l]
  BY <1>1 DEF Close
<1>5. lease[s][g] \in Lease
  BY <1>2 DEF TypeOK
<1>6. l.attempt = "succeeded" /\ l.started = lease[s][g].started
  BY <1>5 DEF Lease
<1>7. /\ ckpt'[s].total = ckpt[s].total /\ ckpt'[s].pages = ckpt[s].pages + 1
      /\ \/ ckpt'[s].no = ckpt[s].no /\ ckpt'[s].calls = ckpt[s].calls
         \/ ckpt'[s].no = ckpt[s].no + 1 /\ ckpt'[s].calls = 0
  <2> DEFINE resp == ledger[s][k].resp
             take == Taken(s, resp)
             part == ckpt[s].partial \/ resp.partial \/ take # resp.accepted
             page == [ckpt[s] EXCEPT !.pages = @ + 1, !.accepted = @ + take,
                                     !.partial = part, !.retry = "none"]
             last == [page EXCEPT !.sealed = 0, !.done = TRUE]
             more == [page EXCEPT !.no = @ + 1, !.calls = 0,
                                  !.sealed = run[RunOf[s]].epoch]
  <2>1. ckpt[s] \in Checkpoint
    BY DEF TypeOK
  <2>2. ckpt' = [ckpt EXCEPT ![s] = last] \/ ckpt' = [ckpt EXCEPT ![s] = more]
    BY <2>1 DEF SettleSuccess, Checkpoint
  <2> HIDE DEF resp, take, part
  <2>3. /\ last.total = ckpt[s].total /\ last.pages = ckpt[s].pages + 1
        /\ last.no = ckpt[s].no /\ last.calls = ckpt[s].calls
    BY <2>1 DEF Checkpoint
  <2>4. /\ more.total = ckpt[s].total /\ more.pages = ckpt[s].pages + 1
        /\ more.no = ckpt[s].no + 1 /\ more.calls = 0
    BY <2>1 DEF Checkpoint
  <2> HIDE DEF last, more
  <2>5. ckpt'[s] = last \/ ckpt'[s] = more
    BY <2>2 DEF TypeOK
  <2> QED
    BY <2>3, <2>4, <2>5
<1>8. /\ ckpt[s].calls \in Nat /\ ckpt[s].total \in Nat /\ ckpt[s].no \in Nat
      /\ ckpt[s].pages \in Nat
  <2>1. ckpt[s] \in Checkpoint
    BY DEF TypeOK
  <2> QED
    BY <2>1 DEF Checkpoint
<1>9. \A n \in CallNos : ledger[s][n].no \in Nat /\ n \in Nat
  BY EntryType DEF LedgerEntry
<1> HIDE DEF l
<1>10. lease'[s][g] = l /\ \A f \in Fences : f # g => lease'[s][f] = lease[s][f]
  BY <1>2, <1>4 DEF TypeOK
<1>11. ASSUME NEW n \in CallNos PROVE CountEntry(s, n)'
  <2>1. CountEntry(s, n) /\ LedgerRow(s, n)
    BY DEF CountRow, LedgerRows
  <2>2. ledger[s][n].by # 0 => n <= ckpt[s].total /\ ledger[s][n].by \in Fences
    BY <2>1, SenderIsLease DEF LedgerRow, SentBy
  <2>3. /\ ledger'[s][n].by = ledger[s][n].by /\ ledger'[s][n].no = ledger[s][n].no
        /\ ledger'[s][n].call = ledger[s][n].call
    BY <1>3
  <2>4. ledger'[s][n].pages # 0 =>
          /\ ledger'[s][n].pages = 1 /\ ledger[s][n].by # 0 /\ ledger'[s][n].status = "settled"
          /\ AnswerLease(s, n)'.attempt = "succeeded"
    <3>1. CASE n = k
      BY <1>2, <1>3, <1>6, <1>10, <3>1 DEF AnswerLease
    <3>2. CASE n # k
      <4>1. /\ ledger'[s][n] = ledger[s][n]
            /\ ledger[s][n].pages # 0 => lease[s][ledger[s][n].by].attempt = "succeeded"
        BY <1>3, <2>1, <3>2 DEF CountEntry, AnswerLease
      <4>2. ledger[s][n].by # 0 /\ ledger[s][n].by # g
              => lease'[s][ledger[s][n].by] = lease[s][ledger[s][n].by]
        BY <1>10, <2>2
      <4>3. ledger[s][n].by = g => n = k
        BY <1>2 DEF CountRow
      <4> QED
        BY <2>1, <3>2, <4>1, <4>2, <4>3 DEF CountEntry, AnswerLease
    <3> QED
      BY <3>1, <3>2
  <2>5. n <= ckpt'[s].total => ledger'[s][n].by # 0
    BY <1>7, <2>1, <2>3 DEF CountEntry
  <2>6. ledger'[s][n].by # 0 =>
          IF n + ckpt'[s].calls > ckpt'[s].total
          THEN ledger'[s][n].no = ckpt'[s].no /\ ledger'[s][n].call + ckpt'[s].total = n + ckpt'[s].calls
          ELSE ledger'[s][n].no < ckpt'[s].no
    <3>1. CASE ckpt'[s].no = ckpt[s].no /\ ckpt'[s].calls = ckpt[s].calls
      BY <1>7, <2>1, <2>3, <3>1 DEF CountEntry
    <3>2. CASE ckpt'[s].no = ckpt[s].no + 1 /\ ckpt'[s].calls = 0
      BY <1>7, <1>8, <1>9, <2>1, <2>2, <2>3, <3>2 DEF CountEntry
    <3> QED
      BY <1>7, <3>1, <3>2
  <2> QED
    BY <2>3, <2>4, <2>5, <2>6 DEF CountEntry
<1>12. \A m, n \in CallNos : ledger'[s][m].by # 0 /\ ledger'[s][m].by = ledger'[s][n].by => m = n
  BY <1>3 DEF CountRow
<1>13. \A f \in Fences : lease'[s][f].started => \E n \in CallNos : ledger'[s][n].by = f
  BY <1>3, <1>6, <1>10 DEF CountRow
<1>14. Paged(s)' = Paged(s) \cup {k} /\ k \notin Paged(s)
  BY <1>3 DEF Paged
<1>15. ckpt'[s].pages = Cardinality(Paged(s)')
  <2>1. Cardinality(Paged(s) \cup {k}) = Cardinality(Paged(s)) + 1
    BY <1>14, CallNosFinite, FS_AddElement
  <2>2. Cardinality(Paged(s)) = ckpt[s].pages
    BY DEF CountRow
  <2> QED
    BY <1>7, <1>14, <2>1, <2>2
<1>16. ckpt'[s].calls <= ckpt'[s].total /\ ckpt'[s].total <= MaxCalls
  BY <1>7, <1>8 DEF CountRow
<1> QED
  BY <1>11, <1>12, <1>13, <1>15, <1>16 DEF CountRow

\* The row after a step.
LEMMA CountRowsStep ==
  ASSUME WorkInv, AttemptRows, CountRows, [Next]_vars
  PROVE  CountRows'
<1> SUFFICES ASSUME NEW t \in Shards PROVE CountRow(t)'
  BY DEF CountRows
<1>1. StoreInv /\ RunShapes /\ WorkRows /\ CountRow(t)
  BY DEF WorkInv, CountRows
<1> QED
  BY <1>1, CountRowKept, SendCounts, AcceptCounts

\* Nothing has been sent in a new database.
LEMMA CountInit == Init => CountRows
<1> SUFFICES ASSUME Init, NEW s \in Shards PROVE CountRow(s)
  BY DEF CountRows
<1>1. /\ ckpt[s].calls = 0 /\ ckpt[s].total = 0 /\ ckpt[s].pages = 0
      /\ \A n \in CallNos : ledger[s][n].by = 0 /\ ledger[s][n].pages = 0 /\ n \in Nat /\ n > 0
      /\ \A f \in Fences : ~lease[s][f].started
  BY DEF Init, NoCheckpoint, NoEntry, NoLease, CallNos
<1>2. MaxCalls \in Nat
  BY KernelConstants DEF MaxCalls
<1>3. Paged(s) = {}
  BY <1>1 DEF Paged
<1>4. ckpt[s].pages = Cardinality(Paged(s))
  BY <1>1, <1>3, FS_EmptySet
<1> QED
  BY <1>1, <1>2, <1>4 DEF CountRow, CountEntry

\* The numbers from a to b.
LEMMA IntervalSize ==
  ASSUME NEW a \in Int, NEW b \in Int, a <= b + 1
  PROVE  Cardinality(a..b) = b - a + 1
<1>1. Cardinality(a..b) = IF a > b THEN 0 ELSE b - a + 1
  BY FS_Interval
<1> QED
  BY <1>1

\* What the rows say is what the store asks of the counters.
LEMMA CountsAgree ==
  ASSUME StoreInv, NEW s \in Shards, CountRow(s)
  PROVE  LET now == {n \in Sent(s) : ledger[s][n].no = ckpt[s].no} IN
         /\ {ledger[s][n].by : n \in Sent(s)} = {f \in Fences : lease[s][f].started}
         /\ \A m, n \in Sent(s) : ledger[s][m].by = ledger[s][n].by => m = n
         /\ ckpt[s].total = Cardinality(Sent(s))
         /\ {ledger[s][n].call : n \in now} = 1..ckpt[s].calls
         /\ Cardinality(now) = ckpt[s].calls
         /\ ckpt[s].pages = Cardinality({n \in CallNos : ledger[s][n].pages = 1})
         /\ \A n \in CallNos : ledger[s][n].pages = 1
                                 => AnswerLease(s, n).attempt = "succeeded"
<1> USE DEF StoreInv, KernelInv
<1> DEFINE now == {n \in Sent(s) : ledger[s][n].no = ckpt[s].no}
           total == ckpt[s].total
           count == ckpt[s].calls
<1>1. /\ total \in Nat /\ count \in Nat /\ ckpt[s].no \in Nat /\ MaxCalls \in Nat
      /\ count <= total /\ total <= MaxCalls
  <2>1. ckpt[s] \in Checkpoint
    BY DEF TypeOK
  <2> QED
    BY <2>1, KernelConstants DEF Checkpoint, CountRow, MaxCalls
<1>2. ASSUME NEW n \in CallNos
      PROVE  /\ LedgerRow(s, n) /\ CountEntry(s, n) /\ n \in Nat /\ n > 0
             /\ ledger[s][n].no \in Nat /\ ledger[s][n].call \in Nat
             /\ ledger[s][n].by # 0 => ledger[s][n].by \in Fences
  <2>1. LedgerRow(s, n) /\ CountEntry(s, n)
    BY DEF LedgerRows, CountRow
  <2>2. /\ n \in Nat /\ n > 0 /\ ledger[s][n].no \in Nat /\ ledger[s][n].call \in Nat
    BY EntryType DEF LedgerEntry, CallNos
  <2> QED
    BY <2>1, <2>2, SenderIsLease DEF LedgerRow
<1>3. Sent(s) = 1..total
  <2>1. ASSUME NEW n \in Sent(s) PROVE n \in 1..total
    <3>1. n \in CallNos /\ ledger[s][n].by # 0
      BY DEF Sent
    <3>2. n <= total
      BY <1>2, <3>1 DEF LedgerRow, SentBy
    <3> QED
      BY <1>1, <1>2, <3>1, <3>2
  <2>2. ASSUME NEW n \in 1..total PROVE n \in Sent(s)
    <3>1. n \in CallNos /\ n <= total
      BY <1>1 DEF CallNos
    <3> QED
      BY <1>2, <3>1 DEF Sent, CountEntry
  <2> QED
    BY <2>1, <2>2
<1>4. now = (total - count + 1)..total
  <2>1. ASSUME NEW n \in Sent(s)
        PROVE  ledger[s][n].no = ckpt[s].no <=> n + count > total
    <3>1. n \in CallNos /\ ledger[s][n].by # 0
      BY DEF Sent
    <3> QED
      BY <1>1, <1>2, <3>1 DEF CountEntry
  <2>2. now = {n \in 1..total : n + count > total}
    BY <1>3, <2>1
  <2> QED
    BY <1>1, <2>2
<1>5. ASSUME NEW n \in now PROVE ledger[s][n].call + total = n + count
  <2>1. n \in CallNos /\ ledger[s][n].by # 0 /\ ledger[s][n].no = ckpt[s].no
    BY DEF Sent
  <2> QED
    BY <1>1, <1>2, <2>1 DEF CountEntry
<1>6. \A n \in now : n \in CallNos
  BY DEF Sent
<1>7. {ledger[s][n].by : n \in Sent(s)} = {f \in Fences : lease[s][f].started}
  <2>1. ASSUME NEW n \in Sent(s)
        PROVE  ledger[s][n].by \in Fences /\ lease[s][ledger[s][n].by].started
    <3>1. n \in CallNos /\ ledger[s][n].by # 0
      BY DEF Sent
    <3> QED
      BY <1>2, <3>1 DEF LedgerRow, SentBy
  <2>2. ASSUME NEW f \in Fences, lease[s][f].started
        PROVE  \E n \in Sent(s) : ledger[s][n].by = f
    <3>1. PICK n \in CallNos : ledger[s][n].by = f
      BY <2>2 DEF CountRow
    <3>2. f # 0
      BY KernelConstants DEF Fences
    <3> QED
      BY <3>1, <3>2 DEF Sent
  <2> QED
    BY <2>1, <2>2
<1>8. \A m, n \in Sent(s) : ledger[s][m].by = ledger[s][n].by => m = n
  BY DEF CountRow, Sent
<1>9. total = Cardinality(Sent(s))
  <2>1. 1 \in Int /\ total \in Int /\ 1 <= total + 1 /\ total - 1 + 1 = total
    BY <1>1
  <2>2. Cardinality(1..total) = total - 1 + 1
    BY <2>1, IntervalSize
  <2> QED
    BY <1>3, <2>1, <2>2
<1>10. Cardinality(now) = count
  <2> DEFINE first == total - count + 1
  <2>1. first \in Int /\ total \in Int /\ first <= total + 1 /\ total - first + 1 = count
    BY <1>1
  <2>2. now = first..total
    BY <1>4
  <2> HIDE DEF first, now
  <2>3. Cardinality(first..total) = total - first + 1
    BY <2>1, IntervalSize
  <2> QED
    BY <2>1, <2>2, <2>3
<1>11. {ledger[s][n].call : n \in now} = 1..count
  <2>1. ASSUME NEW n \in now PROVE ledger[s][n].call \in 1..count
    <3>1. n \in (total - count + 1)..total /\ ledger[s][n].call \in Nat
      BY <1>2, <1>4, <1>6
    <3> QED
      BY <1>1, <1>5, <3>1
  <2>2. ASSUME NEW j \in 1..count PROVE \E n \in now : ledger[s][n].call = j
    <3> DEFINE n == j + (total - count)
    <3>1. n \in (total - count + 1)..total
      BY <1>1
    <3>2. n \in now
      BY <1>4, <3>1
    <3>3. ledger[s][n].call \in Nat /\ ledger[s][n].call + total = n + count
      BY <1>2, <1>5, <1>6, <3>2
    <3>4. ledger[s][n].call = j
      BY <1>1, <3>3
    <3> QED
      BY <3>2, <3>4
  <2> QED
    BY <2>1, <2>2
<1>12. ckpt[s].pages = Cardinality({n \in CallNos : ledger[s][n].pages = 1})
  BY DEF CountRow, Paged
<1>13. \A n \in CallNos : ledger[s][n].pages = 1 => AnswerLease(s, n).attempt = "succeeded"
  BY <1>2 DEF CountEntry
<1> QED
  BY <1>7, <1>8, <1>9, <1>10, <1>11, <1>12, <1>13

\* The rows and the counters of checkpoints, together.
CountInv == RowInv /\ CountRows

\* Every request is counted once, whatever crashes, retries, deferrals and late
\* answers come between.
THEOREM CountInvariance == Spec => []CountInv
<1>1. Init => CountInv
  BY RowInitInv, CountInit DEF CountInv
<1>2. CountInv /\ [Next]_vars => CountInv'
  BY RowStepInv, CountRowsStep DEF CountInv, RowInv, SourceInv
<1> QED
  BY <1>1, <1>2, PTL DEF Spec

\* A checkpoint's counters are those of its ledger, attempts and pages: the
\* call numbers of a page are used in turn, none twice and none left out, every
\* used lease has sent one request, and every page belongs to an attempt that
\* has succeeded.
THEOREM AggregatesAreValid == Spec => []AggregatesValid
<1>1. CountInv => AggregatesValid
  BY CountsAgree DEF CountInv, RowInv, SourceInv, WorkInv, CountRows, AggregatesValid,
                     CheckpointFactsValid
<1> QED
  BY <1>1, CountInvariance, PTL

=============================================================================
