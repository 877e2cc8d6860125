------------------------ MODULE ProspectWorkerProofs ------------------------
(***************************************************************************)
(* Theorems about the worker, the run API and the MySQL store, for every   *)
(* number of runs, sources, calls, pages, leases, kernel starts, crashes   *)
(* and database failures: what they leave behind together stays valid, and *)
(* the worker's loop knows what it is about.                               *)
(***************************************************************************)
EXTENDS ProspectWorker, ProspectRowProofs

-----------------------------------------------------------------------------
(* The inductive invariant: that of the kernel's rows, what the store      *)
(* validates and the run API keeps, and the loop.                          *)

\* Nobody asks the kernel to pause or to cancel a run: a run that waits to be
\* executed has no shard that was ever at work, only some that were skipped.
Fresh(s) ==
  run[RunOf[s]].status \in {"none", "queued", "paused"} =>
    /\ shard[s] \in {"queued", "paused", "succeeded_empty"}
    /\ shard[s] # "succeeded_empty" => ~ckpt[s].exists /\ job[s] = QueuedJob
FreshRuns ==
  /\ \A r \in Runs : run[r].status \notin {"pause_requested", "cancel_requested"}
  /\ \A s \in Shards : Fresh(s)

\* What the process remembers, and the call it awaits.
LoopInv ==
  /\ pc \in Where /\ looping \in BOOLEAN /\ settled \in BOOLEAN
  /\ at \subseteq Shards /\ \A s, t \in at : s = t
  /\ todo \subseteq Shards \X CallNos
  /\ faults \in 0..MaxFaults
  /\ pc = "call" => \A s \in at : ckpt[s].total \in CallNos
  /\ LoopGoesOn

\* The rows, as the kernel, the store and the run API leave them.
RowsHold == CountInv /\ BridgeValid /\ CheckpointsValid /\ FreshRuns

WorkerInv == RowsHold /\ LoopInv

-----------------------------------------------------------------------------
(* The run API.                                                            *)

\* What an operation of the API leaves of a run: the run itself; a run whose
\* untouched shards wait as it does now; or a cancelled one.
Moved(r, old, new) ==
  /\ run[r].status = old /\ run'[r] = [run[r] EXCEPT !.status = new]
  /\ \A t \in ShardsOf(r) :
       /\ job'[t] = job[t]
       /\ \/ shard[t] = old /\ shard'[t] = new
          \/ shard[t] = "succeeded_empty" /\ shard'[t] = shard[t]
  /\ \E t \in ShardsOf(r) : shard[t] = old
CancelledWhole(r) ==
  /\ run[r].status \in {"queued", "paused"}
  /\ run'[r] = [run[r] EXCEPT !.status = "cancelled", !.parent = "cancelled"]
  /\ \A t \in ShardsOf(r) : /\ shard[t] = run[r].status /\ shard'[t] = "cancelled"
                            /\ job'[t] = CancelledJob(job[t])
Left(r) ==
  /\ run'[r] = run[r]
  /\ \A t \in ShardsOf(r) : shard'[t] = shard[t] /\ job'[t] = job[t]
UserMove(r) ==
  \/ Left(r)
  \/ \E old, new \in {"queued", "paused"} : Moved(r, old, new)
  \/ CancelledWhole(r)

\* Every run has a shard.
LEMMA HasShard ==
  ASSUME NEW r \in Runs
  PROVE  \E t \in ShardsOf(r) : t \in Shards /\ RunOf[t] = r
BY KernelConstants DEF ShardsOf

\* Pausing and resuming move a run and all of its shards, and no others.
LEMMA MoveAllMoves ==
  ASSUME TypeOK, NEW r \in Runs, NEW old \in {"queued", "paused"},
         NEW new \in {"queued", "paused"}, run[r].status = old,
         \A s \in ShardsOf(r) : shard[s] = old,
         MoveAll(r, new), job' = job, NEW q \in Runs
  PROVE  UserMove(q)
<1>1. CASE q # r
  <2>1. run'[q] = run[q]
    BY <1>1 DEF MoveAll, TypeOK
  <2>2. ASSUME NEW t \in ShardsOf(q) PROVE shard'[t] = shard[t] /\ job'[t] = job[t]
    BY <1>1 DEF MoveAll, ShardsOf
  <2> QED
    BY <2>1, <2>2 DEF UserMove, Left
<1>2. CASE q = r
  <2>1. run'[r] = [run[r] EXCEPT !.status = new]
    BY DEF MoveAll, TypeOK
  <2>2. ASSUME NEW t \in ShardsOf(r)
        PROVE  job'[t] = job[t] /\ shard[t] = old /\ shard'[t] = new
    BY DEF MoveAll, ShardsOf
  <2>3. Moved(r, old, new)
    BY <2>1, <2>2, HasShard DEF Moved
  <2> QED
    BY <1>2, <2>3 DEF UserMove
<1> QED
  BY <1>1, <1>2

\* Cancelling moves a run with all of its shards and jobs.
LEMMA CancelMoves ==
  ASSUME TypeOK, NEW r \in Runs, ApiCancel(r), NEW q \in Runs
  PROVE  UserMove(q)
<1>1. CASE q # r
  <2>1. run'[q] = run[q]
    BY <1>1 DEF ApiCancel, TypeOK
  <2>2. ASSUME NEW t \in ShardsOf(q) PROVE shard'[t] = shard[t] /\ job'[t] = job[t]
    BY <1>1 DEF ApiCancel, ShardsOf
  <2> QED
    BY <2>1, <2>2 DEF UserMove, Left
<1>2. CASE q = r
  <2>1. /\ run[r].status \in {"queued", "paused"}
        /\ run'[r] = [run[r] EXCEPT !.status = "cancelled", !.parent = "cancelled"]
    BY DEF ApiCancel, TypeOK
  <2>2. ASSUME NEW t \in ShardsOf(r)
        PROVE  /\ shard[t] = run[r].status /\ shard'[t] = "cancelled"
               /\ job'[t] = CancelledJob(job[t])
    BY DEF ApiCancel, Untouched, ShardsOf
  <2> QED
    BY <1>2, <2>1, <2>2 DEF UserMove, CancelledWhole
<1> QED
  BY <1>1, <1>2

\* Pausing a campaign pauses its queued runs, whose shards are all queued or
\* skipped.
LEMMA CampaignMoves ==
  ASSUME TypeOK, RunShapes, FreshRuns, NEW C \in SUBSET Runs, PauseCampaign(C), NEW q \in Runs
  PROVE  UserMove(q)
<1> DEFINE wait == {r \in C : run[r].status = "queued"}
<1>1. /\ run'[q] = IF q \in wait THEN [run[q] EXCEPT !.status = "paused"] ELSE run[q]
      /\ job' = job
  BY DEF PauseCampaign
<1>2. ASSUME NEW t \in ShardsOf(q)
      PROVE  shard'[t] = IF q \in wait /\ shard[t] = "queued" THEN "paused" ELSE shard[t]
  BY DEF PauseCampaign, ShardsOf
<1>3. CASE q \notin wait
  BY <1>1, <1>2, <1>3 DEF UserMove, Left
<1>4. CASE q \in wait
  <2>1. run[q].status = "queued"
    BY <1>4
  <2>2. ASSUME NEW t \in ShardsOf(q) PROVE shard[t] \in {"queued", "succeeded_empty"}
    <3>1. t \in Shards /\ RunOf[t] = q
      BY DEF ShardsOf
    <3>2. shard[t] \in {"queued", "paused", "succeeded_empty"}
      BY <2>1, <3>1 DEF FreshRuns, Fresh
    <3>3. shard[t] \in Allowed("queued")
      BY <2>1 DEF RunShapes, RunShape, Fits
    <3> QED
      BY <3>2, <3>3 DEF Allowed, Settled, Done
  <2>3. PICK t \in ShardsOf(q) : shard[t] \in Needed("queued")
    BY <2>1 DEF RunShapes, RunShape, Fits
  <2>4. shard[t] = "queued"
    BY <2>2, <2>3 DEF Needed
  <2>5. Moved(q, "queued", "paused")
    BY <1>1, <1>2, <1>4, <2>1, <2>2, <2>4 DEF Moved
  <2> QED
    BY <2>5 DEF UserMove
<1> QED
  BY <1>3, <1>4

\* Every operation of the API moves every run in one of these ways, and writes
\* nothing but runs, shards and jobs.
LEMMA UserMoves ==
  ASSUME TypeOK, RunShapes, FreshRuns, UserStep
  PROVE  /\ \A q \in Runs : UserMove(q)
         /\ UNCHANGED <<ckpt, lease, fence, ledger, calls, window, position, kernelEpoch>>
         /\ run' \in [Runs -> RunRecord] /\ shard' \in [Shards -> ShardStatus]
         /\ job' \in [Shards -> JobRecord]
<1>0. run \in [Runs -> RunRecord] /\ shard \in [Shards -> ShardStatus]
      /\ job \in [Shards -> JobRecord]
  BY DEF TypeOK
<1>1. \A st \in {"queued", "paused", "cancelled"} :
        st \in RunStatus /\ st \in ShardStatus /\ st # "none"
  BY DEF RunStatus, ShardStatus
<1>2. ASSUME NEW r \in Runs, NEW st \in {"queued", "paused"}, MoveAll(r, st)
      PROVE  run' \in [Runs -> RunRecord] /\ shard' \in [Shards -> ShardStatus]
  BY <1>0, <1>1, <1>2 DEF MoveAll, RunRecord
<1>3. ASSUME NEW r \in Runs, ApiPause(r)
      PROVE  /\ \A q \in Runs : UserMove(q)
             /\ UNCHANGED <<ckpt, lease, fence, ledger, calls, window, position, kernelEpoch>>
             /\ run' \in [Runs -> RunRecord] /\ shard' \in [Shards -> ShardStatus]
             /\ job' \in [Shards -> JobRecord]
  <2>1. /\ run[r].status = "queued" /\ MoveAll(r, "paused") /\ job' = job
        /\ \A s \in ShardsOf(r) : shard[s] = "queued"
    BY <1>3 DEF ApiPause, Untouched
  <2> QED
    BY <1>0, <1>2, <1>3, <2>1, MoveAllMoves DEF ApiPause
<1>4. ASSUME NEW r \in Runs, ApiResume(r)
      PROVE  /\ \A q \in Runs : UserMove(q)
             /\ UNCHANGED <<ckpt, lease, fence, ledger, calls, window, position, kernelEpoch>>
             /\ run' \in [Runs -> RunRecord] /\ shard' \in [Shards -> ShardStatus]
             /\ job' \in [Shards -> JobRecord]
  <2>1. /\ run[r].status = "paused" /\ MoveAll(r, "queued") /\ job' = job
        /\ \A s \in ShardsOf(r) : shard[s] = "paused"
    BY <1>4 DEF ApiResume, Untouched
  <2> QED
    BY <1>0, <1>2, <1>4, <2>1, MoveAllMoves DEF ApiResume
<1>5. ASSUME NEW r \in Runs, ApiCancel(r)
      PROVE  /\ \A q \in Runs : UserMove(q)
             /\ UNCHANGED <<ckpt, lease, fence, ledger, calls, window, position, kernelEpoch>>
             /\ run' \in [Runs -> RunRecord] /\ shard' \in [Shards -> ShardStatus]
             /\ job' \in [Shards -> JobRecord]
  <2>1. "cancelled" \in ParentStatus
    BY DEF ParentStatus
  <2>2. run' \in [Runs -> RunRecord]
    BY <1>0, <1>1, <1>5, <2>1 DEF ApiCancel, RunRecord
  <2>3. shard' \in [Shards -> ShardStatus]
    BY <1>0, <1>1, <1>5 DEF ApiCancel
  <2>4. job' \in [Shards -> JobRecord]
    BY <1>0, <1>5, CancelledJobType DEF ApiCancel
  <2> QED
    BY <1>5, <2>2, <2>3, <2>4, CancelMoves DEF ApiCancel
<1>6. ASSUME NEW C \in SUBSET Runs, PauseCampaign(C)
      PROVE  /\ \A q \in Runs : UserMove(q)
             /\ UNCHANGED <<ckpt, lease, fence, ledger, calls, window, position, kernelEpoch>>
             /\ run' \in [Runs -> RunRecord] /\ shard' \in [Shards -> ShardStatus]
             /\ job' \in [Shards -> JobRecord]
  <2>1. run' \in [Runs -> RunRecord]
    BY <1>0, <1>1, <1>6 DEF PauseCampaign, RunRecord
  <2>2. shard' \in [Shards -> ShardStatus]
    BY <1>0, <1>1, <1>6 DEF PauseCampaign
  <2> QED
    BY <1>0, <1>6, <2>1, <2>2, CampaignMoves DEF PauseCampaign
<1> QED
  BY <1>3, <1>4, <1>5, <1>6 DEF UserStep

\* What that means for a run: its epoch stays, and only one that waits moves.
LEMMA RunMoved ==
  ASSUME TypeOK, NEW q \in Runs, UserMove(q)
  PROVE  /\ run'[q].epoch = run[q].epoch
         /\ \/ run'[q] = run[q]
            \/ /\ run[q].status \in {"queued", "paused"}
               /\ run'[q].status \in {"queued", "paused", "cancelled"}
<1>1. run[q] \in RunRecord
  BY DEF TypeOK
<1>2. ASSUME NEW old, NEW new, Moved(q, old, new)
      PROVE  run'[q].epoch = run[q].epoch /\ run'[q].status = new /\ run[q].status = old
  BY <1>1, <1>2 DEF Moved, RunRecord
<1>3. ASSUME CancelledWhole(q)
      PROVE  /\ run'[q].epoch = run[q].epoch /\ run'[q].status = "cancelled"
             /\ run[q].status \in {"queued", "paused"}
  BY <1>1, <1>3 DEF CancelledWhole, RunRecord
<1> QED
  BY <1>2, <1>3 DEF UserMove, Left

\* How the API moves a shard: it stays, or goes from one wait to another without
\* having been at work, or is cancelled.
Waits(st) == st \in {"queued", "paused"}
ShardMove(t) ==
  \/ shard'[t] = shard[t] /\ job'[t] = job[t]
  \/ /\ Waits(shard[t]) /\ Waits(run[RunOf[t]].status)
     /\ Waits(shard'[t]) /\ job'[t] = job[t]
  \/ /\ Waits(shard[t]) /\ Waits(run[RunOf[t]].status)
     /\ shard'[t] = "cancelled" /\ run'[RunOf[t]].status = "cancelled"
     /\ job'[t] = CancelledJob(job[t])
\* No operation of the API moves a shard in another way.
LEMMA ShardMoved ==
  ASSUME TypeOK, NEW t \in Shards, UserMove(RunOf[t])
  PROVE  ShardMove(t)
<1> DEFINE r == RunOf[t]
<1>0. r \in Runs /\ t \in ShardsOf(r) /\ run[r] \in RunRecord
  BY KernelConstants DEF TypeOK, ShardsOf
<1>1. ASSUME NEW old \in {"queued", "paused"}, NEW new \in {"queued", "paused"}, Moved(r, old, new)
      PROVE  ShardMove(t)
  BY <1>0, <1>1 DEF Moved, ShardMove, Waits
<1>2. ASSUME CancelledWhole(r) PROVE ShardMove(t)
  <2>1. run'[r].status = "cancelled"
    BY <1>0, <1>2 DEF CancelledWhole, RunRecord
  <2> QED
    BY <1>0, <1>2, <2>1 DEF CancelledWhole, ShardMove, Waits
<1> QED
  BY <1>0, <1>1, <1>2 DEF UserMove, Left, ShardMove

\* Whoever waits in a run that waits has read nothing, holds no lease and has
\* no answer in time.
LEMMA WaiterIsFresh ==
  ASSUME RowsHold, NEW t \in Shards, Waits(shard[t]), Waits(run[RunOf[t]].status)
  PROVE  /\ ~ckpt[t].exists /\ job[t] = QueuedJob
         /\ ~Held(t)
         /\ shard[t] \notin Working \cup Done
         /\ ckpt[t].retry = "none"
         /\ GoesOn(ckpt[t], run[RunOf[t]].epoch) /\ ckpt[t].calls < CallLimit
         /\ Unwritten(ckpt[t])
         /\ \A n \in CallNos :
              /\ ~InTime(t, n)
              /\ ~(ledger[t][n].status = "settled" /\ ledger[t][n].by = 0)
<1>0. StoreInv /\ WorkRow(t) /\ JobRow(t)
  BY DEF RowsHold, CountInv, RowInv, SourceInv, WorkInv, WorkRows, JobRows
<1>1. ~ckpt[t].exists /\ job[t] = QueuedJob
  BY DEF RowsHold, FreshRuns, Fresh, Waits
<1>2. shard[t] \notin Working \cup Done \cup {"cancel_requested"}
  BY DEF Waits, Working, Done
<1>3. ~Held(t)
  BY <1>0, <1>2, IdleShard
<1>4. GoesOn(ckpt[t], run[RunOf[t]].epoch) /\ ckpt[t].calls < CallLimit /\ Unwritten(ckpt[t])
  BY <1>0, <1>1, <1>2 DEF WorkRow, WaitRow, Waits
<1>5. ckpt[t].retry = "none"
  BY <1>0, <1>1 DEF JobRow
<1> QED
  BY <1>0, <1>1, <1>2, <1>3, <1>4, <1>5, NoAnswerYet

\* The rows of the kernel's tables that the API does not write.
OnlyRunsMove ==
  /\ UNCHANGED <<ckpt, lease, fence, ledger, calls, window, position, kernelEpoch>>
  /\ TypeOK'
  /\ \A q \in Runs : UserMove(q)
  /\ \A q \in Runs : /\ run'[q].epoch = run[q].epoch
                     /\ \/ run'[q] = run[q]
                        \/ /\ run[q].status \in {"queued", "paused"}
                           /\ run'[q].status \in {"queued", "paused", "cancelled"}
  /\ \A t \in Shards : ShardMove(t)

\* Every operation of the API moves runs, shards and jobs like that, and their
\* types stay right.
LEMMA UserTypes ==
  ASSUME RowsHold, UserStep
  PROVE  OnlyRunsMove
<1>0. TypeOK /\ RunShapes /\ FreshRuns
  BY DEF RowsHold, CountInv, RowInv, SourceInv, WorkInv, StoreInv, KernelInv
<1>1. /\ \A q \in Runs : UserMove(q)
      /\ UNCHANGED <<ckpt, lease, fence, ledger, calls, window, position, kernelEpoch>>
      /\ run' \in [Runs -> RunRecord] /\ shard' \in [Shards -> ShardStatus]
      /\ job' \in [Shards -> JobRecord]
  BY <1>0, UserMoves
<1>2. TypeOK'
  BY <1>0, <1>1 DEF TypeOK
<1>3. \A t \in Shards : RunOf[t] \in Runs
  BY KernelConstants
<1> QED
  BY <1>0, <1>1, <1>2, <1>3, RunMoved, ShardMoved DEF OnlyRunsMove

\* The leases and the limits.
LEMMA UserKeepsKernel ==
  ASSUME RowsHold, OnlyRunsMove
  PROVE  StoreInv'
<1> USE DEF RowsHold, CountInv, RowInv, SourceInv, WorkInv, StoreInv, KernelInv
<1>1. UNCHANGED <<ckpt, lease, fence, ledger>> /\ TypeOK'
  BY DEF OnlyRunsMove
<1>2. WithinLimits' /\ LeaseExclusive'
  BY <1>1 DEF WithinLimits, LeaseExclusive
<1>3. LeaseRowsValid'
  <2>1. LeasesFall
    BY <1>1, LeasesUntouched
  <2>2. \A t \in Shards : RunOf[t] \in Runs
    BY KernelConstants
  <2>3. EpochsRise
    <3>1. ASSUME NEW q \in Runs PROVE run[q].epoch \in Nat
      BY DEF TypeOK, RunRecord
    <3> QED
      BY <3>1 DEF EpochsRise, OnlyRunsMove
  <2>4. ASSUME NEW t \in Shards, Held(t) PROVE StillAtWork(t)
    <3>1. shard[t] \in Working /\ run[RunOf[t]].status \in Working
      BY <2>4, HeldAtWork
    <3>2. run'[RunOf[t]] = run[RunOf[t]]
      BY <2>2, <3>1 DEF OnlyRunsMove, Working
    <3>3. shard'[t] = shard[t] /\ job'[t] = job[t]
      BY <3>1 DEF OnlyRunsMove, ShardMove, Waits, Working
    <3> QED
      BY <3>2, <3>3 DEF StillAtWork
  <2> QED
    BY <1>1, <2>1, <2>3, <2>4, LeaseRowsKept
<1>4. RunRows'
  <2>1. ASSUME NEW q \in Runs
        PROVE  /\ run'[q].status = "none" => run'[q].epoch = 0
               /\ run'[q].status \in Done => AllDone(q, shard')
    <3>1. CASE Left(q)
      BY <3>1 DEF Left, RunRows, AllDone
    <3>2. CASE run'[q].status \in {"queued", "paused"}
      BY <3>2 DEF Done
    <3>3. CASE CancelledWhole(q)
      <4>1. AllDone(q, shard')
        BY <3>3 DEF CancelledWhole, AllDone, Done
      <4>2. run'[q].status # "none"
        BY <3>3 DEF CancelledWhole, TypeOK, RunRecord
      <4> QED
        BY <4>1, <4>2
    <3>4. ASSUME NEW old \in {"queued", "paused"}, NEW new \in {"queued", "paused"},
                 Moved(q, old, new)
          PROVE  run'[q].status \in {"queued", "paused"}
      BY <3>4 DEF Moved, TypeOK, RunRecord
    <3> QED
      BY <3>1, <3>2, <3>3, <3>4 DEF OnlyRunsMove, UserMove
  <2>2. ASSUME NEW t \in Shards, shard'[t] = "cancel_requested"
        PROVE  run'[RunOf[t]].status = "cancel_requested"
    <3>1. shard[t] = "cancel_requested"
      BY <2>2 DEF OnlyRunsMove, ShardMove, Waits
    <3>2. run[RunOf[t]].status = "cancel_requested" /\ RunOf[t] \in Runs
      BY <3>1, KernelConstants DEF RunRows
    <3> QED
      BY <3>2 DEF OnlyRunsMove
  <2> QED
    BY <2>1, <2>2 DEF RunRows
<1>5. LedgerRows'
  <2> SUFFICES ASSUME NEW t \in Shards PROVE \A n \in CallNos : LedgerRow(t, n)'
    BY DEF LedgerRows
  <2>1. \/ shard'[t] = shard[t]
        \/ shard[t] \notin Working \cup Done
    BY DEF OnlyRunsMove, ShardMove, Waits, Working, Done
  <2>2. \A n \in CallNos : LedgerRow(t, n)
    BY DEF LedgerRows
  <2> QED
    BY <1>1, <2>1, <2>2, RowsUntouched
<1>6. CheckpointRows'
  BY <1>1 DEF CheckpointRows, Held, Current
<1> QED
  BY <1>1, <1>2, <1>3, <1>4, <1>5, <1>6


\* The bridge of a run is valid after an operation of the API.
LEMMA UserKeepsBridge ==
  ASSUME RowsHold, OnlyRunsMove
  PROVE  BridgeValid'
<1> SUFFICES ASSUME NEW q \in Runs, run'[q].status # "none" PROVE BridgeOK(q)'
  BY DEF BridgeValid
<1>0. /\ run[q] \in RunRecord
      /\ \A t \in ShardsOf(q) : t \in Shards /\ RunOf[t] = q /\ job[t] \in JobRecord
  BY DEF RowsHold, CountInv, RowInv, SourceInv, WorkInv, StoreInv, KernelInv, TypeOK, ShardsOf
<1>1. run[q].status # "none" => BridgeOK(q)
  BY DEF RowsHold, BridgeValid
<1>2. CASE Left(q)
  <2>1. {shard'[t] : t \in ShardsOf(q)} = {shard[t] : t \in ShardsOf(q)}
    BY <1>2 DEF Left
  <2>2. RunShardOK(q)' <=> RunShardOK(q)
    BY <1>2, <2>1 DEF Left, RunShardOK
  <2> QED
    BY <1>1, <1>2, <2>2 DEF Left, BridgeOK
<1>3. ASSUME NEW old \in {"queued", "paused"}, NEW new \in {"queued", "paused"}, Moved(q, old, new)
      PROVE  BridgeOK(q)'
  <2>1. run[q].status = old /\ run'[q].status = new /\ run'[q].parent = run[q].parent
    BY <1>0, <1>3 DEF Moved, RunRecord
  <2>2. BridgeOK(q) /\ ParentOf(old) = "queued" /\ ParentOf(new) = "queued"
    BY <1>1, <2>1 DEF ParentOf, Done
  <2>3. ASSUME NEW t \in ShardsOf(q)
        PROVE  /\ shard'[t] \in {new, "succeeded_empty"}
               /\ JobFieldsOK(job'[t]) /\ job'[t].status \in ChildStatuses(shard'[t])
    <3>1. CASE shard[t] = "succeeded_empty" /\ shard'[t] = shard[t]
      BY <1>3, <2>2, <3>1 DEF Moved, BridgeOK
    <3>2. CASE shard[t] = old /\ shard'[t] = new
      <4>1. job[t] = QueuedJob
        BY <1>0, <2>1, <3>2 DEF RowsHold, FreshRuns, Fresh
      <4>2. JobFieldsOK(QueuedJob) /\ QueuedJob.status \in ChildStatuses(new)
        BY DEF JobFieldsOK, QueuedJob, ChildStatuses
      <4> QED
        BY <1>3, <3>2, <4>1, <4>2 DEF Moved
    <3> QED
      BY <1>3, <3>1, <3>2 DEF Moved
  <2>4. \E t \in ShardsOf(q) : shard'[t] = new
    BY <1>3 DEF Moved
  <2>5. RunShardOK(q)'
    BY <2>1, <2>3, <2>4 DEF RunShardOK
  <2> QED
    BY <2>1, <2>2, <2>3, <2>5 DEF BridgeOK
<1>4. CASE CancelledWhole(q)
  <2>1. run'[q].status = "cancelled" /\ run'[q].parent = "cancelled"
    BY <1>0, <1>4 DEF CancelledWhole, RunRecord
  <2>2. ASSUME NEW t \in ShardsOf(q)
        PROVE  /\ shard'[t] = "cancelled"
               /\ JobFieldsOK(job'[t]) /\ job'[t].status \in ChildStatuses(shard'[t])
    <3>1. shard'[t] = "cancelled" /\ job'[t] = CancelledJob(job[t])
      BY <1>4 DEF CancelledWhole
    <3>2. \A j \in JobRecord : /\ CancelledJob(j).status = "cancelled"
                              /\ CancelledJob(j).finished = TRUE
                              /\ CancelledJob(j).err = "cancelled"
      BY DEF CancelledJob, JobRecord
    <3>3. JobFieldsOK(job'[t])
      BY <1>0, <3>1, <3>2 DEF JobFieldsOK
    <3> QED
      BY <1>0, <3>1, <3>2, <3>3 DEF ChildStatuses
  <2>3. RunShardOK(q)'
    BY <2>1, <2>2, HasShard DEF RunShardOK
  <2> QED
    BY <2>1, <2>2, <2>3 DEF BridgeOK, ParentOf
<1> QED
  BY <1>2, <1>3, <1>4 DEF OnlyRunsMove, UserMove

\* The rows of shards.
LEMMA UserKeepsWork ==
  ASSUME RowsHold, OnlyRunsMove, NEW t \in Shards
  PROVE  WorkRow(t)'
<1>0. StoreInv /\ WorkRow(t) /\ RunOf[t] \in Runs
  BY KernelConstants DEF RowsHold, CountInv, RowInv, SourceInv, WorkInv, WorkRows
<1>1. UNCHANGED <<ckpt, lease, fence, ledger>> /\ run'[RunOf[t]].epoch = run[RunOf[t]].epoch
  BY <1>0 DEF OnlyRunsMove
<1>2. CASE shard'[t] = shard[t]
  BY <1>0, <1>1, <1>2, RowUntouched DEF SameWork, SameCounters
<1>3. CASE Waits(shard[t]) /\ Waits(run[RunOf[t]].status)
  <2>1. /\ ~Held(t)'
        /\ ~ckpt'[t].exists => Unwritten(ckpt'[t])
        /\ GoesOn(ckpt'[t], run'[RunOf[t]].epoch) /\ ckpt'[t].calls < CallLimit
        /\ \A n \in CallNos :
             /\ ~InTime(t, n)'
             /\ ~(ledger'[t][n].status = "settled" /\ ledger'[t][n].by = 0)
    BY <1>1, <1>3, WaiterIsFresh DEF Held, Current, InTime, AnswerLease
  <2>2. CASE Waits(shard'[t])
    BY <2>1, <2>2, WaitingRow DEF Waits
  <2>3. CASE shard'[t] = "cancelled"
    <3>1. shard'[t] \in Done /\ ResultRow(t)'
      BY <2>3 DEF ResultRow, Done
    <3> QED
      BY <2>1, <2>3, <3>1, EndedRow
  <2> QED
    BY <1>2, <2>2, <2>3 DEF OnlyRunsMove, ShardMove
<1> QED
  BY <1>2, <1>3 DEF OnlyRunsMove, ShardMove

\* Sources, attempts, jobs, counters.
LEMMA UserKeepsRows ==
  ASSUME RowsHold, OnlyRunsMove
  PROVE  /\ RunShapes' /\ OneReader' /\ SourceRows' /\ AttemptRows' /\ JobRows' /\ CountRows'
         /\ CheckpointsValid'
<1>0. /\ RunShapes /\ OneReader /\ SourceRows /\ AttemptRows /\ JobRows /\ CountRows
      /\ CheckpointsValid /\ FreshRuns /\ BridgeValid'
  BY UserKeepsBridge DEF RowsHold, CountInv, RowInv, SourceInv, WorkInv
<1>1. UNCHANGED <<ckpt, lease, fence, ledger, position>> /\ TypeOK'
  BY DEF OnlyRunsMove
<1>2. \A t \in Shards : RunOf[t] \in Runs
  BY KernelConstants
<1>3. RunShapes'
  <2> SUFFICES ASSUME NEW q \in Runs PROVE RunShape(q)'
    BY DEF RunShapes
  <2>1. CASE Left(q)
    BY <1>0, <2>1, ShapeUntouched DEF RunShapes, Left
  <2>2. CASE run'[q].status \notin {"none", "cancel_requested"}
    BY <1>0, <1>1, <2>2, BridgeFits DEF BridgeValid
  <2>3. CASE run'[q] = run[q]
    <3>1. CASE Left(q)
      BY <2>1, <3>1
    <3>2. ASSUME NEW old \in {"queued", "paused"}, NEW new \in {"queued", "paused"},
                 Moved(q, old, new)
          PROVE  RunShape(q)'
      BY <2>2, <2>3, <3>2 DEF Moved
    <3>3. CASE CancelledWhole(q)
      BY <2>2, <2>3, <3>3 DEF CancelledWhole
    <3> QED
      BY <3>1, <3>2, <3>3 DEF OnlyRunsMove, UserMove
  <2> QED
    BY <2>2, <2>3 DEF OnlyRunsMove
<1>4. OneReader'
  BY <1>0, <1>2 DEF OneReader, OnlyRunsMove, Active
<1>5. SourceRows'
  <2> SUFFICES ASSUME NEW t \in Shards PROVE SourceRow(t)'
    BY DEF SourceRows
  <2>1. SourceRow(t)
    BY <1>0 DEF SourceRows
  <2>2. run'[RunOf[t]].status = "none" => run[RunOf[t]].status = "none"
    BY <1>2 DEF OnlyRunsMove
  <2>3. CASE shard'[t] = shard[t]
    BY <1>1, <2>1, <2>2, <2>3 DEF SourceRow
  <2>4. CASE Waits(shard[t]) /\ Waits(run[RunOf[t]].status)
    BY <1>1, <2>4, WaiterIsFresh DEF SourceRow
  <2> QED
    BY <2>3, <2>4 DEF OnlyRunsMove, ShardMove
<1>6. AttemptRows'
  BY <1>0, <1>1 DEF AttemptRows, AttemptRow
<1>7. JobRows'
  <2> SUFFICES ASSUME NEW t \in Shards PROVE JobRow(t)'
    BY DEF JobRows
  <2>1. JobRow(t)
    BY <1>0 DEF JobRows
  <2>2. CASE shard'[t] = shard[t] /\ job'[t] = job[t]
    BY <1>1, <2>1, <2>2 DEF JobRow
  <2>3. CASE Waits(shard[t]) /\ Waits(run[RunOf[t]].status) /\ shard'[t] \in {"queued", "paused", "cancelled"}
    BY <1>1, <2>3, WaiterIsFresh DEF JobRow
  <2> QED
    BY <2>2, <2>3 DEF OnlyRunsMove, ShardMove, Waits
<1>8. CountRows'
  BY <1>0, <1>1 DEF CountRows, CountRow, CountEntry, Paged, AnswerLease
<1>9. CheckpointsValid'
  BY <1>0, <1>1 DEF CheckpointsValid
<1> QED
  BY <1>3, <1>4, <1>5, <1>6, <1>7, <1>8, <1>9

\* Who waits in a run that waits is as fresh as before.
LEMMA UserKeepsFresh ==
  ASSUME RowsHold, OnlyRunsMove
  PROVE  FreshRuns'
<1>0. FreshRuns /\ ckpt' = ckpt
  BY DEF RowsHold, OnlyRunsMove
<1>1. \A t \in Shards : RunOf[t] \in Runs
  BY KernelConstants
<1>2. \A r \in Runs : run'[r].status \notin {"pause_requested", "cancel_requested"}
  BY <1>0 DEF FreshRuns, OnlyRunsMove
<1>3. ASSUME NEW t \in Shards PROVE Fresh(t)'
  <2>1. CASE Waits(shard[t]) /\ Waits(run[RunOf[t]].status)
    <3>1. ~ckpt'[t].exists /\ job[t] = QueuedJob
      BY <1>0, <2>1, WaiterIsFresh
    <3>2. ShardMove(t)
      BY DEF OnlyRunsMove
    <3> QED
      BY <2>1, <3>1, <3>2 DEF Fresh, ShardMove, Waits
  <2>2. CASE shard'[t] = shard[t] /\ job'[t] = job[t]
    <3>1. \/ run'[RunOf[t]] = run[RunOf[t]]
          \/ run[RunOf[t]].status \in {"queued", "paused"}
      BY <1>1 DEF OnlyRunsMove
    <3> QED
      BY <1>0, <2>2, <3>1 DEF FreshRuns, Fresh
  <2> QED
    BY <2>1, <2>2 DEF OnlyRunsMove, ShardMove
<1> QED
  BY <1>2, <1>3 DEF FreshRuns

\* So the run API leaves everything that the kernel and the store rely on.
LEMMA UserStepHolds ==
  ASSUME RowsHold, UserStep
  PROVE  RowsHold'
<1>1. OnlyRunsMove
  BY UserTypes
<1>2. StoreInv' /\ BridgeValid' /\ FreshRuns' /\ WorkRows'
  BY <1>1, UserKeepsKernel, UserKeepsBridge, UserKeepsFresh, UserKeepsWork DEF WorkRows
<1> QED
  BY <1>1, <1>2, UserKeepsRows DEF RowsHold, CountInv, RowInv, SourceInv, WorkInv


-----------------------------------------------------------------------------
(* The kernel, as the worker drives it.                                    *)

\* A step of the kernel for a run that is at work.
KernelStep ==
  \/ Start \/ RecoverExpired
  \/ \E s \in Shards : \/ Lapse(s) \/ RetryDue(s)
                       \/ Prepare(s) \/ SendRequest(s) \/ DispatchFails(s)
  \/ \E q \in calls : CallLost(q)
  \/ \E s \in Shards, n \in CallNos : \/ \E resp \in Responses : PersistResponse(s, n, resp)
                                      \/ Settlement(s, n)

\* What it leaves of a run and a shard that wait.
Resting(t) ==
  /\ run'[RunOf[t]] = run[RunOf[t]] /\ shard'[t] = shard[t]
  /\ shard[t] # "succeeded_empty" => ckpt'[t].exists = ckpt[t].exists /\ job'[t] = job[t]
Idle(st) == st \in {"none", "queued", "paused"}

\* The runs after it: no run is asked to pause or to be cancelled, and one that
\* has changed has ended.
RunsEnd == \A q \in Runs : run'[q] = run[q] \/ run'[q].status \in Done

\* A recovery ends runs that are at work, and leaves those that wait.
LEMMA RecoverRests ==
  ASSUME RowsHold, NEW Gone \in SUBSET {s \in Shards : Held(s)}, RecoverLeases(Gone), ckpt' = ckpt
  PROVE  /\ RunsEnd
         /\ \A t \in Shards : Idle(run[RunOf[t]].status) => Resting(t)
<1> USE DEF RowsHold, CountInv, RowInv, SourceInv, WorkInv, StoreInv, KernelInv
<1> DEFINE lost     == {s \in Gone : Current(s).started /\ ~Answered(s)}
           unused   == {s \in Gone : ~Current(s).started}
           caught   == {s \in unused : CancelCaught(s)}
           finished == {RunOf[s] : s \in lost \cup caught}
           resting  == {RunOf[s] : s \in {t \in lost \cup unused : ~CancelCaught(t)}}
           sh == [s \in Shards |->
                    IF s \in lost THEN UnknownShard(s)
                    ELSE IF s \in caught THEN "cancelled"
                    ELSE IF s \notin unused THEN shard[s]
                    ELSE IF run[RunOf[s]].status = "pause_requested" THEN "paused"
                    ELSE "queued"]
<1>1. /\ job' = [s \in Shards |->
           IF s \in lost THEN UnknownJob(s)
           ELSE IF s \in caught THEN CancelledJob(job[s])
           ELSE IF s \in unused THEN QueuedJob
           ELSE job[s]]
      /\ shard' = FinishShards(finished, sh)
      /\ run' = [r \in Runs |->
           LET rec == IF r \in finished THEN FinishRun(r, sh, ckpt) ELSE run[r]
           IN  IF r \in resting THEN Rest(rec, r, sh, lease') ELSE rec]
  BY DEF RecoverLeases
<1>2. ASSUME NEW s \in Gone PROVE run[RunOf[s]].status \in Working
  BY HeldAtWork
<1> HIDE DEF sh
<1>3. ASSUME NEW q \in Runs PROVE run'[q] = run[q] \/ run'[q].status \in Done
  <2>1. run'[q] \in {run[q], FinishRun(q, sh, ckpt), Rest(FinishRun(q, sh, ckpt), q, sh, lease'),
                     Rest(run[q], q, sh, lease')}
    BY <1>1
  <2>2. run[q].status # "pause_requested"
    BY DEF FreshRuns
  <2> QED
    BY <2>1, <2>2, RunAfter
<1>4. ASSUME NEW t \in Shards, Idle(run[RunOf[t]].status) PROVE Resting(t)
  <2>1. t \notin Gone /\ RunOf[t] \notin finished \cup resting /\ RunOf[t] \in Runs
    BY <1>2, <1>4, KernelConstants DEF Idle, Working
  <2>2. run'[RunOf[t]] = run[RunOf[t]] /\ job'[t] = job[t]
    BY <1>1, <2>1
  <2>3. sh[t] = shard[t]
    BY <2>1 DEF sh
  <2>4. shard'[t] = shard[t]
    BY <1>1, <2>1, <2>3 DEF FinishShards
  <2> QED
    BY <2>2, <2>4 DEF Resting
<1> QED
  BY <1>3, <1>4 DEF RunsEnd

\* The runs after a shard has ended, or gone back to wait.
LEMMA EndsRest ==
  ASSUME RowsHold, NEW s \in Shards, Ends(s) \/ GoesBack(s) \/ run' = run
  PROVE  RunsEnd
<1> USE DEF RowsHold, CountInv, RowInv, SourceInv, WorkInv, StoreInv, KernelInv
<1> DEFINE r == RunOf[s]
<1>0. r \in Runs /\ run[r].status # "pause_requested"
  BY KernelConstants DEF FreshRuns
<1>1. CASE run' = run
  BY <1>1 DEF RunsEnd
<1>2. ASSUME NEW rec, run' = [run EXCEPT ![r] = rec], rec = run[r] \/ rec.status \in Done
      PROVE  RunsEnd
  BY <1>0, <1>2 DEF RunsEnd, TypeOK
<1>3. CASE Ends(s)
  <2>1. PICK st \in Done : \E ck, rec :
          /\ rec \in {FinishRun(r, [shard EXCEPT ![s] = st], ck),
                      Rest(FinishRun(r, [shard EXCEPT ![s] = st], ck), r,
                           [shard EXCEPT ![s] = st], lease')}
          /\ run' = [run EXCEPT ![r] = rec]
    BY <1>3 DEF Ends
  <2>2. PICK ck, rec :
          /\ rec \in {FinishRun(r, [shard EXCEPT ![s] = st], ck),
                      Rest(FinishRun(r, [shard EXCEPT ![s] = st], ck), r,
                           [shard EXCEPT ![s] = st], lease')}
          /\ run' = [run EXCEPT ![r] = rec]
    BY <2>1
  <2>3. rec = run[r] \/ rec.status \in Done
    BY <1>0, <2>2, RunAfter
  <2> QED
    BY <1>2, <2>2, <2>3
<1>4. CASE GoesBack(s)
  <2>1. PICK sh : run' = [run EXCEPT ![r] = Rest(run[r], r, sh, lease')]
    BY <1>4 DEF GoesBack
  <2>2. Rest(run[r], r, sh, lease') = run[r]
    BY <1>0 DEF Rest
  <2> QED
    BY <1>2, <2>1, <2>2
<1> QED
  BY <1>1, <1>3, <1>4

\* A step for a request or an answer of shard s leaves who waits.
LEMMA DispatchFailsRests ==
  ASSUME RowsHold, NEW s \in Shards, DispatchFails(s), NEW t \in Shards,
         Idle(run[RunOf[t]].status)
  PROVE  Resting(t)
<1> USE DEF RowsHold, CountInv, RowInv, SourceInv, WorkInv, StoreInv, KernelInv
<1>1. Held(s) /\ ckpt' = ckpt
  BY DEF DispatchFails
<1>2. RunOf[s] # RunOf[t] /\ s # t
  BY <1>1, HeldAtWork DEF Idle, Working
<1>3. run'[RunOf[t]] = run[RunOf[t]]
  BY <1>2, KernelConstants DEF DispatchFails, TypeOK
<1>4. job'[t] = job[t] /\ shard'[t] = shard[t]
  BY <1>2 DEF DispatchFails, TypeOK, FinishShards
<1> QED
  BY <1>1, <1>3, <1>4 DEF Resting

\* So does the settlement of an answer, in time or late.
LEMMA SettleRests ==
  ASSUME RowsHold, TypeOK', NEW s \in Shards, NEW n \in CallNos, Settlement(s, n), NEW t \in Shards,
         Idle(run[RunOf[t]].status), Fresh(t)
  PROVE  Resting(t)
<1> USE DEF RowsHold, CountInv, RowInv, SourceInv, WorkInv, StoreInv, KernelInv
<1>0. /\ SettleLate(s, n) \/ SettleSuccess(s, n) \/ SettleFailure(s, n)
      /\ WorkRow(s) /\ RunOf[t] \in Runs /\ RunOf[s] \in Runs
  BY KernelConstants DEF Settlement, WorkRows
<1>1. /\ ledger[s][n].status = "response_received" /\ LedgerRow(s, n)
      /\ \A u \in Shards \ {s} : job'[u] = job[u]
  BY <1>0, SettleShape DEF LedgerRows
<1>2. /\ \/ SettledEnd(s) \/ SettledBack(s)
         \/ UNCHANGED <<run, shard, ckpt>>
      /\ \A q \in Runs \ {RunOf[s]} : run'[q] = run[q]
      /\ \A u \in Shards : RunOf[u] # RunOf[s] => shard'[u] = shard[u]
      /\ \A u \in Shards \ {s} : ckpt'[u] = ckpt[u]
  BY <1>0, SettleEffect
<1>3. CASE RunOf[t] # RunOf[s]
  BY <1>0, <1>1, <1>2, <1>3 DEF Resting
<1>4. CASE RunOf[t] = RunOf[s]
  <2>1. UNCHANGED <<run, shard, ckpt>>
    BY <1>2, <1>4 DEF SettledEnd, SettledBack, Idle, Working
  <2>2. shard[s] \in Working \cup Done
    BY <1>1 DEF LedgerRow, Open
  <2>3. t # s \/ shard[t] = "succeeded_empty"
    BY <1>4, <2>2 DEF Fresh, Idle, Working, Done
  <2> QED
    BY <1>1, <2>1, <2>3 DEF Resting
<1> QED
  BY <1>3, <1>4


\* So does every other step of the kernel.
LEMMA KernelRests ==
  ASSUME RowsHold, TypeOK', KernelStep
  PROVE  /\ RunsEnd
         /\ \A t \in Shards : Idle(run[RunOf[t]].status) => Resting(t)
<1> USE DEF RowsHold, CountInv, RowInv, SourceInv, WorkInv, StoreInv, KernelInv
<1>0. \A t \in Shards : Fresh(t)
  BY DEF FreshRuns
<1>1. CASE Start
  BY <1>1, RecoverRests DEF Start
<1>2. CASE RecoverExpired
  BY <1>2, RecoverRests DEF RecoverExpired
<1>3. ASSUME run' = run, shard' = shard, job' = job, \A t \in Shards : ckpt'[t].exists = ckpt[t].exists
      PROVE  /\ RunsEnd
             /\ \A t \in Shards : Resting(t)
  BY <1>3 DEF RunsEnd, Resting
<1>4. ASSUME NEW s \in Shards, Lapse(s) \/ Prepare(s)
      PROVE  RunsEnd /\ \A t \in Shards : Resting(t)
  BY <1>3, <1>4 DEF Lapse, Prepare
<1>5. ASSUME NEW q \in calls, CallLost(q)
      PROVE  RunsEnd /\ \A t \in Shards : Resting(t)
  BY <1>3, <1>5 DEF CallLost
<1>6. ASSUME NEW s \in Shards, NEW n \in CallNos, NEW resp \in Responses, PersistResponse(s, n, resp)
      PROVE  RunsEnd /\ \A t \in Shards : Resting(t)
  BY <1>3, <1>6 DEF PersistResponse
<1>7. ASSUME NEW s \in Shards, SendRequest(s)
      PROVE  RunsEnd /\ \A t \in Shards : Resting(t)
  <2>1. ASSUME NEW t \in Shards PROVE ckpt'[t].exists = ckpt[t].exists
    BY <1>7 DEF SendRequest, TypeOK, Checkpoint
  <2> QED
    BY <1>3, <1>7, <2>1 DEF SendRequest
<1>8. ASSUME NEW s \in Shards, RetryDue(s)
      PROVE  RunsEnd /\ \A t \in Shards : Idle(run[RunOf[t]].status) => Resting(t)
  <2>1. run' = run /\ shard' = shard /\ RetryFalls({s})
    BY <1>8 DEF RetryDue
  <2>2. ASSUME NEW t \in Shards PROVE ckpt'[t].exists = ckpt[t].exists
    BY <2>1 DEF RetryFalls, TypeOK, Checkpoint
  <2>3. ASSUME NEW t \in Shards, job[t] = QueuedJob PROVE job'[t] = job[t]
    BY <2>1, <2>3 DEF RetryFalls, QueuedJob
  <2>4. ASSUME NEW t \in Shards, Idle(run[RunOf[t]].status) PROVE Resting(t)
    BY <1>0, <2>1, <2>2, <2>3, <2>4 DEF Resting, Fresh, Idle
  <2> QED
    BY <2>1, <2>4 DEF RunsEnd
<1>9. ASSUME NEW s \in Shards, DispatchFails(s)
      PROVE  RunsEnd /\ \A t \in Shards : Idle(run[RunOf[t]].status) => Resting(t)
  BY <1>9, DispatchFailsRests, DispatchFailsEnds, EndsRest
<1>10. ASSUME NEW s \in Shards, NEW n \in CallNos, Settlement(s, n)
       PROVE  RunsEnd /\ \A t \in Shards : Idle(run[RunOf[t]].status) => Resting(t)
  <2>1. Ends(s) \/ GoesBack(s) \/ run' = run
    BY <1>10, SettleShape DEF Settlement
  <2> QED
    BY <1>0, <1>10, <2>1, SettleRests, EndsRest
<1> QED
  BY <1>1, <1>2, <1>4, <1>5, <1>6, <1>7, <1>8, <1>9, <1>10 DEF KernelStep

\* Runs that wait stay fresh while the kernel works on others,
LEMMA KernelKeepsFresh ==
  ASSUME RowsHold, TypeOK', KernelStep
  PROVE  FreshRuns'
<1>0. FreshRuns /\ \A t \in Shards : RunOf[t] \in Runs
  BY KernelConstants DEF RowsHold
<1>1. RunsEnd /\ \A t \in Shards : Idle(run[RunOf[t]].status) => Resting(t)
  BY KernelRests
<1>2. \A q \in Runs : run'[q].status \notin {"pause_requested", "cancel_requested"}
  BY <1>0, <1>1 DEF RunsEnd, Done, FreshRuns
<1>3. ASSUME NEW t \in Shards PROVE Fresh(t)'
  <2>1. Fresh(t)
    BY <1>0 DEF FreshRuns
  <2>2. Idle(run'[RunOf[t]].status) => run'[RunOf[t]] = run[RunOf[t]]
    BY <1>0, <1>1 DEF RunsEnd, Idle, Done
  <2> QED
    BY <1>1, <2>1, <2>2 DEF Resting, Fresh, Idle
<1> QED
  BY <1>2, <1>3 DEF FreshRuns

\* until one of them is claimed: of a run that has none, some may be skipped,
LEMMA ClaimKeepsFresh ==
  ASSUME RowsHold, ClaimNext
  PROVE  FreshRuns'
<1>0. TypeOK /\ FreshRuns /\ \A t \in Shards : RunOf[t] \in Runs
  BY KernelConstants DEF RowsHold, CountInv, RowInv, SourceInv, WorkInv, StoreInv, KernelInv
<1>1. PICK sh, touched :
        /\ shard' = sh
        /\ sh = [s \in Shards |-> IF s \in Skipped THEN "succeeded_empty"
                                  ELSE IF s \in Chosen THEN "running" ELSE shard[s]]
        /\ run' = [r \in Runs |->
             IF \E s \in Chosen : RunOf[s] = r THEN [run[r] EXCEPT !.status = "running"]
             ELSE IF r \in touched THEN FinishRun(r, sh, ckpt')
             ELSE run[r]]
  BY DEF ClaimNext
<1>2. ASSUME NEW q \in Runs
      PROVE  \/ run'[q].status = "running" /\ \E s \in Chosen : RunOf[s] = q
             \/ run'[q] = run[q] /\ ~\E s \in Chosen : RunOf[s] = q
             \/ run'[q].status \in Done
  <2>1. CASE \E s \in Chosen : RunOf[s] = q
    <3>1. [run[q] EXCEPT !.status = "running"].status = "running"
      BY <1>0 DEF TypeOK, RunRecord
    <3> QED
      BY <1>1, <2>1, <3>1
  <2>2. CASE ~\E s \in Chosen : RunOf[s] = q
    <3>1. run'[q] \in {run[q], FinishRun(q, sh, ckpt')}
      BY <1>1, <2>2
    <3> QED
      BY <1>0, <2>2, <3>1, FinishRunEffect
  <2> QED
    BY <2>1, <2>2
<1>3. \A q \in Runs : run'[q].status \notin {"pause_requested", "cancel_requested"}
  BY <1>0, <1>2 DEF FreshRuns, Done
<1>4. ASSUME NEW t \in Shards PROVE Fresh(t)'
  <2>1. CASE Idle(run'[RunOf[t]].status)
    <3>1. run'[RunOf[t]] = run[RunOf[t]] /\ t \notin Chosen
      BY <1>0, <1>2, <2>1 DEF Idle, Done
    <3>2. Fresh(t)
      BY <1>0 DEF FreshRuns
    <3>3. CASE t \in Skipped
      BY <1>1, <3>3 DEF Fresh
    <3>4. CASE t \notin Skipped
      <4>1. ckpt'[t] = ckpt[t] /\ job'[t] = job[t] /\ shard'[t] = shard[t]
        BY <1>1, <3>1, <3>4 DEF ClaimNext
      <4> QED
        BY <3>1, <3>2, <4>1 DEF Fresh
    <3> QED
      BY <3>3, <3>4
  <2> QED
    BY <2>1 DEF Fresh, Idle
<1> QED
  BY <1>3, <1>4 DEF FreshRuns

\* and when one more is created.
LEMMA CreateKeepsFresh ==
  ASSUME RowsHold, NEW r \in Runs, CreateRun(r)
  PROVE  FreshRuns'
<1>0. TypeOK /\ FreshRuns /\ \A t \in Shards : RunOf[t] \in Runs
  BY KernelConstants DEF RowsHold, CountInv, RowInv, SourceInv, WorkInv, StoreInv, KernelInv
<1>1. /\ run[r].status = "none" /\ UNCHANGED <<shard, job, ckpt>>
      /\ run'[r].status = "queued" /\ \A q \in Runs \ {r} : run'[q] = run[q]
  BY <1>0 DEF CreateRun, TypeOK
<1>2. \A q \in Runs : run'[q].status \notin {"pause_requested", "cancel_requested"}
  BY <1>0, <1>1 DEF FreshRuns
<1>3. ASSUME NEW t \in Shards PROVE Fresh(t)'
  <2>1. Fresh(t) /\ RunOf[t] \in Runs
    BY <1>0 DEF FreshRuns
  <2>2. CASE RunOf[t] = r
    BY <1>1, <2>1, <2>2 DEF Fresh
  <2>3. CASE RunOf[t] # r
    BY <1>1, <2>1, <2>3 DEF Fresh
  <2> QED
    BY <2>2, <2>3
<1> QED
  BY <1>2, <1>3 DEF FreshRuns


-----------------------------------------------------------------------------
(* Every step of the worker's world leaves the rows as they should be.     *)

\* Whatever the loop, the user or time does, it is one of these.
KernelOrClaim == (KernelStep \/ ClaimNext) /\ StoreAccepts
Elsewhere ==
  \/ UNCHANGED vars
  \/ \E s \in Shards : Lapse(s) \/ RetryDue(s)
  \/ \E q \in calls : CallLost(q)
  \/ \E r \in Runs : CreateRun(r)
  \/ UserStep

\* The one call that is out while the loop awaits it.
LEMMA OneCall ==
  ASSUME LoopInv, NEW q \in calls
  PROVE  \E s \in at : /\ s \in Shards /\ ckpt[s].total \in CallNos
                       /\ q = <<s, ckpt[s].total>> /\ calls = {q}
<1>1. pc = "call"
  BY DEF LoopInv, LoopGoesOn
<1>2. PICK s \in at : calls = {<<s, ckpt[s].total>>}
  BY <1>1 DEF LoopInv, LoopGoesOn
<1> QED
  BY <1>1, <1>2 DEF LoopInv

\* The steps of the loop, one by one.
LEMMA WorkSteps ==
  ASSUME LoopInv, Work
  PROVE  KernelOrClaim \/ Elsewhere
<1>1. ASSUME Boot PROVE KernelOrClaim \/ Elsewhere
  BY <1>1 DEF Boot, Commits, Throws, KernelOrClaim, KernelStep, Elsewhere
<1>2. ASSUME SettlePending PROVE KernelOrClaim \/ Elsewhere
  <2>1. PICK q \in todo : Commits(Settlement(q[1], q[2])) \/ UNCHANGED vars
    BY <1>2 DEF SettlePending, Throws
  <2>2. q[1] \in Shards /\ q[2] \in CallNos
    BY DEF LoopInv
  <2> QED
    BY <2>1, <2>2 DEF Commits, KernelOrClaim, KernelStep, Elsewhere
<1>3. ASSUME SettledAll \/ Wake PROVE KernelOrClaim \/ Elsewhere
  BY <1>3 DEF SettledAll, Wake, Elsewhere
<1>4. ASSUME Recover PROVE KernelOrClaim \/ Elsewhere
  BY <1>4 DEF Recover, Commits, Throws, KernelOrClaim, KernelStep, Elsewhere
<1>5. ASSUME Claim PROVE KernelOrClaim \/ Elsewhere
  BY <1>5 DEF Claim, Commits, Throws, KernelOrClaim, Elsewhere
<1>6. ASSUME PrepareRequest PROVE KernelOrClaim \/ Elsewhere
  <2>1. PICK s \in at : Commits(Prepare(s)) \/ UNCHANGED vars
    BY <1>6 DEF PrepareRequest, Throws
  <2> QED
    BY <2>1 DEF LoopInv, Commits, KernelOrClaim, KernelStep, Elsewhere
<1>7. ASSUME DispatchRequest PROVE KernelOrClaim \/ Elsewhere
  <2>1. PICK s \in at : Commits(SendRequest(s)) \/ UNCHANGED vars
    BY <1>7 DEF DispatchRequest, Throws
  <2> QED
    BY <2>1 DEF LoopInv, Commits, KernelOrClaim, KernelStep, Elsewhere
<1>8. ASSUME CallReturns PROVE KernelOrClaim \/ Elsewhere
  <2>1. PICK q \in calls :
          \/ \E resp \in Responses : Commits(PersistResponse(q[1], q[2], resp))
          \/ CallLost(q)
          \/ Commits(DispatchFails(q[1]))
    BY <1>8 DEF CallReturns
  <2>2. q[1] \in Shards /\ q[2] \in CallNos
    BY OneCall
  <2> QED
    BY <2>1, <2>2 DEF Commits, KernelOrClaim, KernelStep, Elsewhere
<1>9. ASSUME SettleOwn PROVE KernelOrClaim \/ Elsewhere
  <2>1. PICK s \in at, n \in CallNos : Commits(Settlement(s, n)) \/ UNCHANGED vars
    BY <1>9 DEF SettleOwn, Throws
  <2> QED
    BY <2>1 DEF LoopInv, Commits, KernelOrClaim, KernelStep, Elsewhere
<1> QED
  BY <1>1, <1>2, <1>3, <1>4, <1>5, <1>6, <1>7, <1>8, <1>9 DEF Work

\* A crash loses the call that is out, and nothing else that is stored.
LEMMA WorkerSteps ==
  ASSUME LoopInv, [WorkerNext]_workVars
  PROVE  KernelOrClaim \/ Elsewhere
<1>1. CASE UNCHANGED workVars
  BY <1>1 DEF workVars, vars, Elsewhere
<1>2. CASE Crash
  <2>1. /\ calls' = {}
        /\ UNCHANGED <<run, shard, job, ckpt, lease, fence, ledger, window, position, kernelEpoch>>
    BY <1>2 DEF Crash
  <2>2. CASE calls = {}
    BY <2>1, <2>2 DEF vars, Elsewhere
  <2>3. ASSUME NEW q \in calls PROVE Elsewhere
    <3>1. calls = {q}
      BY <2>3, OneCall
    <3>2. CallLost(q)
      BY <2>1, <3>1 DEF CallLost
    <3> QED
      BY <3>2 DEF Elsewhere
  <2> QED
    BY <2>2, <2>3
<1>3. CASE Stall
  BY <1>3 DEF Stall, LoopInv, Elsewhere
<1>4. CASE User
  BY <1>4 DEF User, Elsewhere
<1>5. ASSUME NEW s \in Shards, Expires(s) \/ BackOff(s) PROVE Elsewhere
  BY <1>5 DEF Expires, BackOff, Elsewhere
<1> QED
  BY <1>1, <1>2, <1>3, <1>4, <1>5, WorkSteps DEF WorkerNext


\* Where the retry times of jobs are all that changes, the bridge stays valid.
LEMMA BridgeKept ==
  ASSUME BridgeValid, run' = run, shard' = shard,
         \A t \in Shards : /\ job'[t].status = job[t].status
                           /\ JobFieldsOK(job[t]) => JobFieldsOK(job'[t])
  PROVE  BridgeValid'
<1> SUFFICES ASSUME NEW r \in Runs, run'[r].status # "none" PROVE BridgeOK(r)'
  BY DEF BridgeValid
<1>1. BridgeOK(r)
  BY DEF BridgeValid
<1>2. RunShardOK(r)' <=> RunShardOK(r)
  BY DEF RunShardOK
<1> QED
  BY <1>1, <1>2 DEF BridgeOK, ShardsOf

\* A run is created with a job for every source.
LEMMA CreateKeepsBridge ==
  ASSUME RowsHold, NEW r \in Runs, CreateRun(r)
  PROVE  BridgeValid'
<1>0. TypeOK /\ FreshRuns /\ RunShapes /\ BridgeValid
  BY DEF RowsHold, CountInv, RowInv, SourceInv, WorkInv, StoreInv, KernelInv
<1>1. /\ run[r].status = "none" /\ UNCHANGED <<shard, job>>
      /\ run'[r].status = "queued" /\ run'[r].parent = "queued"
      /\ \A q \in Runs \ {r} : run'[q] = run[q]
  BY <1>0 DEF CreateRun, TypeOK
<1>2. ASSUME NEW q \in Runs, run'[q].status # "none" PROVE BridgeOK(q)'
  <2>1. CASE q # r
    <3>1. BridgeOK(q)
      BY <1>0, <1>1, <1>2, <2>1 DEF BridgeValid
    <3>2. run'[q] = run[q] /\ shard' = shard /\ job' = job
      BY <1>1, <2>1
    <3>3. RunShardOK(q)' <=> RunShardOK(q)
      BY <3>2 DEF RunShardOK
    <3> QED
      BY <3>1, <3>2, <3>3 DEF BridgeOK
  <2>2. CASE q = r
    <3>1. ASSUME NEW t \in ShardsOf(r) PROVE shard'[t] = "queued" /\ job'[t] = QueuedJob
      <4>1. t \in Shards /\ RunOf[t] = r
        BY DEF ShardsOf
      <4>2. shard[t] = "queued"
        BY <1>0, <1>1, <4>1, WorkingShape
      <4> QED
        BY <1>0, <1>1, <4>1, <4>2 DEF FreshRuns, Fresh
    <3>2. JobFieldsOK(QueuedJob) /\ QueuedJob.status \in ChildStatuses("queued")
      BY DEF JobFieldsOK, QueuedJob, ChildStatuses
    <3>3. RunShardOK(r)'
      BY <1>1, <3>1, HasShard DEF RunShardOK
    <3> QED
      BY <1>1, <2>2, <3>1, <3>2, <3>3 DEF BridgeOK, ParentOf, Done
  <2> QED
    BY <2>1, <2>2
<1> QED
  BY <1>2 DEF BridgeValid

\* What the passing of time leaves of jobs and checkpoints.
LEMMA TimeKeeps ==
  ASSUME RowsHold,
         \/ UNCHANGED vars
         \/ \E s \in Shards : Lapse(s) \/ RetryDue(s)
         \/ \E q \in calls : CallLost(q)
  PROVE  BridgeValid' /\ CheckpointsValid' /\ run' = run
<1>0. TypeOK /\ BridgeValid /\ CheckpointsValid
  BY DEF RowsHold, CountInv, RowInv, SourceInv, WorkInv, StoreInv, KernelInv
<1>1. run' = run /\ shard' = shard
      /\ \/ job' = job /\ ckpt' = ckpt
         \/ \E s \in Shards : RetryFalls({s})
  BY DEF vars, Lapse, RetryDue, CallLost
<1>2. CASE job' = job /\ ckpt' = ckpt
  <2>1. CheckpointsValid'
    BY <1>0, <1>2 DEF CheckpointsValid
  <2> QED
    BY <1>0, <1>1, <1>2, <2>1, BridgeKept
<1>3. ASSUME NEW s \in Shards, RetryFalls({s}) PROVE BridgeValid' /\ CheckpointsValid'
  <2>1. ASSUME NEW t \in Shards
        PROVE  /\ job'[t].status = job[t].status
               /\ JobFieldsOK(job[t]) => JobFieldsOK(job'[t])
    <3>1. job[t] \in JobRecord
      BY <1>0 DEF TypeOK
    <3>2. CASE job'[t] = job[t]
      BY <3>2
    <3>3. CASE job[t].next = "later" /\ job'[t] = [job[t] EXCEPT !.next = "due"]
      <4>1. /\ job'[t].status = job[t].status /\ job'[t].err = job[t].err
            /\ job'[t].finished = job[t].finished /\ job'[t].started = job[t].started
            /\ job'[t].next = "due"
        BY <3>1, <3>3 DEF JobRecord
      <4>2. job[t].status \in JobStatus
        BY <3>1 DEF JobRecord
      <4> QED
        BY <3>3, <4>1, <4>2 DEF JobFieldsOK, JobStatus
    <3> QED
      BY <1>3, <3>2, <3>3 DEF RetryFalls
  <2>2. ASSUME NEW t \in Shards
        PROVE  /\ ckpt'[t].done = ckpt[t].done /\ ckpt'[t].sealed = ckpt[t].sealed
               /\ ckpt'[t].accepted = ckpt[t].accepted /\ ckpt'[t].pages = ckpt[t].pages
               /\ ckpt'[t].calls = ckpt[t].calls
    <3>1. ckpt[t] \in Checkpoint
      BY <1>0 DEF TypeOK
    <3> QED
      BY <1>3, <3>1 DEF RetryFalls, Checkpoint
  <2>3. CheckpointsValid'
    BY <1>0, <2>2 DEF CheckpointsValid
  <2> QED
    BY <1>0, <1>1, <2>1, <2>3, BridgeKept
<1> QED
  BY <1>1, <1>2, <1>3

\* The rows, after any step.
LEMMA RowsStep ==
  ASSUME RowsHold, LoopInv, [WorkerNext]_workVars
  PROVE  RowsHold'
<1>1. CountInv /\ [Next]_vars => CountInv'
  BY RowStepInv, CountRowsStep DEF CountInv, RowInv, SourceInv
<1>2. CASE KernelOrClaim
  <2>1. Next
    BY <1>2 DEF KernelOrClaim, KernelStep, Settlement, Next
  <2>2. CountInv' /\ BridgeValid' /\ CheckpointsValid'
    BY <1>1, <1>2, <2>1 DEF RowsHold, KernelOrClaim, StoreAccepts
  <2>3. TypeOK'
    BY <2>2 DEF CountInv, RowInv, SourceInv, WorkInv, StoreInv, KernelInv
  <2> QED
    BY <1>2, <2>2, <2>3, KernelKeepsFresh, ClaimKeepsFresh DEF RowsHold, KernelOrClaim
<1>3. ASSUME NEW r \in Runs, CreateRun(r) PROVE RowsHold'
  <2>1. CountInv'
    BY <1>1, <1>3 DEF RowsHold, Next
  <2>2. CheckpointsValid'
    BY <1>3 DEF RowsHold, CreateRun, CheckpointsValid
  <2> QED
    BY <1>3, <2>1, <2>2, CreateKeepsBridge, CreateKeepsFresh DEF RowsHold
<1>4. CASE UserStep
  BY <1>4, UserStepHolds
<1>5. ASSUME \/ UNCHANGED vars
             \/ \E s \in Shards : Lapse(s) \/ RetryDue(s)
             \/ \E q \in calls : CallLost(q)
      PROVE  RowsHold'
  <2>1. CountInv'
    BY <1>1, <1>5 DEF RowsHold, Next
  <2>2. TypeOK'
    BY <2>1 DEF CountInv, RowInv, SourceInv, WorkInv, StoreInv, KernelInv
  <2>3. FreshRuns'
    <3>1. CASE UNCHANGED vars
      BY <3>1 DEF RowsHold, FreshRuns, Fresh, vars
    <3> QED
      BY <1>5, <2>2, <3>1, KernelKeepsFresh DEF KernelStep
  <2> QED
    BY <1>5, <2>1, <2>3, TimeKeeps DEF RowsHold
<1> QED
  BY <1>2, <1>3, <1>4, <1>5, WorkerSteps DEF Elsewhere


-----------------------------------------------------------------------------
(* The loop.                                                               *)

\* A claim is for one shard, and none that is claimed has a lease.
LEMMA OneChosen ==
  ASSUME TypeOK, NEW s \in Chosen, NEW t \in Chosen
  PROVE  s = t
<1>1. /\ Claimable(s) /\ ~Exhausted(s) /\ Claimable(t) /\ ~Exhausted(t)
      /\ ~(Rank[t] < Rank[s]) /\ ~(Rank[s] < Rank[t]) /\ s \in Shards /\ t \in Shards
  BY DEF Chosen
<1>2. Rank[s] \in Nat /\ Rank[t] \in Nat
  BY <1>1, KernelConstants
<1> QED
  BY <1>1, <1>2, KernelConstants

\* The stored answers that the loop reads are answers of its shards.
LEMMA PendingType ==
  PendingNow \subseteq Shards \X CallNos /\ PendingNow' \subseteq Shards \X CallNos
BY DEF PendingNow, Pending, ShardsOf

\* What the loop needs to know of the rows.
SameCalls ==
  /\ calls' = calls
  /\ \A s \in Shards : ckpt'[s].total = ckpt[s].total
SameEntries == ledger' = ledger

\* Whatever happens beside the loop leaves it where it is.
LEMMA LoopStays ==
  ASSUME LoopInv, UNCHANGED process, SameCalls, SameEntries, faults' \in 0..MaxFaults
  PROVE  LoopInv'
<1>1. UNCHANGED <<pc, looping, at, todo, settled>>
  BY DEF process
<1>2. pc = "call" => \A s \in at : ckpt'[s].total = ckpt[s].total
  BY DEF LoopInv, SameCalls
<1>3. LoopGoesOn'
  BY <1>1, <1>2 DEF LoopInv, LoopGoesOn, SameCalls, SameEntries
<1> QED
  BY <1>1, <1>2, <1>3 DEF LoopInv

\* Where no call is out and nothing is at hand, only the types matter.
LEMMA LoopAt ==
  ASSUME LoopInv, pc' \in {"down", "settle", "recover", "claim", "sleep"}, calls' = {},
         at' = {} \/ at' = at, looping' \in BOOLEAN, settled' \in BOOLEAN,
         todo' \subseteq Shards \X CallNos, faults' \in 0..MaxFaults
  PROVE  LoopInv'
<1>1. LoopGoesOn'
  BY DEF LoopGoesOn
<1> QED
  BY <1>1 DEF LoopInv, Where

\* Nothing is thrown more often than there are faults.
LEMMA FaultsBounded ==
  /\ LoopInv /\ faults' = faults => faults' \in 0..MaxFaults
  /\ LoopInv /\ faults < MaxFaults /\ faults' = faults + 1 => faults' \in 0..MaxFaults
<1>1. MaxFaults \in Nat
  BY WorkerConstants
<1> QED
  BY <1>1 DEF LoopInv


\* The kernel's own steps send no request but one, and leave the calls alone.
LEMMA CallsKept ==
  /\ Start => calls' = calls
  /\ RecoverExpired => calls' = calls
  /\ ClaimNext => calls' = calls
  /\ \A s \in Shards : Prepare(s) => calls' = calls
  /\ \A s \in Shards, n \in CallNos : Settlement(s, n) => calls' = calls
  /\ UNCHANGED vars => calls' = calls
<1>1. ASSUME NEW s, NEW n, Settlement(s, n) PROVE calls' = calls
  <2>1. SettleLate(s, n) => calls' = calls
    BY DEF SettleLate
  <2>2. SettleSuccess(s, n) => calls' = calls
    BY DEF SettleSuccess
  <2>3. SettleFailure(s, n) => calls' = calls
    BY DEF SettleFailure
  <2> QED
    BY <1>1, <2>1, <2>2, <2>3 DEF Settlement
<1>2. ClaimNext => calls' = calls
  BY DEF ClaimNext
<1> QED
  BY <1>1, <1>2 DEF Start, RecoverExpired, Prepare, vars

\* The process starts, and settles, recovers and claims without a call out.
LEMMA IdleLoop ==
  ASSUME TypeOK, LoopInv, Boot \/ SettlePending \/ SettledAll \/ Recover \/ Claim \/ Wake
  PROVE  LoopInv'
<1>0. faults \in 0..MaxFaults /\ MaxFaults \in Nat /\ looping \in BOOLEAN /\ settled \in BOOLEAN
  BY WorkerConstants DEF LoopInv
<1>1. pc \in {"down", "settle", "recover", "claim", "sleep"} /\ calls = {}
  BY DEF LoopInv, LoopGoesOn, Boot, SettlePending, SettledAll, Recover, Claim, Wake
<1>2. todo \subseteq Shards \X CallNos
  BY DEF LoopInv
<1>3. CASE Boot
  <2>1. calls' = {} /\ faults' \in 0..MaxFaults
    BY <1>0, <1>1, <1>3, CallsKept DEF Boot, Commits, Throws, Refuses
  <2>2. /\ pc' \in {"down", "settle"} /\ at' = {} /\ looping' \in BOOLEAN /\ settled' \in BOOLEAN
        /\ todo' \subseteq Shards \X CallNos
    BY <1>0, <1>1, <1>2, <1>3, PendingType DEF Boot, Looks
  <2> QED
    BY <2>1, <2>2, LoopAt
<1>4. CASE SettlePending
  <2>1. PICK q \in todo :
          /\ todo' = todo \ {q}
          /\ \/ Commits(Settlement(q[1], q[2])) /\ settled' = TRUE
             \/ Throws(Settlement(q[1], q[2])) /\ UNCHANGED settled
    BY <1>4 DEF SettlePending
  <2>2. q[1] \in Shards /\ q[2] \in CallNos
    BY <1>2
  <2>3. calls' = {} /\ faults' \in 0..MaxFaults
    BY <1>0, <1>1, <2>1, <2>2, CallsKept DEF Commits, Throws, Refuses
  <2>4. /\ pc' = "settle" /\ at' = at /\ looping' \in BOOLEAN /\ settled' \in BOOLEAN
        /\ todo' \subseteq Shards \X CallNos
    BY <1>0, <1>2, <1>4, <2>1 DEF SettlePending
  <2> QED
    BY <2>3, <2>4, LoopAt
<1>5. CASE SettledAll
  <2>1. calls' = {} /\ faults' \in 0..MaxFaults
    BY <1>0, <1>1, <1>5, CallsKept DEF SettledAll
  <2>2. /\ pc' \in {"settle", "recover"} /\ (at' = {} \/ at' = at)
        /\ looping' \in BOOLEAN /\ settled' \in BOOLEAN
        /\ todo' \subseteq Shards \X CallNos
    BY <1>0, <1>2, <1>5, PendingType DEF SettledAll, Again, Looks, Goes
  <2> QED
    BY <2>1, <2>2, LoopAt
<1>6. CASE Recover
  <2>1. calls' = {} /\ faults' \in 0..MaxFaults
    BY <1>0, <1>1, <1>6, CallsKept DEF Recover, Commits, Throws, Refuses
  <2>2. /\ pc' \in {"settle", "claim", "sleep", "down"} /\ at' = at
        /\ looping' \in BOOLEAN /\ settled' \in BOOLEAN
        /\ todo' \subseteq Shards \X CallNos
    BY <1>0, <1>2, <1>6, PendingType DEF Recover, Looks, Goes
  <2> QED
    BY <2>1, <2>2, LoopAt
<1>7. CASE Claim
  <2>1. calls' = {} /\ faults' \in 0..MaxFaults
    BY <1>0, <1>1, <1>7, CallsKept DEF Claim, Commits, Throws, Refuses
  <2>2. looping' = looping /\ settled' = settled /\ todo' = todo
    BY <1>7 DEF Claim, Sleeps, Goes
  <2>3. CASE pc' = "sleep" /\ at' = {}
    BY <1>0, <1>2, <2>1, <2>2, <2>3, LoopAt
  <2>4. CASE pc' = "prepare" /\ at' = Chosen /\ Chosen # {}
    <3>1. at' \subseteq Shards /\ \A s, t \in at' : s = t
      BY <2>4, OneChosen DEF Chosen
    <3>2. LoopGoesOn'
      BY <2>1, <2>4 DEF LoopGoesOn
    <3> QED
      BY <1>0, <1>2, <2>1, <2>2, <2>4, <3>1, <3>2 DEF LoopInv, Where
  <2> QED
    BY <1>7, <2>3, <2>4 DEF Claim, Sleeps, Goes
<1>8. CASE Wake
  <2>1. calls' = {} /\ faults' \in 0..MaxFaults
    BY <1>0, <1>1, <1>8, CallsKept DEF Wake
  <2>2. /\ pc' = "settle" /\ at' = at /\ looping' \in BOOLEAN /\ settled' \in BOOLEAN
        /\ todo' \subseteq Shards \X CallNos
    BY <1>0, <1>8, PendingType DEF Wake, Looks
  <2> QED
    BY <2>1, <2>2, LoopAt
<1> QED
  BY <1>3, <1>4, <1>5, <1>6, <1>7, <1>8

\* What Again, which starts the next round, leaves.
LEMMA NextRound ==
  ASSUME LoopInv, Again, calls' = {}, faults' \in 0..MaxFaults
  PROVE  LoopInv'
<1>1. /\ pc' = "settle" /\ at' = {} /\ looping' \in BOOLEAN /\ settled' \in BOOLEAN
      /\ todo' \subseteq Shards \X CallNos
  BY PendingType DEF Again, Looks, LoopInv
<1> QED
  BY <1>1, LoopAt

\* A request is prepared, sent, answered and settled for the claim at hand.
LEMMA BusyLoop ==
  ASSUME RowsHold, LoopInv, PrepareRequest \/ DispatchRequest \/ CallReturns \/ SettleOwn
  PROVE  LoopInv'
<1> USE DEF RowsHold, CountInv, RowInv, SourceInv, WorkInv, StoreInv, KernelInv
<1>0. /\ faults \in 0..MaxFaults /\ MaxFaults \in Nat /\ looping \in BOOLEAN /\ settled \in BOOLEAN
      /\ todo \subseteq Shards \X CallNos /\ at \subseteq Shards /\ \A s, t \in at : s = t
  BY WorkerConstants DEF LoopInv
<1>1. pc # "call" => calls = {}
  BY DEF LoopInv, LoopGoesOn
<1>2. CASE PrepareRequest
  <2>1. pc = "prepare" /\ calls = {}
    BY <1>1, <1>2 DEF PrepareRequest
  <2>2. PICK s \in at : \/ Commits(Prepare(s)) /\ Goes("dispatch") /\ UNCHANGED at
                        \/ Throws(Prepare(s)) /\ Again
    BY <1>2 DEF PrepareRequest
  <2>3. calls' = {} /\ faults' \in 0..MaxFaults
    BY <1>0, <2>1, <2>2, CallsKept DEF Commits, Throws, Refuses
  <2>4. CASE Again
    BY <2>3, <2>4, NextRound
  <2>5. CASE Goes("dispatch") /\ UNCHANGED at
    <3>1. LoopGoesOn'
      BY <2>2, <2>3, <2>5 DEF LoopGoesOn, Goes
    <3> QED
      BY <1>0, <2>3, <2>5, <3>1 DEF LoopInv, Goes, Where
  <2> QED
    BY <2>2, <2>4, <2>5
<1>3. CASE DispatchRequest
  <2>1. pc = "dispatch" /\ calls = {}
    BY <1>1, <1>3 DEF DispatchRequest
  <2>2. PICK s \in at : \/ Commits(SendRequest(s)) /\ Goes("call") /\ UNCHANGED at
                        \/ Throws(SendRequest(s)) /\ Again
    BY <1>3 DEF DispatchRequest
  <2>3. faults' \in 0..MaxFaults
    BY <1>0, <2>1, <2>2 DEF Commits, Throws, Refuses
  <2>4. CASE UNCHANGED vars /\ Again
    BY <2>1, <2>3, <2>4, NextRound, CallsKept
  <2>5. CASE SendRequest(s) /\ Goes("call") /\ UNCHANGED at
    <3>0. s \in Shards
      BY <1>0
    <3>1. MayRequest(s)
      BY <2>5 DEF SendRequest, MayDispatch
    <3>2. NextCall(s) \in CallNos
      BY <3>0, <3>1, RequesterWorks, CallLeft
    <3>3. ckpt'[s].total = NextCall(s)
      BY <2>5, <3>0 DEF SendRequest, NextCall, TypeOK, Checkpoint
    <3>4. calls' = {<<s, NextCall(s)>>}
      BY <2>1, <2>5 DEF SendRequest
    <3>5. pc' = "call" /\ at' = at
      BY <2>5 DEF Goes
    <3>6. LoopGoesOn'
      BY <2>2, <3>3, <3>4, <3>5 DEF LoopGoesOn
    <3>7. \A t \in at : ckpt'[t].total \in CallNos
      BY <1>0, <2>2, <3>2, <3>3
    <3> QED
      BY <1>0, <2>3, <2>5, <3>5, <3>6, <3>7 DEF LoopInv, Goes, Where
  <2> QED
    BY <2>2, <2>4, <2>5 DEF Commits, Throws
<1>4. CASE CallReturns
  <2>1. PICK q \in calls :
          \/ \E resp \in Responses :
               \/ /\ Commits(PersistResponse(q[1], q[2], resp))
                  /\ Goes("finish") /\ UNCHANGED at
               \/ /\ Refuses(PersistResponse(q[1], q[2], resp))
                  /\ CallLost(q) /\ Again
          \/ Commits(DispatchFails(q[1])) /\ Again
          \/ Refuses(DispatchFails(q[1])) /\ CallLost(q) /\ Again
    BY <1>4 DEF CallReturns
  <2>2. PICK s \in at : /\ s \in Shards /\ ckpt[s].total \in CallNos
                        /\ q = <<s, ckpt[s].total>> /\ calls = {q}
    BY OneCall
  <2>3. faults' \in 0..MaxFaults
    BY <1>0, <2>1 DEF Commits, Refuses
  <2>4. CASE CallLost(q) /\ Again
    <3>1. calls' = {}
      BY <2>2, <2>4 DEF CallLost
    <3> QED
      BY <2>3, <2>4, <3>1, NextRound
  <2>5. CASE DispatchFails(s) /\ Again
    <3>1. calls' = {}
      <4>1. \E n \in CallNos : <<s, n>> \in calls /\ calls' = calls \ {<<s, n>>}
        BY <2>5 DEF DispatchFails
      <4> QED
        BY <2>2, <4>1
    <3> QED
      BY <2>3, <2>5, <3>1, NextRound
  <2>6. ASSUME NEW resp \in Responses, PersistResponse(s, ckpt[s].total, resp),
               Goes("finish"), UNCHANGED at
        PROVE  LoopInv'
    <3>1. calls' = {}
      BY <2>2, <2>6 DEF PersistResponse
    <3>2. ledger'[s][ckpt[s].total].status = "response_received"
      BY <2>2, <2>6 DEF PersistResponse, TypeOK, LedgerEntry
    <3>3. pc' = "finish" /\ at' = at
      BY <2>6 DEF Goes
    <3>4. LoopGoesOn'
      BY <2>2, <3>1, <3>2, <3>3 DEF LoopGoesOn
    <3> QED
      BY <1>0, <2>3, <2>6, <3>3, <3>4 DEF LoopInv, Goes, Where
  <2>7. q[1] = s /\ q[2] = ckpt[s].total
    BY <2>2
  <2> QED
    BY <2>1, <2>4, <2>5, <2>6, <2>7 DEF Commits
<1>5. CASE SettleOwn
  <2>1. pc = "finish" /\ calls = {} /\ Again
    BY <1>1, <1>5 DEF SettleOwn
  <2>2. PICK s \in at, n \in CallNos : Commits(Settlement(s, n)) \/ Throws(Settlement(s, n))
    BY <1>5 DEF SettleOwn
  <2>3. calls' = {} /\ faults' \in 0..MaxFaults
    BY <1>0, <2>1, <2>2, CallsKept DEF Commits, Throws, Refuses
  <2> QED
    BY <2>1, <2>3, NextRound
<1> QED
  BY <1>2, <1>3, <1>4, <1>5


\* Crashes, the user and time leave the loop where it is, or end the process.
LEMMA BesidesLoop ==
  ASSUME RowsHold, LoopInv, Crash \/ Stall \/ User \/ \E s \in Shards : Expires(s) \/ BackOff(s)
  PROVE  LoopInv'
<1> USE DEF RowsHold, CountInv, RowInv, SourceInv, WorkInv, StoreInv, KernelInv
<1>0. /\ faults \in 0..MaxFaults /\ MaxFaults \in Nat
  BY WorkerConstants DEF LoopInv
<1>1. CASE Crash
  <2>1. /\ pc' = "down" /\ at' = {} /\ looping' = FALSE /\ settled' = FALSE
        /\ todo' = {} /\ calls' = {} /\ faults < MaxFaults /\ faults' = faults + 1
    BY <1>1 DEF Crash
  <2>2. faults' \in 0..MaxFaults
    BY <1>0, <2>1
  <2>3. LoopGoesOn'
    BY <2>1 DEF LoopGoesOn
  <2>4. /\ pc' \in Where /\ pc' # "call"
        /\ at' \subseteq Shards /\ todo' \subseteq Shards \X CallNos
        /\ \A s, t \in at' : s = t
    BY <2>1 DEF Where
  <2> QED
    BY <2>1, <2>2, <2>3, <2>4 DEF LoopInv
<1>2. CASE Stall
  <2>1. PICK s \in at : Lapse(s)
    BY <1>2 DEF Stall
  <2>2. SameCalls /\ SameEntries
    BY <2>1 DEF Lapse, SameCalls, SameEntries
  <2> QED
    BY <1>0, <1>2, <2>2, LoopStays DEF Stall
<1>3. CASE User
  <2>1. ASSUME \E r \in Runs : CreateRun(r) PROVE SameCalls /\ SameEntries
    BY <2>1 DEF CreateRun, SameCalls, SameEntries
  <2>2. ASSUME UserStep PROVE SameCalls /\ SameEntries
    BY <2>2, UserTypes DEF OnlyRunsMove, SameCalls, SameEntries
  <2>3. UNCHANGED process /\ faults' = faults
    BY <1>3 DEF User
  <2>4. SameCalls /\ SameEntries
    BY <1>3, <2>1, <2>2 DEF User
  <2> QED
    BY <1>0, <2>3, <2>4, LoopStays
<1>4. ASSUME NEW s \in Shards, Expires(s) PROVE LoopInv'
  <2>1. SameCalls /\ SameEntries
    BY <1>4 DEF Expires, Lapse, SameCalls, SameEntries
  <2> QED
    BY <1>0, <1>4, <2>1, LoopStays DEF Expires
<1>5. ASSUME NEW s \in Shards, BackOff(s) PROVE LoopInv'
  <2>1. SameCalls /\ SameEntries
    <3>1. RetryFalls({s}) /\ calls' = calls /\ ledger' = ledger
      BY <1>5 DEF BackOff, RetryDue
    <3>2. \A t \in Shards : ckpt'[t].total = ckpt[t].total
      BY <3>1 DEF RetryFalls, TypeOK, Checkpoint
    <3> QED
      BY <3>1, <3>2 DEF SameCalls, SameEntries
  <2> QED
    BY <1>0, <1>5, <2>1, LoopStays DEF BackOff
<1> QED
  BY <1>1, <1>2, <1>3, <1>4, <1>5

\* The loop, after any step.
LEMMA LoopStep ==
  ASSUME RowsHold, LoopInv, [WorkerNext]_workVars
  PROVE  LoopInv'
<1>1. CASE UNCHANGED workVars
  BY <1>1 DEF workVars, LoopInv, LoopGoesOn
<1>2. TypeOK
  BY DEF RowsHold, CountInv, RowInv, SourceInv, WorkInv, StoreInv, KernelInv
<1>3. CASE Work
  BY <1>2, <1>3, IdleLoop, BusyLoop DEF Work
<1> QED
  BY <1>1, <1>3, BesidesLoop DEF WorkerNext

-----------------------------------------------------------------------------
(* The theorems.                                                           *)

\* The invariant holds when the first process has still to be started.
LEMMA WorkerInitInv == WorkerInit => WorkerInv
<1> SUFFICES ASSUME WorkerInit PROVE WorkerInv
  OBVIOUS
<1>1. Init /\ pc = "down" /\ looping = FALSE /\ at = {} /\ todo = {} /\ settled = FALSE
      /\ faults = 0
  BY DEF WorkerInit
<1>2. CountInv
  BY <1>1, RowInitInv, CountInit DEF CountInv
<1>3. BridgeValid /\ CheckpointsValid /\ FreshRuns
  <2>1. /\ \A r \in Runs : run[r].status = "none"
        /\ \A s \in Shards : /\ shard[s] = "queued" /\ job[s] = QueuedJob
                             /\ ckpt[s] = NoCheckpoint /\ RunOf[s] \in Runs
    BY <1>1, KernelConstants DEF Init
  <2>2. /\ NoCheckpoint.done = FALSE /\ NoCheckpoint.accepted = 0 /\ NoCheckpoint.pages = 0
        /\ NoCheckpoint.calls = 0 /\ NoCheckpoint.exists = FALSE
    BY DEF NoCheckpoint
  <2>3. CheckpointsValid
    BY <2>1, <2>2, KernelConstants DEF CheckpointsValid
  <2> QED
    BY <2>1, <2>2, <2>3 DEF BridgeValid, FreshRuns, Fresh
<1>4. calls = {}
  BY <1>1 DEF Init
<1>5. LoopInv
  <2>1. LoopGoesOn
    BY <1>1, <1>4 DEF LoopGoesOn
  <2>2. 0 \in 0..MaxFaults
    BY WorkerConstants
  <2>3. "down" \in Where
    BY DEF Where
  <2> QED
    BY <1>1, <2>1, <2>2, <2>3 DEF LoopInv
<1> QED
  BY <1>2, <1>3, <1>5 DEF WorkerInv, RowsHold

\* Every step of the worker, the run API, the user and time keeps it.
LEMMA WorkerStepInv == WorkerInv /\ [WorkerNext]_workVars => WorkerInv'
BY RowsStep, LoopStep DEF WorkerInv

\* The rows that the kernel and the run API write, and the loop of the worker,
\* fit together in every reachable state of a deployment, through crashes,
\* database failures and stalls, whatever the user does.
THEOREM WorkerInvariance == WorkerSpec => []WorkerInv
<1>1. WorkerInit /\ [][WorkerNext]_workVars => []WorkerInv
  BY WorkerInitInv, WorkerStepInv, PTL
<1> QED
  BY <1>1, PTL DEF WorkerSpec

\* What the process remembers has its type, and it executes one claim at most.
THEOREM WorkerTypeCorrect == WorkerSpec => []WorkerTypeOK
<1>1. WorkerInv => WorkerTypeOK
  <2> SUFFICES ASSUME WorkerInv PROVE WorkerTypeOK
    OBVIOUS
  <2>1. TypeOK /\ LoopInv
    BY DEF WorkerInv, RowsHold, CountInv, RowInv, SourceInv, WorkInv, StoreInv, KernelInv
  <2>2. Cardinality(at) <= 1
    <3>1. CASE at = {}
      BY <3>1, FS_EmptySet
    <3>2. ASSUME NEW s \in at PROVE Cardinality(at) <= 1
      <4>1. at = {s}
        BY <2>1 DEF LoopInv
      <4>2. Cardinality({s}) = 1
        BY FS_Singleton
      <4> QED
        BY <4>1, <4>2
    <3> QED
      BY <3>1, <3>2
  <2> QED
    BY <2>1, <2>2 DEF LoopInv, WorkerTypeOK
<1> QED
  BY <1>1, WorkerInvariance, PTL

\* The loop calls a provider only for the claim at hand, and no call is out that
\* it does not await, through crashes and lost answers.
THEOREM LoopAlwaysGoesOn == WorkerSpec => []LoopGoesOn
<1>1. WorkerInv => LoopGoesOn
  BY DEF WorkerInv, LoopInv
<1> QED
  BY <1>1, WorkerInvariance, PTL

\* Whatever the worker and the run API leave behind together passes the
\* validation that the store makes at a start and in every transaction: neither
\* brings the other to a halt.
THEOREM StoreAlwaysValid == WorkerSpec => []StoreStaysValid
<1>1. WorkerInv => StoreStaysValid
  BY CountsAgree DEF WorkerInv, RowsHold, CountInv, RowInv, SourceInv, WorkInv, StoreInv,
                     KernelInv, CountRows, CheckpointFactsValid, StoreStaysValid
<1> QED
  BY <1>1, WorkerInvariance, PTL

\* The status of a run is one its shards allow although worker and run API write
\* both in transactions that know nothing of each other.
THEOREM WorkerRunsFollow == WorkerSpec => []RunFollowsShards
<1>1. WorkerInv => RunFollowsShards
  BY ShapesAreValid DEF WorkerInv, RowsHold, CountInv, RowInv, SourceInv
<1> QED
  BY <1>1, WorkerInvariance, PTL

=============================================================================
