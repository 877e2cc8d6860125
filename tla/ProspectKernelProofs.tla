------------------------ MODULE ProspectKernelProofs ------------------------
(***************************************************************************)
(* Theorems about the execution kernel, for every number of runs, sources, *)
(* calls, pages, leases and kernel starts.                                 *)
(***************************************************************************)
EXTENDS ProspectKernel, TLAPS

-----------------------------------------------------------------------------
(* The helpers of the kernel return what their variables hold.             *)

\* The parent job of a run always gets a status of its own vocabulary.
LEMMA ParentOfType ==
  ASSUME NEW st \in RunStatus
  PROVE  ParentOf(st) \in ParentStatus
BY DEF RunStatus, ParentOf, ParentStatus, Done

\* Finishing a run leaves a run record.
LEMMA FinishRunType ==
  ASSUME run \in [Runs -> RunRecord], NEW r \in Runs, NEW sh, NEW ck
  PROVE  FinishRun(r, sh, ck) \in RunRecord
<1>1. FinalStatus(r, sh, ck) \in RunStatus
  BY DEF FinalStatus, RunStatus
<1>2. ParentOf(FinalStatus(r, sh, ck)) \in ParentStatus
  BY <1>1, ParentOfType
<1> QED
  BY <1>1, <1>2 DEF FinishRun, RunRecord

\* Finishing the shards of some runs leaves a status for every shard.
LEMMA FinishShardsType ==
  ASSUME NEW sh \in [Shards -> ShardStatus], NEW R
  PROVE  FinishShards(R, sh) \in [Shards -> ShardStatus]
BY DEF FinishShards, ShardStatus

\* Coming to rest leaves a run record.
LEMMA RestType ==
  ASSUME NEW rec \in RunRecord, NEW r, NEW sh, NEW ls
  PROVE  Rest(rec, r, sh, ls) \in RunRecord
BY DEF Rest, RunRecord, RunStatus

\* A cancelled job is a job.
LEMMA CancelledJobType ==
  ASSUME NEW j \in JobRecord
  PROVE  CancelledJob(j) \in JobRecord
BY DEF CancelledJob, JobRecord, JobStatus, RetryTime, JobError

\* Changing one lease of one shard keeps the table of leases.
LEMMA LeaseTableType ==
  ASSUME NEW ls \in [Shards -> [Fences -> Lease]], NEW s \in Shards,
         NEW f, NEW l, f \in Fences => l \in Lease
  PROVE  [ls EXCEPT ![s][f] = l] \in [Shards -> [Fences -> Lease]]
OBVIOUS

\* Changing one entry of one shard's ledger keeps the table of entries.
LEMMA LedgerTableType ==
  ASSUME NEW L \in [Shards -> [CallNos -> LedgerEntry]], NEW s \in Shards,
         NEW n, NEW e, n \in CallNos => e \in LedgerEntry
  PROVE  [L EXCEPT ![s][n] = e] \in [Shards -> [CallNos -> LedgerEntry]]
OBVIOUS

\* The highest fence of a shard that holds a lease is that lease.
LEMMA CurrentType ==
  ASSUME TypeOK, NEW s \in Shards, Held(s)
  PROVE  fence[s] \in Fences /\ Current(s) \in Lease
<1>1. fence[s] \in Fences
  BY KernelConstants DEF TypeOK, Held, Fences
<1> QED
  BY <1>1 DEF TypeOK, Current

\* A lease that ends is still a lease.
LEMMA EndedType ==
  ASSUME NEW l \in Lease, NEW st \in {"released", "expired"},
         NEW at \in AttemptStatus, NEW why \in LeaseReason
  PROVE  [l EXCEPT !.status = st, !.attempt = at, !.reason = why,
                   !.lapsed = FALSE] \in Lease
BY DEF Lease

\* Giving a run's lease back keeps the table of leases.
LEMMA GiveBackType ==
  ASSUME TypeOK, NEW r \in Runs, NEW why \in LeaseReason
  PROVE  GiveBack(r, why) \in [Shards -> [Fences -> Lease]]
<1> SUFFICES ASSUME NEW s \in Shards
             PROVE  GiveBack(r, why)[s] \in [Fences -> Lease]
  BY DEF GiveBack
<1>1. CASE s \in HeldIn(r) \ Busy(r)
  <2> DEFINE l == [lease[s][fence[s]] EXCEPT !.status = "released", !.attempt = "failed",
                                             !.reason = why, !.lapsed = FALSE]
  <2>1. lease[s][fence[s]] \in Lease
    BY <1>1, CurrentType DEF HeldIn, Current
  <2>2. l \in Lease
    BY <2>1, EndedType DEF AttemptStatus
  <2>3. GiveBack(r, why)[s] = [lease[s] EXCEPT ![fence[s]] = l]
    BY <1>1 DEF GiveBack
  <2>4. lease[s] \in [Fences -> Lease]
    BY DEF TypeOK
  <2> HIDE DEF l
  <2> QED
    BY <2>2, <2>3, <2>4
<1>2. CASE s \notin HeldIn(r) \ Busy(r)
  BY <1>2 DEF GiveBack, TypeOK
<1> QED
  BY <1>1, <1>2

\* Ending one lease keeps the table of leases.
LEMMA EndLeaseType ==
  ASSUME TypeOK, NEW s \in Shards, Held(s), NEW st \in {"released", "expired"},
         NEW at \in AttemptStatus, NEW why \in LeaseReason
  PROVE  EndLease(s, st, at, why) \in [Shards -> [Fences -> Lease]]
<1> DEFINE l == [lease[s][fence[s]] EXCEPT !.status = st, !.attempt = at,
                                           !.reason = why, !.lapsed = FALSE]
<1>1. lease[s][fence[s]] \in Lease
  BY CurrentType DEF Current
<1>2. l \in Lease
  BY <1>1, EndedType
<1>3. EndLease(s, st, at, why) = [lease EXCEPT ![s][fence[s]] = l]
  BY DEF EndLease
<1>4. lease \in [Shards -> [Fences -> Lease]]
  BY DEF TypeOK
<1> HIDE DEF l
<1> QED
  BY <1>2, <1>3, <1>4, LeaseTableType

\* Giving up a request, or withdrawing it, keeps the ledger of its shard.
LEMMA GivenUpType ==
  ASSUME TypeOK, NEW s \in Shards
  PROVE  GivenUp(s) \in [CallNos -> LedgerEntry]
<1>1. ASSUME NEW e \in LedgerEntry
      PROVE  [e EXCEPT !.status = "outcome_unknown",
                       !.dispatch = "outcome_unknown"] \in LedgerEntry
  BY DEF LedgerEntry, Book!LedgerStatus, Book!DispatchStatus
<1>2. \A n \in CallNos : ledger[s][n] \in LedgerEntry
  BY DEF TypeOK
<1> QED
  BY <1>1, <1>2 DEF GivenUp

\* Withdrawing a shard's prepared requests leaves a ledger.
LEMMA WithdrawnType ==
  ASSUME TypeOK, NEW s \in Shards
  PROVE  Withdrawn(s) \in [CallNos -> LedgerEntry]
<1>1. ASSUME NEW e \in LedgerEntry
      PROVE  [e EXCEPT !.status = "settled",
                       !.kind = "cancelled_before_dispatch"] \in LedgerEntry
  BY DEF LedgerEntry, Book!LedgerStatus, Book!SettlementKind
<1>2. \A n \in CallNos : ledger[s][n] \in LedgerEntry
  BY DEF TypeOK
<1> QED
  BY <1>1, <1>2 DEF Withdrawn

\* What a request that is given up leaves behind has the types of its tables.
LEMMA UnknownTypes ==
  ASSUME TypeOK, NEW s \in Shards
  PROVE  /\ UnknownReason(s) \in LeaseReason
         /\ UnknownShard(s) \in ShardStatus
         /\ UnknownJob(s) \in JobRecord
<1>1. UnknownReason(s) \in LeaseReason
  BY DEF UnknownReason, LeaseReason
<1>2. UnknownShard(s) \in ShardStatus
  BY DEF UnknownShard, ShardStatus
<1>3. job[s] \in JobRecord
  BY DEF TypeOK
<1>4. CancelledJob(job[s]) \in JobRecord
  BY <1>3, CancelledJobType
<1>5. [job[s] EXCEPT !.status = "failed", !.next = "none", !.err = "unknown",
                     !.finished = TRUE] \in JobRecord
  BY <1>3 DEF JobRecord, JobStatus, RetryTime, JobError
<1>6. UnknownJob(s) \in JobRecord
  BY <1>4, <1>5 DEF UnknownJob
<1> QED
  BY <1>1, <1>2, <1>6

\* So has a recovered lease.
LEMMA RecoveredLeaseType ==
  ASSUME TypeOK, NEW s \in Shards, Held(s)
  PROVE  RecoveredLease(s) \in Lease
<1>1. Current(s) \in Lease
  BY CurrentType
<1>2. UnknownReason(s) \in LeaseReason
  BY UnknownTypes
<1>3. [Current(s) EXCEPT !.status = "expired", !.lapsed = FALSE,
                         !.reason = "RESPONSE_RECEIVED_PENDING_SETTLEMENT"] \in Lease
  BY <1>1 DEF Lease, LeaseReason
<1>4. ASSUME NEW at \in AttemptStatus, NEW why \in LeaseReason
      PROVE  [Current(s) EXCEPT !.status = "expired", !.lapsed = FALSE,
                                !.attempt = at, !.reason = why] \in Lease
  BY <1>1 DEF Lease
<1>5. {"request_outcome_unknown", "failed"} \subseteq AttemptStatus
  BY DEF AttemptStatus
<1>6. {"CANCELLED_BEFORE_REQUEST", "LEASE_RECOVERED_BEFORE_REQUEST"} \subseteq LeaseReason
  BY DEF LeaseReason
<1> QED
  BY <1>2, <1>3, <1>4, <1>5, <1>6 DEF RecoveredLease

\* What a recovery of any leases leaves behind.
LEMMA RecoverLeasesType ==
  ASSUME TypeOK, NEW Gone \in SUBSET {s \in Shards : Held(s)}, RecoverLeases(Gone)
  PROVE  /\ run' \in [Runs -> RunRecord]
         /\ shard' \in [Shards -> ShardStatus]
         /\ job' \in [Shards -> JobRecord]
         /\ lease' \in [Shards -> [Fences -> Lease]]
         /\ ledger' \in [Shards -> [CallNos -> LedgerEntry]]
<1> DEFINE lost     == {s \in Gone : Current(s).started /\ ~Answered(s)}
           unused   == {s \in Gone : ~Current(s).started}
           caught   == {s \in unused : CancelCaught(s)}
           finished == {RunOf[s] : s \in lost \cup caught}
           resting  == {RunOf[s] : s \in {t \in lost \cup unused : ~CancelCaught(t)}}
           sh == [s \in Shards |->
                    IF s \in lost THEN UnknownShard(s)
                    ELSE IF s \in caught THEN "cancelled"
                    ELSE IF s \notin unused THEN shard[s]
                    ELSE IF run[RunOf[s]].status = "pause_requested" THEN "paused"
                    ELSE "queued"]
<1>1. sh \in [Shards -> ShardStatus]
  BY UnknownTypes DEF TypeOK, ShardStatus
<1>2. shard' = FinishShards(finished, sh)
  BY DEF RecoverLeases
<1>3. shard' \in [Shards -> ShardStatus]
  BY <1>1, <1>2, FinishShardsType
<1>4. run' \in [Runs -> RunRecord]
  <2>1. run' = [r \in Runs |->
           LET rec == IF r \in finished THEN FinishRun(r, sh, ckpt) ELSE run[r]
           IN  IF r \in resting THEN Rest(rec, r, sh, lease') ELSE rec]
    BY DEF RecoverLeases
  <2>2. ASSUME NEW r \in Runs
        PROVE  (IF r \in finished THEN FinishRun(r, sh, ckpt) ELSE run[r]) \in RunRecord
    BY FinishRunType DEF TypeOK
  <2>. HIDE DEF finished, resting, sh
  <2> QED
    BY <2>1, <2>2, RestType
<1>5. job' \in [Shards -> JobRecord]
  <2>1. \A s \in Shards : CancelledJob(job[s]) \in JobRecord
    BY CancelledJobType DEF TypeOK
  <2>2. QueuedJob \in JobRecord
    BY DEF QueuedJob, JobRecord, JobStatus, RetryTime, JobError
  <2> QED
    BY <2>1, <2>2, UnknownTypes DEF RecoverLeases, TypeOK
<1>6. lease' \in [Shards -> [Fences -> Lease]]
  BY RecoveredLeaseType DEF RecoverLeases, TypeOK
<1>7. ledger' \in [Shards -> [CallNos -> LedgerEntry]]
  BY GivenUpType DEF RecoverLeases, TypeOK
<1> QED
  BY <1>3, <1>4, <1>5, <1>6, <1>7
-----------------------------------------------------------------------------
(* Type correctness, action by action.                                     *)

\* Operators: createProspectRun, requestPause, resume, requestCancel.
LEMMA CreateRunType ==
  ASSUME TypeOK, NEW r \in Runs, CreateRun(r)
  PROVE  TypeOK'
<1>1. run' \in [Runs -> RunRecord]
  BY DEF CreateRun, TypeOK, RunRecord, RunStatus, ParentStatus
<1> QED
  BY <1>1 DEF CreateRun, TypeOK

\* Pausing a run leaves a state of the kernel (requestPause).
LEMMA RequestPauseType ==
  ASSUME TypeOK, NEW r \in Runs, RequestPause(r)
  PROVE  TypeOK'
<1>1. run' \in [Runs -> RunRecord]
  BY DEF RequestPause, TypeOK, RunRecord, RunStatus
<1>2. shard' \in [Shards -> ShardStatus]
  BY DEF RequestPause, TypeOK, ShardStatus
<1>3. job' \in [Shards -> JobRecord]
  BY DEF RequestPause, TypeOK, QueuedJob, JobRecord, JobStatus, RetryTime, JobError
<1>4. lease' \in [Shards -> [Fences -> Lease]]
  BY GiveBackType DEF RequestPause, LeaseReason
<1> QED
  BY <1>1, <1>2, <1>3, <1>4 DEF RequestPause, TypeOK

\* Resuming a run leaves a state of the kernel (resume).
LEMMA ResumeType ==
  ASSUME TypeOK, NEW r \in Runs, Resume(r)
  PROVE  TypeOK'
<1>1. run' \in [Runs -> RunRecord]
  <2>1. run[r] \in RunRecord
    BY DEF TypeOK
  <2>2. run[r].epoch + 1 \in Nat
    BY <2>1 DEF RunRecord
  <2>3. ASSUME NEW n \in Nat
        PROVE  [run[r] EXCEPT !.status = "queued", !.epoch = n] \in RunRecord
    BY <2>1 DEF RunRecord, RunStatus
  <2>4. run' = [run EXCEPT ![r] = [run[r] EXCEPT !.status = "queued",
                                                 !.epoch = run[r].epoch + 1]]
    BY DEF Resume, TypeOK
  <2> QED
    BY <2>2, <2>3, <2>4 DEF TypeOK
<1>2. shard' \in [Shards -> ShardStatus]
  BY DEF Resume, TypeOK, ShardStatus
<1>3. job' \in [Shards -> JobRecord]
  <2>1. ASSUME NEW j \in JobRecord
        PROVE  /\ [j EXCEPT !.status = "retry_scheduled", !.next = "later"] \in JobRecord
               /\ [j EXCEPT !.status = "queued", !.next = "none"] \in JobRecord
    BY DEF JobRecord, JobStatus, RetryTime
  <2> QED
    BY <2>1 DEF Resume, TypeOK
<1>4. ckpt' \in [Shards -> Checkpoint]
  <2>1. ASSUME NEW c \in Checkpoint, NEW n \in Nat, NEW w \in RetryTime
        PROVE  [c EXCEPT !.sealed = n, !.retry = w] \in Checkpoint
    BY DEF Checkpoint
  <2>2. run[r].epoch + 1 \in Nat
    BY DEF TypeOK, RunRecord
  <2>3. \A s \in Shards : ckpt[s] \in Checkpoint
    BY DEF TypeOK
  <2>4. \A s \in Shards : ckpt[s].retry \in RetryTime
    BY <2>3 DEF Checkpoint
  <2>5. "none" \in RetryTime
    BY DEF RetryTime
  <2>6. ASSUME NEW s \in Shards
        PROVE  [ckpt[s] EXCEPT
                  !.sealed = IF @ = 0 THEN 0 ELSE run[r].epoch + 1,
                  !.retry  = IF ckpt[s].retry = "later" THEN @ ELSE "none"] \in Checkpoint
    BY <2>1, <2>2, <2>3, <2>4, <2>5
  <2> QED
    BY <2>3, <2>6 DEF Resume
<1> QED
  BY <1>1, <1>2, <1>3, <1>4 DEF Resume, TypeOK

\* Cancelling a run leaves a state of the kernel (requestCancel).
LEMMA RequestCancelType ==
  ASSUME TypeOK, NEW r \in Runs, RequestCancel(r)
  PROVE  TypeOK'
<1>1. run' \in [Runs -> RunRecord]
  <2>1. run[r] \in RunRecord
    BY DEF TypeOK
  <2>2. run[r].epoch + 1 \in Nat
    BY <2>1 DEF RunRecord
  <2>3. ASSUME NEW n \in Nat
        PROVE  [status |-> "cancelled", epoch |-> n, parent |-> "cancelled"] \in RunRecord
    BY DEF RunRecord, RunStatus, ParentStatus
  <2>4. ASSUME NEW n \in Nat
        PROVE  [run[r] EXCEPT !.status = "cancel_requested", !.epoch = n] \in RunRecord
    BY <2>1 DEF RunRecord, RunStatus
  <2> DEFINE rec == IF Busy(r) = {}
                    THEN [status |-> "cancelled", epoch |-> run[r].epoch + 1,
                          parent |-> "cancelled"]
                    ELSE [run[r] EXCEPT !.status = "cancel_requested", !.epoch = @ + 1]
  <2>5. rec \in RunRecord
    BY <2>2, <2>3, <2>4
  <2>6. run' = [run EXCEPT ![r] = rec]
    BY DEF RequestCancel
  <2> HIDE DEF rec
  <2> QED
    BY <2>5, <2>6 DEF TypeOK
<1>2. shard' \in [Shards -> ShardStatus]
  BY DEF RequestCancel, TypeOK, ShardStatus
<1>3. job' \in [Shards -> JobRecord]
  BY CancelledJobType DEF RequestCancel, TypeOK
<1>4. ckpt' \in [Shards -> Checkpoint]
  <2>1. ASSUME NEW c \in Checkpoint
        PROVE  [c EXCEPT !.sealed = 0, !.retry = "none", !.done = TRUE] \in Checkpoint
    BY DEF Checkpoint, RetryTime
  <2> QED
    BY <2>1 DEF RequestCancel, TypeOK
<1>5. lease' \in [Shards -> [Fences -> Lease]]
  BY GiveBackType DEF RequestCancel, LeaseReason
<1>6. ledger' \in [Shards -> [CallNos -> LedgerEntry]]
  BY WithdrawnType DEF RequestCancel, TypeOK
<1> QED
  BY <1>1, <1>2, <1>3, <1>4, <1>5, <1>6 DEF RequestCancel, TypeOK

\* Kernels: start, recoverExpiredLeases, claimNext, and time.
LEMMA StartType ==
  ASSUME TypeOK, Start
  PROVE  TypeOK'
<1>1. RecoverLeases({s \in Shards : Held(s)})
  BY DEF Start
<1>2. kernelEpoch' \in Nat
  BY DEF Start, TypeOK
<1> QED
  BY <1>1, <1>2, RecoverLeasesType DEF Start, TypeOK

\* Recovering the lapsed leases leaves a state of the kernel
\* (recoverExpiredLeases).
LEMMA RecoverExpiredType ==
  ASSUME TypeOK, RecoverExpired
  PROVE  TypeOK'
<1>1. RecoverLeases({s \in Shards : Held(s) /\ Current(s).lapsed})
  BY DEF RecoverExpired
<1> QED
  BY <1>1, RecoverLeasesType DEF RecoverExpired, TypeOK

\* Claiming leaves a state of the kernel: the bound of the fence tokens
\* is the guard's (claimNext).
LEMMA ClaimNextType ==
  ASSUME TypeOK, ClaimNext
  PROVE  TypeOK'
<1>1. ckpt' \in [Shards -> Checkpoint]
  <2>1. \A s \in Shards : NewCheckpoint(s) \in Checkpoint
    BY KernelConstants DEF NewCheckpoint, NoCheckpoint, Checkpoint, RetryTime, TypeOK, RunRecord
  <2> QED
    BY <2>1 DEF ClaimNext, TypeOK
<1>2. shard' \in [Shards -> ShardStatus]
  BY DEF ClaimNext, TypeOK, ShardStatus
<1>3. job' \in [Shards -> JobRecord]
  BY DEF ClaimNext, TypeOK, QueuedJob, JobRecord, JobStatus, RetryTime, JobError
<1>4. fence' \in [Shards -> 0..MaxFence]
  <2>1. ASSUME NEW n \in 0..MaxFence, n < MaxFence
        PROVE  n + 1 \in 0..MaxFence
    BY <2>1, KernelConstants
  <2>2. \A s \in Chosen : fence[s] < MaxFence
    BY DEF ClaimNext
  <2>3. fence' = [s \in Shards |-> IF s \in Chosen THEN fence[s] + 1 ELSE fence[s]]
    BY DEF ClaimNext
  <2> QED
    BY <2>1, <2>2, <2>3 DEF TypeOK
<1>5. lease' \in [Shards -> [Fences -> Lease]]
  <2>1. ASSUME NEW s \in Shards
        PROVE  NewLease(s) \in Lease
    BY KernelConstants DEF NewLease, NoLease, Lease, AttemptStatus, LeaseReason, TypeOK, RunRecord
  <2> QED
    BY <2>1 DEF ClaimNext, TypeOK
<1>6. run' \in [Runs -> RunRecord]
  <2>1. ASSUME NEW r \in Runs
        PROVE  [run[r] EXCEPT !.status = "running"] \in RunRecord
    BY DEF TypeOK, RunRecord, RunStatus
  <2> QED
    BY <2>1, FinishRunType DEF ClaimNext, TypeOK
<1> QED
  BY <1>1, <1>2, <1>3, <1>4, <1>5, <1>6 DEF ClaimNext, TypeOK

\* A lease that lapses leaves a state of the kernel.
LEMMA LapseType ==
  ASSUME TypeOK, NEW s \in Shards, Lapse(s)
  PROVE  TypeOK'
<1>1. lease' \in [Shards -> [Fences -> Lease]]
  <2> DEFINE l == [lease[s][fence[s]] EXCEPT !.lapsed = TRUE]
  <2>1. lease[s][fence[s]] \in Lease
    BY CurrentType DEF Lapse, Current
  <2>2. l \in Lease
    BY <2>1 DEF Lease
  <2>3. lease' = [lease EXCEPT ![s][fence[s]] = l]
    BY DEF Lapse
  <2>4. lease \in [Shards -> [Fences -> Lease]]
    BY DEF TypeOK
  <2> HIDE DEF l
  <2> QED
    BY <2>2, <2>3, <2>4, LeaseTableType
<1> QED
  BY <1>1 DEF Lapse, TypeOK

\* Retry times that are reached leave checkpoints and jobs.
LEMMA RetryFallsType ==
  ASSUME TypeOK, NEW S, RetryFalls(S)
  PROVE  ckpt' \in [Shards -> Checkpoint] /\ job' \in [Shards -> JobRecord]
<1>1. ASSUME NEW c \in Checkpoint
      PROVE  [c EXCEPT !.retry = "due"] \in Checkpoint
  BY DEF Checkpoint, RetryTime
<1>2. ASSUME NEW j \in JobRecord
      PROVE  [j EXCEPT !.next = "due"] \in JobRecord
  BY DEF JobRecord, RetryTime
<1> QED
  BY <1>1, <1>2 DEF RetryFalls, TypeOK

\* The end of a back-off leaves a state of the kernel.
LEMMA RetryDueType ==
  ASSUME TypeOK, NEW s \in Shards, RetryDue(s)
  PROVE  TypeOK'
BY RetryFallsType DEF RetryDue, TypeOK

\* A throttle window that opens leaves a state of the kernel.
LEMMA WindowOpensType ==
  ASSUME TypeOK, NEW p \in Providers, WindowOpens(p)
  PROVE  TypeOK'
BY RetryFallsType DEF WindowOpens, TypeOK

(* Requests: preparing, sending, losing and answering them.                *)

\* Preparing a request keeps the types.
LEMMA PrepareType ==
  ASSUME TypeOK, NEW s \in Shards, Prepare(s)
  PROVE  TypeOK'
<1> DEFINE n == NextCall(s)
<1>1. fence[s] \in Nat /\ ckpt[s].no \in Nat /\ ckpt[s].calls + 1 \in Nat
  BY KernelConstants DEF TypeOK, Checkpoint
<1>2. NewEntry(s) \in LedgerEntry
  BY <1>1 DEF NewEntry, NoEntry, LedgerEntry, Book!LedgerStatus, Book!DispatchStatus,
              Book!SettlementKind
<1>3. n \in CallNos => [ledger[s][n] EXCEPT !.bound = fence[s]] \in LedgerEntry
  <2>1. ASSUME NEW e \in LedgerEntry
        PROVE  [e EXCEPT !.bound = fence[s]] \in LedgerEntry
    BY <1>1 DEF LedgerEntry
  <2> QED
    BY <2>1 DEF TypeOK
<1>4. ledger' \in [Shards -> [CallNos -> LedgerEntry]]
  <2>1. ledger \in [Shards -> [CallNos -> LedgerEntry]]
    BY DEF TypeOK
  <2>2. CASE ledger' = [ledger EXCEPT ![s][n] = NewEntry(s)]
    BY <2>1, <2>2, <1>2, LedgerTableType
  <2>3. CASE ledger' = [ledger EXCEPT ![s][n] = [ledger[s][n] EXCEPT !.bound = fence[s]]]
    BY <2>1, <2>3, <1>3, LedgerTableType
  <2> QED
    BY <2>2, <2>3 DEF Prepare
<1> QED
  BY <1>4 DEF Prepare, TypeOK

\* Putting a claim off leaves a state of the kernel.
LEMMA DeferType ==
  ASSUME TypeOK, NEW s \in Shards, Defer(s)
  PROVE  TypeOK'
<1>1. lease' \in [Shards -> [Fences -> Lease]]
  <2>1. Held(s)
    BY DEF Defer, MayDispatch, MayRequest, Usable
  <2>2. "failed" \in AttemptStatus /\ "PROVIDER_THROTTLE_DEFERRED" \in LeaseReason
    BY DEF AttemptStatus, LeaseReason
  <2> QED
    BY <2>1, <2>2, EndLeaseType DEF Defer
<1>2. ckpt' \in [Shards -> Checkpoint]
  <2>1. ASSUME NEW c \in Checkpoint
        PROVE  [c EXCEPT !.retry = "later"] \in Checkpoint
    BY DEF Checkpoint, RetryTime
  <2> QED
    BY <2>1 DEF Defer, TypeOK
<1>3. job' \in [Shards -> JobRecord]
  <2>1. ASSUME NEW j \in JobRecord
        PROVE  [j EXCEPT !.status = "retry_scheduled", !.next = "later",
                         !.err = "throttled"] \in JobRecord
    BY DEF JobRecord, JobStatus, RetryTime, JobError
  <2> QED
    BY <2>1 DEF Defer, TypeOK
<1>4. shard' \in [Shards -> ShardStatus]
  BY DEF Defer, TypeOK, ShardStatus
<1> QED
  BY <1>1, <1>2, <1>3, <1>4 DEF Defer, TypeOK

\* Sending a request leaves a state of the kernel
\* (startPreparedProviderDispatch).
LEMMA SendRequestType ==
  ASSUME TypeOK, NEW s \in Shards, SendRequest(s)
  PROVE  TypeOK'
<1> DEFINE n == NextCall(s)
<1>1. ckpt' \in [Shards -> Checkpoint]
  <2>1. ckpt[s] \in Checkpoint
    BY DEF TypeOK
  <2>2. ckpt[s].calls + 1 \in Nat /\ ckpt[s].total + 1 \in Nat
    BY <2>1 DEF Checkpoint
  <2>3. ASSUME NEW i \in Nat, NEW j \in Nat
        PROVE  [ckpt[s] EXCEPT !.calls = i, !.total = j, !.retry = "none"] \in Checkpoint
    BY <2>1 DEF Checkpoint, RetryTime
  <2>4. [ckpt[s] EXCEPT !.calls = @ + 1, !.total = @ + 1, !.retry = "none"] \in Checkpoint
    BY <2>2, <2>3
  <2> QED
    BY <2>4 DEF SendRequest, TypeOK
<1>2. lease' \in [Shards -> [Fences -> Lease]]
  <2> DEFINE l == [lease[s][fence[s]] EXCEPT !.attempt = "request_started", !.started = TRUE]
  <2>1. lease[s][fence[s]] \in Lease
    BY CurrentType DEF SendRequest, MayDispatch, MayRequest, Usable, Current
  <2>2. l \in Lease
    BY <2>1 DEF Lease, AttemptStatus
  <2>3. lease' = [lease EXCEPT ![s][fence[s]] = l]
    BY DEF SendRequest
  <2>4. lease \in [Shards -> [Fences -> Lease]]
    BY DEF TypeOK
  <2> HIDE DEF l
  <2> QED
    BY <2>2, <2>3, <2>4, LeaseTableType
<1>3. ledger' \in [Shards -> [CallNos -> LedgerEntry]]
  <2> DEFINE e == [ledger[s][n] EXCEPT !.status = "dispatch_started", !.by = fence[s],
                                       !.dispatch = "started"]
  <2>1. ledger \in [Shards -> [CallNos -> LedgerEntry]]
    BY DEF TypeOK
  <2>2. fence[s] \in Nat
    BY KernelConstants DEF TypeOK
  <2>3. ASSUME NEW x \in LedgerEntry
        PROVE  [x EXCEPT !.status = "dispatch_started", !.by = fence[s],
                         !.dispatch = "started"] \in LedgerEntry
    BY <2>2 DEF LedgerEntry, Book!LedgerStatus, Book!DispatchStatus
  <2>4. n \in CallNos => e \in LedgerEntry
    BY <2>1, <2>3
  <2>5. ledger' = [ledger EXCEPT ![s][n] = e]
    BY DEF SendRequest
  <2> HIDE DEF e, n
  <2> QED
    BY <2>1, <2>4, <2>5, LedgerTableType
<1>4. window' \in [Providers -> {"open", "closed"}]
  BY DEF SendRequest, TypeOK
<1>5. calls' \subseteq Shards \X Nat
  <2>1. NextCall(s) \in Nat
    BY DEF NextCall, TypeOK, Checkpoint
  <2> QED
    BY <2>1 DEF SendRequest, TypeOK
<1> QED
  BY <1>1, <1>2, <1>3, <1>4, <1>5 DEF SendRequest, TypeOK

\* A call that throws leaves a state of the kernel
\* (terminateProviderRequestAsOutcomeUnknown).
LEMMA DispatchFailsType ==
  ASSUME TypeOK, NEW s \in Shards, DispatchFails(s)
  PROVE  TypeOK'
<1> DEFINE sh == [shard EXCEPT ![s] = UnknownShard(s)]
           r  == RunOf[s]
<1>1. r \in Runs
  BY KernelConstants
<1>2. sh \in [Shards -> ShardStatus]
  BY UnknownTypes DEF TypeOK
<1>3. lease' \in [Shards -> [Fences -> Lease]]
  BY EndLeaseType, UnknownTypes DEF DispatchFails, AttemptStatus
<1>4. ledger' \in [Shards -> [CallNos -> LedgerEntry]]
  BY GivenUpType DEF DispatchFails, TypeOK
<1>5. job' \in [Shards -> JobRecord]
  BY UnknownTypes DEF DispatchFails, TypeOK
<1>6. shard' \in [Shards -> ShardStatus]
  BY <1>2, FinishShardsType DEF DispatchFails
<1>7. run' \in [Runs -> RunRecord]
  <2>1. FinishRun(r, sh, ckpt) \in RunRecord
    BY <1>1, FinishRunType DEF TypeOK
  <2>2. Rest(FinishRun(r, sh, ckpt), r, sh, lease') \in RunRecord
    BY <2>1, RestType
  <2>3. run' = [run EXCEPT ![r] = Rest(FinishRun(r, sh, ckpt), r, sh, lease')]
    BY DEF DispatchFails
  <2> HIDE DEF r, sh
  <2> QED
    BY <2>2, <2>3 DEF TypeOK
<1>8. calls' \subseteq Shards \X Nat
  BY DEF DispatchFails, TypeOK
<1> QED
  BY <1>3, <1>4, <1>5, <1>6, <1>7, <1>8 DEF DispatchFails, TypeOK

\* A call that is lost leaves a state of the kernel.
LEMMA CallLostType ==
  ASSUME TypeOK, NEW q \in calls, CallLost(q)
  PROVE  TypeOK'
BY DEF CallLost, TypeOK

\* Storing an answer leaves a state of the kernel, in which an entry with
\* a stored answer has one (persistPreparedProviderResponse).
LEMMA PersistResponseType ==
  ASSUME TypeOK, NEW s \in Shards, NEW n \in CallNos, NEW resp \in Responses,
         PersistResponse(s, n, resp)
  PROVE  TypeOK'
<1>1. ledger' \in [Shards -> [CallNos -> LedgerEntry]]
  <2> DEFINE e == [ledger[s][n] EXCEPT !.status = "response_received", !.resp = resp,
                                       !.dispatch = "response_received"]
  <2>1. ledger \in [Shards -> [CallNos -> LedgerEntry]]
    BY DEF TypeOK
  <2>2. resp # NoResponse
    BY KernelConstants
  <2>3. ASSUME NEW x \in LedgerEntry
        PROVE  [x EXCEPT !.status = "response_received", !.resp = resp,
                         !.dispatch = "response_received"] \in LedgerEntry
    BY <2>2 DEF LedgerEntry, Book!LedgerStatus, Book!DispatchStatus
  <2>4. e \in LedgerEntry
    BY <2>1, <2>3
  <2>5. ledger' = [ledger EXCEPT ![s][n] = e]
    BY DEF PersistResponse
  <2> HIDE DEF e
  <2> QED
    BY <2>1, <2>4, <2>5, LedgerTableType
<1>2. lease' \in [Shards -> [Fences -> Lease]]
  <2> DEFINE f == ledger[s][n].by
             l == [lease[s][f] EXCEPT !.status = "released", !.lapsed = FALSE,
                                      !.reason = "RESPONSE_RECEIVED_PENDING_SETTLEMENT"]
  <2>1. lease \in [Shards -> [Fences -> Lease]]
    BY DEF TypeOK
  <2>2. ASSUME NEW x \in Lease
        PROVE  [x EXCEPT !.status = "released", !.lapsed = FALSE,
                         !.reason = "RESPONSE_RECEIVED_PENDING_SETTLEMENT"] \in Lease
    BY DEF Lease, LeaseReason
  <2>3. f \in Fences => l \in Lease
    BY <2>1, <2>2
  <2>4. lease' = [lease EXCEPT ![s][f] = l] \/ lease' = lease
    BY DEF PersistResponse
  <2> HIDE DEF f, l
  <2> QED
    BY <2>1, <2>3, <2>4, LeaseTableType
<1>3. calls' \subseteq Shards \X Nat
  BY DEF PersistResponse, TypeOK
<1> QED
  BY <1>1, <1>2, <1>3 DEF PersistResponse, TypeOK

(* Settlement: late, with a page, or with a failure.                       *)

\* Closing an entry keeps the types of the ledger and the leases.
LEMMA CloseType ==
  ASSUME TypeOK, NEW s \in Shards, NEW n \in CallNos,
         NEW kind \in Book!SettlementKind, NEW at \in AttemptStatus,
         Close(s, n, kind, at)
  PROVE  /\ ledger' \in [Shards -> [CallNos -> LedgerEntry]]
         /\ lease' \in [Shards -> [Fences -> Lease]]
<1>1. ledger' \in [Shards -> [CallNos -> LedgerEntry]]
  <2> DEFINE e == [ClosedEntry(ledger[s][n], kind) EXCEPT !.evidence = 1]
  <2>1. ledger \in [Shards -> [CallNos -> LedgerEntry]]
    BY DEF TypeOK
  <2>2. ASSUME NEW x \in LedgerEntry
        PROVE  [ClosedEntry(x, kind) EXCEPT !.evidence = 1] \in LedgerEntry
    BY DEF ClosedEntry, LedgerEntry, Book!LedgerStatus
  <2>3. e \in LedgerEntry
    BY <2>1, <2>2
  <2>4. ledger' = [ledger EXCEPT ![s][n] = e]
    BY DEF Close
  <2> HIDE DEF e
  <2> QED
    BY <2>1, <2>3, <2>4, LedgerTableType
<1>2. lease' \in [Shards -> [Fences -> Lease]]
  <2> DEFINE f == ledger[s][n].by
             l == [lease[s][f] EXCEPT !.attempt = at]
  <2>1. lease \in [Shards -> [Fences -> Lease]]
    BY DEF TypeOK
  <2>2. ASSUME NEW x \in Lease
        PROVE  [x EXCEPT !.attempt = at] \in Lease
    BY DEF Lease
  <2>3. f \in Fences => l \in Lease
    BY <2>1, <2>2
  <2>4. lease' = [lease EXCEPT ![s][f] = l]
    BY DEF Close
  <2> HIDE DEF f, l
  <2> QED
    BY <2>1, <2>3, <2>4, LeaseTableType
<1> QED
  BY <1>1, <1>2

\* Finishing a shard gives runs, shards and jobs their types.
LEMMA FinishShardType ==
  ASSUME TypeOK, NEW s \in Shards, NEW status \in ShardStatus, NEW err \in JobError,
         FinishShard(s, status, err)
  PROVE  /\ job' \in [Shards -> JobRecord]
         /\ shard' \in [Shards -> ShardStatus]
         /\ run' \in [Runs -> RunRecord]
<1> DEFINE sh == [shard EXCEPT ![s] = status]
           r  == RunOf[s]
<1>1. r \in Runs
  BY KernelConstants
<1>2. sh \in [Shards -> ShardStatus]
  BY DEF TypeOK
<1>3. job' \in [Shards -> JobRecord]
  <2>1. ASSUME NEW j \in JobRecord, NEW st \in {"succeeded", "dead_letter", "failed"}
        PROVE  [j EXCEPT !.status = st, !.next = "none", !.finished = TRUE,
                         !.err = err] \in JobRecord
    BY DEF JobRecord, JobStatus, RetryTime
  <2>2. job[s] \in JobRecord
    BY DEF TypeOK
  <2> DEFINE st == IF status # "failed" THEN "succeeded"
                   ELSE IF ckpt[s].total >= MaxAttempts THEN "dead_letter"
                   ELSE "failed"
             j  == [job[s] EXCEPT !.status = st, !.next = "none", !.finished = TRUE,
                                  !.err = err]
  <2>3. j \in JobRecord
    BY <2>1, <2>2
  <2>4. job' = [job EXCEPT ![s] = j]
    BY DEF FinishShard
  <2> HIDE DEF j
  <2> QED
    BY <2>3, <2>4 DEF TypeOK
<1>4. shard' \in [Shards -> ShardStatus]
  BY <1>2, FinishShardsType DEF FinishShard
<1>5. run' \in [Runs -> RunRecord]
  <2>1. FinishRun(r, sh, ckpt') \in RunRecord
    BY <1>1, FinishRunType DEF TypeOK
  <2>2. Rest(FinishRun(r, sh, ckpt'), r, sh, lease') \in RunRecord
    BY <2>1, RestType
  <2>3. run' = [run EXCEPT ![r] = Rest(FinishRun(r, sh, ckpt'), r, sh, lease')]
    BY DEF FinishShard
  <2> HIDE DEF r, sh
  <2> QED
    BY <2>2, <2>3 DEF TypeOK
<1> QED
  BY <1>3, <1>4, <1>5

\* Keeping a shard for later gives runs and shards their types.
LEMMA KeepShardType ==
  ASSUME TypeOK, NEW s \in Shards, NEW st \in ShardStatus, KeepShard(s, st)
  PROVE  /\ shard' \in [Shards -> ShardStatus]
         /\ run' \in [Runs -> RunRecord]
<1>1. shard' \in [Shards -> ShardStatus]
  BY DEF KeepShard, TypeOK, ShardStatus
<1>2. run' \in [Runs -> RunRecord]
  <2>1. RunOf[s] \in Runs /\ run[RunOf[s]] \in RunRecord
    BY KernelConstants DEF TypeOK
  <2> QED
    BY <2>1, RestType DEF KeepShard, TypeOK
<1> QED
  BY <1>1, <1>2

\* Settling a late answer leaves a state of the kernel.
LEMMA SettleLateType ==
  ASSUME TypeOK, NEW s \in Shards, NEW n \in CallNos, SettleLate(s, n)
  PROVE  TypeOK'
<1> DEFINE r  == RunOf[s]
           sh == [shard EXCEPT ![s] = "cancelled"]
<1>1. /\ ledger' \in [Shards -> [CallNos -> LedgerEntry]]
      /\ lease' \in [Shards -> [Fences -> Lease]]
  <2>1. "cancelled_late" \in Book!SettlementKind /\ "cancelled_late" \in AttemptStatus
    BY DEF Book!SettlementKind, AttemptStatus
  <2> QED
    BY <2>1, CloseType DEF SettleLate
<1>2. shard' \in [Shards -> ShardStatus]
  <2>1. sh \in [Shards -> ShardStatus]
    BY DEF TypeOK, ShardStatus
  <2>2. FinishShards({r}, sh) \in [Shards -> ShardStatus]
    BY <2>1, FinishShardsType
  <2>3. shard' = FinishShards({r}, sh) \/ shard' = shard
    BY DEF SettleLate
  <2> QED
    BY <2>2, <2>3 DEF TypeOK
<1>3. job' \in [Shards -> JobRecord]
  <2>1. CancelledJob(job[s]) \in JobRecord
    BY CancelledJobType DEF TypeOK
  <2>2. job' = [job EXCEPT ![s] = CancelledJob(job[s])] \/ job' = job
    BY DEF SettleLate
  <2> QED
    BY <2>1, <2>2 DEF TypeOK
<1>4. run' \in [Runs -> RunRecord]
  <2>1. r \in Runs
    BY KernelConstants
  <2>2. FinishRun(r, sh, ckpt) \in RunRecord
    BY <2>1, FinishRunType DEF TypeOK
  <2>3. run' = [run EXCEPT ![r] = FinishRun(r, sh, ckpt)] \/ run' = run
    BY DEF SettleLate
  <2> HIDE DEF r, sh
  <2> QED
    BY <2>2, <2>3 DEF TypeOK
<1> QED
  BY <1>1, <1>2, <1>3, <1>4 DEF SettleLate, TypeOK

\* Settling a failure leaves a state of the kernel.
LEMMA SettleFailureType ==
  ASSUME TypeOK, NEW s \in Shards, NEW n \in CallNos, SettleFailure(s, n)
  PROVE  TypeOK'
<1> DEFINE again == ledger[s][n].resp.retryable /\ ckpt[s].calls < CallLimit
<1>1. /\ ledger' \in [Shards -> [CallNos -> LedgerEntry]]
      /\ lease' \in [Shards -> [Fences -> Lease]]
  <2>1. "failure" \in Book!SettlementKind /\ "failed" \in AttemptStatus
    BY DEF Book!SettlementKind, AttemptStatus
  <2> QED
    BY <2>1, CloseType DEF SettleFailure
<1>2. ckpt' \in [Shards -> Checkpoint]
  <2>1. ASSUME NEW c \in Checkpoint, NEW p \in BOOLEAN
        PROVE  /\ [c EXCEPT !.retry = "later"] \in Checkpoint
               /\ [c EXCEPT !.retry = "none", !.done = TRUE, !.partial = p] \in Checkpoint
    BY DEF Checkpoint, RetryTime
  <2>2. (ckpt[s].accepted > 0) \in BOOLEAN
    OBVIOUS
  <2>3. \/ ckpt' = [ckpt EXCEPT ![s] = [ckpt[s] EXCEPT !.retry = "later"]]
        \/ ckpt' = [ckpt EXCEPT ![s] = [ckpt[s] EXCEPT !.retry = "none", !.done = TRUE,
                                                       !.partial = ckpt[s].accepted > 0]]
    BY DEF SettleFailure
  <2> DEFINE c == [ckpt[s] EXCEPT !.retry = "later"]
             d == [ckpt[s] EXCEPT !.retry = "none", !.done = TRUE,
                                  !.partial = ckpt[s].accepted > 0]
  <2>4. c \in Checkpoint /\ d \in Checkpoint
    BY <2>1, <2>2 DEF TypeOK
  <2>5. ckpt' = [ckpt EXCEPT ![s] = c] \/ ckpt' = [ckpt EXCEPT ![s] = d]
    BY <2>3
  <2> HIDE DEF c, d
  <2> QED
    BY <2>4, <2>5 DEF TypeOK
<1>3. CASE again
  <2>1. job' \in [Shards -> JobRecord]
    <3>1. ASSUME NEW j \in JobRecord
          PROVE  [j EXCEPT !.status = "retry_scheduled", !.next = "later",
                           !.finished = FALSE, !.err = "provider"] \in JobRecord
      BY DEF JobRecord, JobStatus, RetryTime, JobError
    <3>2. job' = [job EXCEPT ![s] =
               [job[s] EXCEPT !.status = "retry_scheduled", !.next = "later",
                              !.finished = FALSE, !.err = "provider"]]
      BY <1>3 DEF SettleFailure
    <3> QED
      BY <3>1, <3>2 DEF TypeOK
  <2>2. KeepShard(s, "retry_scheduled")
    BY <1>3 DEF SettleFailure
  <2>3. shard' \in [Shards -> ShardStatus] /\ run' \in [Runs -> RunRecord]
    BY <2>2, KeepShardType DEF ShardStatus
  <2> QED
    BY <1>1, <1>2, <2>1, <2>3 DEF SettleFailure, TypeOK
<1>4. CASE ~again
  <2>1. FinishShard(s, IF ckpt[s].accepted > 0 THEN "partial_success" ELSE "failed",
                    "provider")
    BY <1>4 DEF SettleFailure
  <2>2. (IF ckpt[s].accepted > 0 THEN "partial_success" ELSE "failed") \in ShardStatus
    BY DEF ShardStatus
  <2>3. "provider" \in JobError
    BY DEF JobError
  <2>4. /\ job' \in [Shards -> JobRecord]
        /\ shard' \in [Shards -> ShardStatus]
        /\ run' \in [Runs -> RunRecord]
    BY <2>1, <2>2, <2>3, FinishShardType
  <2> QED
    BY <1>1, <1>2, <2>4 DEF SettleFailure, TypeOK
<1> QED
  BY <1>3, <1>4

\* What an answer still adds to a checkpoint: a count within the limit.
LEMMA TakenWithinLimit ==
  ASSUME TypeOK, WithinLimits, NEW s \in Shards, NEW resp \in Responses
  PROVE  /\ ckpt[s].accepted + Taken(s, resp) \in Nat
         /\ ckpt[s].accepted + Taken(s, resp) <= ResultLimit
<1>1. resp.accepted \in Nat
  BY KernelConstants DEF Response
<1>2. ckpt[s].accepted \in Nat
  BY DEF TypeOK, Checkpoint
<1>3. ckpt[s].accepted <= ResultLimit /\ ResultLimit \in Nat
  BY KernelConstants DEF WithinLimits
<1> QED
  BY <1>1, <1>2, <1>3 DEF Taken

\* Settling a page leaves a state of the kernel: the results cut to those
\* still wanted are a natural number because of the result limit.
LEMMA SettleSuccessType ==
  ASSUME TypeOK, WithinLimits, NEW s \in Shards, NEW n \in CallNos, SettleSuccess(s, n)
  PROVE  TypeOK' /\ WithinLimits'
<1> DEFINE resp  == ledger[s][n].resp
           take  == Taken(s, resp)
           page  == [ckpt[s] EXCEPT !.pages = @ + 1, !.accepted = @ + take,
                                    !.partial = @ \/ resp.partial \/ take # resp.accepted,
                                    !.retry = "none"]
           limit == page.pages >= PageLimit \/ page.accepted >= ResultLimit
           last  == [page EXCEPT !.sealed = 0, !.done = TRUE]
           next  == [page EXCEPT !.no = @ + 1, !.calls = 0,
                                 !.sealed = run[RunOf[s]].epoch]
<1>1. resp \in Responses
  <2>1. ledger[s][n] \in LedgerEntry
    BY DEF TypeOK
  <2>2. ledger[s][n].status = "response_received"
    BY DEF SettleSuccess, Settleable
  <2> QED
    BY <2>1, <2>2 DEF LedgerEntry
<1>2. ckpt[s] \in Checkpoint
  BY DEF TypeOK
<1>3. /\ page \in Checkpoint
      /\ page.calls = ckpt[s].calls
      /\ page.accepted <= ResultLimit
  <2>1. ckpt[s].accepted + take \in Nat /\ ckpt[s].accepted + take <= ResultLimit
    BY <1>1, TakenWithinLimit
  <2>2. ckpt[s].pages + 1 \in Nat
    BY <1>2 DEF Checkpoint
  <2> DEFINE i == ckpt[s].pages + 1
             j == ckpt[s].accepted + take
             b == ckpt[s].partial \/ resp.partial \/ take # resp.accepted
             d == [ckpt[s] EXCEPT !.pages = i, !.accepted = j, !.partial = b,
                                  !.retry = "none"]
  <2>3. b \in BOOLEAN
    OBVIOUS
  <2>4. page = d
    OBVIOUS
  <2>5. i \in Nat /\ j \in Nat /\ j <= ResultLimit
    BY <2>1, <2>2
  <2> HIDE DEF i, j, b, page, resp, take
  <2>6. d \in Checkpoint /\ d.calls = ckpt[s].calls /\ d.accepted = j
    BY <1>2, <2>3, <2>5 DEF Checkpoint, RetryTime
  <2> QED
    BY <2>4, <2>5, <2>6
<1>4. /\ last \in Checkpoint /\ last.calls = page.calls
      /\ last.accepted = page.accepted
      /\ next \in Checkpoint /\ next.calls = 0 /\ next.accepted = page.accepted
  <2> HIDE DEF page
  <2>1. page.no + 1 \in Nat
    BY <1>3 DEF Checkpoint
  <2>2. run[RunOf[s]].epoch \in Nat
    BY KernelConstants DEF TypeOK, RunRecord
  <2>3. ASSUME NEW c \in Checkpoint, NEW i \in Nat, NEW j \in Nat
        PROVE  LET d == [c EXCEPT !.no = i, !.calls = 0, !.sealed = j]
                   f == [c EXCEPT !.sealed = 0, !.done = TRUE]
               IN  /\ d \in Checkpoint /\ d.calls = 0 /\ d.accepted = c.accepted
                   /\ f \in Checkpoint /\ f.calls = c.calls /\ f.accepted = c.accepted
    BY DEF Checkpoint
  <2> QED
    BY <1>3, <2>1, <2>2, <2>3
<1>5. ckpt' = [ckpt EXCEPT ![s] = last] \/ ckpt' = [ckpt EXCEPT ![s] = next]
  BY DEF SettleSuccess
<1>6. ckpt' \in [Shards -> Checkpoint] /\ WithinLimits'
  <2>1. ckpt \in [Shards -> Checkpoint]
    BY DEF TypeOK
  <2>2. ckpt[s].calls <= CallLimit /\ 0 <= CallLimit
    BY KernelConstants DEF WithinLimits
  <2>3. /\ last \in Checkpoint /\ last.calls <= CallLimit /\ last.accepted <= ResultLimit
        /\ next \in Checkpoint /\ next.calls <= CallLimit /\ next.accepted <= ResultLimit
    <3> HIDE DEF page, last, next
    <3> QED
      BY <1>3, <1>4, <2>2
  <2> HIDE DEF last, next
  <2> QED
    BY <1>5, <2>1, <2>3 DEF WithinLimits
<1>7. /\ ledger' \in [Shards -> [CallNos -> LedgerEntry]]
      /\ lease' \in [Shards -> [Fences -> Lease]]
  <2>1. "success" \in Book!SettlementKind /\ "succeeded" \in AttemptStatus
    BY DEF Book!SettlementKind, AttemptStatus
  <2> QED
    BY <2>1, CloseType DEF SettleSuccess
<1>8. position' \in [Scopes -> {"none", "continuable", "exhausted"}]
  BY DEF SettleSuccess, PositionAfter, TypeOK
<1>9. /\ job' \in [Shards -> JobRecord]
      /\ shard' \in [Shards -> ShardStatus]
      /\ run' \in [Runs -> RunRecord]
  <2>1. CASE limit \/ ~resp.more
    <3>1. FinishShard(s, IF page.partial THEN "partial_success"
                         ELSE IF page.accepted > 0 THEN "succeeded"
                         ELSE "succeeded_empty", "none")
      BY <2>1 DEF SettleSuccess
    <3>2. (IF page.partial THEN "partial_success"
           ELSE IF page.accepted > 0 THEN "succeeded"
           ELSE "succeeded_empty") \in ShardStatus
      BY DEF ShardStatus
    <3>3. "none" \in JobError
      BY DEF JobError
    <3> QED
      BY <3>1, <3>2, <3>3, FinishShardType
  <2>2. CASE ~(limit \/ ~resp.more)
    <3>1. KeepShard(s, "queued")
      BY <2>2 DEF SettleSuccess
    <3>2. shard' \in [Shards -> ShardStatus] /\ run' \in [Runs -> RunRecord]
      BY <3>1, KeepShardType DEF ShardStatus
    <3>3. job' = [job EXCEPT ![s] = [job[s] EXCEPT !.status = "queued", !.next = "none"]]
      BY <2>2 DEF SettleSuccess
    <3>4. ASSUME NEW j \in JobRecord
          PROVE  [j EXCEPT !.status = "queued", !.next = "none"] \in JobRecord
      BY DEF JobRecord, JobStatus, RetryTime
    <3> QED
      BY <3>2, <3>3, <3>4 DEF TypeOK
  <2> QED
    BY <2>1, <2>2
<1>10. /\ fence' \in [Shards -> 0..MaxFence] /\ calls' \subseteq Shards \X Nat
       /\ window' \in [Providers -> {"open", "closed"}] /\ kernelEpoch' \in Nat
  BY DEF SettleSuccess, TypeOK
<1> QED
  BY <1>6, <1>7, <1>8, <1>9, <1>10 DEF TypeOK
-----------------------------------------------------------------------------
(* The limits.                                                             *)

\* Whatever else a step does to checkpoints, it counts a call only below the
\* limit and adds results only up to the limit.
LEMMA LimitsStep ==
  ASSUME TypeOK, WithinLimits, Next
  PROVE  WithinLimits'
<1> DEFINE Same == \A s \in Shards : /\ ckpt'[s].calls = ckpt[s].calls
                                     /\ ckpt'[s].accepted = ckpt[s].accepted
<1>1. ASSUME Same PROVE WithinLimits'
  BY <1>1 DEF WithinLimits
<1>2. ASSUME NEW c \in Checkpoint, NEW n, NEW w, NEW b
      PROVE  /\ [c EXCEPT !.retry = w].calls = c.calls
             /\ [c EXCEPT !.retry = w].accepted = c.accepted
             /\ [c EXCEPT !.retry = w, !.done = n, !.partial = b].calls = c.calls
             /\ [c EXCEPT !.retry = w, !.done = n, !.partial = b].accepted = c.accepted
  BY DEF Checkpoint
<1>3. \A s \in Shards : ckpt[s] \in Checkpoint
  BY DEF TypeOK
<1>4. ASSUME NEW r \in Runs, Resume(r) PROVE Same
  <2> SUFFICES ASSUME NEW s \in Shards
               PROVE  ckpt'[s].calls = ckpt[s].calls /\ ckpt'[s].accepted = ckpt[s].accepted
    OBVIOUS
  <2> DEFINE n == IF ckpt[s].sealed = 0 THEN 0 ELSE run[r].epoch + 1
             w == IF ckpt[s].retry = "later" THEN ckpt[s].retry ELSE "none"
             c == [ckpt[s] EXCEPT !.sealed = n, !.retry = w]
  <2>1. ckpt'[s] = ckpt[s] \/ ckpt'[s] = [ckpt[s] EXCEPT
                                !.sealed = IF @ = 0 THEN 0 ELSE run[r].epoch + 1,
                                !.retry  = IF ckpt[s].retry = "later" THEN @ ELSE "none"]
    BY <1>4 DEF Resume
  <2>2. ckpt'[s] = ckpt[s] \/ ckpt'[s] = c
    BY <2>1, <1>3 DEF Checkpoint
  <2> HIDE DEF n, w
  <2>3. c.calls = ckpt[s].calls /\ c.accepted = ckpt[s].accepted
    BY <1>3 DEF Checkpoint
  <2> HIDE DEF c
  <2> QED
    BY <2>2, <2>3
<1>5. ASSUME NEW r \in Runs, RequestCancel(r) PROVE Same
  <2> SUFFICES ASSUME NEW s \in Shards
               PROVE  ckpt'[s].calls = ckpt[s].calls /\ ckpt'[s].accepted = ckpt[s].accepted
    OBVIOUS
  <2> DEFINE c == [ckpt[s] EXCEPT !.sealed = 0, !.retry = "none", !.done = TRUE]
  <2>1. ckpt'[s] = ckpt[s] \/ ckpt'[s] = c
    BY <1>5 DEF RequestCancel
  <2>2. c.calls = ckpt[s].calls /\ c.accepted = ckpt[s].accepted
    BY <1>3 DEF Checkpoint
  <2> HIDE DEF c
  <2> QED
    BY <2>1, <2>2
<1>6. ASSUME NEW S, RetryFalls(S) PROVE Same
  BY <1>2, <1>3, <1>6 DEF RetryFalls
<1>7. ASSUME NEW s \in Shards, Defer(s) PROVE Same
  BY <1>2, <1>3, <1>7 DEF Defer, TypeOK
<1>8. ASSUME NEW s \in Shards, NEW n \in CallNos, SettleFailure(s, n) PROVE Same
  <2>1. \/ ckpt' = [ckpt EXCEPT ![s] = [ckpt[s] EXCEPT !.retry = "later"]]
        \/ ckpt' = [ckpt EXCEPT ![s] = [ckpt[s] EXCEPT !.retry = "none", !.done = TRUE,
                                                       !.partial = ckpt[s].accepted > 0]]
    BY <1>8 DEF SettleFailure
  <2> DEFINE c == [ckpt[s] EXCEPT !.retry = "later"]
             d == [ckpt[s] EXCEPT !.retry = "none", !.done = TRUE,
                                  !.partial = ckpt[s].accepted > 0]
  <2>2. /\ c.calls = ckpt[s].calls /\ c.accepted = ckpt[s].accepted
        /\ d.calls = ckpt[s].calls /\ d.accepted = ckpt[s].accepted
    BY <1>2, <1>3
  <2>3. ckpt' = [ckpt EXCEPT ![s] = c] \/ ckpt' = [ckpt EXCEPT ![s] = d]
    BY <2>1
  <2> HIDE DEF c, d
  <2> QED
    BY <2>2, <2>3 DEF TypeOK
<1>9. ASSUME ClaimNext PROVE WithinLimits'
  <2>1. ASSUME NEW s \in Shards
        PROVE  \/ ckpt'[s] = ckpt[s]
               \/ ckpt'[s] = NewCheckpoint(s)
    BY <1>9 DEF ClaimNext
  <2>2. ASSUME NEW s \in Shards
        PROVE  NewCheckpoint(s).calls = 0 /\ NewCheckpoint(s).accepted = 0
    BY DEF NewCheckpoint, NoCheckpoint
  <2>3. 0 <= CallLimit /\ 0 <= ResultLimit
    BY KernelConstants
  <2> QED
    BY <2>1, <2>2, <2>3 DEF WithinLimits
<1>10. ASSUME NEW s \in Shards, SendRequest(s) PROVE WithinLimits'
  <2>1. ckpt[s].calls < CallLimit
    BY <1>10 DEF SendRequest, MayDispatch, MayRequest
  <2> DEFINE c == [ckpt[s] EXCEPT !.calls = @ + 1, !.total = @ + 1, !.retry = "none"]
  <2>2. c.calls = ckpt[s].calls + 1 /\ c.accepted = ckpt[s].accepted
    BY <1>3 DEF Checkpoint
  <2>3. ckpt[s].calls \in Nat /\ CallLimit \in Nat
    BY <1>3, KernelConstants DEF Checkpoint
  <2>4. ckpt' = [ckpt EXCEPT ![s] = c]
    BY <1>10 DEF SendRequest
  <2>5. c.calls <= CallLimit
    BY <2>1, <2>2, <2>3
  <2> HIDE DEF c
  <2> QED
    BY <2>2, <2>4, <2>5 DEF WithinLimits, TypeOK
<1>11. ASSUME NEW s \in Shards, NEW n \in CallNos, SettleSuccess(s, n) PROVE WithinLimits'
  BY <1>11, SettleSuccessType
<1>12. ASSUME UNCHANGED ckpt PROVE Same
  BY <1>12
<1> HIDE DEF Same
<1> QED
  BY <1>1, <1>4, <1>5, <1>6, <1>7, <1>8, <1>9, <1>10, <1>11, <1>12
     DEF Next, CreateRun, RequestPause, Start, RecoverExpired, WindowOpens, Lapse,
         RetryDue, Prepare, DispatchFails, CallLost, PersistResponse, SettleLate

-----------------------------------------------------------------------------
(* Leases.                                                                 *)

\* Only a claim makes a lease: every other step leaves the fences alone, and
\* every lease it leaves active was active before.
NoNewLease ==
  /\ fence' = fence
  /\ \A s \in Shards, f \in Fences :
       lease'[s][f].status = "active" => lease[s][f].status = "active"

\* A step that issues no fence token and makes no lease active keeps the
\* active lease of every run the only one.
LEMMA NoNewLeaseKeepsExclusive ==
  ASSUME LeaseExclusive, NoNewLease
  PROVE  LeaseExclusive'
BY DEF LeaseExclusive, NoNewLease

\* A step that changes one lease of one shard, and not to active, makes none.
LEMMA OneLeaseChanged ==
  ASSUME TypeOK, fence' = fence, NEW s \in Shards, NEW f, NEW l,
         lease' = [lease EXCEPT ![s][f] = l],
         l.status = "active" => lease[s][f].status = "active"
  PROVE  NoNewLease
BY DEF NoNewLease, TypeOK

\* Ending a lease makes no lease active.
LEMMA EndLeaseMakesNone ==
  ASSUME TypeOK, fence' = fence, NEW s \in Shards, Held(s),
         NEW st \in {"released", "expired"}, NEW at, NEW why,
         lease' = EndLease(s, st, at, why)
  PROVE  NoNewLease
<1> DEFINE l == [lease[s][fence[s]] EXCEPT !.status = st, !.attempt = at,
                                           !.reason = why, !.lapsed = FALSE]
<1>1. lease[s][fence[s]] \in Lease
  BY CurrentType DEF Current
<1>2. l.status # "active"
  BY <1>1 DEF Lease
<1>3. lease' = [lease EXCEPT ![s][fence[s]] = l]
  BY DEF EndLease
<1> HIDE DEF l
<1> QED
  BY <1>2, <1>3, OneLeaseChanged

\* Giving an unused lease back makes no lease active (pause and cancel).
LEMMA GiveBackMakesNone ==
  ASSUME TypeOK, fence' = fence, NEW r \in Runs, NEW why, lease' = GiveBack(r, why)
  PROVE  NoNewLease
<1> SUFFICES ASSUME NEW s \in Shards, NEW f \in Fences, lease'[s][f].status = "active"
             PROVE  lease[s][f].status = "active"
  BY DEF NoNewLease
<1> DEFINE l == [lease[s][fence[s]] EXCEPT !.status = "released", !.attempt = "failed",
                                           !.reason = why, !.lapsed = FALSE]
<1>1. CASE s \in HeldIn(r) \ Busy(r)
  <2>1. lease[s][fence[s]] \in Lease
    BY <1>1, CurrentType DEF HeldIn, Current
  <2>2. l.status = "released"
    BY <2>1 DEF Lease
  <2>3. lease'[s] = [lease[s] EXCEPT ![fence[s]] = l]
    BY <1>1 DEF GiveBack
  <2> HIDE DEF l
  <2> QED
    BY <2>2, <2>3 DEF TypeOK
<1>2. CASE s \notin HeldIn(r) \ Busy(r)
  BY <1>2 DEF GiveBack
<1> QED
  BY <1>1, <1>2

\* Recovering leases makes no lease active.
LEMMA RecoverMakesNone ==
  ASSUME TypeOK, fence' = fence, NEW Gone \in SUBSET {s \in Shards : Held(s)},
         RecoverLeases(Gone)
  PROVE  NoNewLease
<1> SUFFICES ASSUME NEW s \in Shards, NEW f \in Fences, lease'[s][f].status = "active"
             PROVE  lease[s][f].status = "active"
  BY DEF NoNewLease
<1>1. lease'[s] = IF s \in Gone THEN [lease[s] EXCEPT ![fence[s]] = RecoveredLease(s)]
                  ELSE lease[s]
  BY DEF RecoverLeases
<1>2. CASE s \in Gone
  <2>1. Current(s) \in Lease
    BY <1>2, CurrentType
  <2>2. RecoveredLease(s).status = "expired"
    BY <2>1 DEF RecoveredLease, Lease
  <2> QED
    BY <1>1, <1>2, <2>2 DEF TypeOK
<1>3. CASE s \notin Gone
  BY <1>1, <1>3
<1> QED
  BY <1>2, <1>3

\* Closing a ledger entry makes no lease active.
LEMMA CloseMakesNone ==
  ASSUME TypeOK, fence' = fence, NEW s \in Shards, NEW n \in CallNos, NEW kind, NEW at,
         Close(s, n, kind, at)
  PROVE  NoNewLease
<1> SUFFICES ASSUME NEW t \in Shards, NEW f \in Fences, lease'[t][f].status = "active"
             PROVE  lease[t][f].status = "active"
  BY DEF NoNewLease
<1> DEFINE g == ledger[s][n].by
           l == [lease[s][g] EXCEPT !.attempt = at]
<1>1. ASSUME NEW x \in Lease PROVE [x EXCEPT !.attempt = at].status = x.status
  BY DEF Lease
<1>2. g \in Fences => l.status = lease[s][g].status
  BY <1>1 DEF TypeOK
<1>3. lease' = [lease EXCEPT ![s][g] = l]
  BY DEF Close
<1> HIDE DEF g, l
<1> QED
  BY <1>2, <1>3 DEF TypeOK

\* A claim is made only in a run that holds no lease, for one shard.
LEMMA ClaimKeepsExclusive ==
  ASSUME TypeOK, LeaseExclusive, ClaimNext
  PROVE  LeaseExclusive'
<1>1. \A s, t \in Chosen : s = t
  <2> SUFFICES ASSUME NEW s \in Chosen, NEW t \in Chosen
               PROVE  s = t
    OBVIOUS
  <2>1. ~(Rank[s] < Rank[t]) /\ ~(Rank[t] < Rank[s])
    BY DEF Chosen
  <2>2. Rank[s] \in Nat /\ Rank[t] \in Nat /\ s \in Shards /\ t \in Shards
    BY KernelConstants DEF Chosen
  <2>3. Rank[s] = Rank[t]
    BY <2>1, <2>2
  <2> QED
    BY <2>2, <2>3, KernelConstants
<1>2. \A s \in Chosen : \A t \in Shards : RunOf[t] = RunOf[s] => ~Held(t)
  BY DEF Chosen, Claimable, HeldIn, ShardsOf
<1>3. \A t \in Shards, f \in Fences : lease[t][f].status = "active" => f = fence[t]
  BY DEF LeaseExclusive
<1>4. \A t \in Shards, f \in Fences : lease[t][f].status = "active" => Held(t)
  BY <1>3, KernelConstants DEF Held, Current, Fences
<1>5. ASSUME NEW t \in Shards, NEW f \in Fences
      PROVE  \/ t \in Chosen /\ f = fence[t] + 1 /\ f = fence'[t]
             \/ t \in Chosen /\ f # fence[t] + 1 /\ lease'[t][f] = lease[t][f]
             \/ t \notin Chosen /\ lease'[t][f] = lease[t][f] /\ fence'[t] = fence[t]
  BY DEF ClaimNext, TypeOK
<1> SUFFICES ASSUME NEW s \in Shards, NEW t \in Shards, NEW f \in Fences, NEW g \in Fences,
                    lease'[s][f].status = "active", lease'[t][g].status = "active",
                    RunOf[s] = RunOf[t]
             PROVE  s = t /\ f = g /\ f = fence'[s]
  BY DEF LeaseExclusive
<1>6. CASE s \in Chosen
  <2>1. f = fence[s] + 1 /\ f = fence'[s]
    BY <1>2, <1>4, <1>5, <1>6
  <2>2. t \in Chosen
    BY <1>2, <1>4, <1>5, <1>6
  <2> QED
    BY <1>1, <1>2, <1>4, <1>5, <1>6, <2>1, <2>2
<1>7. CASE s \notin Chosen
  <2>1. lease[s][f].status = "active" /\ fence'[s] = fence[s]
    BY <1>5, <1>7
  <2>2. t \notin Chosen
    BY <1>2, <1>4, <2>1
  <2>3. lease[t][g].status = "active"
    BY <1>5, <2>2
  <2> QED
    BY <2>1, <2>3 DEF LeaseExclusive
<1> QED
  BY <1>6, <1>7

\* No step of the kernel but claimNext makes a lease active.
LEMMA OnlyClaimsMakeLeases ==
  ASSUME TypeOK, Next
  PROVE  ClaimNext \/ NoNewLease
<1>1. ASSUME NEW r \in Runs, RequestPause(r) PROVE NoNewLease
  BY <1>1, GiveBackMakesNone DEF RequestPause
<1>2. ASSUME NEW r \in Runs, RequestCancel(r) PROVE NoNewLease
  BY <1>2, GiveBackMakesNone DEF RequestCancel
<1>3. ASSUME Start PROVE NoNewLease
  <2>1. RecoverLeases({s \in Shards : Held(s)}) /\ fence' = fence
    BY <1>3 DEF Start
  <2> QED
    BY <2>1, RecoverMakesNone
<1>4. ASSUME RecoverExpired PROVE NoNewLease
  <2>1. RecoverLeases({s \in Shards : Held(s) /\ Current(s).lapsed}) /\ fence' = fence
    BY <1>4 DEF RecoverExpired
  <2> QED
    BY <2>1, RecoverMakesNone
<1>5. ASSUME NEW s \in Shards, Lapse(s) PROVE NoNewLease
  <2> DEFINE l == [lease[s][fence[s]] EXCEPT !.lapsed = TRUE]
  <2>1. lease[s][fence[s]] \in Lease
    BY <1>5, CurrentType DEF Lapse, Current
  <2>2. l.status = lease[s][fence[s]].status
    BY <2>1 DEF Lease
  <2>3. lease' = [lease EXCEPT ![s][fence[s]] = l] /\ fence' = fence
    BY <1>5 DEF Lapse
  <2> HIDE DEF l
  <2> QED
    BY <2>2, <2>3, OneLeaseChanged
<1>6. ASSUME NEW s \in Shards, Defer(s) PROVE NoNewLease
  BY <1>6, EndLeaseMakesNone DEF Defer, MayDispatch, MayRequest, Usable
<1>7. ASSUME NEW s \in Shards, SendRequest(s) PROVE NoNewLease
  <2> DEFINE l == [lease[s][fence[s]] EXCEPT !.attempt = "request_started", !.started = TRUE]
  <2>1. lease[s][fence[s]] \in Lease
    BY <1>7, CurrentType DEF SendRequest, MayDispatch, MayRequest, Usable, Current
  <2>2. l.status = lease[s][fence[s]].status
    BY <2>1 DEF Lease
  <2>3. lease' = [lease EXCEPT ![s][fence[s]] = l] /\ fence' = fence
    BY <1>7 DEF SendRequest
  <2> HIDE DEF l
  <2> QED
    BY <2>2, <2>3, OneLeaseChanged
<1>8. ASSUME NEW s \in Shards, DispatchFails(s) PROVE NoNewLease
  BY <1>8, EndLeaseMakesNone DEF DispatchFails
<1>9. ASSUME NEW s \in Shards, NEW n \in CallNos, NEW resp \in Responses,
             PersistResponse(s, n, resp)
      PROVE  NoNewLease
  <2> DEFINE f == ledger[s][n].by
             l == [lease[s][f] EXCEPT !.status = "released", !.lapsed = FALSE,
                                      !.reason = "RESPONSE_RECEIVED_PENDING_SETTLEMENT"]
  <2>1. \/ lease' = lease
        \/ lease' = [lease EXCEPT ![s][f] = l] /\ lease[s][f].status = "active"
    BY <1>9 DEF PersistResponse
  <2>2. fence' = fence
    BY <1>9 DEF PersistResponse
  <2> HIDE DEF f, l
  <2>3. CASE lease' = lease
    BY <2>2, <2>3 DEF NoNewLease
  <2>4. CASE lease' = [lease EXCEPT ![s][f] = l] /\ lease[s][f].status = "active"
    BY <2>2, <2>4, OneLeaseChanged
  <2> QED
    BY <2>1, <2>3, <2>4
<1>10. ASSUME NEW s \in Shards, NEW n \in CallNos, SettleLate(s, n) PROVE NoNewLease
  BY <1>10, CloseMakesNone DEF SettleLate
<1>11. ASSUME NEW s \in Shards, NEW n \in CallNos, SettleSuccess(s, n) PROVE NoNewLease
  BY <1>11, CloseMakesNone DEF SettleSuccess
<1>12. ASSUME NEW s \in Shards, NEW n \in CallNos, SettleFailure(s, n) PROVE NoNewLease
  BY <1>12, CloseMakesNone DEF SettleFailure
<1>13. ASSUME UNCHANGED <<lease, fence>> PROVE NoNewLease
  BY <1>13 DEF NoNewLease
<1> QED
  BY <1>1, <1>2, <1>3, <1>4, <1>5, <1>6, <1>7, <1>8, <1>9, <1>10, <1>11, <1>12, <1>13
     DEF Next, CreateRun, Resume, RetryDue, WindowOpens, Prepare, CallLost

\* Every step of the kernel keeps the active lease of every run the only
\* one: claimNext by its guard, the others because they make none active.
LEMMA LeaseExclusiveStep ==
  ASSUME TypeOK, LeaseExclusive, Next
  PROVE  LeaseExclusive'
BY OnlyClaimsMakeLeases, ClaimKeepsExclusive, NoNewLeaseKeepsExclusive

-----------------------------------------------------------------------------
(* The theorems.  Each invariant is kept because the types and the limits  *)
(* are, so the three are carried through the induction together.           *)

KernelInv == TypeOK /\ WithinLimits /\ LeaseExclusive

\* A freshly created database satisfies all three.
LEMMA InitInv == Init => KernelInv
<1> SUFFICES ASSUME Init PROVE KernelInv
  OBVIOUS
<1>1. TypeOK
  <2>1. run \in [Runs -> RunRecord]
    BY DEF Init, RunRecord, RunStatus, ParentStatus
  <2>2. shard \in [Shards -> ShardStatus]
    BY DEF Init, ShardStatus
  <2>3. job \in [Shards -> JobRecord]
    BY DEF Init, QueuedJob, JobRecord, JobStatus, RetryTime, JobError
  <2>4. ckpt \in [Shards -> Checkpoint]
    BY DEF Init, NoCheckpoint, Checkpoint, RetryTime
  <2>5. fence \in [Shards -> 0..MaxFence]
    BY KernelConstants DEF Init
  <2>6. lease \in [Shards -> [Fences -> Lease]]
    BY DEF Init, NoLease, Lease, AttemptStatus, LeaseReason
  <2>7. ledger \in [Shards -> [CallNos -> LedgerEntry]]
    <3>1. NoEntry \in LedgerEntry
      BY DEF NoEntry, LedgerEntry, Book!LedgerStatus, Book!DispatchStatus,
             Book!SettlementKind
    <3> QED
      BY <3>1 DEF Init
  <2> QED
    BY <2>1, <2>2, <2>3, <2>4, <2>5, <2>6, <2>7 DEF Init, TypeOK
<1>2. WithinLimits
  BY KernelConstants DEF Init, NoCheckpoint, WithinLimits
<1>3. LeaseExclusive
  BY DEF Init, NoLease, LeaseExclusive
<1> QED
  BY <1>1, <1>2, <1>3 DEF KernelInv

\* Every step of the kernel preserves the inductive invariant.
LEMMA StepInv == KernelInv /\ [Next]_vars => KernelInv'
<1> SUFFICES ASSUME KernelInv, [Next]_vars PROVE KernelInv'
  OBVIOUS
<1> USE DEF KernelInv
<1>1. CASE UNCHANGED vars
  BY <1>1 DEF vars, TypeOK, WithinLimits, LeaseExclusive
<1>2. CASE Next
  <2>1. TypeOK'
    BY <1>2, CreateRunType, RequestPauseType, ResumeType, RequestCancelType, StartType,
       RecoverExpiredType, ClaimNextType, LapseType, RetryDueType, WindowOpensType,
       PrepareType, DeferType, SendRequestType, DispatchFailsType, CallLostType,
       PersistResponseType, SettleLateType, SettleSuccessType, SettleFailureType
       DEF Next
  <2>2. WithinLimits'
    BY <1>2, LimitsStep
  <2>3. LeaseExclusive'
    BY <1>2, LeaseExclusiveStep
  <2> QED
    BY <2>1, <2>2, <2>3
<1> QED
  BY <1>1, <1>2

\* The inductive invariant of the kernel holds in every reachable state,
\* for every set of runs, shards, sources and answers and every limit.
THEOREM Invariance == Spec => []KernelInv
BY InitInv, StepInv, PTL DEF Spec

\* Every variable keeps its type, and an answer that waits to be settled is
\* there to be settled, in every behaviour of the kernel.
THEOREM TypeCorrect == Spec => []TypeOK
BY Invariance, PTL DEF KernelInv

\* No checkpoint ever makes more calls than CallLimit, and no source ever
\* brings more results than ResultLimit, for any provider, any number of
\* retries, crashes and interventions of operators.
THEOREM LimitsKept == Spec => []WithinLimits
BY Invariance, PTL DEF KernelInv

\* A run never has two active leases, on one source or on two, whatever
\* kernels start, die, claim and recover concurrently.
THEOREM OneLeasePerRun == Spec => []LeaseExclusive
BY Invariance, PTL DEF KernelInv
=============================================================================
