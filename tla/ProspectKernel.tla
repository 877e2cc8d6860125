--------------------------- MODULE ProspectKernel ---------------------------
(***************************************************************************)
(* The prospect execution kernel (prospect-execution-kernel.ts): the state *)
(* machine that executes prospect search runs, one provider page at a      *)
(* time, through leased jobs and a provider request ledger.                *)
(*                                                                         *)
(* Every public method of the kernel runs as one database transaction      *)
(* (persistMutation; in MySQL under a named lock, with the cache reloaded  *)
(* first), so every method is one action, whichever process calls it: any  *)
(* number of workers, old and new kernels and operators interleave here.   *)
(* A method that throws rolls back, so a check of the code that throws is  *)
(* a guard of the action.                                                  *)
(*                                                                         *)
(* Between its two transactions "the request has left" and "the answer is  *)
(* stored" a worker awaits the provider outside any lock: the calls in     *)
(* that window are the variable calls, the only volatile state.            *)
(***************************************************************************)
EXTENDS Naturals, FiniteSets

CONSTANTS
  Runs,            \* prospectSearchRuns
  Shards,          \* prospectRunShards of all runs, one child job each
  RunOf,           \* [Shards -> Runs]
  Rank,            \* [Shards -> Nat], claim order: run.createdAt, then position
  Providers,       \* throttle buckets: team, provider, connection
  ProviderOf,      \* [Shards -> Providers]
  Scopes,          \* identities of strategy source positions
  ScopeOf,         \* [Shards -> Scopes]
  Responses,       \* the provider's answers the model distinguishes
  NoResponse,      \* model value: no answer stored yet
  CallLimit,       \* calls a checkpoint may make (3 in the code)
  MaxAttempts,     \* maxAttempts of a child job (3 in the code)
  PageLimit,       \* shard.pageLimit
  ResultLimit,     \* shard.resultLimit
  Throttled,       \* BOOLEAN: throttleIntervalMs > 0
  MaxFence,        \* bound: leases per job
  MaxKernelEpoch,  \* bound: kernel starts
  MaxRunEpoch      \* bound: run epochs reached by resuming

Response == [ok: BOOLEAN, accepted: Nat, more: BOOLEAN, partial: BOOLEAN,
             retryable: BOOLEAN]

ASSUME KernelConstants ==
  /\ RunOf \in [Shards -> Runs]
  /\ \A r \in Runs : \E s \in Shards : RunOf[s] = r
  /\ Rank \in [Shards -> Nat]
  /\ \A s, t \in Shards : Rank[s] = Rank[t] => s = t
  /\ ProviderOf \in [Shards -> Providers]
  /\ ScopeOf \in [Shards -> Scopes]
  /\ \A s, t \in Shards : RunOf[s] = RunOf[t] /\ ScopeOf[s] = ScopeOf[t] => s = t
  /\ Responses \subseteq Response
  /\ NoResponse \notin Responses
  /\ CallLimit \in Nat \ {0}
  /\ MaxAttempts \in Nat \ {0}
  /\ PageLimit \in Nat \ {0}
  /\ ResultLimit \in Nat \ {0}
  /\ Throttled \in BOOLEAN
  /\ MaxFence \in Nat
  /\ MaxKernelEpoch \in Nat
  /\ MaxRunEpoch \in Nat

Fences   == 1..MaxFence
MaxCalls == CallLimit * PageLimit
CallNos  == 1..MaxCalls
ShardsOf(r) == {s \in Shards : RunOf[s] = r}

-----------------------------------------------------------------------------
VARIABLES
  run,          \* status, executionEpoch and parent job status of every run
  shard,        \* status of every shard
  job,          \* the child job of every shard
  ckpt,         \* the execution checkpoint of every shard
  lease,        \* every lease of a shard's job, with its attempt, by fence
  fence,        \* highest fence token issued for a shard's job
  ledger,       \* the request ledger of a shard, by logicalRequestNo
  calls,        \* requests whose provider call a live process awaits
  window,       \* throttle bucket: may the provider be called now?
  position,     \* strategy source positions
  kernelEpoch   \* highest kernel epoch persisted

vars == <<run, shard, job, ckpt, lease, fence, ledger, calls, window,
          position, kernelEpoch>>

RunStatus == {"none", "queued", "running", "pause_requested", "paused",
              "cancel_requested", "cancelled", "succeeded",
              "succeeded_empty", "partial_success", "failed"}
ShardStatus == {"queued", "running", "retry_scheduled", "pause_requested",
                "paused", "cancel_requested", "cancelled", "succeeded",
                "succeeded_empty", "partial_success", "failed"}
JobStatus == {"queued", "running", "retry_scheduled", "succeeded", "failed",
              "dead_letter", "cancelled"}
ParentStatus == {"queued", "succeeded", "failed", "cancelled"}
AttemptStatus == {"none", "claimed", "request_started", "succeeded", "failed",
                  "request_outcome_unknown", "cancelled_late"}
LeaseReason == {"none", "RESPONSE_RECEIVED_PENDING_SETTLEMENT",
                "REQUEST_OUTCOME_UNKNOWN", "CANCELLED_REQUEST_OUTCOME_UNKNOWN",
                "CANCELLED_BEFORE_REQUEST", "LEASE_RECOVERED_BEFORE_REQUEST",
                "PAUSED_BEFORE_REQUEST", "PROVIDER_THROTTLE_DEFERRED"}
\* A retry time: absent, still in the future, or reached.
RetryTime == {"none", "later", "due"}
\* job.errorCode, as far as anything depends on it.
JobError == {"none", "provider", "throttled", "unknown", "cancelled"}

\* isActiveProspectRun
Active == {"queued", "running", "pause_requested", "paused",
           "cancel_requested"}
Done   == {"cancelled", "succeeded", "succeeded_empty", "partial_success",
           "failed"}

\* ProspectExecutionLease together with the one attempt claimed with it;
\* lapsed says of an active lease that expiresAt or deadlineAt has passed.
\* (Its kernelEpoch is only ever compared with that of the kernel that
\* claimed it, and with the epoch of a kernel that has just started.)
NoLease == [status |-> "none", attempt |-> "none", started |-> FALSE,
            runEpoch |-> 0, reason |-> "none", lapsed |-> FALSE]

\* ProspectProviderRequestLedger with its dispatch and settlement facts.
\* prep is leaseIdAtPrepare, bound the attempt of the last binding, by the
\* attempt of the dispatch, no and call the checkpointNo and
\* checkpointCallNo; evidence and pages count the accounting evidence rows
\* and result pages written for the request; resp is the stored answer, for
\* as long as anything depends on it: until it is settled.
NoEntry == [status |-> "none", prep |-> 0, bound |-> 0, by |-> 0, no |-> 0,
            call |-> 0, dispatch |-> "none", resp |-> NoResponse,
            kind |-> "none", evidence |-> 0, pages |-> 0]

NoCheckpoint == [exists |-> FALSE, no |-> 0, calls |-> 0, total |-> 0,
                 accepted |-> 0, pages |-> 0, partial |-> FALSE,
                 retry |-> "none", sealed |-> 0, done |-> FALSE]

QueuedJob == [status |-> "queued", next |-> "none", err |-> "none",
              started |-> FALSE, finished |-> FALSE]

\* The ledger as its promise sees it.
Book == INSTANCE ProspectLedger WITH
          book <- [q \in Shards \X CallNos |->
                     LET e == ledger[q[1]][q[2]] IN
                     [status |-> e.status, dispatch |-> e.dispatch,
                      kind |-> e.kind, evidence |-> e.evidence,
                      pages |-> e.pages]]

RunRecord == [status: RunStatus, epoch: Nat, parent: ParentStatus]
JobRecord == [status: JobStatus, next: RetryTime, err: JobError,
              started: BOOLEAN, finished: BOOLEAN]
Checkpoint == [exists: BOOLEAN, no: Nat, calls: Nat, total: Nat, accepted: Nat,
               pages: Nat, partial: BOOLEAN, retry: RetryTime, sealed: Nat,
               done: BOOLEAN]
Lease == [status: {"none", "active", "released", "expired"},
          attempt: AttemptStatus, started: BOOLEAN, runEpoch: Nat,
          reason: LeaseReason, lapsed: BOOLEAN]
LedgerEntry ==
  {e \in [status: Book!LedgerStatus, prep: Nat, bound: Nat, by: Nat, no: Nat,
          call: Nat, dispatch: Book!DispatchStatus,
          resp: Responses \cup {NoResponse}, kind: Book!SettlementKind,
          evidence: Nat, pages: Nat] :
     e.status = "response_received" => e.resp # NoResponse}

TypeOK ==
  /\ run \in [Runs -> RunRecord]
  /\ shard \in [Shards -> ShardStatus]
  /\ job \in [Shards -> JobRecord]
  /\ ckpt \in [Shards -> Checkpoint]
  /\ fence \in [Shards -> 0..MaxFence]
  /\ lease \in [Shards -> [Fences -> Lease]]
  /\ ledger \in [Shards -> [CallNos -> LedgerEntry]]
  /\ calls \subseteq Shards \X Nat
  /\ window \in [Providers -> {"open", "closed"}]
  /\ position \in [Scopes -> {"none", "continuable", "exhausted"}]
  /\ kernelEpoch \in Nat

-----------------------------------------------------------------------------
(* Leases.                                                                 *)

Current(s) == lease[s][fence[s]]
Held(s)    == fence[s] # 0 /\ Current(s).status = "active"
HeldIn(r)  == {s \in ShardsOf(r) : Held(s)}

\* activeLease: neither expired, nor past its deadline, nor fenced off by a
\* newer epoch of the run.  (The caller is the kernel that claimed it.)
Usable(s) == /\ Held(s)
             /\ ~Current(s).lapsed
             /\ Current(s).runEpoch = run[RunOf[s]].epoch

\* The lease stays behind as a fact, with the reason it ended.
EndLease(s, st, at, why) ==
  [lease EXCEPT ![s][fence[s]] = [@ EXCEPT !.status = st, !.attempt = at,
                                           !.reason = why, !.lapsed = FALSE]]

NoneHeld(r, ls) ==
  \A s \in ShardsOf(r), f \in Fences : ls[s][f].status # "active"

\* Answers stored and not yet settled.
Pending(r) == {q \in ShardsOf(r) \X CallNos :
                 ledger[q[1]][q[2]].status = "response_received"}

-----------------------------------------------------------------------------
(* Finishing a run, and coming to rest after a pause.                      *)

\* Mutant of FinalStatus: failed shards beside others are overlooked.
FinalStatusUnfailed(r, sh, ck) ==
  LET st == {sh[s] : s \in ShardsOf(r)} IN
  IF run[r].status = "cancel_requested" \/ st = {"cancelled"} THEN "cancelled"
  ELSE IF st = {"failed"} THEN "failed"
  ELSE IF "partial_success" \in st THEN "partial_success"
  ELSE IF \E s \in ShardsOf(r) : ck[s].accepted > 0 THEN "succeeded"
  ELSE "succeeded_empty"

\* The status finishRunIfTerminal gives a run whose shards are all done.
FinalStatus(r, sh, ck) ==
  LET st == {sh[s] : s \in ShardsOf(r)} IN
  IF run[r].status = "cancel_requested" \/ st = {"cancelled"} THEN "cancelled"
  ELSE IF st = {"failed"} THEN "failed"
  ELSE IF st \cap {"failed", "partial_success"} # {} THEN "partial_success"
  ELSE IF "cancelled" \notin st /\ \E s \in ShardsOf(r) : ck[s].accepted > 0
       THEN "succeeded"
  ELSE "succeeded_empty"

\* expectedParentJobStatus, and what finishRunIfTerminal writes.
ParentOf(status) ==
  IF status \in {"cancelled", "failed"} THEN status
  ELSE IF status \in Done THEN "succeeded" ELSE "queued"

\* Mutant of AllDone: cancelled shards are not counted as done.
AllDoneButCancelled(r, sh) == \A s \in ShardsOf(r) : sh[s] \in Done \ {"cancelled"}

AllDone(r, sh) == \A s \in ShardsOf(r) : sh[s] \in Done

\* finishRunIfTerminal, on the run and on its shards, once a step has given
\* the shards the statuses sh and the checkpoints the contents ck.
FinishRun(r, sh, ck) ==
  IF AllDone(r, sh)
  THEN LET st == FinalStatus(r, sh, ck)
       IN  [run[r] EXCEPT !.status = st, !.parent = ParentOf(st)]
  ELSE run[r]

FinishShards(R, sh) ==
  [s \in Shards |->
     IF /\ RunOf[s] \in R
        /\ run[RunOf[s]].status = "cancel_requested"
        /\ AllDone(RunOf[s], sh)
     THEN "cancelled" ELSE sh[s]]

\* Mutant of Rest: shards that have ended are in the way.
RestIfAllPaused(rec, r, sh, ls) ==
  IF /\ rec.status = "pause_requested"
     /\ NoneHeld(r, ls)
     /\ {sh[s] : s \in ShardsOf(r)} = {"paused"}
  THEN [rec EXCEPT !.status = "paused"]
  ELSE rec

\* settlePauseIfReady, on the run record rec of r.
Rest(rec, r, sh, ls) ==
  LET st == {sh[s] : s \in ShardsOf(r)} IN
  IF /\ rec.status = "pause_requested"
     /\ NoneHeld(r, ls)
     /\ "paused" \in st
     /\ st \subseteq {"paused"} \cup (Done \ {"cancelled"})
  THEN [rec EXCEPT !.status = "paused"]
  ELSE rec

CancelledJob(j) == [j EXCEPT !.status = "cancelled", !.next = "none",
                             !.err = "cancelled", !.finished = TRUE]

-----------------------------------------------------------------------------
(* The queue bridge: what validateProspectRunQueueBridge demands of a run  *)
(* and its jobs.  The control operations refuse a run that fails it, and   *)
(* roll back if they would leave one behind.                               *)

\* validateRunShardState
RunShardOK(r) ==
  LET st      == {shard[s] : s \in ShardsOf(r)}
      settled == {"succeeded", "succeeded_empty", "partial_success", "failed"}
  IN
  CASE run[r].status = "queued" ->
         /\ st \subseteq {"queued", "retry_scheduled"} \cup settled
         /\ st \cap {"queued", "retry_scheduled"} # {}
    [] run[r].status = "running" ->
         st \subseteq {"queued", "running", "retry_scheduled"} \cup settled
    [] run[r].status = "pause_requested" ->
         st \subseteq {"pause_requested", "paused"} \cup settled
    [] run[r].status = "paused" ->
         st \subseteq {"paused"} \cup settled /\ "paused" \in st
    [] run[r].status = "cancel_requested" ->
         st \subseteq {"cancel_requested", "cancelled"} \cup settled
    [] run[r].status \in {"cancelled", "succeeded_empty", "failed"} ->
         st = {run[r].status}
    [] run[r].status = "succeeded" ->
         st \subseteq {"succeeded", "succeeded_empty"} /\ "succeeded" \in st
    [] run[r].status = "partial_success" ->
         st \subseteq settled /\ st \cap {"partial_success", "failed"} # {}
    [] OTHER -> TRUE

\* validateJobBase, on the fields the kernel moves.
JobFieldsOK(j) ==
  CASE j.status = "queued" ->
         j.next = "none" /\ ~j.finished /\ j.err = "none"
    [] j.status = "running" ->
         j.started /\ j.next = "none" /\ ~j.finished /\ j.err = "none"
    [] j.status = "retry_scheduled" ->
         j.started /\ j.next # "none" /\ ~j.finished /\ j.err # "none"
    [] j.status = "succeeded" ->
         j.started /\ j.next = "none" /\ j.finished /\ j.err = "none"
    [] j.status \in {"failed", "dead_letter"} ->
         j.started /\ j.next = "none" /\ j.finished /\ j.err # "none"
    [] j.status = "cancelled" ->
         j.finished /\ j.err = "cancelled"

\* allowedChildJobStatuses
ChildStatuses(st) ==
  CASE st \in {"running", "pause_requested", "cancel_requested"} -> {"running"}
    [] st = "paused" -> {"queued", "retry_scheduled"}
    [] st \in {"succeeded", "succeeded_empty", "partial_success"} -> {"succeeded"}
    [] st = "failed" -> {"failed", "dead_letter"}
    [] st \in {"queued", "retry_scheduled", "cancelled"} -> {st}

BridgeOK(r) ==
  /\ RunShardOK(r)
  /\ run[r].parent = ParentOf(run[r].status)
  /\ \A s \in ShardsOf(r) : /\ JobFieldsOK(job[s])
                            /\ job[s].status \in ChildStatuses(shard[s])

-----------------------------------------------------------------------------
(* Operators: createProspectRun, requestPause, resume, requestCancel.      *)

Init ==
  /\ run = [r \in Runs |-> [status |-> "none", epoch |-> 0, parent |-> "queued"]]
  /\ shard = [s \in Shards |-> "queued"]
  /\ job = [s \in Shards |-> QueuedJob]
  /\ ckpt = [s \in Shards |-> NoCheckpoint]
  /\ lease = [s \in Shards |-> [f \in Fences |-> NoLease]]
  /\ fence = [s \in Shards |-> 0]
  /\ ledger = [s \in Shards |-> [n \in CallNos |-> NoEntry]]
  /\ calls = {}
  /\ window = [p \in Providers |-> "open"]
  /\ position = [c \in Scopes |-> "none"]
  /\ kernelEpoch = 0

\* createProspectRun: refused while a run over the same search scope is
\* active.  Runs are numbered in the order of their creation.
CreateRun(r) ==
  /\ run[r].status = "none"
  /\ \A q \in Runs :
       /\ (\E s \in ShardsOf(q), t \in ShardsOf(r) : ScopeOf[s] = ScopeOf[t])
            => run[q].status \notin Active
       /\ (\E s \in ShardsOf(q), t \in ShardsOf(r) : Rank[s] < Rank[t])
            => run[q].status # "none" \/ q = r
  /\ run' = [run EXCEPT ![r] = [status |-> "queued", epoch |-> 1,
                                parent |-> "queued"]]
  /\ UNCHANGED <<shard, job, ckpt, lease, fence, ledger, calls, window,
                 position, kernelEpoch>>

\* At most one lease or one unsettled answer may be open in the run; Busy is
\* the shard whose request is out or whose answer is unsettled.
OneInFlight(r) == Cardinality(HeldIn(r)) + Cardinality(Pending(r)) <= 1
Busy(r) == {s \in HeldIn(r) : Current(s).started} \cup {q[1] : q \in Pending(r)}

\* Mutant of GiveBack: the unused lease stays active.
GiveBackNothing(r, why) == lease

\* An operation that finds the run's lease unused gives it back.
GiveBack(r, why) ==
  [s \in Shards |->
     IF s \in HeldIn(r) \ Busy(r)
     THEN [lease[s] EXCEPT ![fence[s]] = [@ EXCEPT !.status = "released",
                                                   !.attempt = "failed",
                                                   !.reason = why,
                                                   !.lapsed = FALSE]]
     ELSE lease[s]]

RequestPause(r) ==
  /\ run[r].status \in {"queued", "running"}
  /\ BridgeOK(r)
  /\ OneInFlight(r)
  /\ \A s \in HeldIn(r) \ Busy(r) : Current(s).attempt = "claimed"
  /\ lease' = GiveBack(r, "PAUSED_BEFORE_REQUEST")
  /\ job' = [s \in Shards |-> IF s \in HeldIn(r) \ Busy(r) THEN QueuedJob
                                                         ELSE job[s]]
  /\ shard' = [s \in Shards |->
                 IF s \notin ShardsOf(r) \/ shard[s] \in Done THEN shard[s]
                 ELSE IF s \in Busy(r) THEN "pause_requested"
                 ELSE "paused"]
  /\ run' = [run EXCEPT ![r].status = IF Busy(r) = {} THEN "paused"
                                      ELSE "pause_requested"]
  /\ BridgeOK(r)'
  /\ UNCHANGED <<ckpt, fence, ledger, calls, window, position, kernelEpoch>>

\* A paused shard keeps its checkpoint, sealed anew for the next epoch, and
\* its retry time if that is still to come.
Resume(r) ==
  LET resumed == {s \in ShardsOf(r) : shard[s] = "paused"}
      waits(s) == ckpt[s].retry = "later"
  IN
  /\ run[r].status = "paused"
  /\ run[r].epoch < MaxRunEpoch
  /\ HeldIn(r) = {}
  /\ BridgeOK(r)
  /\ \A s \in resumed : ckpt[s].sealed \in {0, run[r].epoch}
  /\ run' = [run EXCEPT ![r].status = "queued", ![r].epoch = @ + 1]
  /\ ckpt' = [s \in Shards |->
       IF s \in resumed /\ ckpt[s].exists
       THEN [ckpt[s] EXCEPT
               !.sealed = IF @ = 0 THEN 0 ELSE run[r].epoch + 1,
               !.retry  = IF waits(s) THEN @ ELSE "none"]
       ELSE ckpt[s]]
  /\ shard' = [s \in Shards |->
       IF s \notin resumed THEN shard[s]
       ELSE IF waits(s) THEN "retry_scheduled" ELSE "queued"]
  /\ job' = [s \in Shards |->
       IF s \notin resumed THEN job[s]
       ELSE IF waits(s)
            THEN [job[s] EXCEPT !.status = "retry_scheduled", !.next = "later"]
            ELSE [job[s] EXCEPT !.status = "queued", !.next = "none"]]
  /\ BridgeOK(r)'
  /\ UNCHANGED <<lease, fence, ledger, calls, window, position, kernelEpoch>>

\* settlePreparedProviderRequestsBeforeDispatch
Withdrawn(s) ==
  [n \in CallNos |->
     IF ledger[s][n].status = "prepared"
     THEN [ledger[s][n] EXCEPT !.status = "settled",
                               !.kind = "cancelled_before_dispatch"]
     ELSE ledger[s][n]]

\* Cancelling closes every checkpoint at once and fences off the old epoch;
\* only a request that has already left keeps the run waiting.
RequestCancel(r) ==
  /\ run[r].status \in {"queued", "running", "pause_requested", "paused"}
  /\ BridgeOK(r)
  /\ OneInFlight(r)
  /\ \A s \in HeldIn(r) \ Busy(r) : Current(s).attempt = "claimed"
  /\ ledger' = [s \in Shards |-> IF s \in ShardsOf(r) /\ Busy(r) = {}
                                 THEN Withdrawn(s) ELSE ledger[s]]
  /\ lease' = GiveBack(r, "CANCELLED_BEFORE_REQUEST")
  /\ ckpt' = [s \in Shards |->
       IF s \in ShardsOf(r) /\ ckpt[s].exists /\ ~ckpt[s].done
       THEN [ckpt[s] EXCEPT !.sealed = 0, !.retry = "none", !.done = TRUE]
       ELSE ckpt[s]]
  /\ shard' = [s \in Shards |-> IF s \notin ShardsOf(r) THEN shard[s]
                                ELSE IF s \in Busy(r) THEN "cancel_requested"
                                ELSE "cancelled"]
  /\ job' = [s \in Shards |-> IF s \in ShardsOf(r) \ Busy(r)
                              THEN CancelledJob(job[s]) ELSE job[s]]
  /\ run' = [run EXCEPT ![r] =
       IF Busy(r) = {}
       THEN [status |-> "cancelled", epoch |-> run[r].epoch + 1,
             parent |-> "cancelled"]
       ELSE [run[r] EXCEPT !.status = "cancel_requested", !.epoch = @ + 1]]
  /\ BridgeOK(r)'
  /\ UNCHANGED <<fence, calls, window, position, kernelEpoch>>

-----------------------------------------------------------------------------
(* Kernels: start, recoverExpiredLeases, claimNext.                        *)

\* The cancellation fenced off exactly the epoch of the lease.
CancelCaught(s) ==
  /\ run[RunOf[s]].status = "cancel_requested"
  /\ run[RunOf[s]].epoch = Current(s).runEpoch + 1

\* Mutant of GivenUp: the ledger is not told.
GivenUpUntold(s) == ledger[s]

\* Mutant of GivenUp: the request is made ready to be sent once more.
GivenUpReopened(s) ==
  [n \in CallNos |->
     IF ledger[s][n].by = fence[s] /\ ledger[s][n].dispatch = "started"
     THEN [ledger[s][n] EXCEPT !.status = "prepared", !.dispatch = "none", !.by = 0]
     ELSE ledger[s][n]]

\* transitionProviderDispatchOutcomeUnknown
GivenUp(s) ==
  [n \in CallNos |->
     IF ledger[s][n].by = fence[s] /\ ledger[s][n].dispatch = "started"
     THEN [ledger[s][n] EXCEPT !.status = "outcome_unknown",
                               !.dispatch = "outcome_unknown"]
     ELSE ledger[s][n]]

\* Mutant of UnknownShard: the shard goes back to the queue.
UnknownShardQueued(s) == IF CancelCaught(s) THEN "cancelled" ELSE "queued"

\* Mutant of UnknownShard: the shard is not touched.
UnknownShardKept(s) == shard[s]

UnknownReason(s) == IF CancelCaught(s) THEN "CANCELLED_REQUEST_OUTCOME_UNKNOWN"
                    ELSE "REQUEST_OUTCOME_UNKNOWN"
UnknownShard(s)  == IF CancelCaught(s) THEN "cancelled"
                    ELSE IF ckpt[s].accepted > 0 THEN "partial_success"
                    ELSE "failed"
UnknownJob(s)    == IF CancelCaught(s) THEN CancelledJob(job[s])
                    ELSE [job[s] EXCEPT !.status = "failed", !.next = "none",
                                        !.err = "unknown", !.finished = TRUE]

\* Its answer is already stored.
Answered(s) == \E n \in CallNos : /\ ledger[s][n].by = fence[s]
                                  /\ ledger[s][n].dispatch = "response_received"

\* Mutant of RecoveredLease: the time of the request is lost.
RecoveredAfresh(s) ==
  [NoLease EXCEPT !.status = "expired", !.runEpoch = Current(s).runEpoch,
     !.attempt = IF Current(s).started THEN "request_outcome_unknown" ELSE "failed",
     !.reason = IF Current(s).started THEN UnknownReason(s)
                ELSE "LEASE_RECOVERED_BEFORE_REQUEST"]

RecoveredLease(s) ==
  LET lost == Current(s).started IN
  IF lost /\ Answered(s)
  THEN [Current(s) EXCEPT !.status = "expired", !.lapsed = FALSE,
                          !.reason = "RESPONSE_RECEIVED_PENDING_SETTLEMENT"]
  ELSE [Current(s) EXCEPT
          !.status  = "expired", !.lapsed = FALSE,
          !.attempt = IF lost THEN "request_outcome_unknown" ELSE "failed",
          !.reason  = IF lost THEN UnknownReason(s)
                      ELSE IF CancelCaught(s) THEN "CANCELLED_BEFORE_REQUEST"
                      ELSE "LEASE_RECOVERED_BEFORE_REQUEST"]

\* recoverLeasesInMutation, on the leases of the shards in Gone: a request
\* that never left goes back to the queue, one that left is given up.
RecoverLeases(Gone) ==
  LET lost     == {s \in Gone : Current(s).started /\ ~Answered(s)}
      unused   == {s \in Gone : ~Current(s).started}
      caught   == {s \in unused : CancelCaught(s)}
      finished == {RunOf[s] : s \in lost \cup caught}
      resting  == {RunOf[s] : s \in {t \in lost \cup unused : ~CancelCaught(t)}}
      sh == [s \in Shards |->
               IF s \in lost THEN UnknownShard(s)
               ELSE IF s \in caught THEN "cancelled"
               ELSE IF s \notin unused THEN shard[s]
               ELSE IF run[RunOf[s]].status = "pause_requested" THEN "paused"
               ELSE "queued"]
  IN
  /\ lease' = [s \in Shards |-> IF s \in Gone
                                THEN [lease[s] EXCEPT ![fence[s]] = RecoveredLease(s)]
                                ELSE lease[s]]
  /\ ledger' = [s \in Shards |-> IF s \in lost THEN GivenUp(s) ELSE ledger[s]]
  /\ job' = [s \in Shards |->
       IF s \in lost THEN UnknownJob(s)
       ELSE IF s \in caught THEN CancelledJob(job[s])
       ELSE IF s \in unused THEN QueuedJob
       ELSE job[s]]
  /\ shard' = FinishShards(finished, sh)
  /\ run' = [r \in Runs |->
       LET rec == IF r \in finished THEN FinishRun(r, sh, ckpt) ELSE run[r]
       IN  IF r \in resting THEN Rest(rec, r, sh, lease') ELSE rec]

\* A kernel starts: it takes the next epoch and recovers every lease an
\* older kernel has left active.
Start ==
  /\ kernelEpoch < MaxKernelEpoch
  /\ kernelEpoch' = kernelEpoch + 1
  /\ RecoverLeases({s \in Shards : Held(s)})
  /\ UNCHANGED <<ckpt, fence, calls, window, position>>

RecoverExpired ==
  LET Gone == {s \in Shards : Held(s) /\ Current(s).lapsed} IN
  /\ kernelEpoch > 0
  /\ Gone # {}
  /\ RecoverLeases(Gone)
  /\ UNCHANGED <<ckpt, fence, calls, window, position, kernelEpoch>>

\* Mutant of Claimable: only the lease of the shard itself is looked for.
ClaimableBesideLease(s) ==
  /\ run[RunOf[s]].status \in {"queued", "running"}
  /\ shard[s] \in {"queued", "retry_scheduled"}
  /\ job[s].next # "later"
  /\ ~Held(s)

\* Mutant of Claimable: a retry that has come due is not taken.
ClaimableUnscheduled(s) ==
  /\ run[RunOf[s]].status \in {"queued", "running"}
  /\ shard[s] \in {"queued", "retry_scheduled"}
  /\ job[s].next = "none"
  /\ HeldIn(RunOf[s]) = {}

Claimable(s) ==
  /\ run[RunOf[s]].status \in {"queued", "running"}
  /\ shard[s] \in {"queued", "retry_scheduled"}
  /\ job[s].status \in {"queued", "retry_scheduled"}
  /\ job[s].next # "later"
  /\ HeldIn(RunOf[s]) = {}

\* Mutant of Exhausted: the source position is not looked at.
NeverExhausted(s) == FALSE

\* A source that the strategy has already read to its end is not asked again.
Exhausted(s) == ~ckpt[s].exists /\ position[ScopeOf[s]] = "exhausted"

\* The candidates are taken in rank order: the exhausted ones before the
\* first other one are closed as empty, and that one is claimed.
Skipped == {s \in Shards : /\ Claimable(s) /\ Exhausted(s)
                           /\ \A t \in Shards : Claimable(t) /\ Rank[t] < Rank[s]
                                                  => Exhausted(t)}
Chosen == {s \in Shards : /\ Claimable(s) /\ ~Exhausted(s)
                          /\ \A t \in Shards : Claimable(t) /\ Rank[t] < Rank[s]
                                                 => Exhausted(t)}

\* createCheckpoint: a continuable source is taken up at its stored cursor.
NewCheckpoint(s) ==
  [NoCheckpoint EXCEPT
     !.exists = TRUE, !.no = 1, !.done = (position[ScopeOf[s]] = "exhausted"),
     !.sealed = IF position[ScopeOf[s]] = "continuable" THEN run[RunOf[s]].epoch
                ELSE 0]

\* The lease of a claim, and its attempt.
NewLease(s) == [NoLease EXCEPT !.status = "active", !.attempt = "claimed",
                               !.runEpoch = run[RunOf[s]].epoch]

\* Any kernel claims, an old one too.  The bridge of a run is validated before
\* and after each of its candidates is handled; the validations in between
\* hold if the first and the last do.
ClaimNext ==
  LET touched == {RunOf[s] : s \in Skipped \cup Chosen}
      sh == [s \in Shards |-> IF s \in Skipped THEN "succeeded_empty"
                              ELSE IF s \in Chosen THEN "running" ELSE shard[s]]
  IN
  /\ kernelEpoch > 0
  /\ Skipped \cup Chosen # {}
  /\ \A s \in Chosen : fence[s] < MaxFence
  /\ \A r \in touched : BridgeOK(r)
  /\ ckpt' = [s \in Shards |->
       IF s \in Skipped \cup Chosen /\ ~ckpt[s].exists THEN NewCheckpoint(s)
       ELSE ckpt[s]]
  /\ shard' = sh
  /\ job' = [s \in Shards |->
       IF s \in Skipped
       THEN [QueuedJob EXCEPT !.status = "succeeded", !.started = TRUE,
                              !.finished = TRUE]
       ELSE IF s \in Chosen
       THEN [QueuedJob EXCEPT !.status = "running", !.started = TRUE]
       ELSE job[s]]
  /\ fence' = [s \in Shards |-> IF s \in Chosen THEN fence[s] + 1 ELSE fence[s]]
  /\ lease' = [s \in Shards |->
       IF s \in Chosen THEN [lease[s] EXCEPT ![fence[s] + 1] = NewLease(s)]
       ELSE lease[s]]
  /\ run' = [r \in Runs |->
       IF \E s \in Chosen : RunOf[s] = r THEN [run[r] EXCEPT !.status = "running"]
       ELSE IF r \in touched THEN FinishRun(r, sh, ckpt')
       ELSE run[r]]
  /\ \A r \in touched : BridgeOK(r)'
  /\ UNCHANGED <<ledger, calls, window, position, kernelEpoch>>

\* The lease, or its deadline, runs out: no heartbeat came in time, or the
\* deadline has come, which no heartbeat moves.
Lapse(s) ==
  /\ Held(s) /\ ~Current(s).lapsed
  /\ lease' = [lease EXCEPT ![s][fence[s]].lapsed = TRUE]
  /\ UNCHANGED <<run, shard, job, ckpt, fence, ledger, calls, window, position,
                 kernelEpoch>>

RetryFalls(S) ==
  /\ ckpt' = [t \in Shards |-> IF t \in S /\ ckpt[t].retry = "later"
                               THEN [ckpt[t] EXCEPT !.retry = "due"] ELSE ckpt[t]]
  /\ job' = [t \in Shards |-> IF t \in S /\ job[t].next = "later"
                              THEN [job[t] EXCEPT !.next = "due"] ELSE job[t]]

\* The back-off of a failed call is over.
RetryDue(s) ==
  /\ ckpt[s].retry = "later" /\ job[s].err # "throttled"
  /\ RetryFalls({s})
  /\ UNCHANGED <<run, shard, lease, fence, ledger, calls, window, position,
                 kernelEpoch>>

\* A throttle window opens, and with it the retry time of every shard that
\* was put off until then.
WindowOpens(p) ==
  /\ window[p] = "closed"
  /\ window' = [window EXCEPT ![p] = "open"]
  /\ RetryFalls({s \in Shards : ProviderOf[s] = p /\ job[s].err = "throttled"})
  /\ UNCHANGED <<run, shard, lease, fence, ledger, calls, position, kernelEpoch>>

-----------------------------------------------------------------------------
(* Requests: prepareProviderRequest, startPreparedProviderDispatch, the    *)
(* provider call, persistPreparedProviderResponse.                         *)

NextCall(s) == ckpt[s].total + 1

\* What preparing and dispatching check first.
MayRequest(s) ==
  /\ Usable(s)
  /\ run[RunOf[s]].status # "pause_requested"
  /\ shard[s] # "pause_requested"
  /\ Current(s).attempt = "claimed" /\ ~Current(s).started
  /\ ckpt[s].calls < CallLimit
  /\ ckpt[s].sealed \in {0, run[RunOf[s]].epoch}

\* The entry of a request that is prepared for the first time.
NewEntry(s) ==
  [NoEntry EXCEPT !.status = "prepared", !.prep = fence[s], !.bound = fence[s],
                  !.no = ckpt[s].no, !.call = ckpt[s].calls + 1]

\* The entry of the next request is written, or the one an earlier claim has
\* left prepared is bound to this attempt too.
Prepare(s) ==
  LET e == ledger[s][NextCall(s)] IN
  /\ MayRequest(s)
  /\ e.bound # fence[s]
  /\ \/ /\ e.status = "none"
        /\ ledger' = [ledger EXCEPT ![s][NextCall(s)] = NewEntry(s)]
     \/ /\ e.status = "prepared"
        /\ e.no = ckpt[s].no /\ e.call = ckpt[s].calls + 1
        /\ ledger' = [ledger EXCEPT ![s][NextCall(s)].bound = fence[s]]
  /\ UNCHANGED <<run, shard, job, ckpt, lease, fence, calls, window, position,
                 kernelEpoch>>

MayDispatch(s) ==
  LET e == ledger[s][NextCall(s)] IN
  /\ MayRequest(s)
  /\ e.status = "prepared" /\ e.bound = fence[s] /\ e.dispatch = "none"
  /\ e.no = ckpt[s].no /\ e.call = ckpt[s].calls + 1

\* The provider's window is closed: the claim is put off.
Defer(s) ==
  /\ MayDispatch(s)
  /\ window[ProviderOf[s]] = "closed"
  /\ lease' = EndLease(s, "released", "failed", "PROVIDER_THROTTLE_DEFERRED")
  /\ ckpt' = [ckpt EXCEPT ![s].retry = "later"]
  /\ job' = [job EXCEPT ![s] = [@ EXCEPT !.status = "retry_scheduled",
                                         !.next = "later", !.err = "throttled"]]
  /\ shard' = [shard EXCEPT ![s] = "retry_scheduled"]
  /\ UNCHANGED <<run, fence, ledger, calls, window, position, kernelEpoch>>

\* The dispatch is recorded, and then the request leaves the process.
SendRequest(s) ==
  /\ MayDispatch(s)
  /\ window[ProviderOf[s]] = "open"
  /\ window' = [window EXCEPT ![ProviderOf[s]] = IF Throttled THEN "closed" ELSE @]
  /\ ckpt' = [ckpt EXCEPT ![s] = [ckpt[s] EXCEPT !.calls = @ + 1, !.total = @ + 1,
                                                 !.retry = "none"]]
  /\ lease' = [lease EXCEPT ![s][fence[s]] =
                 [@ EXCEPT !.attempt = "request_started", !.started = TRUE]]
  /\ ledger' = [ledger EXCEPT ![s][NextCall(s)] =
                  [@ EXCEPT !.status = "dispatch_started", !.by = fence[s],
                            !.dispatch = "started"]]
  /\ calls' = calls \cup {<<s, NextCall(s)>>}
  /\ UNCHANGED <<run, shard, job, fence, position, kernelEpoch>>

\* terminateProviderRequestAsOutcomeUnknown: the call threw while the lease
\* was still active.
DispatchFails(s) ==
  LET sh == [shard EXCEPT ![s] = UnknownShard(s)]
      r  == RunOf[s]
  IN
  /\ Held(s) /\ Current(s).started /\ Current(s).attempt = "request_started"
  /\ \E n \in CallNos : /\ <<s, n>> \in calls /\ calls' = calls \ {<<s, n>>}
                        /\ ledger[s][n].by = fence[s]
                        /\ ledger[s][n].dispatch = "started"
  /\ ledger' = [ledger EXCEPT ![s] = GivenUp(s)]
  /\ lease' = EndLease(s, "released", "request_outcome_unknown", UnknownReason(s))
  /\ job' = [job EXCEPT ![s] = UnknownJob(s)]
  /\ shard' = FinishShards({r}, sh)
  /\ run' = [run EXCEPT ![r] = Rest(FinishRun(r, sh, ckpt), r, sh, lease')]
  /\ UNCHANGED <<ckpt, fence, window, position, kernelEpoch>>

\* Nothing is written any more for a call: its process crashed, it threw
\* after its lease was recovered, or its answer was refused.
CallLost(q) ==
  /\ calls' = calls \ {q}
  /\ UNCHANGED <<run, shard, job, ckpt, lease, fence, ledger, window, position,
                 kernelEpoch>>

\* The attempt and lease an answer is checked against.
AnswerLease(s, n) == lease[s][ledger[s][n].by]

MayPersist(s, n) ==
  LET e == ledger[s][n]
      l == AnswerLease(s, n)
  IN
  /\ e.prep = e.by
  /\ \/ /\ l.status = "active" /\ l.attempt = "request_started"
        /\ e.status = "dispatch_started" /\ e.dispatch = "started"
     \/ /\ l.status \in {"released", "expired"}
        /\ l.attempt = "request_outcome_unknown"
        /\ e.status = "outcome_unknown" /\ e.dispatch = "outcome_unknown"
        /\ l.reason \in {"REQUEST_OUTCOME_UNKNOWN",
                         "CANCELLED_REQUEST_OUTCOME_UNKNOWN"}
  /\ l.started

\* The provider answers, and the answer is stored, before or after the
\* request was given up; an active lease is released with it.
PersistResponse(s, n, resp) ==
  LET f == ledger[s][n].by IN
  /\ <<s, n>> \in calls
  /\ MayPersist(s, n)
  /\ calls' = calls \ {<<s, n>>}
  /\ ledger' = [ledger EXCEPT ![s][n] =
                  [@ EXCEPT !.status = "response_received", !.resp = resp,
                            !.dispatch = "response_received"]]
  /\ lease' = IF lease[s][f].status = "active"
              THEN [lease EXCEPT ![s][f] =
                      [@ EXCEPT !.status = "released", !.lapsed = FALSE,
                                !.reason = "RESPONSE_RECEIVED_PENDING_SETTLEMENT"]]
              ELSE lease
  /\ UNCHANGED <<run, shard, job, ckpt, fence, window, position, kernelEpoch>>

-----------------------------------------------------------------------------
(* Settlement: settlePersistedProviderResponse.                            *)

\* What every settlement demands of the stored answer and its lease.
Settleable(s, n) ==
  LET e == ledger[s][n] IN
  /\ e.status = "response_received" /\ e.dispatch = "response_received"
  /\ e.prep = e.by
  /\ AnswerLease(s, n).status \in {"released", "expired"}
  /\ AnswerLease(s, n).reason \in {"RESPONSE_RECEIVED_PENDING_SETTLEMENT",
                                   "REQUEST_OUTCOME_UNKNOWN",
                                   "CANCELLED_REQUEST_OUTCOME_UNKNOWN"}
  /\ e.evidence = 0 /\ e.pages = 0
  /\ AnswerLease(s, n).attempt \in {"request_started", "request_outcome_unknown"}

\* Mutant of Late: a request that was given up is forgotten.
LateOfRunOnly(s, n) == run[RunOf[s]].status \in Done \cup {"cancel_requested"}

\* Too late: the request was given up, or its run has been cancelled or ended.
Late(s, n) ==
  \/ AnswerLease(s, n).attempt = "request_outcome_unknown"
  \/ run[RunOf[s]].status \in Done \cup {"cancel_requested"}

OnTime(s, n) == /\ ~Late(s, n)
                /\ run[RunOf[s]].status \in {"running", "pause_requested"}

\* Mutant of Close: the answer is taken out of an entry that is not closed.
CloseWithoutStatus(s, n, kind, at) ==
  /\ ledger' = [ledger EXCEPT ![s][n] =
       [@ EXCEPT !.kind = kind, !.evidence = 1, !.resp = NoResponse]]
  /\ lease' = [lease EXCEPT ![s][ledger[s][n].by].attempt = at]

\* The entry is closed, with a page if the answer brought one.
ClosedEntry(e, kind) ==
  [e EXCEPT !.status = IF kind = "cancelled_late" THEN kind ELSE "settled",
            !.kind = kind, !.resp = NoResponse,
            !.pages = IF kind = "success" THEN 1 ELSE 0]

\* The cost is booked and the entry closed; the attempt ends as at.
Close(s, n, kind, at) ==
  /\ ledger' = [ledger EXCEPT ![s][n] = [ClosedEntry(@, kind) EXCEPT !.evidence = 1]]
  /\ lease' = [lease EXCEPT ![s][ledger[s][n].by].attempt = at]

\* A late answer is kept for audit only.  It takes the last obstacle out of
\* the way of a cancellation, and moves nothing else.
SettleLate(s, n) ==
  LET r  == RunOf[s]
      sh == [shard EXCEPT ![s] = "cancelled"]
  IN
  /\ Settleable(s, n) /\ Late(s, n)
  /\ Close(s, n, "cancelled_late", "cancelled_late")
  /\ IF run[r].status = "cancel_requested"
     THEN /\ shard' = FinishShards({r}, sh)
          /\ job' = [job EXCEPT ![s] = CancelledJob(@)]
          /\ run' = [run EXCEPT ![r] = FinishRun(r, sh, ckpt)]
     ELSE UNCHANGED <<shard, job, run>>
  /\ UNCHANGED <<ckpt, fence, calls, window, position, kernelEpoch>>

\* finishShardAfterPersistedResponse, and the run after it.
FinishShard(s, status, err) ==
  LET r  == RunOf[s]
      sh == [shard EXCEPT ![s] = status]
  IN
  /\ job' = [job EXCEPT ![s] =
       [@ EXCEPT !.status = IF status # "failed" THEN "succeeded"
                            ELSE IF ckpt[s].total >= MaxAttempts THEN "dead_letter"
                            ELSE "failed",
                 !.next = "none", !.finished = TRUE, !.err = err]]
  /\ shard' = FinishShards({r}, sh)
  /\ run' = [run EXCEPT ![r] = Rest(FinishRun(r, sh, ckpt'), r, sh, lease')]

\* The shard goes on later: it waits as st, or paused if a pause is wanted.
KeepShard(s, st) ==
  LET r  == RunOf[s]
      sh == [shard EXCEPT ![s] = IF run[r].status = "pause_requested"
                                 THEN "paused" ELSE st]
  IN
  /\ shard' = sh
  /\ run' = [run EXCEPT ![r] = Rest(run[r], r, sh, lease')]

\* Mutant of Taken: every result the provider sends is taken.
TakenUncut(s, resp) == resp.accepted

\* The results of a page that are still wanted.
Taken(s, resp) == IF resp.accepted <= ResultLimit - ckpt[s].accepted
                  THEN resp.accepted ELSE ResultLimit - ckpt[s].accepted

\* A page moves the position of its source.
PositionAfter(s, resp) ==
  [position EXCEPT ![ScopeOf[s]] = IF resp.more THEN "continuable" ELSE "exhausted"]

\* A page is accepted, cut to the results that are still wanted.  The shard
\* is finished with the last page; otherwise the cursor of the next page is
\* sealed and the shard queued for it.
SettleSuccess(s, n) ==
  LET resp  == ledger[s][n].resp
      take  == Taken(s, resp)
      page  == [ckpt[s] EXCEPT !.pages = @ + 1, !.accepted = @ + take,
                               !.partial = @ \/ resp.partial \/ take # resp.accepted,
                               !.retry = "none"]
      limit == page.pages >= PageLimit \/ page.accepted >= ResultLimit
  IN
  /\ Settleable(s, n) /\ OnTime(s, n) /\ resp.ok
  /\ Close(s, n, "success", "succeeded")
  /\ IF limit \/ ~resp.more
     THEN /\ ckpt' = [ckpt EXCEPT ![s] = [page EXCEPT !.sealed = 0, !.done = TRUE]]
          /\ FinishShard(s, IF page.partial THEN "partial_success"
                            ELSE IF page.accepted > 0 THEN "succeeded"
                            ELSE "succeeded_empty", "none")
     ELSE /\ ckpt' = [ckpt EXCEPT ![s] =
                [page EXCEPT !.no = @ + 1, !.calls = 0,
                             !.sealed = run[RunOf[s]].epoch]]
          /\ job' = [job EXCEPT ![s] = [@ EXCEPT !.status = "queued",
                                                 !.next = "none"]]
          /\ KeepShard(s, "queued")
  /\ position' = PositionAfter(s, resp)
  /\ UNCHANGED <<fence, calls, window, kernelEpoch>>

\* A failed call is retried under the same checkpoint while the failure
\* allows it and the checkpoint has calls left; otherwise it ends the shard.
SettleFailure(s, n) ==
  LET resp == ledger[s][n].resp IN
  /\ Settleable(s, n) /\ OnTime(s, n) /\ ~resp.ok
  /\ Close(s, n, "failure", "failed")
  /\ IF resp.retryable /\ ckpt[s].calls < CallLimit
     THEN /\ ckpt' = [ckpt EXCEPT ![s].retry = "later"]
          /\ job' = [job EXCEPT ![s] =
               [@ EXCEPT !.status = "retry_scheduled", !.next = "later",
                         !.finished = FALSE, !.err = "provider"]]
          /\ KeepShard(s, "retry_scheduled")
     ELSE /\ ckpt' = [ckpt EXCEPT ![s] =
               [@ EXCEPT !.retry = "none", !.done = TRUE,
                         !.partial = ckpt[s].accepted > 0]]
          /\ FinishShard(s, IF ckpt[s].accepted > 0 THEN "partial_success"
                            ELSE "failed", "provider")
  /\ UNCHANGED <<fence, calls, window, position, kernelEpoch>>

-----------------------------------------------------------------------------
Next ==
  \/ \E r \in Runs : \/ CreateRun(r)
                     \/ RequestPause(r)
                     \/ Resume(r)
                     \/ RequestCancel(r)
  \/ Start
  \/ RecoverExpired
  \/ ClaimNext
  \/ \E p \in Providers : WindowOpens(p)
  \/ \E s \in Shards : \/ Lapse(s)
                       \/ RetryDue(s)
                       \/ Prepare(s)
                       \/ Defer(s)
                       \/ SendRequest(s)
                       \/ DispatchFails(s)
  \/ \E q \in calls : CallLost(q)
  \/ \E s \in Shards, n \in CallNos :
       \/ \E resp \in Responses : PersistResponse(s, n, resp)
       \/ SettleLate(s, n)
       \/ SettleSuccess(s, n)
       \/ SettleFailure(s, n)

Spec == Init /\ [][Next]_vars

-----------------------------------------------------------------------------
(* Safety.  The invariants a correct kernel keeps between any two          *)
(* transactions, whatever workers, crashes and operators do in between.    *)

Working == {"running", "pause_requested", "cancel_requested"}

\* One request at a time: a run never has two active leases, on one shard or
\* on two, and the active lease is always the one with the highest fence.
\* (claimNext looks for a lease of the run, pause, cancel, recovery and the
\* answer release it: none may leave a second one behind.)
LeaseExclusive ==
  \A s, t \in Shards, f, g \in Fences :
    /\ lease[s][f].status = "active" /\ lease[t][g].status = "active"
    /\ RunOf[s] = RunOf[t]
    => s = t /\ f = g /\ f = fence[s]

\* The limits a user has paid for are kept: a checkpoint makes no more calls
\* than it may, and a source brings no more results than were asked for,
\* whatever the provider sends and however often a request is tried again.
WithinLimits ==
  \A s \in Shards : ckpt[s].calls <= CallLimit /\ ckpt[s].accepted <= ResultLimit

\* No shard is stranded at work: it has an active lease, which recovery will
\* end if nothing else does, or a stored answer that a settlement accepts.
NoOrphan ==
  \A s \in Shards : shard[s] \in Working =>
    \/ Held(s)
    \/ \E n \in CallNos : Settleable(s, n) /\ (OnTime(s, n) \/ Late(s, n))

\* No shard waits in vain: whatever is queued, put off or paused has calls,
\* pages and results left, a cursor of the current epoch or none, and the
\* next entry of its ledger is free or still to be sent.
WaitingCanWork ==
  \A s \in Shards : shard[s] \in {"queued", "retry_scheduled", "paused"} =>
    /\ ckpt[s].calls < CallLimit /\ ~ckpt[s].done
    /\ ckpt[s].pages < PageLimit /\ ckpt[s].accepted < ResultLimit
    /\ ckpt[s].sealed \in {0, run[RunOf[s]].epoch}
    /\ NextCall(s) \in CallNos
    /\ ledger[s][NextCall(s)].status \in {"none", "prepared"}

\* Ledger and lease tell the same story: a request is out only under the
\* active lease that sent it; it is unknown only if its attempt is, and then
\* it is the last request of a shard that has ended; a stored answer can
\* always be settled.
LedgerFollowsLease ==
  \A s \in Shards, n \in CallNos :
    LET e == ledger[s][n] IN
    /\ e.status = "dispatch_started" =>
         /\ e.by = fence[s] /\ Held(s) /\ Current(s).attempt = "request_started"
         /\ n = ckpt[s].total
    /\ e.status = "outcome_unknown" =>
         /\ AnswerLease(s, n).attempt = "request_outcome_unknown"
         /\ e.by = fence[s] /\ n = ckpt[s].total /\ shard[s] \in Done
    /\ e.status = "response_received" => Settleable(s, n) /\ n = ckpt[s].total

\* The status of a run is always the one its shards allow, and its parent
\* job has the status of the run.
RunFollowsShards ==
  \A r \in Runs : run[r].status # "none" =>
    RunShardOK(r) /\ run[r].parent = ParentOf(run[r].status)

\* A run waits to be cancelled only while a request is out or an answer is
\* unsettled: with the last of them the cancellation is complete.
CancelHasCause ==
  \A r \in Runs : run[r].status = "cancel_requested" => Busy(r) # {}

\* Fencing: a page is accepted only from a request of the current epoch of a
\* run that is running or about to pause, never from one sent before a
\* cancellation or before a pause and resume.
PagesOfThisEpoch ==
  [][\A s \in Shards : ckpt'[s].pages # ckpt[s].pages =>
       /\ run[RunOf[s]].status \in {"running", "pause_requested"}
       /\ \E n \in CallNos :
            /\ ledger[s][n].status = "response_received"
            /\ AnswerLease(s, n).runEpoch = run[RunOf[s]].epoch]_vars

\* A pause that waits for answers comes to rest with the last of them, however
\* it ends: settled with a page, failed, given up by a worker or by recovery.
\* Only a late answer that is closed while the run still counts on it is left
\* out: its settlement, the last that could end the wait, does not look.
PauseComesToRest ==
  [][\A r \in Runs :
       run'[r].status = "pause_requested" /\ Busy(r)' = {} =>
         \/ run[r].status = "pause_requested" /\ Busy(r) = {}
         \/ \E s \in ShardsOf(r), n \in CallNos :
              /\ ledger[s][n].status = "response_received"
              /\ ledger'[s][n].status = "cancelled_late"]_vars

\* A source read to its end stays so, and nobody asks the provider for it
\* again, neither the run that has read it nor a later one.
ExhaustedIsFinal ==
  [][\A s \in Shards : position[ScopeOf[s]] = "exhausted" =>
       /\ position'[ScopeOf[s]] = "exhausted"
       /\ ckpt'[s].total = ckpt[s].total]_vars

\* The kernel keeps what the request ledger promises: every entry is sent at
\* most once, answered at most once, booked exactly once when it closes, and
\* opened only after the one before it is settled.
KeepsTheLedger == Book!Spec

-----------------------------------------------------------------------------
(* What the code's own checks and texts expect, and its runs do not keep.  *)

\* The bridge of every run is valid after every transaction: the tests
\* assert it after each step, the MySQL store before it commits one.
BridgeValid == \A r \in Runs : run[r].status # "none" => BridgeOK(r)

\* Who sends a request can store its answer: persisting demands that the
\* lease that sent the request is the one that prepared its entry.
SenderCanPersist ==
  \A s \in Shards, n \in CallNos :
    ledger[s][n].status = "dispatch_started" => ledger[s][n].prep = ledger[s][n].by
=============================================================================
