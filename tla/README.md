# Verification of the prospecting product

The repository is a CRM with an AI prospecting product. This directory holds
TLA+ models of the parts of it that are protocols:

* **search execution**: a worker process asks paid providers for pages of leads,
  through leased jobs and a ledger of requests, while users pause, resume and
  cancel runs and processes crash;
* **planning**: campaigns, strategies and schedules, and the scheduler that
  creates those runs;
* **market analyses**: paid queries that are shared, retried and cached;
* **conversions and the public pool**: prospects become leads and customers of
  the CRM, and sellers release and claim customers.

The modules are checked with TLC on small instances; their main invariants are
proved with TLAPS for all values of the constants. The four are connected where
the code connects them, through the rows of a store: planning creates the runs
that the execution moves, and the prospects that an execution finds are those
that conversions start from.

Source paths below are relative to `src/backend/src/` unless they say otherwise.

## 1. The system and what could go wrong in it

### 1.1 Execution kernel: `prospect-execution-kernel.ts`

*State.* Runs with a status and an `executionEpoch`; shards (one per source of
a run); one child job per shard and one parent job per run (the queue bridge);
execution checkpoints (page number, calls made, results accepted, sealed
cursor); leases with a fence token and one attempt each; the provider request
ledger with dispatches, stored answers, settlements, accounting evidence and
pages; throttle buckets; positions of strategy sources; the kernel epoch.

*Operations.* `start`, `recoverExpiredLeases`, `heartbeat`, `claimNext`,
`prepareProviderRequest`, `dispatchPreparedProviderRequest` (which records the
dispatch, awaits the provider outside every lock, and stores the answer or
gives the request up), `settlePersistedProviderResponse`; `requestPause`,
`resume`, `requestCancel`.

*Interaction.* Every method is one transaction of the store (`persistMutation`;
with MySQL under a named lock, with the state reloaded first). The worker calls
the methods in a loop; the run API writes the same rows from other requests;
several kernels (an old process and its successor) may live at once.

*What is hard.* A process may die between any two transactions, in particular
between "the request has left" and "the answer is stored". Answers come after
the lease has lapsed, after the request was given up, after a cancellation. A
pause or cancellation has to wait for what is in flight. Retries, pages and
calls are limited by counters that meet at their boundaries. One step writes
up to eight tables that are validated against each other later.

*Correct means.* One request at a time per run. A request is sent at most once
and its cost booked exactly once. Pages are accepted only in the epoch that
asked for them and never beyond the limits. A run's status follows its shards.
Nothing is stranded: whoever is at work can be recovered or settled, whoever
waits can be claimed and can do something with the claim.

### 1.2 Planning: `prospect-campaigns.ts`, `prospect-strategies.ts`, `prospect-schedules.ts`, `prospect-scheduler.ts`

*State.* A campaign with its status, owner and current version; strategies of a
version, each with what it searches for; runs created from them; schedules with
their next time, in memory and as rows; the poll of the scheduler.

*Operations.* Users draft, edit, approve and disable strategies, activate,
pause, close, transfer and version the campaign, create, pause, resume and
delete schedules and start runs. Every poll looks at the active schedules: for
one that is due it creates a run and, in a second transaction, moves it to its
next time; for another it may create a run that reviews known prospects.

*What is hard.* The two transactions of a poll, with users, time and crashes
between them; `updateSchedule` finds the schedule by its id alone. Refusals
that together protect a live run are spread over four files. A batch due for
review is named by regular runs, review runs and retries. A mutation that
throws after it has begun to change the memory is not undone.

*Correct means.* A live run keeps the campaign, version and strategy it was
created from. One live run per search scope. A schedule never runs more often
than its period says, and what is due is served. A batch is reviewed once.

### 1.3 Market analyses: `market-analysis-runs.ts`, `agent-jobs.ts`, `provider-runtime.ts`, `provider-response-cache.ts`

*State.* Jobs in memory and as rows, aliases that bind further idempotency keys
to a job, running analyses and fetches (in memory only), cached responses.

*Operations.* A request is answered by the job of its key, joins an analysis of
the same question, is told to wait, or makes a job. The job is started in one
transaction, the provider awaited (one fetch per question), and job,
observations and facts stored in a second one.

*What is hard.* Single flight goes by the question, jobs by the key. Any reload
of the store while the provider is awaited replaces the job objects. A failure
restores an earlier state. MySQL knows other transitions than the memory store.

*Correct means.* A key stands for one job; a question is asked once at a time;
what has ended changes only by a retry, which runs it again; results are stored
with their job; runs end.

### 1.4 Conversions and the public pool: `prospect-lead-conversion.ts`, `prospect-customer-conversion.ts`, `customer-public-pool.ts`

*State.* Prospects, acquisition events, leads with their source events and
customers, as rows; leads, sources and customers again in memory.

*Operations.* Convert a prospect to a lead and then to a customer, each created
or linked to an existing one; exclude, restore and link a prospect; release and
claim a customer; edit leads and customers of the CRM.

*What is hard.* Users change the memory and a queued persist replaces the rows
by it; conversions and changes of ownership write rows in the same queue and
the memory after their commit; dispositions of prospects go around the queue.
A commit's outcome may be unknown.

*Correct means.* A claimed customer stays with its claimant. Whoever has been
told that a lead became a customer finds both, everywhere. An excluded prospect
is not converted.

### 1.5 The parts around them

| Part | Source | State and operations | Correct means |
|---|---|---|---|
| Request ledger | `prospect-provider-request-ledger.ts` | status and dispatch vocabularies, their transition tables | at most once sent, answered, booked |
| Queue bridge | `prospect-run-queue-bridge.ts` | the joint validity of run, shards and jobs | valid after every transaction |
| Source positions | `prospect-strategy-source-position.ts` | where a strategy has stopped reading a source | never paid for twice, never moved back |
| Run API | `prospect-runs.ts`, `prospect-run-guards.ts` | create, pause, resume, cancel; pausing a campaign | moves only runs the kernel has not touched |
| MySQL store | `mysql-store.ts` | row transitions and validation before each commit and at start; queue, reload, undo | accepts every step the kernel needs |
| Worker | `prospect-worker.ts`, `prospect-worker-entry.ts` | one loop: settle, recover, claim, prepare, dispatch, settle | every run ends, every stored answer is settled |
| Queue coordinator | `prospect-queue-coordinator.ts`, `prospect-bullmq-backend.ts` | signals that wake the worker | lost and duplicate signals do no harm |
| Dispatcher, adapters | `prospect-provider-dispatcher.ts`, `ai-search-provider.ts`, ... | the calls to providers | returns or throws within a timeout |
| Candidate pipeline | `prospect-candidate-pipeline.ts`, `prospect-candidate-actions.ts` | turns settled hits into prospects | each hit once |
| Coverage memory, identity, relations | `prospect-coverage-memory*.ts`, `organization-*.ts` | append-only facts, a merge graph | unique canonical organization |
| Qualification, verification, outcome feedback, outreach | `prospect-*.ts` | single transactions on a prospect | idempotent |
| Facts, intelligence, auth, server, frontend | the rest | calculation, I/O, formatting | not protocol-like |

`PROJECT.json` lists every component with its status, and every hazard with
its line in the code.

## 2. The modules

| Module | What it is |
|---|---|
| `ProspectLedger` | abstract: what the request ledger promises of every request |
| `ProspectKernel` | the execution kernel: all transactions, all actors, crashes, late answers |
| `ProspectStore` | what the MySQL store checks before it commits a step of the kernel |
| `ProspectRuns` | the run API, over the kernel's state |
| `ProspectWorker` | the worker process over kernel, store and run API, with faults and fairness |
| `ProspectCampaigns` | a campaign, its versions and strategies, and the runs created from them |
| `ProspectSchedules` | schedules as memory and rows, over the campaign |
| `ProspectScheduler` | the poll with its two transactions, users, time and crashes, over both |
| `MarketJobs` | jobs, their transitions, and which rows MySQL accepts |
| `MarketRuns` | requests, runs, shared fetches, cache, reloads and crashes, over the jobs |
| `ProspectConversion` | conversions, dispositions, ownership and CRM edits, over rows and memory |
| `MCKernel`, `MCWorker`, `MCPlanning`, `MCConversion` | small instances for TLC |
| `ProspectKernelProofs`, `ProspectStoreProofs`, `ProspectWorkProofs`, `ProspectRowProofs`, `ProspectWorkerProofs`, `ProspectPlanningProofs`, `MarketRunsProofs`, `ProspectConversionProofs` | the theorems |

`ProspectStore` and `ProspectRuns` extend `ProspectKernel`, `ProspectWorker`
extends both; `ProspectKernel` contains an instance of `ProspectLedger`
(`Book`) under the refinement mapping that keeps of an entry its two statuses,
its settlement kind and the number of evidence rows and pages.
`ProspectScheduler` extends `ProspectSchedules`, which extends
`ProspectCampaigns`. `MarketRuns` extends `MarketJobs`.

### 2.1 `ProspectKernel`: correspondence

| Variable | Code |
|---|---|
| `run` | `prospectSearchRuns`: status, `executionEpoch`, status of the parent job |
| `shard`, `job` | `prospectRunShards`, the child `agentJobs` |
| `ckpt` | `prospectExecutionCheckpoints`; `sealed` is the epoch its cursor is sealed for, 0 without a cursor; `calls` the calls under the current checkpoint number, `total` all calls |
| `lease` | `prospectExecutionLeases` by fence token, each with its one attempt |
| `ledger` | `prospectProviderRequestLedgers` by `logicalRequestNo`, with dispatch, answer, settlement, evidence and page |
| `calls` | the awaited provider calls of live processes: the only volatile state |
| `window` | throttle bucket of a provider connection |
| `position` | `prospectStrategySourcePositions` |
| `kernelEpoch` | highest epoch persisted |

| Action | Method |
|---|---|
| `CreateRun` | `createProspectRun` (`prospect-runs.ts`) |
| `RequestPause`, `Resume`, `RequestCancel` | the methods of those names |
| `Start`, `RecoverExpired` | `start`, `recoverExpiredLeases`; both are `recoverLeasesInMutation` on different leases |
| `ClaimNext` | `claimNext`, including the sources it closes as exhausted on its way |
| `Prepare` | `prepareProviderRequest`, including the binding of an entry left prepared |
| `Defer`, `SendRequest` | `startPreparedProviderDispatch`, by the state of the throttle bucket |
| `PersistResponse`, `DispatchFails`, `CallLost` | `persistPreparedProviderResponse`, `terminateProviderRequestAsOutcomeUnknown`, or neither |
| `SettleLate`, `SettleSuccess`, `SettleFailure` | the branches of `settlePersistedProviderResponse` |
| `Lapse`, `RetryDue`, `WindowOpens` | time passes: a lease lapses, a back-off is over, a throttle window opens |

A method that throws is rolled back, so a check that throws is a guard.
`finishRunIfTerminal` and `settlePauseIfReady`, which the methods call at their
end, are the operators `FinishRun` / `FinishShards` and `Rest` inside the
actions. `BridgeOK` is `validateProspectRunQueueBridge`; the methods that
validate before and after their change have `BridgeOK` and `BridgeOK'`.

*Abstractions.* Times are kept as far as they are compared: a lease has lapsed
or not, a retry time is absent, in the future or reached. An answer is a
record of what the settlement looks at (success, accepted count, more pages,
partial, retryable). Encryption, hashes, identifiers and texts are left out. A
stored answer is dropped from the model when it is settled, because nothing
reads it again. The kernel epoch of a lease is not kept: the code compares it
with the epoch of the kernel that claimed it (always equal) and, at a start,
with a newer one (always different). `beginRequest`, `completePage`,
`failRequest` and `executeNext`, an older path that only tests call, and
`heartbeat`, whose only effect is that a lease does not lapse, have no action.

In `ProspectKernel` no store checks a step, as with the memory store of the
tests: the model shows what the kernel itself does. What MySQL would refuse is
the subject of `ProspectStore`.

### 2.2 `ProspectStore`

The transition tables of the run, shard, job, attempt, ledger and dispatch
rows, the change rules for leases and checkpoints
(`validateProspectLeaseMutation`, `validateProspectCheckpointMutation`), and
the state validation (`validateProspectExecutionPersistence`, all bridges).
`StoreAccepts` is the conjunction a commit must pass.

### 2.3 `ProspectRuns` and `ProspectWorker`

The run API moves a whole untouched run (`assertShardState`,
`verifyQueueBridge`). With MySQL its transactions are validated before they
commit like those of the kernel (`persistRunMutation`, then
`validateProspectRunPersistence`, `mysql-store.ts:7434`); the model leaves that
guard out, so `UserStep` may do more than the code, and `StoreStaysValid` says
that the guard would find nothing. The worker has a program counter that follows `start`,
`runLoop`, `executeOne` and `settlePendingResponses`. Every kernel method it
calls either *commits* (the kernel's action together with `StoreAccepts`) or
*throws*: because the kernel or the store refuses the step (`~ENABLED`), or
because the database fails (a fault). The catch blocks of the code decide where
it goes then. A crash loses the process and its call, not the rows. The
candidate pipeline, which runs between steps and writes other tables, is left
out. The worker constructs its kernel without `throttleIntervalMs`, hence
`~Throttled` is assumed.

### 2.4 `ProspectCampaigns`, `ProspectSchedules`, `ProspectScheduler`: correspondence

| Variable | Code |
|---|---|
| `campaign` | status, owner and current version of one campaign, and how often it has been transferred (its owner revision) |
| `strategy` | `prospectSearchStrategies`: status, version, what it searches for |
| `run` | `prospectSearchRuns`: the idempotency key, what was asked for, owner, scope, and whether it is alive |
| `exhausted` | strategies of an owner with nothing left to read |
| `plan`, `saved` | `prospectSchedules` in memory and in MySQL |
| `now`, `due` | the clock; the batch of prospects due for review |
| `todo`, `at`, `job` | local variables of `runOnce`, `executeDue` and `executeReviewDue` |

The actions of the first two modules have the names of the service methods. A
poll is `Poll`, then for each schedule `PassOver` or `LookAt` (up to the first
transaction), `Creates`, `Replays`, `Refuses` or `FailsToCreate`
(`createProspectRun`) and `Records` (`updateSchedule`). An exception that
leaves `runOnce` is an unhandled rejection of its timer and ends the process
(`RecordThrows`, `Crash`), which starts again from the rows.

`RefusedResume` is the code's order in `prospect-schedules.ts:486`: the status
is assigned before the checks that may throw, and `persistMutation` calls the
mutation outside its `try`. Memory and rows then differ, and as a row may only
change with a new revision, `Commits` refuses every transaction that is not
about this schedule until the process restarts. `PlanningTypeOK` says that
nothing else ever sets them apart.

*Abstractions.* The calendar is a fixed period; a strategy is reduced to its
scope, a batch to its fingerprint; names, snapshots, ETags and texts are left
out, except the one ETag that matters, that of the strategy in
`createProspectRun`, which the scheduler reads one step earlier. What a run
does is the kernel's subject: here it is alive, or has ended, perhaps with its
sources read to the end.

### 2.5 `MarketJobs`, `MarketRuns`: correspondence

| Variable | Code |
|---|---|
| `row`, `mem` | rows of `agent_jobs`, and `store.agentJobs` |
| `aliasRow`, `alias` | rows of `agent_job_idempotency_aliases`, and `agentJobIdempotencyAliases` in memory |
| `run` | `activeMarketAnalysisRuns`; `held` says whether the run's job object is the store's (`in`), not there yet (`out`) or no longer (`off`) |
| `pending` | requests that have joined a run and wait to bind their key: for the run to be stored (`early`, the promise `ready`), for their turn (`ready`), or so that the run waits for them (`awaited`, the part of `aliasPersistenceTail` that `beforeFinalPersist` has seen) |
| `facts`, `known` | jobs whose observations and facts are in the rows; those whose facts memory has too |
| `fetching`, `cache` | `activeTradeFlights`, provider response cache |
| `answered` | history: jobs whose success a request has been told |

`AskNew`, `AskAgain`, `Join` and `BindCoolingDown` are the branches of
`createMarketAnalysisRun` and `retryMarketAnalysisJob`; `Start` ... `Finish`
follow `executeMarketAnalysisJob`; `Reload` is `reloadProspectRuns`; `Crash`
includes `recoverInterruptedAgentJobs`. A cache miss and the look at the
running fetches are separate steps, as in the code; a provider whose catalogue
entry has no cache policy (`Queries \ Public`) is asked by each run alone
(`AskAlone`).

Every transaction writes all jobs and aliases: `Commits` is one that is
confirmed, `Fails` one whose caller gets an error, because it is refused or the
database fails, before or after it has committed. In the last case memory is
rolled back under rows that have moved on, and until a reload or a restart
brings it up to date every further transaction is refused (`Acceptable`:
`verifyImmutableRows`, `syncAgentJobRows`). A job is queued only in the
transaction that starts it, so the route that cancels queued jobs never finds
one of this kind and has no action.

### 2.6 `ProspectConversion`: correspondence

| Variable | Code |
|---|---|
| `prospect`, `acq` | rows of `tenant_prospects` and `customer_acquisition_source_events` |
| `rows`, `mem` | leads, lead source events and customers, in MySQL and in memory |
| `task` | the conversion at the head of the store's queue, with what it has read of its prospect |
| `told`, `holder` | history: confirmed customer conversions; sellers told that a customer is theirs |

A conversion is two steps: `Begin` takes the team guard and reads the prospect;
`BecomesLead`, `LeadReplayed`, `BecomesCustomer`, `CustomerReplayed` or
`EndsWithout` are its transaction. `Commits` has the outcomes of a commit: it
is confirmed and the memory follows; or its outcome is unknown, applied or not,
the memory updated or not, and the conversion tried again or given up. `Owned`
is `mutateCustomerOwnership` with the same outcomes. `Persist` is `persistAll`:
it waits in the queue for the conversion that runs. Dispositions (`Dispose`,
`LinkLead`) wait for the team guard only. Users change the memory at any time.

*Abstractions.* One team; each prospect has its organization. Identifiers that
a conversion derives from its request are the request itself. Approvals, active
deals and the connection may refuse at any time. Left out: deals, to-dos,
activities, the ownership version, do-not-contact and temporary exclusions.

## 3. The runs

All runs use `tlc -workers 2 -config <cfg> <module>`.

| Run | Module, cfg | Question | States |
|---|---|---|---|
| `two_sources` | `MCKernel`, `TwoSources` | one run over two sources of several pages, every kind of answer, two kernels, everything interleaved | 473,821 |
| `shared_source` | `MCKernel`, `SharedSource` | two runs of one strategy on one throttled source | 709,005 |
| `worker` | `MCWorker`, `Worker` | the worker over store and run API, with two faults | 43,927 |
| `planning` | `MCPlanning`, `Planning` | campaign, schedules and scheduler while users change all of it and the process crashes | 305,197 |
| `market` | `MarketRuns`, `Market` | two users, two questions, two keys each: joins, retries, cool-downs, reloads, crashes, lost commits | 155,802 |
| `conversion` | `MCConversion`, `Conversion` | two sellers convert two prospects, own customers and edit the CRM; lost commits, crashes | 1,767,117 |
| `rebound`, `bridge_broken`, `cursor_left`, `end_refused` | `MCKernel` | four expectations of the code the code does not meet (section 5) | - |
| `answer_lost`, `retry_refused` | `MarketRuns` | two more, of market analyses | - |

What the properties say (each is stated with its definition):

* `LeaseExclusive`: a run has at most one active lease, the one with the
  highest fence.
* `WithinLimits`: calls per checkpoint and results per source stay in limits.
* `NoOrphan`: a shard at work has an active lease or a settleable answer.
* `WaitingCanWork`: a shard that waits has calls, pages and results left, a
  cursor of this epoch, and a usable next ledger entry.
* `RunFollowsShards`: the run's status is one its shards allow, the parent job
  follows.
* `CancelHasCause`: a run waits to be cancelled only for something in flight.
* `LedgerFollowsLease`: ledger and lease agree on what is out, unknown, stored.
* `LeasesValid`, `AggregatesValid`, `RowsAccepted`: what the store demands of
  leases, aggregates and rows holds after every kernel step. `RowsAccepted`
  names the rows it leaves out: those of a pause or cancellation that has to
  wait, and those of `end_refused` (section 5).
* `PagesOfThisEpoch`: no page of an earlier epoch is ever accepted.
* `PauseComesToRest`: whatever ends the last request a pause waits for brings
  the run to rest, but for the late answer of section 5.
* `ExhaustedIsFinal`: a source read to its end is not asked again.
* `KeepsTheLedger`: the kernel implements `ProspectLedger` (refinement).
* `LoopGoesOn`: the worker calls a provider only for the claim at hand and for
  the last request recorded for it; no call is out that it does not await.
* `StoreStaysValid`: what the worker and the run API leave behind passes the
  validation of the next transaction and the next start, although the API
  knows nothing of leases, checkpoints and requests and its transactions are
  modelled without the store's check.
* `EveryRunEnds`, `AnswersAreSettled`: liveness of the worker.

Planning:

* `RunsFitTheirPlan`: a live run's campaign, version and strategy are what it
  was created from, whatever users do.
* `ActiveCampaignHasStrategy`: an active campaign has an approved strategy of
  its version.
* `OneSearchPerScope`: users, schedules and reviews never have two live runs
  on one search scope.
* `PlansApart`: the runs a schedule plans are a period apart.
* `ReviewsNotRepeated`: no run reviews a batch an earlier run has taken along.
* `DueIsServed`: a schedule that is due gets a new time or stops being active.

Market analyses:

* `KeyBindsOneJob`: a key stands for one job, its own or an alias.
* `SingleFlight`: one run at a time per question; who waits has a fetch to
  wait for.
* `NothingWithoutItsJob`: whoever asks a provider has a job in the rows, and
  facts and success are stored in one piece.
* `EndedMovesByRetry`: the row of an ended job changes only by the start of its
  retry, never by a stale object or a restored snapshot that is written along
  with the transaction of another job.
* `RunsEnd`: runs end and requests that have joined are answered.

Conversions and pool:

* `ConversionTraced`: prospect and acquisition event agree; whoever has been
  told that his lead became a customer has the lead, converted and out of the
  trash, in rows and memory.
* `ClaimHolds`: a claimed customer stays with its claimant until a release.
* `RefusedNotConverted`: no step converts a prospect that is excluded in the
  state before it, although the conversion has read it earlier.

### 3.1 Bounds

`MaxFence` bounds the leases of a job, `MaxKernelEpoch` the kernel starts,
`MaxRunEpoch` the resumes of a run, `MaxFaults` crashes, database failures and
stalls together. They stand in guards of `ClaimNext`, `Start`, `Resume` and of
the faults, so they cut behaviours off and invent none. `CallLimit` and
`MaxAttempts` are 3 in the code and 2 in the instances: first, last and only
call differ already with 2.

* `two_sources`: two shards are the least at which "another shard of the run"
  matters for leases, pausing, cancelling and the final status; two leases each
  give a retry, a second page or a reclaim on both; two kernel starts a recovery
  by a later process; two epochs a cursor sealed anew. Five answers: a page with
  more to come, a last page of two results, of at most two in all, so that as a
  second page it is cut, an empty partial page, both kinds of failure.
* `shared_source`: two runs of one search scope may not be active together, so
  two runs and one source show the hand-over of a position. Three leases give
  a deferral, a page and its successor on either side.
* `worker`: a job needs at most two leases for its calls and one more per
  fault, a process at most one start more than there are crashes: with
  `MaxFaults = 2`, `MaxFence = 4` and `MaxKernelEpoch = 3` no bound ever stops
  the worker, which liveness needs. One page per source, see section 5.

* `planning`: starts after a first strategy has been approved, the campaign
  activated and a first schedule created, perhaps with a second strategy or the
  schedule paused, so that `MaxActs = 2` is left for what users do then: two
  acts can put anything between the two transactions of a poll and react to it.
  With `MaxTime = 4` and `Period = 2` a schedule is due twice, so a repeated
  occurrence would show; two schedules and one batch for a review asked for
  twice; two runs, two versions and one transfer for a run under a plan that
  has changed; one fault for a crash between the transactions.
* `market`: two jobs of two askers with two questions and two keys are the
  least at which keys, questions and askers can be confused pairwise. Two
  attempts separate `failed` and `dead_letter`; one tick of the clock ends a
  cool-down; two events (a reload, crash, failure, join or retry each) give a
  fault in the middle of a join or retry. One question is of a provider whose
  responses are shared (`Public`), one is not. What nobody has used yet is
  interchangeable, so only one such asker, key of an asker and question of
  either kind is offered, and the clock ticks only when a response or a
  cool-down waits for it.
* `conversion`: two sellers with one key each and two prospects compete for one
  existing lead and one existing customer; four requests suffice to convert a
  prospect to a lead and a customer and to have two edits, dispositions or
  ownership changes around it; two faults lose a commit and crash. Sellers and
  prospects are interchangeable, which the symmetry uses.

Deadlock is not checked: when every run has ended and every bound is used up,
the system may stop.

### 3.2 Fairness

Safety runs, `conversion` among them, assume none. `WorkerSpec` assumes weak fairness of the worker's
own steps together (`Work`) and of time (`Expires`, `BackOff`), nothing of
users, crashes or stalls. The code justifies it: the worker runs inside the
server process, systemd restarts the server (`src/deploy-ubuntu.sh:516`, and a
worker that fails to start ends the server with status 1,
`server.ts:11005`); a provider call has a timeout (`ai-search-provider.ts:32`),
so the await ends; `sleep` has a timer; and leases and back-offs end by the
clock. Weak fairness of `Work` as a whole, not of its disjuncts: one loop.

`PlanningSpec` assumes weak fairness of the scheduler's own steps together
(`SchedulerStep`): its poll runs on a timer, only one at a time, and the
restarted server starts it again. Nothing is assumed of users, time, faults or
the end of runs. `DueIsServed` excuses states in which the bound `MaxRuns` is
used up, in which no further run could be created.

`MarketSpec` assumes weak fairness of every run's steps and of attaching
aliases, both of which are promises that go on by themselves, and of the
provider's answer or refusal, which its timeout guarantees.

## 4. What is proved

### 4.1 Search execution

`ProspectKernelProofs` proves, for any runs, shards, answers, limits and
bounds that satisfy `KernelConstants`:

* `TypeCorrect`: `Spec => []TypeOK`. `TypeOK` includes that an entry with
  status `response_received` has an answer, without which the settlement of an
  unknown answer could not be typed.
* `LimitsKept`: `Spec => []WithinLimits`. The calls: `SendRequest` is the only
  step that raises them, under the guard of `MayRequest`; the results: `Taken`
  cuts a page to what is still wanted, and needs the invariant of the state
  before to be non-negative.
* `OneLeasePerRun`: `Spec => []LeaseExclusive`. `ClaimNext` is the only step
  that creates an active lease (lemma `NoNewLease` and its users for all
  others); it does so for at most one shard, because `Rank` is injective and
  `Chosen` takes the first, in a run in which no lease *with the highest fence*
  is active. That no lease with a lower fence is active either is
  `LeaseExclusive` itself, so the property is inductive only together with
  `TypeOK`.
* `Invariance`: the conjunction of the three is inductive; `InitInv` and
  `StepInv` are the two halves, with one step per action.

The lemmas before them state what the kernel's helpers return (`FinishRun`,
`FinishShards`, `Rest`, `RecoveredLease`, `GivenUp`, ...).

`ProspectStoreProofs` goes on from there, under the same assumptions:

* `LeasesAreValid`: `Spec => []LeasesValid`, what the store demands of leases.
* `LedgerAndLeaseAgree`: `Spec => []LedgerFollowsLease`.
* `KernelKeepsTheLedger`: `Spec => KeepsTheLedger`, the refinement: every step
  of the kernel is a step of `ProspectLedger` or leaves the ledger alone.

None of them is inductive alone. `StoreInvariance` proves `StoreInv`, which adds
to the invariant above:

* `LeaseRowsValid`: who holds a lease is at work in the epoch of the lease, or
  in the one before while the run is being cancelled. So at most one shard of a
  run is touched by a step that ends a lease, and a resume, which needs a
  paused run, fences nobody off who is at work.
* `RunRows`: a run that has ended has only ended shards, and a shard that waits
  to be cancelled belongs to a run that does.
* `LedgerRows`, per request: of one that was never sent nothing is known
  (`Unsent`); one that was sent knows the lease that sent it, and a lease sends
  only the last request of its shard (`SentBy`); one that is open has the last
  lease of its shard, which is held until the outcome is stored or given up,
  and has booked nothing (`Open`). The last is what makes a crash safe: when
  recovery ends a lease, what it finds in the ledger under that lease's fence
  is the one request that lease may have sent.
* `CheckpointRows`: who holds a lease has a checkpoint.

For the refinement, `EntryStep` says of one request that it stays or moves as
`Book!Step` allows, with a lemma for each kind of step, and `OpenedInTurn` that
a request is written only when all before it are settled (`UnusedIsQuiet`): no
request of a shard is open when its lease has sent nothing yet.

`ProspectWorkProofs` adds what that says about progress, still under the same
assumptions:

* `NobodyIsStranded`: `Spec => []NoOrphan`.
* `RunsFollow`: `Spec => []RunFollowsShards`.
* `CancellationsHaveCause`: `Spec => []CancelHasCause`.
* `WaitersCanWork`: `Spec => []WaitingCanWork`.
* `PagesInTheirEpoch`: `Spec => PagesOfThisEpoch`.

`WorkInvariance` proves `WorkInv`, which is `StoreInv` and two more parts:

* `RunShapes`: for every status of a run, what its shards may be (`Allowed`) and
  what at least one of them is (`Needed`). `RunFollowsShards` compares a run
  with a formula over its shards; this form says the same by membership, so
  that a step of one shard needs only that shard and one witness. A run stays
  paused through a settlement, for instance, because what is paused is not
  settled (`SettleLeavesOthers`).
* `WorkRows`, per shard. `AtWork`: who works has a lease or a stored answer, and
  who is about to be cancelled has sent its request: cancelling ends the lease
  of everyone who has not. `AnswerRow`: an answer in time belongs to a shard at
  work and, unless that is being cancelled, to the run's epoch; this is what a
  settlement relies on after the process that stored the answer has gone.
  `ResultRow`: who says it succeeded has results. `WaitRow`: who waits or works
  has a checkpoint that goes on in the run's epoch (`GoesOn`) and, until its
  lease is used, calls left. `GoesOn` counts all calls against the pages, since
  the settlement of a page resets the calls under a checkpoint number: without
  the total, that the ledger has an entry left to send is not inductive.

`ProspectRowProofs` proves first `ExhaustedStays`: `Spec => ExhaustedIsFinal`. A
source may be left by one run and taken up by another, so the property speaks
of shards of different runs. `SourceInv` is `WorkInv` and what ties them to
their source:

* `OneReader`: active runs share no source. It follows from the refusal to
  create a run over a source that an active run reads, since runs become active
  only by being created (`RunsStep`).
* `SourceRows`: a run that is not yet created has read nothing, and whoever has
  begun to read a source that is exhausted reads no more of it (`Lives`). The
  checkpoint is what makes the second part hold for the others: a shard without
  one takes the position from the source when it is claimed (`ClaimReads`), and
  only the settlement of the one reader moves the position (`SettlerReads`).

Then, what the store demands of rows and aggregates, so that it undoes no step
of the kernel but those that section 5 names:

* `RowsAreAccepted`: `Spec => RowsAccepted`. Each table is proved by what a step
  may do to one row (`LeaseMove` for leases and attempts, `EntryStep` for
  entries, and so on), whoever takes it. `RowInvariance` proves the invariant it
  needs, `RowInv`: `SourceInv` with `AttemptRows` (beyond the highest fence there
  is no lease, and an active one says twice, as lease and as attempt, whether
  its request has been sent) and `JobRows` (the job of a shard at work is at
  work, and a retry time still to come is that of a job put off, so the clock
  queues no job that the table lets go nowhere).
  The theorem failed at first where a queued run ends with results. That it may
  is `end_refused`; the property now says which rows it leaves out.
* `AggregatesAreValid`: `Spec => []AggregatesValid`, that a checkpoint's counts
  are what the entries, dispatches, evidence and pages of the ledger add up to.
  `CountInvariance` proves `CountInv`: `RowInv` with `CountRows`. The store
  compares numbers of rows, which no step preserves by itself. `CountRows` says
  which rows there are: every request up to the total has been sent, each under
  a lease of its own, and the last `calls` of them carry the current checkpoint
  number and are numbered in turn (`CountEntry`). The sets of rows are then
  intervals, whose cardinalities are the counts (`CountsAgree`).

`ProspectWorkerProofs` proves, about `WorkerSpec`, for any number of faults in
addition, every safety property of the run `worker`: `WorkerTypeCorrect`,
`LoopAlwaysGoesOn`, `StoreAlwaysValid` and `WorkerRunsFollow`. Fairness is not
used. The inductive invariant (`WorkerInvariance`) is
`WorkerInv == RowsHold /\ LoopInv`:

* `RowsHold` is `CountInv`, the bridge, the validity of checkpoints, and
  `FreshRuns`. The kernel's steps keep `CountInv` because a worker's step is a
  step of `Next` or leaves the kernel's rows alone (`WorkerSteps`), and keep
  the bridge and the checkpoints because the store checks them at every commit.
  The API's operations are modelled without that check, so the theorem does not
  rest on it there. What makes them safe is `Fresh`: in a deployment nobody asks the kernel to pause or cancel, so a run
  that waits to be executed has no shard that was ever at work; some may only
  have been skipped. The API moves such runs only (`UserMoves`), and every other
  run keeps its rows (`UserKeepsRows`, `UserKeepsBridge`).
* `LoopInv`: what the process remembers, and `LoopGoesOn`. Only the dispatch
  adds a call, and no other step of the kernel does (`CallsKept`), so the one
  call that is out is the last request of the claim.

That the loop's steps are refused is `~ENABLED` in the model; the proofs need
only that a step that is refused changes no row, and leave `Refused` unexpanded.

### 4.2 Planning

`ProspectPlanningProofs` proves, about `PlanningSpec`, for any owners, scopes,
schedules, batches, period, delay and bounds that satisfy `CampaignConstants`,
`ScheduleConstants` and `SchedulerConstants`: `PlanningTypeCorrect`,
`LiveRunsFit`, `ActiveCampaignsCanSearch`, `ScopesAreSearchedOnce`,
`SchedulesKeepTheirPeriod` and `ReviewsRunOnce`, that is, every safety property
of the run `planning`. (The theorems start from `PlanningInit`, a draft campaign
without anything; the run from later states, `MCInit`, for the bounds' sake.)

They are parts of one inductive invariant, `PlanningInvariant`:
`PlanningInv == CampaignInv /\ RunInv /\ ScheduleInv /\ JobInv /\ Counted`.
What it adds to the properties, and why:

* `VersionsExist` (no strategy is of a version to come) for
  `ActiveCampaignHasStrategy` across new versions; `RunsInOrder` because
  `ReviewsNotRepeated` speaks of earlier and later runs.
* `SchedulesAhead`: the next time of a schedule is that of one of its runs or a
  period after it. `PlansApart` alone is not inductive: nothing in it relates
  the runs of the past to the one that comes next.
* `JobAhead`: the same for the occurrence a poll is working on. While it does,
  users may pause and resume the schedule, and thereby move its next time; the
  poll's occurrence is then still either the schedule's or a period behind it.
  That a move stays ahead rests on the lemma `AdvanceIsLater` about the
  calendar.
* `JobReviews`: the batch of a review about to be created has no run of the
  owner yet, unless the campaign has been transferred since the poll looked, in
  which case the strategy's ETag has changed and the creation is refused.

### 4.3 Market analyses

`MarketRunsProofs` proves, for any askers, questions, keys, attempts and bounds
that satisfy `MarketConstants` and `RunConstants`, every safety property of the
run `market`: `MarketTypeCorrect`, `KeysBindOnce`, `FlightsAreSingle`,
`NothingLacksItsJob` and the action property `EndedMoveByRetry`.

The inductive invariant (`MarketInvariant`) is `MarketInv`. A job lives in up to
four places: its row, the memory of the store, the object its run works on and
the snapshot the run would restore. `JobOK` and `RunOK` say how they belong
together, and carry the argument:

* they are always about the same asker, key and question (`Same`), so a run that
  a reload has detached is still found by its question, and single flight
  survives the reload;
* between the two transactions of a run row, memory and snapshot are equal, so
  what a failure restores is what the rows say, unless the failure itself has
  been written on behalf of somebody else (`step = "failing"`): then the memory
  may take an ended job for running again;
* an ended row and the memory differ only while the memory takes the job for
  running, again or, after a commit whose answer was lost, still; and running is
  not accepted over an ended row (`EndedRows`). That is `EndedMoveByRetry`: it
  rests on the store's table, not on what the runs do. The table also refuses
  the retry itself (`retry_refused`, section 5); allowing failed to running in
  it, the mutant of this property, would let the retry through and the stale
  object with it;
* keys bind one job already in the rows (`OneBinding`), of which the memory may
  know less after a lost commit (`alias \subseteq aliasRow`). What the memory
  does not know it cannot bind a second time, since every transaction of such a
  memory is refused.

### 4.4 Conversions and the public pool

`ProspectConversionProofs` proves, for any sellers, keys, prospects, leads,
customers and bounds that satisfy `ConversionConstants`, every property of the
run `conversion`: `ConversionTypeCorrect`, `ConversionsAreTraced`, `ClaimsHold`
and the action property `ExcludedAreRefused`.

The inductive invariant (`ConversionInvariant`) is `ConversionInv ==
ConversionTypeOK /\ SeenIsCurrent /\ Bound /\ Kept /\ ClaimHolds /\
CreatedOnce`. `Bound` and `Kept` are the two halves of `ConversionTraced`. The
two parts that no property states carry the argument:

* `SeenIsCurrent`: what a conversion has read of its prospect is still so when
  its transaction commits. Dispositions keep it because they wait for the team
  guard; `ExcludedAreRefused` is a consequence.
* `CreatedOnce`: a customer with the identifier of a request, in rows, memory
  or the mind of a claimant, has left an acquisition event. A repeated request
  therefore never creates a customer again that somebody has claimed since,
  even where it has been deleted from the rows.

### 4.5 Only model-checked

Liveness (`EveryRunEnds`, `AnswersAreSettled`, `DueIsServed`, `RunsEnd`), which
with its `ENABLED` is out of the prover's reach. `PauseComesToRest`, which is
within its reach but has no proof yet: it needs a stronger shape than `WorkInv`
has, that a shard held in a paused request has sent its call. Every other
property of the passing runs is stated by a theorem.

## 5. Where code and expectations differ

Six runs show a disagreement between what the code does and what a check, a
test or a text in the repository says of it; `PROJECT.json` quotes them.

* `rebound`. A request prepared under one lease and sent under a later one
  (after a crash, a lapse, a pause, a throttle deferral) can never have its
  answer stored: storing looks it up by the lease that prepared it. In
  particular, a deferred request is unanswerable once it is sent.
* `bridge_broken`. A request given up after an accepted page leaves a partially
  successful shard with a failed job. The bridge, which the store validates for
  *every* run before each commit, refuses that: with MySQL the recovery is
  rolled back, at every later start too. This is why `worker` has one page per
  source: with two, this known deviation stops the worker, and liveness would
  show nothing else.
* `cursor_left`. A failure that ends a source after its first page completes
  the checkpoint with its cursor still on it, which the store refuses.
* `end_refused`. A run that was paused and resumed is queued again although some
  of its shards have ended. If the next claim finds the sources of all others
  exhausted, it ends the run from queued, as succeeded or partially successful;
  the store's table allows a queued run to end only as cancelled or empty, so
  the claim is rolled back whenever it is tried, and the claims of all runs
  behind it. No code outside the tests pauses a run at work, so a deployment
  does not get there: `FreshRuns` of section 4.1 is that fact, and `EveryRunEnds`
  rests on it.
* `answer_lost`. A reload of the store while a market analysis awaits its
  provider detaches it from its job. It tells its request a success and stores
  the results, but the row of the job stays running; the next start fails it as
  interrupted, and the same key is refused or asks the provider again.
* `retry_refused`. With MySQL a failed analysis can never be run again. Its retry,
  by the key or by the retry route, queues and starts the job in one
  transaction, so that the row goes from failed to running;
  `validAgentJobTransition` (`mysql-store.ts:9926`) lets it go to queued only. A
  dead letter's retry is refused for its raised `maxAttempts` as well. The tests
  assert the retry with the memory store, and the API documents promise it.

The passing runs show what holds *in spite of* these: their properties do not
exclude the states concerned.

Further differences are in the models as they are in the code; no text of the
repository says otherwise plainly enough to be checked against, or the matter
is left out of the model.

*Planning.* A refused resume leaves memory and rows apart
(`prospect-schedules.ts:486`). `reviewRetryDeferred` looks for a prefix that
`executeDue` stores for refused runs and `executeReviewDue` for database
failures only (`prospect-scheduler.ts:281`), so a refused review is tried at
every poll. After a crash between the two transactions of a poll, an occurrence
whose batch has changed meanwhile meets its own idempotency key with another
request and is recorded as refused although its run exists.

*Pauses.* A late answer of a shard that was given up, settled while a pause is
awaited, does not look whether the run may rest (`prospect-execution-kernel.ts`,
4250-4270, which unlike every other branch does not call `settlePauseIfReady`):
if it was the last the pause waited for, the run stays `pause_requested` until
it is cancelled. `PauseComesToRest` names this settlement as its one exception.
Only tests pause a run through the kernel.

*Market analyses.* A detached run that fails loses its cool-down. After a commit
that was applied but not confirmed, memory lacks an alias, a job or facts of the
rows, and every generic transaction of the process is refused until a reload
or, for facts, which no reload reads, a restart.

*Conversions.* Linking an existing customer reads a row without `poolStatus`,
`ownershipVersion` and grade and puts the result into the memory; the next
persist writes version 0 (`prospect-coverage-memory-mysql.ts:1704`). The check
that an existing customer is not bound to another organization looks at
acquisition events that are loaded only by prospect, lead and organization
(`prospect-customer-conversion.ts:581`). A commit whose outcome is unknown, and
which was applied, is not put into the memory: the next persist erases lead,
customer and source of a prospect that stays converted, which is why
`ConversionTraced` speaks only of confirmed conversions. A lead that is trashed
and deleted for good in memory while its conversion is in flight comes back
without its source event. Adding a candidate to the leads overwrites the lead of
an earlier conversion (`LinkLead`), whose conversion to a customer then fails.

## 6. What is not modelled, and the plan

The modules cover the protocols of the backend: what is concurrent, persisted
in more than one step, retried or recovered. Most of the repository's lines are
something else and have no protocol to check: the browser user interface and
its API client, API documents, the mapping of rows to SQL and back, migrations,
route handlers, pure scoring and formatting, hashing and encryption, and the
tests. `PROJECT.json` has the reason for each part.

Left, in this order:

1. *Queue coordinator.* Lost and duplicated signals between store and worker. In
   `ProspectWorker` waking up is always possible, so the poll as the safety net
   is covered; the coordinator's own bookkeeping is not.
2. *Candidate pipeline.* Processing state and retries of settled hits, up to the
   prospects that `ProspectConversion` starts from.
3. *Conflict review.* `canonicalOrganizationId` over the graph of merges.
4. *Rest of the pool.* The ownership version, deals that forbid a release and
   the to-dos it cancels.
5. *Proofs.* An abstract specification of a run, and that the kernel and the
   planning implement it; what is modelled of the parts above.

Tests of single transactions on a prospect (qualification, verification,
outreach, outcome feedback) reach what could go wrong there; they share the
team guard with the conversions.
