---------------------------- MODULE MarketJobs ----------------------------
(***************************************************************************)
(* Jobs of market analyses (agent-jobs.ts) and how a generic transaction   *)
(* writes them to MySQL (syncAgentJobRows of mysql-store.ts).  Other kinds *)
(* of jobs go through here only as queue bridges, which ProspectStore      *)
(* models.  A job of this kind is queued only inside the transaction that  *)
(* starts it, so the cancel route never finds one it may cancel.           *)
(***************************************************************************)
EXTENDS Naturals, FiniteSets

CONSTANTS
  Askers,     \* owners of jobs (with the campaign they ask for)
  Queries,    \* normalized queries (requestFingerprint)
  Keys,       \* Idempotency-Key headers; each asker has his own
  MaxJobs,    \* bound: jobs
  MaxAttempts,\* maxAttempts of a job
  MaxTime     \* bound: the clock

ASSUME MarketConstants ==
  MaxJobs \in Nat /\ MaxAttempts \in Nat \ {0} /\ MaxTime \in Nat

JobIds == 1..MaxJobs

NoJob == [status |-> "none"]
\* until is nextAttemptAt when a provider has asked to wait, else 0.
Job == [asker : Askers, query : Queries, key : Keys, attempts : Nat,
        until : Nat,
        status : {"queued", "running", "succeeded", "failed", "dead_letter"}]

\* enqueueAgentJob.
Enqueued(asker, query, key) ==
  [asker |-> asker, query |-> query, key |-> key, attempts |-> 0,
   until |-> 0, status |-> "queued"]

\* prepareJobForExecution with retryAgentJob, then startAgentJob: a job found
\* running is taken for interrupted.
Startable(job) == job.status \in {"queued", "running", "failed", "dead_letter"}
\* Mutant of Started: a job that is to be retried is not queued before.
StartedIfQueued(job) ==
  [job EXCEPT !.status = IF @ = "queued" THEN "running" ELSE @,
              !.attempts = @ + 1, !.until = 0]
Started(job) ==
  [job EXCEPT !.status = "running", !.attempts = @ + 1, !.until = 0]

\* completeAgentJob.
Completed(job) == [job EXCEPT !.status = "succeeded"]

\* failAgentJob without a time of retry, then nextAttemptAt as the provider
\* wants it (which executeMarketAnalysisJob sets whatever the status is).
Failed(job, until) ==
  [job EXCEPT !.status = IF job.attempts >= MaxAttempts THEN "dead_letter"
                                                        ELSE "failed",
              !.until = until]

\* recoverInterruptedAgentJobs, when the API process starts.
Recovered(job) ==
  IF job.status = "running" THEN [job EXCEPT !.status = "failed", !.until = 0]
                            ELSE job

\* Mutant of Transitions: the obvious way to let a failed job be started again,
\* which lets in stale objects that say it is still running as well.
TransitionsForRetry ==
  {<<"queued", "running">>, <<"failed", "queued">>, <<"dead_letter", "queued">>,
   <<"running", "succeeded">>, <<"running", "failed">>,
   <<"running", "dead_letter">>, <<"failed", "running">>}
\* validAgentJobTransition for jobs that are no bridges.
Transitions ==
  {<<"queued", "running">>, <<"failed", "queued">>, <<"dead_letter", "queued">>,
   <<"running", "succeeded">>, <<"running", "failed">>,
   <<"running", "dead_letter">>}

\* What syncAgentJobRows accepts for one row.  (A retried dead letter has got
\* a higher maxAttempts, which is refused as well.)
RowMayBecome(old, new) ==
  old # NoJob /\ old # new =>
     /\ new # NoJob
     /\ new.attempts \in {old.attempts, old.attempts + 1}
     /\ old.status = new.status \/ <<old.status, new.status>> \in Transitions

\* A generic transaction writes every job; one row refused undoes it all.
Accepts(rows, jobs) == \A j \in JobIds : RowMayBecome(rows[j], jobs[j])
=============================================================================
