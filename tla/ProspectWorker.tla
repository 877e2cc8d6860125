--------------------------- MODULE ProspectWorker ---------------------------
(***************************************************************************)
(* The worker of a deployment (prospect-worker.ts): one process with one   *)
(* loop that drives the execution kernel over the MySQL store.  It settles *)
(* the answers it finds stored, recovers lapsed leases, claims one shard,  *)
(* executes one provider request for it, and starts again; with nothing to *)
(* do it sleeps for a while.                                               *)
(*                                                                         *)
(* Every kernel method it calls commits, or throws because the method or   *)
(* the store refuses the step, or because the database fails; the worker   *)
(* catches what is thrown and goes on.  The process may die at any moment  *)
(* and is started again.                                                   *)
(***************************************************************************)
EXTENDS ProspectStore, ProspectRuns

CONSTANT MaxFaults    \* bound: crashes, database failures and stalls

\* The worker builds its kernel without throttleIntervalMs, so no dispatch is
\* ever deferred and no throttle window ever closes.
ASSUME WorkerConstants == MaxFaults \in Nat /\ ~Throttled

VARIABLES
  pc,       \* where the process is; "down": not running
  looping,  \* FALSE while start() has not entered runLoop
  at,       \* the shard of the claim in executeOne, as a set
  todo,     \* stored answers that settlePendingResponses has still to try
  settled,  \* has it settled one of them?
  faults    \* faults so far

process  == <<pc, looping, at, todo, settled>>
workVars == <<run, shard, job, ckpt, lease, fence, ledger, calls, window,
              position, kernelEpoch, pc, looping, at, todo, settled, faults>>

Where == {"down", "settle", "recover", "claim", "prepare", "dispatch", "call",
          "finish", "sleep"}

\* What the process remembers has its type, and the claim it executes is one.
WorkerTypeOK ==
  /\ TypeOK
  /\ pc \in Where
  /\ looping \in BOOLEAN
  /\ at \subseteq Shards /\ Cardinality(at) <= 1
  /\ todo \subseteq Shards \X CallNos
  /\ settled \in BOOLEAN
  /\ faults \in 0..MaxFaults

WorkerInit ==
  /\ Init
  /\ pc = "down" /\ looping = FALSE /\ at = {} /\ todo = {} /\ settled = FALSE
  /\ faults = 0

-----------------------------------------------------------------------------
\* The transaction of a kernel method commits.
Commits(A) == A /\ StoreAccepts /\ UNCHANGED faults

\* The kernel or the store refuses the step, or the database fails.
Refused(A) == ~ENABLED (A /\ StoreAccepts)
Refuses(A) == \/ Refused(A) /\ UNCHANGED faults
              \/ faults < MaxFaults /\ faults' = faults + 1
Throws(A)  == UNCHANGED vars /\ Refuses(A)

Goes(to) == pc' = to /\ UNCHANGED <<looping, todo, settled>>

\* Mutant of PendingNow: answers stored before a crash are not looked for.
NothingPending == {}

\* settlePendingResponses reads the stored answers once, before it settles
\* the first of them.
PendingNow == UNION {Pending(r) : r \in Runs}
Looks(answers) ==
  /\ pc' = "settle" /\ todo' = answers /\ settled' = FALSE

\* executeOne is over, and runLoop calls it again.
Again == Looks(PendingNow') /\ at' = {} /\ UNCHANGED looping

Sleeps == Goes("sleep") /\ at' = {}

-----------------------------------------------------------------------------
\* start(): the kernel starts; if that fails, so does the process.
Boot ==
  /\ pc = "down"
  /\ \/ Commits(Start) /\ Looks(PendingNow')
     \/ Throws(Start) /\ UNCHANGED <<pc, todo, settled>>
  /\ looping' = FALSE /\ at' = {}

Settlement(s, n) == SettleLate(s, n) \/ SettleSuccess(s, n) \/ SettleFailure(s, n)

\* An answer that cannot be settled is logged and tried again next time.
SettlePending ==
  /\ pc = "settle"
  /\ \E q \in todo :
       /\ todo' = todo \ {q}
       /\ \/ Commits(Settlement(q[1], q[2])) /\ settled' = TRUE
          \/ Throws(Settlement(q[1], q[2])) /\ UNCHANGED settled
  /\ UNCHANGED <<pc, looping, at>>

\* In the loop, having settled an answer counts as the work of this round.
SettledAll ==
  /\ pc = "settle" /\ todo = {}
  /\ UNCHANGED vars /\ UNCHANGED faults
  /\ IF looping /\ settled THEN Again ELSE Goes("recover") /\ UNCHANGED at

\* start() does not survive a recovery that throws; the loop does.
Recover ==
  LET lapsed == \E s \in Shards : Held(s) /\ Current(s).lapsed IN
  /\ pc = "recover"
  /\ \/ /\ IF lapsed THEN Commits(RecoverExpired)
                     ELSE UNCHANGED vars /\ UNCHANGED faults
        /\ IF looping THEN Goes("claim")
           ELSE Looks(PendingNow') /\ looping' = TRUE
     \/ /\ lapsed /\ Throws(RecoverExpired)
        /\ Goes(IF looping THEN "sleep" ELSE "down")
  /\ UNCHANGED at

Claim ==
  /\ pc = "claim"
  /\ \/ /\ Commits(ClaimNext)
        /\ IF Chosen # {} THEN Goes("prepare") /\ at' = Chosen ELSE Sleeps
     \/ /\ Throws(ClaimNext)
        /\ Sleeps

PrepareRequest ==
  /\ pc = "prepare"
  /\ \E s \in at : \/ Commits(Prepare(s)) /\ Goes("dispatch") /\ UNCHANGED at
                   \/ Throws(Prepare(s)) /\ Again

\* Mutant of DispatchRequest: the call is awaited although it was not recorded.
DispatchAnyhow ==
  /\ pc = "dispatch"
  /\ \E s \in at : /\ Commits(SendRequest(s)) \/ Throws(SendRequest(s))
                   /\ Goes("call") /\ UNCHANGED at

DispatchRequest ==
  /\ pc = "dispatch"
  /\ \E s \in at : \/ Commits(SendRequest(s)) /\ Goes("call") /\ UNCHANGED at
                   \/ Throws(SendRequest(s)) /\ Again

\* The provider answers or the call throws (it has a timeout).  What cannot
\* be written about it is lost.
CallReturns ==
  /\ pc = "call"
  /\ \E q \in calls :
       \/ \E resp \in Responses :
            \/ /\ Commits(PersistResponse(q[1], q[2], resp))
               /\ Goes("finish") /\ UNCHANGED at
            \/ /\ Refuses(PersistResponse(q[1], q[2], resp))
               /\ CallLost(q) /\ Again
       \/ Commits(DispatchFails(q[1])) /\ Again
       \/ Refuses(DispatchFails(q[1])) /\ CallLost(q) /\ Again

\* The worker settles the answer it has just stored.
SettleOwn ==
  /\ pc = "finish"
  /\ \E s \in at, n \in CallNos :
       /\ ledger[s][n].status = "response_received"
       /\ Commits(Settlement(s, n)) \/ Throws(Settlement(s, n))
  /\ Again

\* The poll interval is over, or a queue signal wakes the worker.
Wake ==
  /\ pc = "sleep"
  /\ UNCHANGED vars /\ UNCHANGED <<faults, at, looping>>
  /\ Looks(PendingNow)

Work == \/ Boot \/ SettlePending \/ SettledAll \/ Recover \/ Claim
        \/ PrepareRequest \/ DispatchRequest \/ CallReturns \/ SettleOwn \/ Wake

-----------------------------------------------------------------------------
\* The process dies, and with it everything it was about to write.
Crash ==
  /\ pc # "down" /\ faults < MaxFaults
  /\ faults' = faults + 1
  /\ pc' = "down" /\ looping' = FALSE /\ at' = {} /\ todo' = {} /\ settled' = FALSE
  /\ calls' = {}
  /\ UNCHANGED <<run, shard, job, ckpt, lease, fence, ledger, window, position,
                 kernelEpoch>>

\* Time passes.  The heartbeat keeps the lease of the claim at hand, unless
\* the process stalls or the call outlasts its deadline.
Expires(s) == s \notin at /\ Lapse(s) /\ UNCHANGED process /\ UNCHANGED faults
Stall      == /\ faults < MaxFaults /\ faults' = faults + 1
              /\ \E s \in at : Lapse(s)
              /\ UNCHANGED process
BackOff(s) == RetryDue(s) /\ UNCHANGED process /\ UNCHANGED faults

User == /\ (\E r \in Runs : CreateRun(r)) \/ UserStep
        /\ UNCHANGED process /\ UNCHANGED faults

WorkerNext ==
  \/ Work \/ Crash \/ Stall \/ User
  \/ \E s \in Shards : Expires(s) \/ BackOff(s)

\* The process is restarted and its loop never waits forever (a provider call
\* has a timeout, sleep a timer), and time passes.  Nobody needs to act.
Fairness ==
  /\ WF_workVars(Work)
  /\ \A s \in Shards : WF_workVars(Expires(s)) /\ WF_workVars(BackOff(s))

WorkerSpec == WorkerInit /\ [][WorkerNext]_workVars /\ Fairness

-----------------------------------------------------------------------------
(* Properties.                                                             *)

\* The loop knows what it is about: a provider is called only for the claim at
\* hand, for the last request that its checkpoint counts, and no call is out
\* that nobody awaits; who goes to settle an answer finds one of its claim.
LoopGoesOn ==
  /\ pc \in {"prepare", "dispatch", "call", "finish"} => at # {}
  /\ pc # "call" => calls = {}
  /\ pc = "call" => \E s \in at : calls = {<<s, ckpt[s].total>>}
  /\ pc = "finish" => \E s \in at, n \in CallNos : ledger[s][n].status = "response_received"

\* The run API moves runs, shards and jobs knowing nothing of leases, checkpoints
\* and requests.  The store validates its transactions too (persistRunMutation),
\* but needs not: here they have no such guard, and still whatever worker and
\* API leave behind passes the validation of the next start and transaction.
StoreStaysValid ==
  BridgeValid /\ LeaseExclusive /\ LeaseRowsValid /\ CheckpointsValid
              /\ CheckpointFactsValid

\* Every run that somebody starts comes to its end, unless the user pauses it,
\* through crashes, failed transactions, lapsed leases, retries and answers
\* that come too late: no refusal of the kernel or the store blocks the loop.
EveryRunEnds ==
  \A r \in Runs : run[r].status = "queued" ~> run[r].status \in Done \cup {"paused"}

\* An answer that has been paid for and stored is settled sooner or later, by
\* the process that has stored it or by one that is started after its death.
AnswersAreSettled ==
  \A s \in Shards, n \in CallNos :
    ledger[s][n].status = "response_received"
      ~> ledger[s][n].status \in Book!Closed
=============================================================================
