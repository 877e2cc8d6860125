---------------------------- MODULE ProspectStore ----------------------------
(***************************************************************************)
(* What the MySQL store (mysql-store.ts) demands of a transaction of the   *)
(* kernel before it commits it.  Every row that has changed must make a    *)
(* step its table allows, and the whole state must pass the validation     *)
(* that is also run when a process starts; otherwise the transaction is    *)
(* rolled back, and the kernel's method throws.                            *)
(*                                                                         *)
(* With the memory store nothing of this is checked.  So a step of the     *)
(* kernel that the store refuses is a step that works in the tests and     *)
(* never in production.                                                    *)
(***************************************************************************)
EXTENDS ProspectKernel

-----------------------------------------------------------------------------
(* Steps of single rows.                                                   *)

\* isValidPersistedRunTransition
RunTransitions ==
  [st \in RunStatus |->
     CASE st = "none"   -> {"queued"}
       [] st = "queued" -> {"running", "paused", "cancelled", "succeeded_empty"}
       [] st = "running" -> {"pause_requested", "paused", "cancel_requested"} \cup Done
       [] st = "pause_requested" -> {"paused", "cancel_requested"} \cup Done
       [] st = "paused" -> {"queued", "cancelled"}
       [] st = "cancel_requested" -> {"cancelled"}
       [] OTHER -> {}]

\* isValidPersistedShardTransition
ShardTransitions ==
  [st \in ShardStatus |->
     CASE st = "queued" -> {"running", "paused", "cancelled", "succeeded_empty"}
       [] st = "running" -> {"queued", "retry_scheduled", "pause_requested",
                             "paused", "cancel_requested"} \cup Done
       [] st = "retry_scheduled" -> {"running", "pause_requested", "paused",
                                     "cancel_requested", "cancelled", "failed"}
       [] st = "pause_requested" -> {"paused", "cancel_requested"} \cup Done
       [] st = "paused" -> {"queued", "retry_scheduled", "cancelled"}
       [] st \in {"cancel_requested", "succeeded", "succeeded_empty",
                  "partial_success", "failed"} -> {"cancelled"}
       [] OTHER -> {}]

\* validAgentJobTransition, for the jobs of the bridge
JobTransitions ==
  [st \in JobStatus |->
     CASE st = "queued"  -> {"running", "cancelled", "succeeded", "failed"}
       [] st = "running" -> JobStatus \ {"running"}
       [] st = "retry_scheduled" -> {"queued", "running", "failed", "cancelled",
                                     "dead_letter"}
       [] st = "succeeded" -> {"cancelled"}
       [] st \in {"failed", "dead_letter"} -> {"queued", "cancelled"}
       [] OTHER -> {}]

\* validateProspectAttemptMutation, on the status ("none": a new row)
AttemptTransitions ==
  [st \in AttemptStatus |->
     CASE st = "none"    -> {"claimed"}
       [] st = "claimed" -> {"request_started", "failed"}
       [] st = "request_started" -> {"succeeded", "failed",
                                     "request_outcome_unknown", "cancelled_late"}
       [] st = "request_outcome_unknown" -> {"cancelled_late"}
       [] OTHER -> {}]

Moves(table, a, b) == a = b \/ b \in table[a]

\* validateProspectLeaseMutation: only an active lease changes, and the time
\* of its request is set once.
LeaseStep(a, b) ==
  \/ [a EXCEPT !.attempt = b.attempt] = b
  \/ a.status = "none" /\ b.status = "active"
  \/ a.status = "active" /\ (a.started => b.started)

\* validateProspectCheckpointMutation (the epoch of a checkpoint, which only
\* resuming advances, is not modelled): a completed checkpoint is final,
\* nothing runs backwards, and what is counted belongs to one page or call.
CheckpointStep(a, b) ==
  \/ a = b
  \/ ~a.exists
  \/ /\ ~a.done
     /\ b.no - a.no \in {0, 1} /\ b.pages - a.pages \in {0, 1}
     /\ b.total - a.total \in {0, 1}
     /\ b.accepted >= a.accepted
     /\ a.partial => b.partial
     /\ IF b.no # a.no
        THEN b.pages # a.pages /\ b.total = a.total /\ b.calls = 0 /\ ~b.done
        ELSE /\ b.calls - a.calls = b.total - a.total
             /\ IF b.pages # a.pages THEN b.total = a.total /\ b.done
                ELSE b.accepted = a.accepted

-----------------------------------------------------------------------------
(* Validation of the state, validateProspectExecutionPersistence.          *)

\* No completed checkpoint still has a cursor.
CheckpointsValid ==
  \A s \in Shards :
    /\ ckpt[s].done => ckpt[s].sealed = 0
    /\ ckpt[s].accepted <= ResultLimit /\ ckpt[s].pages <= PageLimit
    /\ ckpt[s].calls <= CallLimit

\* An active lease is one of the current epoch of its run (of the one before,
\* while the run is being cancelled), and run, shard and job are at work; an
\* ended lease has a reason.  (That it is the only one: LeaseExclusive.)
LeaseRowsValid ==
  \A s \in Shards, f \in Fences :
    LET l == lease[s][f]
        r == RunOf[s]
    IN
    /\ l.status = "active" =>
         /\ run[r].epoch = l.runEpoch + (IF run[r].status = "cancel_requested"
                                         THEN 1 ELSE 0)
         /\ run[r].status \in Working /\ shard[s] \in Working
         /\ job[s].status = "running"
         /\ l.reason = "none"
    /\ l.status \in {"released", "expired"} => l.reason # "none"
    /\ l.runEpoch <= run[r].epoch

\* The requests sent for shard s, by the attempts that sent them.
Sent(s) == {n \in CallNos : ledger[s][n].by # 0}

\* Attempts, pages and the aggregates of the checkpoint agree: no call number
\* of a checkpoint is used twice or left out, and every page belongs to an
\* attempt that has succeeded.
CheckpointFactsValid ==
  \A s \in Shards :
    LET now == {n \in Sent(s) : ledger[s][n].no = ckpt[s].no} IN
    /\ {ledger[s][n].by : n \in Sent(s)} = {f \in Fences : lease[s][f].started}
    /\ \A m, n \in Sent(s) : ledger[s][m].by = ledger[s][n].by => m = n
    /\ ckpt[s].total = Cardinality(Sent(s))
    /\ {ledger[s][n].call : n \in now} = 1..ckpt[s].calls
    /\ Cardinality(now) = ckpt[s].calls
    /\ ckpt[s].pages = Cardinality({n \in CallNos : ledger[s][n].pages = 1})
    /\ \A n \in CallNos : ledger[s][n].pages = 1
                            => AnswerLease(s, n).attempt = "succeeded"

-----------------------------------------------------------------------------
(* The commit of a transaction, persistProspectExecutionState.             *)

RunRow(r)   == Moves(RunTransitions, run[r].status, run'[r].status)
ShardRow(s) == Moves(ShardTransitions, shard[s], shard'[s])
OtherRows ==
  /\ \A s \in Shards :
       /\ Moves(JobTransitions, job[s].status, job'[s].status)
       /\ \A f \in Fences :
            /\ LeaseStep(lease[s][f], lease'[s][f])
            /\ Moves(AttemptTransitions, lease[s][f].attempt, lease'[s][f].attempt)
       /\ \A n \in CallNos :
            /\ Moves(Book!LedgerTransitions, ledger[s][n].status, ledger'[s][n].status)
            /\ Moves(Book!DispatchTransitions, ledger[s][n].dispatch,
                     ledger'[s][n].dispatch)
  /\ \A c \in Scopes : position[c] = "exhausted" => position'[c] = "exhausted"

StoreAccepts ==
  /\ \A r \in Runs : RunRow(r)
  /\ \A s \in Shards : ShardRow(s) /\ CheckpointStep(ckpt[s], ckpt'[s])
  /\ OtherRows
  /\ (BridgeValid /\ LeaseExclusive /\ LeaseRowsValid /\ CheckpointsValid
                  /\ CheckpointFactsValid)'

-----------------------------------------------------------------------------
(* Properties.                                                             *)

\* Every kernel step moves every row as its table in the store allows (except
\* for checkpoints, see CheckpointsAdvance): none is refused for a status that
\* skips one, for an ended lease or attempt that is written again, or for an
\* exhausted source position that is moved.  Left out are three rows the store
\* does refuse: the run and the shard of a pause or cancellation that has to
\* wait, asked for while a late answer of an ended shard is unsettled (the
\* operator has to ask again), and the run in RunEndsAccepted.
RowsAccepted ==
  [][/\ \A r \in Runs :
          \/ run'[r].status \in {"pause_requested", "cancel_requested"}
          \/ run[r].status = "queued" /\ run'[r].status \in {"succeeded", "partial_success"}
          \/ RunRow(r)
     /\ \A s \in Shards : shard'[s] = "cancel_requested" \/ ShardRow(s)
     /\ OtherRows]_vars

\* Whoever holds a lease works on a run, a shard and a job that are at work
\* in the lease's own epoch, whatever operators and recoveries did meanwhile:
\* only a cancellation moves the epoch under a lease, and by one.
LeasesValid == LeaseRowsValid

\* A checkpoint's counters are those of its ledger, attempts and pages through
\* every crash, retry, deferral and late answer, so no transaction is rolled
\* back, and no process refuses to start, because of them.
AggregatesValid == CheckpointFactsValid

\* The store refuses a checkpoint that runs backwards, is completed with a
\* cursor left on it or loses its partial mark; no kernel step may ask for it.
CheckpointsAdvance ==
  [][CheckpointsValid' /\ \A s \in Shards : CheckpointStep(ckpt[s], ckpt'[s])]_vars

-----------------------------------------------------------------------------
(* What the store's tables expect of a run that ends, and it does not keep. *)

\* A run ends only as its table allows, whoever claims, settles, recovers or
\* cancels.  (A run that was paused and resumed is queued again although some
\* of its shards have ended; if a claim finds the others' sources exhausted, the
\* run ends from there.)
RunEndsAccepted ==
  [][\A r \in Runs : run'[r].status \in Done => RunRow(r)]_vars
=============================================================================
