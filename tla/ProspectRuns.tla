---------------------------- MODULE ProspectRuns ----------------------------
(***************************************************************************)
(* The run API of the server (prospect-runs.ts, prospect-run-guards.ts):   *)
(* what a user may do to a search run.  It writes the same rows as the     *)
(* execution kernel, in transactions of its own, and knows nothing of      *)
(* leases, checkpoints or the ledger: it therefore moves only runs whose   *)
(* shards are all untouched.  What the MySQL store checks before it        *)
(* commits these transactions is no guard here: StoreStaysValid of         *)
(* ProspectWorker says that it finds nothing to refuse.                    *)
(*                                                                         *)
(* createProspectRun is CreateRun of ProspectKernel.                       *)
(***************************************************************************)
EXTENDS ProspectKernel

\* assertShardState and verifyQueueBridge
Untouched(r) ==
  /\ \A s \in ShardsOf(r) : shard[s] = run[r].status
  /\ BridgeOK(r)

\* Mutant of MoveAll: the shards are forgotten.
MoveRunOnly(r, status) ==
  /\ run' = [run EXCEPT ![r].status = status]
  /\ shard' = shard

\* The run and all its shards get the same status; the jobs stay as they are.
MoveAll(r, status) ==
  /\ run' = [run EXCEPT ![r].status = status]
  /\ shard' = [s \in Shards |-> IF s \in ShardsOf(r) THEN status ELSE shard[s]]

ApiPause(r) ==
  /\ run[r].status = "queued"
  /\ Untouched(r)
  /\ MoveAll(r, "paused")
  /\ UNCHANGED <<job, ckpt, lease, fence, ledger, calls, window, position,
                 kernelEpoch>>

\* Refused while another run over the same search scope is active.
ApiResume(r) ==
  /\ run[r].status = "paused"
  /\ Untouched(r)
  /\ \A q \in Runs \ {r} :
       (\E s \in ShardsOf(q), t \in ShardsOf(r) : ScopeOf[s] = ScopeOf[t])
         => run[q].status \notin Active
  /\ MoveAll(r, "queued")
  /\ UNCHANGED <<job, ckpt, lease, fence, ledger, calls, window, position,
                 kernelEpoch>>

\* cancelProspectRunQueueBridge demands that every job is still queued.
ApiCancel(r) ==
  /\ run[r].status \in {"queued", "paused"}
  /\ Untouched(r)
  /\ run[r].parent = "queued"
  /\ \A s \in ShardsOf(r) : job[s].status = "queued"
  /\ run' = [run EXCEPT ![r] = [@ EXCEPT !.status = "cancelled",
                                         !.parent = "cancelled"]]
  /\ shard' = [s \in Shards |-> IF s \in ShardsOf(r) THEN "cancelled" ELSE shard[s]]
  /\ job' = [s \in Shards |-> IF s \in ShardsOf(r) THEN CancelledJob(job[s])
                              ELSE job[s]]
  /\ UNCHANGED <<ckpt, lease, fence, ledger, calls, window, position, kernelEpoch>>

\* pauseQueuedProspectRunsForCampaign, for the runs C of a campaign: the
\* queued shards of its queued runs are paused, all others stay.
PauseCampaign(C) ==
  LET queued == {r \in C : run[r].status = "queued"} IN
  /\ queued # {}
  /\ \A r \in queued : BridgeOK(r)
  /\ run' = [r \in Runs |-> IF r \in queued THEN [run[r] EXCEPT !.status = "paused"]
                            ELSE run[r]]
  /\ shard' = [s \in Shards |-> IF RunOf[s] \in queued /\ shard[s] = "queued"
                                THEN "paused" ELSE shard[s]]
  /\ UNCHANGED <<job, ckpt, lease, fence, ledger, calls, window, position,
                 kernelEpoch>>

UserStep ==
  \/ \E r \in Runs : ApiPause(r) \/ ApiResume(r) \/ ApiCancel(r)
  \/ \E C \in SUBSET Runs : PauseCampaign(C)
=============================================================================
