------------------------- MODULE ProspectStoreProofs -------------------------
(***************************************************************************)
(* Theorems about the rows of the execution kernel, for every number of    *)
(* runs, sources, calls, pages, leases and kernel starts: whoever holds a  *)
(* lease is at work in the epoch of the lease, ledger and lease tell the   *)
(* same story, and so the kernel keeps what the request ledger promises.   *)
(***************************************************************************)
EXTENDS ProspectStore, ProspectKernelProofs

-----------------------------------------------------------------------------
(* The inductive invariant: LeaseRowsValid, and the rows of runs and of    *)
(* the ledger below.                                                       *)

\* What a run's status says of its epoch and of its shards.
RunRows ==
  /\ \A r \in Runs : /\ run[r].status = "none" => run[r].epoch = 0
                     /\ run[r].status \in Done => AllDone(r, shard)
  /\ \A s \in Shards : shard[s] = "cancel_requested"
                         => run[RunOf[s]].status = "cancel_requested"

\* Of an entry that has not been sent nothing is known.
Unsent(s, n) ==
  LET e == ledger[s][n] IN
  e.status \in {"none", "prepared"} =>
    /\ e.by = 0 /\ n > ckpt[s].total
    /\ e.dispatch = "none" /\ e.kind = "none" /\ e.evidence = 0 /\ e.pages = 0

\* An entry that has been sent knows the lease that sent it, and is the last
\* one sent if that lease is the last one.
SentBy(s, n) ==
  LET e == ledger[s][n] IN
  /\ e.by <= fence[s]
  /\ e.by # 0 => /\ lease[s][e.by].started
                 /\ n <= ckpt[s].total
                 /\ e.by = fence[s] => n = ckpt[s].total
  /\ e.dispatch = "started" => e.status = "dispatch_started"
  /\ e.dispatch = "response_received"
       => e.status \in {"response_received", "settled", "cancelled_late"}
  /\ e.status # "dispatch_confirmed"

\* An entry that is open was sent by the last lease, and neither booked nor
\* closed; its lease is held until its outcome is stored or given up.
Open(s, n) ==
  LET e == ledger[s][n] IN
  /\ e.status \in {"dispatch_started", "outcome_unknown", "response_received"} =>
       e.by # 0 /\ e.by = fence[s] /\ e.kind = "none" /\ e.evidence = 0 /\ e.pages = 0
  /\ e.status = "dispatch_started" =>
       e.dispatch = "started" /\ Held(s) /\ Current(s).attempt = "request_started"
  /\ e.status = "outcome_unknown" =>
       /\ e.dispatch = "outcome_unknown" /\ shard[s] \in Done
       /\ AnswerLease(s, n).attempt = "request_outcome_unknown"
  /\ e.status = "response_received" =>
       /\ Settleable(s, n) /\ ~Held(s)
       /\ shard[s] \in Working \cup Done
       /\ AnswerLease(s, n).attempt = "request_outcome_unknown"
            => shard[s] \in Done \cup {"cancel_requested"}
  /\ e.status = "cancelled_late" => n = ckpt[s].total /\ shard[s] \in Done

LedgerRow(s, n) == Unsent(s, n) /\ SentBy(s, n) /\ Open(s, n)
LedgerRows == \A s \in Shards, n \in CallNos : LedgerRow(s, n)

\* Who holds a lease has a checkpoint, and without one nothing was sent.
CheckpointRows ==
  \A s \in Shards : /\ Held(s) => ckpt[s].exists
                    /\ ~ckpt[s].exists => ckpt[s].total = 0

StoreInv == KernelInv /\ LeaseRowsValid /\ RunRows /\ LedgerRows /\ CheckpointRows

-----------------------------------------------------------------------------
(* Leases and what finishing does.                                         *)

\* An active lease is the one its shard holds.
LEMMA ActiveIsHeld ==
  ASSUME TypeOK, LeaseExclusive, NEW s \in Shards, NEW f \in Fences,
         lease[s][f].status = "active"
  PROVE  f = fence[s] /\ Held(s)
<1>1. f = fence[s]
  BY DEF LeaseExclusive
<1> QED
  BY <1>1, KernelConstants DEF Held, Current, Fences

\* A run has one shard that holds a lease.
LEMMA OneHeld ==
  ASSUME TypeOK, LeaseExclusive, NEW s \in Shards, NEW t \in Shards,
         Held(s), Held(t), RunOf[s] = RunOf[t]
  PROVE  s = t
<1>1. fence[s] \in Fences /\ fence[t] \in Fences
  BY CurrentType
<1> QED
  BY <1>1 DEF LeaseExclusive, Held, Current

\* Who holds a lease is at work.
LEMMA HeldAtWork ==
  ASSUME TypeOK, LeaseRowsValid, NEW s \in Shards, Held(s)
  PROVE  /\ fence[s] \in Fences /\ fence[s] # 0
         /\ Current(s) \in Lease /\ Current(s).status = "active"
         /\ Current(s).reason = "none"
         /\ run[RunOf[s]].status \in Working /\ shard[s] \in Working
         /\ job[s].status = "running"
         /\ shard[s] \notin Done /\ run[RunOf[s]].status \notin Done
<1>1. fence[s] \in Fences /\ Current(s) \in Lease
  BY CurrentType
<1>2. Current(s).status = "active" /\ fence[s] # 0
  BY DEF Held
<1>3. /\ Current(s).reason = "none"
      /\ run[RunOf[s]].status \in Working /\ shard[s] \in Working
      /\ job[s].status = "running"
  BY <1>1, <1>2 DEF LeaseRowsValid, Current
<1> QED
  BY <1>1, <1>2, <1>3 DEF Working, Done

\* Finishing shards changes a shard only from one end to another.
LEMMA FinishShardsEffect ==
  ASSUME NEW R, NEW sh, NEW t \in Shards
  PROVE  \/ FinishShards(R, sh)[t] = sh[t]
         \/ sh[t] \in Done /\ FinishShards(R, sh)[t] = "cancelled"
BY DEF FinishShards, AllDone, ShardsOf

\* Finishing a run changes it only when all its shards have ended.
LEMMA FinishRunEffect ==
  ASSUME TypeOK, NEW r \in Runs, NEW sh, NEW ck
  PROVE  /\ FinishRun(r, sh, ck).epoch = run[r].epoch
         /\ \/ FinishRun(r, sh, ck) = run[r]
            \/ AllDone(r, sh) /\ FinishRun(r, sh, ck).status \in Done
<1>1. FinalStatus(r, sh, ck) \in Done
  BY DEF FinalStatus, Done
<1>2. run[r] \in RunRecord
  BY DEF TypeOK
<1> DEFINE st == FinalStatus(r, sh, ck)
           rec == [run[r] EXCEPT !.status = st, !.parent = ParentOf(st)]
<1>3. rec.status = st /\ rec.epoch = run[r].epoch
  BY <1>2 DEF RunRecord
<1>4. FinishRun(r, sh, ck) = IF AllDone(r, sh) THEN rec ELSE run[r]
  BY DEF FinishRun
<1> HIDE DEF rec
<1> QED
  BY <1>1, <1>3, <1>4

\* A run comes to rest only when no lease of it is active.
LEMMA RestEffect ==
  ASSUME NEW rec \in RunRecord, NEW r, NEW sh, NEW ls
  PROVE  /\ Rest(rec, r, sh, ls).epoch = rec.epoch
         /\ \/ Rest(rec, r, sh, ls) = rec
            \/ /\ rec.status = "pause_requested" /\ NoneHeld(r, ls)
               /\ Rest(rec, r, sh, ls).status = "paused"
<1>1. /\ [rec EXCEPT !.status = "paused"].epoch = rec.epoch
      /\ [rec EXCEPT !.status = "paused"].status = "paused"
  BY DEF RunRecord
<1> QED
  BY <1>1 DEF Rest

\* Finishing and coming to rest leave a run with a shard that holds a lease
\* and has not ended as it is.
LEMMA UnfinishedStays ==
  ASSUME TypeOK, NEW t \in Shards, NEW f \in Fences, NEW sh, NEW ck, NEW ls,
         ls[t][f].status = "active", sh[t] \notin Done
  PROVE  /\ FinishRun(RunOf[t], sh, ck) = run[RunOf[t]]
         /\ Rest(FinishRun(RunOf[t], sh, ck), RunOf[t], sh, ls) = run[RunOf[t]]
         /\ Rest(run[RunOf[t]], RunOf[t], sh, ls) = run[RunOf[t]]
<1>1. t \in ShardsOf(RunOf[t])
  BY DEF ShardsOf
<1>2. ~NoneHeld(RunOf[t], ls) /\ ~AllDone(RunOf[t], sh)
  BY <1>1 DEF NoneHeld, AllDone
<1> QED
  BY <1>2 DEF FinishRun, Rest

\* What finishing and coming to rest leave of a run: its epoch, and its
\* status or an end or rest.
LEMMA RunAfter ==
  ASSUME TypeOK, NEW r \in Runs, NEW sh, NEW ck, NEW ls
  PROVE  LET one == FinishRun(r, sh, ck)
             all == {one, Rest(one, r, sh, ls), Rest(run[r], r, sh, ls)} IN
         \A rec \in all : /\ rec.epoch = run[r].epoch
                          /\ \/ rec = run[r]
                             \/ AllDone(r, sh) /\ rec.status \in Done
                             \/ /\ run[r].status = "pause_requested"
                                /\ rec.status = "paused"
<1> DEFINE one == FinishRun(r, sh, ck)
<1>1. one \in RunRecord /\ run[r] \in RunRecord
  BY FinishRunType DEF TypeOK
<1>2. /\ one.epoch = run[r].epoch
      /\ \/ one = run[r]
         \/ AllDone(r, sh) /\ one.status \in Done
  BY FinishRunEffect
<1>3. "pause_requested" \notin Done
  BY DEF Done
<1> HIDE DEF one
<1>4. /\ Rest(one, r, sh, ls).epoch = one.epoch
      /\ \/ Rest(one, r, sh, ls) = one
         \/ one.status = "pause_requested" /\ Rest(one, r, sh, ls).status = "paused"
  BY <1>1, RestEffect
<1>5. /\ Rest(run[r], r, sh, ls).epoch = run[r].epoch
      /\ \/ Rest(run[r], r, sh, ls) = run[r]
         \/ run[r].status = "pause_requested" /\ Rest(run[r], r, sh, ls).status = "paused"
  BY <1>1, RestEffect
<1> DEFINE Fine(rec) == /\ rec.epoch = run[r].epoch
                        /\ \/ rec = run[r]
                           \/ AllDone(r, sh) /\ rec.status \in Done
                           \/ run[r].status = "pause_requested" /\ rec.status = "paused"
<1>6. Fine(one)
  BY <1>2
<1>7. Fine(Rest(one, r, sh, ls))
  BY <1>2, <1>3, <1>4
<1>8. Fine(Rest(run[r], r, sh, ls))
  BY <1>5
<1> QED
  BY <1>6, <1>7, <1>8 DEF one

-----------------------------------------------------------------------------
(* Leases stay with those who work.                                        *)

\* Leases only end, each with a reason, and keep their epoch.
LeasesFall ==
  \A t \in Shards, f \in Fences :
    /\ lease'[t][f].runEpoch = lease[t][f].runEpoch
    /\ lease'[t][f].status = "active" =>
         lease[t][f].status = "active" /\ lease'[t][f].reason = lease[t][f].reason
    /\ lease'[t][f].status \in {"released", "expired"} => lease'[t][f].reason # "none"

\* No run goes back to an earlier epoch.
EpochsRise == \A r \in Runs : run'[r].epoch >= run[r].epoch

\* Run, shard and job of a shard are as they were.
StillAtWork(t) ==
  /\ run'[RunOf[t]].status = run[RunOf[t]].status
  /\ run'[RunOf[t]].epoch = run[RunOf[t]].epoch
  /\ shard'[t] = shard[t]
  /\ job'[t].status = job[t].status

\* The operators stop the run; the shard waits for the request that is out.
StopsWork(t) ==
  /\ run[RunOf[t]].status # "cancel_requested"
  /\ \/ /\ run'[RunOf[t]].status = "pause_requested"
        /\ run'[RunOf[t]].epoch = run[RunOf[t]].epoch
     \/ /\ run'[RunOf[t]].status = "cancel_requested"
        /\ run'[RunOf[t]].epoch = run[RunOf[t]].epoch + 1
  /\ shard'[t] \in Working
  /\ job'[t].status = job[t].status

\* A step after which only leases are active that were so before, and whose
\* shards work on, or are all stopped in one of the two ways of the operators.
LEMMA LeaseRowsKept ==
  ASSUME TypeOK, TypeOK', LeaseExclusive, LeaseRowsValid, LeasesFall, EpochsRise,
         \A t \in Shards, f \in Fences :
           lease'[t][f].status = "active" /\ f = fence[t] /\ Held(t)
             => StillAtWork(t) \/ StopsWork(t)
  PROVE  LeaseRowsValid'
<1> SUFFICES ASSUME NEW t \in Shards, NEW f \in Fences
             PROVE  /\ lease'[t][f].status = "active" =>
                         /\ run'[RunOf[t]].epoch = lease'[t][f].runEpoch +
                              (IF run'[RunOf[t]].status = "cancel_requested" THEN 1 ELSE 0)
                         /\ run'[RunOf[t]].status \in Working /\ shard'[t] \in Working
                         /\ job'[t].status = "running"
                         /\ lease'[t][f].reason = "none"
                    /\ lease'[t][f].status \in {"released", "expired"}
                         => lease'[t][f].reason # "none"
                    /\ lease'[t][f].runEpoch <= run'[RunOf[t]].epoch
  BY DEF LeaseRowsValid
<1>1. RunOf[t] \in Runs
  BY KernelConstants
<1>2. /\ run[RunOf[t]].epoch \in Nat /\ run'[RunOf[t]].epoch \in Nat
      /\ lease[t][f].runEpoch \in Nat
  BY <1>1 DEF TypeOK, RunRecord, Lease
<1>3. lease'[t][f].runEpoch <= run'[RunOf[t]].epoch
  BY <1>1, <1>2 DEF LeasesFall, EpochsRise, LeaseRowsValid
<1>4. CASE lease'[t][f].status = "active"
  <2>1. lease[t][f].status = "active" /\ lease'[t][f].reason = lease[t][f].reason
    BY <1>4 DEF LeasesFall
  <2>2. StillAtWork(t) \/ StopsWork(t)
    BY <1>4, <2>1, ActiveIsHeld
  <2>3. lease'[t][f].runEpoch = lease[t][f].runEpoch
    BY DEF LeasesFall
  <2>4. CASE StillAtWork(t)
    BY <1>3, <1>4, <2>1, <2>3, <2>4 DEF StillAtWork, LeaseRowsValid
  <2>5. CASE StopsWork(t)
    <3>1. run[RunOf[t]].epoch = lease[t][f].runEpoch
      BY <2>1, <2>5, <1>2 DEF StopsWork, LeaseRowsValid
    <3> QED
      BY <1>2, <1>3, <1>4, <2>1, <2>3, <2>5, <3>1 DEF StopsWork, LeaseRowsValid, Working
  <2> QED
    BY <2>2, <2>4, <2>5
<1> QED
  BY <1>3, <1>4 DEF LeasesFall

\* A step that changes one lease of one shard, and does not make it active.
LEMMA OneLeaseFalls ==
  ASSUME TypeOK, NEW s \in Shards, NEW f, NEW l, LeaseRowsValid,
         lease' = [lease EXCEPT ![s][f] = l],
         f \in Fences => /\ l.runEpoch = lease[s][f].runEpoch
                         /\ l.status = "active" => lease[s][f].status = "active"
                                                   /\ l.reason = lease[s][f].reason
                         /\ l.status \in {"released", "expired"} => l.reason # "none"
  PROVE  LeasesFall
<1> SUFFICES ASSUME NEW t \in Shards, NEW g \in Fences
             PROVE  /\ lease'[t][g].runEpoch = lease[t][g].runEpoch
                    /\ lease'[t][g].status = "active" =>
                         lease[t][g].status = "active" /\ lease'[t][g].reason = lease[t][g].reason
                    /\ lease'[t][g].status \in {"released", "expired"}
                         => lease'[t][g].reason # "none"
  BY DEF LeasesFall
<1>1. \/ t = s /\ g = f /\ lease'[t][g] = l
      \/ lease'[t][g] = lease[t][g]
  BY DEF TypeOK
<1> QED
  BY <1>1 DEF LeaseRowsValid

\* Leases that are not touched do not rise.
LEMMA LeasesUntouched ==
  ASSUME LeaseRowsValid, lease' = lease
  PROVE  LeasesFall
BY DEF LeaseRowsValid, LeasesFall

\* Ending a lease lets it fall.
LEMMA EndLeaseFalls ==
  ASSUME TypeOK, LeaseRowsValid, NEW s \in Shards, Held(s),
         NEW st \in {"released", "expired"}, NEW at, NEW why, why # "none",
         lease' = EndLease(s, st, at, why)
  PROVE  /\ LeasesFall
         /\ lease'[s][fence[s]].status # "active"
         /\ \A t \in Shards : t # s => lease'[t] = lease[t]
<1> DEFINE l == [lease[s][fence[s]] EXCEPT !.status = st, !.attempt = at,
                                           !.reason = why, !.lapsed = FALSE]
<1>1. lease[s][fence[s]] \in Lease /\ fence[s] \in Fences
  BY CurrentType DEF Current
<1>2. l.status = st /\ l.reason = why /\ l.runEpoch = lease[s][fence[s]].runEpoch
  BY <1>1 DEF Lease
<1>3. lease' = [lease EXCEPT ![s][fence[s]] = l]
  BY DEF EndLease
<1> HIDE DEF l
<1>4. l.status # "active" /\ l.reason # "none"
  BY <1>2
<1>5. LeasesFall
  <2>1. \A t \in Shards, g \in Fences : \/ t = s /\ g = fence[s] /\ lease'[t][g] = l
                                       \/ lease'[t][g] = lease[t][g]
    BY <1>3 DEF TypeOK
  <2> QED
    BY <1>2, <1>4, <2>1 DEF LeasesFall, LeaseRowsValid
<1> QED
  BY <1>1, <1>3, <1>4, <1>5 DEF TypeOK

\* Giving an unused lease back lets it fall, and leaves the busy ones.
LEMMA GiveBackFalls ==
  ASSUME TypeOK, LeaseRowsValid, NEW r \in Runs, NEW why, why # "none",
         lease' = GiveBack(r, why)
  PROVE  /\ LeasesFall
         /\ \A s \in Shards : s \notin HeldIn(r) \ Busy(r) => lease'[s] = lease[s]
         /\ \A s \in HeldIn(r) \ Busy(r) :
              /\ lease'[s][fence[s]].status # "active"
              /\ lease'[s][fence[s]].started = lease[s][fence[s]].started
              /\ \A f \in Fences : f # fence[s] => lease'[s][f] = lease[s][f]
<1> DEFINE l(s) == [lease[s][fence[s]] EXCEPT !.status = "released", !.attempt = "failed",
                                              !.reason = why, !.lapsed = FALSE]
<1>1. ASSUME NEW s \in Shards, s \notin HeldIn(r) \ Busy(r)
      PROVE  lease'[s] = lease[s]
  BY <1>1 DEF GiveBack
<1>2. ASSUME NEW s \in HeldIn(r) \ Busy(r)
      PROVE  /\ s \in Shards /\ fence[s] \in Fences
             /\ l(s).status = "released" /\ l(s).reason = why
             /\ l(s).runEpoch = lease[s][fence[s]].runEpoch
             /\ l(s).started = lease[s][fence[s]].started
             /\ lease'[s] = [lease[s] EXCEPT ![fence[s]] = l(s)]
  <2>1. s \in Shards /\ Held(s)
    BY DEF HeldIn, ShardsOf
  <2>2. fence[s] \in Fences /\ lease[s][fence[s]] \in Lease
    BY <2>1, CurrentType DEF Current
  <2>3. lease'[s] = [lease[s] EXCEPT ![fence[s]] = l(s)]
    BY <2>1 DEF GiveBack
  <2>4. /\ l(s).status = "released" /\ l(s).reason = why
        /\ l(s).runEpoch = lease[s][fence[s]].runEpoch
        /\ l(s).started = lease[s][fence[s]].started
    BY <2>2 DEF Lease
  <2> QED
    BY <2>1, <2>2, <2>3, <2>4
<1> HIDE DEF l
<1>3. ASSUME NEW s \in HeldIn(r) \ Busy(r)
      PROVE  /\ lease'[s][fence[s]] = l(s)
             /\ \A f \in Fences : f # fence[s] => lease'[s][f] = lease[s][f]
  <2>1. /\ s \in Shards /\ fence[s] \in Fences
        /\ lease'[s] = [lease[s] EXCEPT ![fence[s]] = l(s)]
    BY <1>2
  <2>2. lease[s] \in [Fences -> Lease]
    BY <2>1 DEF TypeOK
  <2> QED
    BY <2>1, <2>2
<1>4. LeasesFall
  <2> SUFFICES ASSUME NEW t \in Shards, NEW f \in Fences
               PROVE  /\ lease'[t][f].runEpoch = lease[t][f].runEpoch
                      /\ lease'[t][f].status = "active" =>
                           /\ lease[t][f].status = "active"
                           /\ lease'[t][f].reason = lease[t][f].reason
                      /\ lease'[t][f].status \in {"released", "expired"}
                           => lease'[t][f].reason # "none"
    BY DEF LeasesFall
  <2>1. \/ lease'[t][f] = lease[t][f]
        \/ t \in HeldIn(r) \ Busy(r) /\ f = fence[t] /\ lease'[t][f] = l(t)
    BY <1>1, <1>3
  <2> QED
    BY <2>1, <1>2 DEF LeaseRowsValid
<1> QED
  BY <1>1, <1>2, <1>3, <1>4

\* Recovering leases lets them fall.
LEMMA RecoverFalls ==
  ASSUME TypeOK, LeaseRowsValid, NEW Gone \in SUBSET {s \in Shards : Held(s)},
         RecoverLeases(Gone)
  PROVE  /\ LeasesFall
         /\ \A s \in Shards : s \notin Gone => lease'[s] = lease[s]
         /\ \A s \in Gone : /\ lease'[s][fence[s]] = RecoveredLease(s)
                            /\ RecoveredLease(s).status = "expired"
                            /\ RecoveredLease(s).started = Current(s).started
                            /\ \A f \in Fences : f # fence[s] => lease'[s][f] = lease[s][f]
<1>1. ASSUME NEW s \in Gone
      PROVE  /\ RecoveredLease(s).status = "expired"
             /\ RecoveredLease(s).started = Current(s).started
             /\ RecoveredLease(s).runEpoch = Current(s).runEpoch
             /\ RecoveredLease(s).reason # "none"
  <2>1. Current(s) \in Lease
    BY CurrentType
  <2>2. UnknownReason(s) # "none"
    BY DEF UnknownReason
  <2> QED
    BY <2>1, <2>2 DEF RecoveredLease, Lease
<1>2. ASSUME NEW s \in Shards
      PROVE  lease'[s] = IF s \in Gone THEN [lease[s] EXCEPT ![fence[s]] = RecoveredLease(s)]
                         ELSE lease[s]
  BY DEF RecoverLeases
<1>3. ASSUME NEW s \in Gone
      PROVE  /\ lease'[s][fence[s]] = RecoveredLease(s)
             /\ \A f \in Fences : f # fence[s] => lease'[s][f] = lease[s][f]
  BY <1>2, CurrentType DEF TypeOK
<1>4. LeasesFall
  <2> SUFFICES ASSUME NEW t \in Shards, NEW f \in Fences
               PROVE  /\ lease'[t][f].runEpoch = lease[t][f].runEpoch
                      /\ lease'[t][f].status = "active" =>
                           /\ lease[t][f].status = "active"
                           /\ lease'[t][f].reason = lease[t][f].reason
                      /\ lease'[t][f].status \in {"released", "expired"}
                           => lease'[t][f].reason # "none"
    BY DEF LeasesFall
  <2>1. \/ lease'[t][f] = lease[t][f]
        \/ t \in Gone /\ f = fence[t] /\ lease'[t][f] = RecoveredLease(t)
    BY <1>2, <1>3
  <2> QED
    BY <2>1, <1>1 DEF LeaseRowsValid, Current
<1> QED
  BY <1>1, <1>2, <1>3, <1>4

\* Closing an entry moves no lease, only the attempt of the one that sent it.
LEMMA CloseFalls ==
  ASSUME TypeOK, LeaseRowsValid, NEW s \in Shards, NEW n \in CallNos, NEW kind, NEW at,
         Close(s, n, kind, at)
  PROVE  /\ LeasesFall
         /\ \A t \in Shards, f \in Fences :
              /\ lease'[t][f].status = lease[t][f].status
              /\ lease'[t][f].started = lease[t][f].started
              /\ lease'[t][f].reason = lease[t][f].reason
              /\ t # s \/ f # ledger[s][n].by => lease'[t][f] = lease[t][f]
<1> DEFINE g == ledger[s][n].by
           l == [lease[s][g] EXCEPT !.attempt = at]
<1>1. ASSUME NEW x \in Lease
      PROVE  /\ [x EXCEPT !.attempt = at].status = x.status
             /\ [x EXCEPT !.attempt = at].started = x.started
             /\ [x EXCEPT !.attempt = at].reason = x.reason
             /\ [x EXCEPT !.attempt = at].runEpoch = x.runEpoch
  BY DEF Lease
<1>2. g \in Fences => /\ l.status = lease[s][g].status
                      /\ l.started = lease[s][g].started
                      /\ l.reason = lease[s][g].reason
                      /\ l.runEpoch = lease[s][g].runEpoch
  BY <1>1 DEF TypeOK
<1>3. lease' = [lease EXCEPT ![s][g] = l]
  BY DEF Close
<1> HIDE DEF g, l
<1>4. g \in Fences => (l.status \in {"released", "expired"} => l.reason # "none")
  BY <1>2 DEF LeaseRowsValid
<1>5. LeasesFall
  BY <1>2, <1>3, <1>4, OneLeaseFalls
<1>6. ASSUME NEW t \in Shards, NEW f \in Fences
      PROVE  \/ t = s /\ f = g /\ lease'[t][f] = l
             \/ lease'[t][f] = lease[t][f] /\ (t # s \/ f # g)
  BY <1>3 DEF TypeOK
<1> QED
  BY <1>2, <1>5, <1>6 DEF g

\* Stopping a run for a pause or for good: only a shard whose request is out
\* keeps its lease, and it waits at work.
LEMMA OperatorsKeepLeases ==
  ASSUME StoreInv, TypeOK', NEW r \in Runs, RequestPause(r) \/ RequestCancel(r)
  PROVE  LeaseRowsValid'
<1> USE DEF StoreInv, KernelInv
<1>1. \E w : w # "none" /\ lease' = GiveBack(r, w)
  BY DEF RequestPause, RequestCancel
<1>2. /\ LeasesFall
      /\ \A s \in HeldIn(r) \ Busy(r) : lease'[s][fence[s]].status # "active"
  BY <1>1, GiveBackFalls
<1>3. run[r] \in RunRecord
  BY DEF TypeOK
<1>4. /\ \A q \in Runs \ {r} : run'[q] = run[q]
      /\ run'[r].epoch \in {run[r].epoch, run[r].epoch + 1}
      /\ run[r].status # "cancel_requested"
      /\ Busy(r) # {} => \/ RequestPause(r) /\ run'[r].status = "pause_requested"
                            /\ run'[r].epoch = run[r].epoch
                         \/ RequestCancel(r) /\ run'[r].status = "cancel_requested"
                            /\ run'[r].epoch = run[r].epoch + 1
  <2>1. CASE RequestPause(r)
    <3>1. run' = [run EXCEPT ![r] = [run[r] EXCEPT !.status =
                    IF Busy(r) = {} THEN "paused" ELSE "pause_requested"]]
      BY <2>1 DEF RequestPause, TypeOK
    <3> QED
      BY <2>1, <3>1, <1>3 DEF RequestPause, TypeOK, RunRecord
  <2>2. CASE RequestCancel(r)
    <3> DEFINE rec == IF Busy(r) = {}
                      THEN [status |-> "cancelled", epoch |-> run[r].epoch + 1,
                            parent |-> "cancelled"]
                      ELSE [run[r] EXCEPT !.status = "cancel_requested", !.epoch = @ + 1]
    <3>1. run' = [run EXCEPT ![r] = rec]
      BY <2>2 DEF RequestCancel
    <3>2. /\ rec.epoch = run[r].epoch + 1
          /\ Busy(r) # {} => rec.status = "cancel_requested"
      BY <1>3 DEF RunRecord
    <3> HIDE DEF rec
    <3> QED
      BY <2>2, <3>1, <3>2 DEF RequestCancel, TypeOK
  <2> QED
    BY <2>1, <2>2
<1>5. EpochsRise
  BY <1>3, <1>4 DEF EpochsRise, TypeOK, RunRecord
<1>6. ASSUME NEW t \in Shards, lease'[t][fence[t]].status = "active", Held(t)
      PROVE  StillAtWork(t) \/ StopsWork(t)
  <2>1. CASE RunOf[t] # r
    <3>1. t \notin ShardsOf(r) /\ t \notin HeldIn(r)
      BY <2>1 DEF ShardsOf, HeldIn
    <3>2. shard'[t] = shard[t] /\ job'[t] = job[t]
      BY <3>1 DEF RequestPause, RequestCancel
    <3> QED
      BY <2>1, <3>2, <1>4, KernelConstants DEF StillAtWork
  <2>2. CASE RunOf[t] = r
    <3>1. t \in ShardsOf(r) /\ t \in HeldIn(r) /\ t \in Busy(r)
      BY <1>2, <1>6, <2>2 DEF ShardsOf, HeldIn
    <3>2. shard[t] \notin Done
      BY <1>6, HeldAtWork
    <3>3. shard'[t] \in Working /\ job'[t] = job[t]
      BY <3>1, <3>2 DEF RequestPause, RequestCancel, Working
    <3> QED
      BY <1>4, <2>2, <3>1, <3>3 DEF StopsWork
  <2> QED
    BY <2>1, <2>2
<1> QED
  BY <1>2, <1>5, <1>6, LeaseRowsKept

\* Recovering leases: the run of a lease that goes on has lost none.
LEMMA RecoverKeepsLeases ==
  ASSUME StoreInv, TypeOK', NEW Gone \in SUBSET {s \in Shards : Held(s)},
         RecoverLeases(Gone)
  PROVE  LeaseRowsValid'
<1> USE DEF StoreInv, KernelInv
<1> DEFINE lost     == {s \in Gone : Current(s).started /\ ~Answered(s)}
           unused   == {s \in Gone : ~Current(s).started}
           caught   == {s \in unused : CancelCaught(s)}
           finished == {RunOf[s] : s \in lost \cup caught}
           resting  == {RunOf[s] : s \in {t \in lost \cup unused : ~CancelCaught(t)}}
           sh == [s \in Shards |->
                    IF s \in lost THEN UnknownShard(s)
                    ELSE IF s \in caught THEN "cancelled"
                    ELSE IF s \notin unused THEN shard[s]
                    ELSE IF run[RunOf[s]].status = "pause_requested" THEN "paused"
                    ELSE "queued"]
<1>1. /\ run' = [r \in Runs |->
           LET rec == IF r \in finished THEN FinishRun(r, sh, ckpt) ELSE run[r]
           IN  IF r \in resting THEN Rest(rec, r, sh, lease') ELSE rec]
      /\ shard' = FinishShards(finished, sh)
      /\ job' = [s \in Shards |-> IF s \in lost THEN UnknownJob(s)
                                  ELSE IF s \in caught THEN CancelledJob(job[s])
                                  ELSE IF s \in unused THEN QueuedJob
                                  ELSE job[s]]
  BY DEF RecoverLeases
<1>2. /\ LeasesFall
      /\ \A s \in Gone : lease'[s][fence[s]].status # "active"
  BY RecoverFalls
<1>3. \A r \in finished \cup resting : \E s \in Gone : RunOf[s] = r
  OBVIOUS
<1>4. lost \subseteq Gone /\ unused \subseteq Gone /\ caught \subseteq Gone
  OBVIOUS
<1> HIDE DEF finished, resting, lost, unused, caught
<1>5. EpochsRise
  <2> SUFFICES ASSUME NEW r \in Runs PROVE run'[r].epoch >= run[r].epoch
    BY DEF EpochsRise
  <2>0. run'[r] = LET rec == IF r \in finished THEN FinishRun(r, sh, ckpt) ELSE run[r]
                  IN  IF r \in resting THEN Rest(rec, r, sh, lease') ELSE rec
    BY <1>1
  <2> HIDE DEF sh
  <2>1. run'[r].epoch = run[r].epoch
    BY <2>0, RunAfter
  <2> QED
    BY <2>1 DEF TypeOK, RunRecord
<1>6. ASSUME NEW t \in Shards, lease'[t][fence[t]].status = "active", Held(t)
      PROVE  StillAtWork(t)
  <2>1. t \notin Gone
    BY <1>2, <1>6
  <2>2. RunOf[t] \notin finished /\ RunOf[t] \notin resting
    BY <1>3, <1>6, <2>1, OneHeld
  <2>3. sh[t] = shard[t] /\ job'[t] = job[t]
    BY <1>1, <1>4, <2>1
  <2>4. shard'[t] = shard[t]
    BY <1>1, <2>2, <2>3 DEF FinishShards
  <2>5. run'[RunOf[t]] = run[RunOf[t]]
    BY <1>1, <2>2, KernelConstants
  <2> QED
    BY <2>3, <2>4, <2>5 DEF StillAtWork
<1> QED
  BY <1>2, <1>5, <1>6, LeaseRowsKept

-----------------------------------------------------------------------------
(* A shard ends, or goes back to wait.                                     *)

\* Shard s ends, and the run with its last one.
Ends(s) ==
  \E st \in Done : \E ck :
    LET r  == RunOf[s]
        sh == [shard EXCEPT ![s] = st]
    IN
    /\ shard' = FinishShards({r}, sh)
    /\ \E rec \in {FinishRun(r, sh, ck), Rest(FinishRun(r, sh, ck), r, sh, lease')} :
         run' = [run EXCEPT ![r] = rec]

\* Shard s goes back to wait, and the run may come to rest.
GoesBack(s) ==
  /\ run[RunOf[s]].status \in {"running", "pause_requested"}
  /\ \E st \in {"queued", "retry_scheduled", "paused"} :
       LET sh == [shard EXCEPT ![s] = st] IN
       /\ shard' = sh
       /\ run' = [run EXCEPT ![RunOf[s]] = Rest(run[RunOf[s]], RunOf[s], sh, lease')]

\* What the two leave of the runs and of the other shards.
OthersStay(s) ==
  /\ EpochsRise
  /\ \A t \in Shards \ {s} :
       \/ shard'[t] = shard[t]
       \/ shard[t] \in Done /\ shard'[t] \in Done
  /\ \A t \in Shards \ {s} :
       lease'[t][fence[t]].status = "active" /\ Held(t)
         => run'[RunOf[t]] = run[RunOf[t]] /\ shard'[t] = shard[t]

\* A shard that ends leaves every other one at work, and a run that ends has
\* only ended shards.
LEMMA EndsEffect ==
  ASSUME TypeOK, LeaseRowsValid, RunRows, NEW s \in Shards, Ends(s)
  PROVE  OthersStay(s) /\ shard'[s] \in Done /\ RunRows'
<1> DEFINE r == RunOf[s]
<1>0. PICK st \in Done : \E ck :
        /\ shard' = FinishShards({r}, [shard EXCEPT ![s] = st])
        /\ \E rec \in {FinishRun(r, [shard EXCEPT ![s] = st], ck),
                       Rest(FinishRun(r, [shard EXCEPT ![s] = st], ck), r,
                            [shard EXCEPT ![s] = st], lease')} :
             run' = [run EXCEPT ![r] = rec]
  BY DEF Ends
<1>1. PICK ck :
        /\ shard' = FinishShards({r}, [shard EXCEPT ![s] = st])
        /\ \E rec \in {FinishRun(r, [shard EXCEPT ![s] = st], ck),
                       Rest(FinishRun(r, [shard EXCEPT ![s] = st], ck), r,
                            [shard EXCEPT ![s] = st], lease')} :
             run' = [run EXCEPT ![r] = rec]
  BY <1>0
<1> DEFINE sh == [shard EXCEPT ![s] = st]
<1>2. r \in Runs /\ run[r] \in RunRecord
  BY KernelConstants DEF TypeOK
<1>3. PICK rec \in {FinishRun(r, sh, ck), Rest(FinishRun(r, sh, ck), r, sh, lease')} :
        run' = [run EXCEPT ![r] = rec]
  BY <1>1
<1>4. sh[s] = st /\ \A t \in Shards \ {s} : sh[t] = shard[t]
  BY DEF TypeOK
<1>5. shard' = FinishShards({r}, sh)
  BY <1>1
<1> HIDE DEF sh
<1>6. /\ rec.epoch = run[r].epoch
      /\ \/ rec = run[r]
         \/ AllDone(r, sh) /\ rec.status \in Done
         \/ run[r].status = "pause_requested" /\ rec.status = "paused"
  BY <1>2, RunAfter
<1>7. run'[r] = rec /\ \A q \in Runs \ {r} : run'[q] = run[q]
  BY <1>2, <1>3 DEF TypeOK
<1>8. ASSUME NEW t \in Shards
      PROVE  \/ shard'[t] = sh[t]
             \/ sh[t] \in Done /\ shard'[t] = "cancelled" /\ RunOf[t] = r
  BY <1>5 DEF FinishShards, AllDone, ShardsOf
<1>9. "cancelled" \in Done /\ "none" \notin Done /\ "paused" \notin Done
      /\ "cancel_requested" \notin Done
  BY DEF Done
<1>10. shard'[s] \in Done
  BY <1>4, <1>8, <1>9
<1>11. EpochsRise
  <2> SUFFICES ASSUME NEW q \in Runs PROVE run'[q].epoch >= run[q].epoch
    BY DEF EpochsRise
  <2>1. run'[q].epoch = run[q].epoch
    BY <1>6, <1>7
  <2> QED
    BY <2>1 DEF TypeOK, RunRecord
<1>12. ASSUME NEW t \in Shards \ {s}
       PROVE  /\ \/ shard'[t] = shard[t]
                 \/ shard[t] \in Done /\ shard'[t] \in Done
              /\ lease'[t][fence[t]].status = "active" /\ Held(t)
                   => run'[RunOf[t]] = run[RunOf[t]] /\ shard'[t] = shard[t]
  <2>1. \/ shard'[t] = shard[t]
        \/ shard[t] \in Done /\ shard'[t] \in Done
    BY <1>4, <1>8, <1>9
  <2>2. ASSUME lease'[t][fence[t]].status = "active", Held(t)
        PROVE  run'[RunOf[t]] = run[RunOf[t]] /\ shard'[t] = shard[t]
    <3>1. shard[t] \notin Done /\ fence[t] \in Fences
      BY <2>2, HeldAtWork
    <3>2. sh[t] \notin Done
      BY <1>4, <3>1
    <3>3. RunOf[t] = r => rec = run[r]
      BY <1>3, <2>2, <3>1, <3>2, UnfinishedStays
    <3> QED
      BY <1>7, <2>1, <3>1, <3>3, KernelConstants
  <2> QED
    BY <2>1, <2>2
<1>13. RunRows'
  <2>1. ASSUME NEW q \in Runs
        PROVE  /\ run'[q].status = "none" => run'[q].epoch = 0
               /\ run'[q].status \in Done => AllDone(q, shard')
    <3>1. CASE AllDone(q, shard)
      <4>1. AllDone(q, shard')
        BY <1>10, <1>12, <3>1 DEF AllDone, ShardsOf
      <4> QED
        BY <1>6, <1>7, <1>9, <4>1 DEF RunRows
    <3>2. CASE AllDone(q, sh) /\ q = r
      <4>1. AllDone(q, shard')
        BY <1>8, <1>9, <3>2 DEF AllDone, ShardsOf
      <4> QED
        BY <1>6, <1>7, <1>9, <4>1 DEF RunRows
    <3>3. CASE ~AllDone(q, shard) /\ ~(AllDone(q, sh) /\ q = r)
      BY <1>6, <1>7, <1>9, <3>3 DEF RunRows
    <3> QED
      BY <3>1, <3>2, <3>3
  <2>2. ASSUME NEW t \in Shards, shard'[t] = "cancel_requested"
        PROVE  run'[RunOf[t]].status = "cancel_requested"
    <3>1. t # s /\ shard[t] = "cancel_requested" /\ sh[t] = "cancel_requested"
      BY <1>4, <1>9, <1>10, <1>12, <2>2
    <3>2. run[RunOf[t]].status = "cancel_requested" /\ RunOf[t] \in Runs
      BY <3>1, KernelConstants DEF RunRows
    <3>3. RunOf[t] = r => ~AllDone(r, sh)
      BY <1>9, <3>1 DEF AllDone, ShardsOf
    <3> QED
      BY <1>6, <1>7, <3>2, <3>3
  <2> QED
    BY <2>1, <2>2 DEF RunRows, AllDone, ShardsOf
<1> QED
  BY <1>10, <1>11, <1>12, <1>13 DEF OthersStay

\* So does a shard that goes back to wait.
LEMMA GoesBackEffect ==
  ASSUME TypeOK, LeaseRowsValid, RunRows, NEW s \in Shards, GoesBack(s)
  PROVE  OthersStay(s) /\ RunRows'
<1> DEFINE r == RunOf[s]
<1>1. PICK st \in {"queued", "retry_scheduled", "paused"} :
        /\ shard' = [shard EXCEPT ![s] = st]
        /\ run' = [run EXCEPT ![r] = Rest(run[r], r, [shard EXCEPT ![s] = st], lease')]
  BY DEF GoesBack
<1> DEFINE sh == [shard EXCEPT ![s] = st]
           rec == Rest(run[r], r, sh, lease')
<1>2. r \in Runs /\ run[r] \in RunRecord
  BY KernelConstants DEF TypeOK
<1>3. /\ rec.epoch = run[r].epoch
      /\ \/ rec = run[r]
         \/ rec.status = "paused"
  BY <1>2, RestEffect
<1>4. shard' = sh /\ sh[s] = st /\ \A t \in Shards \ {s} : sh[t] = shard[t]
  BY <1>1 DEF TypeOK
<1>5. run'[r] = rec /\ \A q \in Runs \ {r} : run'[q] = run[q]
  BY <1>1, <1>2 DEF TypeOK
<1>6. run[r].status \in {"running", "pause_requested"}
  BY DEF GoesBack
<1>7. ASSUME NEW t \in Shards \ {s}, lease'[t][fence[t]].status = "active", Held(t)
      PROVE  run'[RunOf[t]] = run[RunOf[t]]
  <2>1. shard[t] \notin Done /\ fence[t] \in Fences
    BY <1>7, HeldAtWork
  <2> HIDE DEF sh
  <2>2. RunOf[t] = r => rec = run[r]
    BY <1>4, <1>7, <2>1, UnfinishedStays
  <2> QED
    BY <1>5, <2>2, KernelConstants
<1> HIDE DEF sh, rec
<1>8. EpochsRise
  <2> SUFFICES ASSUME NEW q \in Runs PROVE run'[q].epoch >= run[q].epoch
    BY DEF EpochsRise
  <2>1. run'[q].epoch = run[q].epoch
    BY <1>3, <1>5
  <2> QED
    BY <2>1 DEF TypeOK, RunRecord
<1>9. RunRows'
  <2>1. ASSUME NEW q \in Runs
        PROVE  /\ run'[q].status = "none" => run'[q].epoch = 0
               /\ run'[q].status \in Done => AllDone(q, shard')
    <3>1. CASE q = r
      BY <1>3, <1>5, <1>6, <3>1 DEF Done
    <3>2. CASE q # r
      BY <1>4, <1>5, <3>2 DEF RunRows, AllDone, ShardsOf
    <3> QED
      BY <3>1, <3>2
  <2>2. ASSUME NEW t \in Shards, shard'[t] = "cancel_requested"
        PROVE  run'[RunOf[t]].status = "cancel_requested"
    <3>1. t # s /\ shard[t] = "cancel_requested"
      BY <1>1, <1>4, <2>2
    <3>2. run[RunOf[t]].status = "cancel_requested" /\ RunOf[t] \in Runs
      BY <3>1, KernelConstants DEF RunRows
    <3> QED
      BY <1>5, <1>6, <3>2
  <2> QED
    BY <2>1, <2>2 DEF RunRows, AllDone, ShardsOf
<1> QED
  BY <1>4, <1>7, <1>8, <1>9 DEF OthersStay

\* What the settlements have in common.
LEMMA SettleShape ==
  ASSUME StoreInv, NEW s \in Shards, NEW n \in CallNos,
         SettleLate(s, n) \/ SettleSuccess(s, n) \/ SettleFailure(s, n)
  PROVE  /\ ledger[s][n].status = "response_received" /\ Settleable(s, n) /\ ~Held(s)
         /\ \E kind \in {"success", "failure", "cancelled_late"} : \E at : Close(s, n, kind, at)
         /\ fence' = fence
         /\ \A t \in Shards \ {s} : job'[t] = job[t]
         /\ Ends(s) \/ GoesBack(s) \/ UNCHANGED <<run, shard>>
<1> USE DEF StoreInv, KernelInv
<1>1. Settleable(s, n)
  BY DEF SettleLate, SettleSuccess, SettleFailure
<1>2. ledger[s][n].status = "response_received"
  BY <1>1 DEF Settleable
<1>3. ~Held(s)
  BY <1>2 DEF LedgerRows, LedgerRow, Open
<1>4. \E kind \in {"success", "failure", "cancelled_late"} : \E at : Close(s, n, kind, at)
  BY DEF SettleLate, SettleSuccess, SettleFailure
<1>5. fence' = fence
  BY DEF SettleLate, SettleSuccess, SettleFailure
<1>6. \A t \in Shards \ {s} : job'[t] = job[t]
  BY DEF SettleLate, SettleSuccess, SettleFailure, FinishShard, TypeOK
<1>7. ASSUME NEW st \in Done, NEW err, FinishShard(s, st, err) PROVE Ends(s)
  BY <1>7 DEF FinishShard, Ends
<1>8. ASSUME NEW st \in {"queued", "retry_scheduled"}, KeepShard(s, st), OnTime(s, n)
      PROVE  GoesBack(s)
  <2>1. run[RunOf[s]].status \in {"running", "pause_requested"}
    BY <1>8 DEF OnTime
  <2> DEFINE w == IF run[RunOf[s]].status = "pause_requested" THEN "paused" ELSE st
  <2>2. w \in {"queued", "retry_scheduled", "paused"}
    OBVIOUS
  <2>3. /\ shard' = [shard EXCEPT ![s] = w]
        /\ run' = [run EXCEPT ![RunOf[s]] =
                     Rest(run[RunOf[s]], RunOf[s], [shard EXCEPT ![s] = w], lease')]
    BY <1>8 DEF KeepShard
  <2> HIDE DEF w
  <2> QED
    BY <2>1, <2>2, <2>3 DEF GoesBack
<1>9. CASE SettleLate(s, n)
  <2>1. CASE run[RunOf[s]].status = "cancel_requested"
    <3>1. "cancelled" \in Done
      BY DEF Done
    <3> QED
      BY <1>1, <1>2, <1>3, <1>4, <1>5, <1>6, <1>9, <2>1, <3>1 DEF SettleLate, Ends
  <2>2. CASE run[RunOf[s]].status # "cancel_requested"
    BY <1>1, <1>2, <1>3, <1>4, <1>5, <1>6, <1>9, <2>2 DEF SettleLate
  <2> QED
    BY <2>1, <2>2
<1>10. CASE SettleSuccess(s, n)
  <2>1. OnTime(s, n)
    BY <1>10 DEF SettleSuccess
  <2>2. \/ \E st \in {"partial_success", "succeeded", "succeeded_empty"} : \E err :
             FinishShard(s, st, err)
        \/ KeepShard(s, "queued")
    BY <1>10 DEF SettleSuccess
  <2>3. {"partial_success", "succeeded", "succeeded_empty"} \subseteq Done
    BY DEF Done
  <2>4. Ends(s) \/ GoesBack(s)
    BY <1>7, <1>8, <2>1, <2>2, <2>3
  <2> QED
    BY <1>1, <1>2, <1>3, <1>4, <1>5, <1>6, <2>4
<1>11. CASE SettleFailure(s, n)
  <2>1. OnTime(s, n)
    BY <1>11 DEF SettleFailure
  <2>2. \/ \E st \in {"partial_success", "failed"} : \E err : FinishShard(s, st, err)
        \/ KeepShard(s, "retry_scheduled")
    BY <1>11 DEF SettleFailure
  <2>3. {"partial_success", "failed"} \subseteq Done
    BY DEF Done
  <2>4. Ends(s) \/ GoesBack(s)
    BY <1>7, <1>8, <2>1, <2>2, <2>3
  <2> QED
    BY <1>1, <1>2, <1>3, <1>4, <1>5, <1>6, <2>4
<1> QED
  BY <1>9, <1>10, <1>11

\* A call that throws ends its shard.
LEMMA DispatchFailsEnds ==
  ASSUME TypeOK, NEW s \in Shards, DispatchFails(s)
  PROVE  Ends(s) /\ \A t \in Shards \ {s} : job'[t] = job[t]
<1>1. UnknownShard(s) \in Done
  BY DEF UnknownShard, Done
<1>2. Ends(s)
  BY <1>1 DEF DispatchFails, Ends
<1> QED
  BY <1>2 DEF DispatchFails, TypeOK

\* A settlement leaves every lease with who works.
LEMMA SettleKeepsLeases ==
  ASSUME StoreInv, TypeOK', NEW s \in Shards, NEW n \in CallNos,
         SettleLate(s, n) \/ SettleSuccess(s, n) \/ SettleFailure(s, n)
  PROVE  LeaseRowsValid' /\ RunRows'
<1> USE DEF StoreInv, KernelInv
<1>1. LeasesFall
  BY SettleShape, CloseFalls
<1>2. OthersStay(s) /\ RunRows'
  <2>1. CASE UNCHANGED <<run, shard>>
    <3>1. run' = run /\ shard' = shard
      BY <2>1
    <3>2. \A q \in Runs : run[q].epoch \in Nat
      BY DEF TypeOK, RunRecord
    <3> QED
      BY <3>1, <3>2, KernelConstants
         DEF OthersStay, EpochsRise, RunRows, AllDone, ShardsOf
  <2> QED
    BY <2>1, SettleShape, EndsEffect, GoesBackEffect
<1>3. ASSUME NEW t \in Shards, lease'[t][fence[t]].status = "active", Held(t)
      PROVE  StillAtWork(t)
  <2>1. t # s
    BY <1>3, SettleShape
  <2>2. job'[t] = job[t]
    BY <2>1, SettleShape
  <2> QED
    BY <1>2, <1>3, <2>1, <2>2 DEF OthersStay, StillAtWork
<1> QED
  BY <1>1, <1>2, <1>3, LeaseRowsKept DEF OthersStay

\* So does a call that throws.
LEMMA DispatchFailsKeepsLeases ==
  ASSUME StoreInv, TypeOK', NEW s \in Shards, DispatchFails(s)
  PROVE  LeaseRowsValid' /\ RunRows'
<1> USE DEF StoreInv, KernelInv
<1>1. /\ LeasesFall
      /\ lease'[s][fence[s]].status # "active"
  <2>1. UnknownReason(s) # "none"
    BY DEF UnknownReason
  <2>2. Held(s) /\ lease' = EndLease(s, "released", "request_outcome_unknown", UnknownReason(s))
    BY DEF DispatchFails
  <2> QED
    BY <2>1, <2>2, EndLeaseFalls
<1>2. OthersStay(s) /\ RunRows'
  BY DispatchFailsEnds, EndsEffect
<1>3. ASSUME NEW t \in Shards, lease'[t][fence[t]].status = "active", Held(t)
      PROVE  StillAtWork(t)
  <2>1. t # s
    BY <1>1, <1>3
  <2>2. job'[t] = job[t]
    BY <2>1, DispatchFailsEnds
  <2> QED
    BY <1>2, <1>3, <2>1, <2>2 DEF OthersStay, StillAtWork
<1> QED
  BY <1>1, <1>2, <1>3, LeaseRowsKept DEF OthersStay

\* A claim makes its lease for a run, a shard and a job that it puts to work,
\* and leaves the runs of all other leases alone.
LEMMA ClaimKeepsLeases ==
  ASSUME StoreInv, TypeOK', ClaimNext
  PROVE  LeaseRowsValid' /\ RunRows'
<1> USE DEF StoreInv, KernelInv
<1> DEFINE touched == {RunOf[s] : s \in Skipped \cup Chosen}
           sh == [s \in Shards |-> IF s \in Skipped THEN "succeeded_empty"
                                   ELSE IF s \in Chosen THEN "running" ELSE shard[s]]
<1>1. /\ shard' = sh
      /\ job' = [s \in Shards |->
           IF s \in Skipped
           THEN [QueuedJob EXCEPT !.status = "succeeded", !.started = TRUE,
                                  !.finished = TRUE]
           ELSE IF s \in Chosen
           THEN [QueuedJob EXCEPT !.status = "running", !.started = TRUE]
           ELSE job[s]]
      /\ lease' = [s \in Shards |->
           IF s \in Chosen THEN [lease[s] EXCEPT ![fence[s] + 1] = NewLease(s)]
           ELSE lease[s]]
      /\ run' = [r \in Runs |->
           IF \E s \in Chosen : RunOf[s] = r THEN [run[r] EXCEPT !.status = "running"]
           ELSE IF r \in touched THEN FinishRun(r, sh, ckpt')
           ELSE run[r]]
  BY DEF ClaimNext
<1>2. ASSUME NEW s \in Skipped \cup Chosen
      PROVE  /\ s \in Shards /\ run[RunOf[s]].status \in {"queued", "running"}
             /\ \A t \in Shards : RunOf[t] = RunOf[s] => ~Held(t)
  BY DEF Skipped, Chosen, Claimable, HeldIn, ShardsOf
<1>3. Skipped \cap Chosen = {}
  BY DEF Skipped, Chosen
<1>4. \A r \in touched : \E s \in Skipped \cup Chosen : RunOf[s] = r
  OBVIOUS
<1> HIDE DEF touched, sh
<1>5. ASSUME NEW r \in Runs
      PROVE  /\ run'[r].epoch = run[r].epoch
             /\ \/ r \notin touched /\ run'[r] = run[r]
                \/ r \in touched /\ run'[r] = run[r] /\ \A s \in Chosen : RunOf[s] # r
                \/ r \in touched /\ run'[r].status = "running"
                \/ /\ r \in touched /\ AllDone(r, sh) /\ run'[r].status \in Done
                   /\ \A s \in Chosen : RunOf[s] # r
  <2>1. [run[r] EXCEPT !.status = "running"].status = "running"
        /\ [run[r] EXCEPT !.status = "running"].epoch = run[r].epoch
    BY DEF TypeOK, RunRecord
  <2>2. /\ FinishRun(r, sh, ckpt').epoch = run[r].epoch
        /\ \/ FinishRun(r, sh, ckpt') = run[r]
           \/ AllDone(r, sh) /\ FinishRun(r, sh, ckpt').status \in Done
    BY FinishRunEffect
  <2>3. \A s \in Chosen : RunOf[s] \in touched
    BY DEF touched
  <2> QED
    BY <1>1, <2>1, <2>2, <2>3
<1>6. ASSUME NEW t \in Shards
      PROVE  RunOf[t] \notin touched => shard'[t] = shard[t] /\ t \notin Chosen
                                        /\ t \notin Skipped
  BY <1>1 DEF touched, sh
<1>7. LeaseRowsValid'
  <2> SUFFICES ASSUME NEW t \in Shards, NEW f \in Fences
               PROVE  /\ lease'[t][f].status = "active" =>
                           /\ run'[RunOf[t]].epoch = lease'[t][f].runEpoch +
                                (IF run'[RunOf[t]].status = "cancel_requested" THEN 1 ELSE 0)
                           /\ run'[RunOf[t]].status \in Working /\ shard'[t] \in Working
                           /\ job'[t].status = "running"
                           /\ lease'[t][f].reason = "none"
                      /\ lease'[t][f].status \in {"released", "expired"}
                           => lease'[t][f].reason # "none"
                      /\ lease'[t][f].runEpoch <= run'[RunOf[t]].epoch
    BY DEF LeaseRowsValid
  <2>1. RunOf[t] \in Runs /\ run'[RunOf[t]].epoch = run[RunOf[t]].epoch
    BY <1>5, KernelConstants
  <2>2. run[RunOf[t]].epoch \in Nat
    BY <2>1 DEF TypeOK, RunRecord
  <2>3. CASE t \in Chosen /\ f = fence[t] + 1
    <3>1. lease'[t][f] = NewLease(t)
      BY <1>1, <2>3 DEF TypeOK
    <3>2. /\ NewLease(t).status = "active" /\ NewLease(t).reason = "none"
          /\ NewLease(t).runEpoch = run[RunOf[t]].epoch
      BY DEF NewLease, NoLease
    <3>3. run'[RunOf[t]].status = "running"
      <4>1. run'[RunOf[t]] = [run[RunOf[t]] EXCEPT !.status = "running"]
        BY <1>1, <2>1, <2>3
      <4> QED
        BY <2>1, <4>1 DEF TypeOK, RunRecord
    <3>4. t \notin Skipped
      BY <1>3, <2>3
    <3>5. shard'[t] = "running" /\ job'[t].status = "running"
      BY <1>1, <2>3, <3>4 DEF sh, QueuedJob
    <3> QED
      BY <2>1, <2>2, <3>1, <3>2, <3>3, <3>5 DEF Working
  <2>4. CASE ~(t \in Chosen /\ f = fence[t] + 1)
    <3>1. lease'[t][f] = lease[t][f]
      BY <1>1, <2>4 DEF TypeOK
    <3>2. ASSUME lease[t][f].status = "active"
          PROVE  /\ run'[RunOf[t]] = run[RunOf[t]] /\ shard'[t] = shard[t]
                 /\ job'[t] = job[t]
      <4>1. Held(t)
        BY <3>2, ActiveIsHeld
      <4>2. RunOf[t] \notin touched
        BY <1>2, <1>4, <4>1
      <4> QED
        BY <1>1, <1>5, <1>6, <2>1, <4>2
    <3> QED
      BY <2>1, <3>1, <3>2 DEF LeaseRowsValid
  <2> QED
    BY <2>3, <2>4
<1>8. RunRows'
  <2>0. \A r \in touched : run[r].status \in {"queued", "running"}
    BY <1>2, <1>4
  <2>1. ASSUME NEW q \in Runs
        PROVE  /\ run'[q].status = "none" => run'[q].epoch = 0
               /\ run'[q].status \in Done => AllDone(q, shard')
    <3>1. CASE q \notin touched
      BY <1>5, <1>6, <3>1 DEF RunRows, AllDone, ShardsOf
    <3>2. CASE q \in touched
      BY <1>1, <1>5, <2>0, <3>2 DEF Done
    <3> QED
      BY <3>1, <3>2
  <2>2. ASSUME NEW t \in Shards, shard'[t] = "cancel_requested"
        PROVE  run'[RunOf[t]].status = "cancel_requested"
    <3>1. shard[t] = "cancel_requested"
      BY <1>1, <2>2 DEF sh
    <3>2. run[RunOf[t]].status = "cancel_requested" /\ RunOf[t] \in Runs
      BY <3>1, KernelConstants DEF RunRows
    <3> QED
      BY <1>5, <2>0, <3>2
  <2> QED
    BY <2>1, <2>2 DEF RunRows, AllDone, ShardsOf
<1> QED
  BY <1>7, <1>8

\* Creating, pausing, resuming and cancelling a run keep the rows of runs.
LEMMA OperatorsKeepRuns ==
  ASSUME StoreInv, TypeOK', NEW r \in Runs,
         CreateRun(r) \/ RequestPause(r) \/ Resume(r) \/ RequestCancel(r)
  PROVE  RunRows'
<1> USE DEF StoreInv, KernelInv
<1>1. run[r] \in RunRecord
  BY DEF TypeOK
<1>2. \A q \in Runs \ {r} : run'[q] = run[q]
  BY DEF CreateRun, RequestPause, Resume, RequestCancel, TypeOK
<1>3. \A t \in Shards : t \notin ShardsOf(r) => shard'[t] = shard[t]
  BY DEF CreateRun, RequestPause, Resume, RequestCancel
<1>4. /\ run'[r].status \notin {"none"}
      /\ run'[r].status \in Done => AllDone(r, shard')
      /\ \A t \in ShardsOf(r) : shard'[t] = "cancel_requested"
           => run'[r].status = "cancel_requested"
  <2>1. CASE CreateRun(r)
    <3>1. run'[r].status = "queued" /\ shard' = shard /\ run[r].status = "none"
      BY <2>1 DEF CreateRun, TypeOK
    <3> QED
      BY <3>1 DEF RunRows, Done, ShardsOf
  <2>2. CASE RequestPause(r)
    <3>1. run' = [run EXCEPT ![r] = [run[r] EXCEPT !.status =
                    IF Busy(r) = {} THEN "paused" ELSE "pause_requested"]]
      BY <2>2 DEF RequestPause, TypeOK
    <3>2. run'[r].status \in {"paused", "pause_requested"}
      BY <1>1, <3>1 DEF TypeOK, RunRecord
    <3>3. \A t \in ShardsOf(r) : shard'[t] # "cancel_requested"
      BY <2>2 DEF RequestPause, Done, ShardsOf
    <3> QED
      BY <3>2, <3>3 DEF Done
  <2>3. CASE Resume(r)
    <3>1. run' = [run EXCEPT ![r] = [run[r] EXCEPT !.status = "queued",
                                                   !.epoch = run[r].epoch + 1]]
      BY <2>3 DEF Resume, TypeOK
    <3>2. run'[r].status = "queued"
      BY <1>1, <3>1 DEF TypeOK, RunRecord
    <3>3. \A t \in ShardsOf(r) : shard'[t] # "cancel_requested"
      <4> SUFFICES ASSUME NEW t \in ShardsOf(r) PROVE shard'[t] # "cancel_requested"
        OBVIOUS
      <4>1. t \in Shards /\ RunOf[t] = r /\ run[r].status = "paused"
        BY <2>3 DEF Resume, ShardsOf
      <4>2. shard[t] # "cancel_requested"
        BY <4>1 DEF RunRows
      <4>3. shard'[t] \in {shard[t], "retry_scheduled", "queued"}
        BY <2>3, <4>1 DEF Resume
      <4> QED
        BY <4>2, <4>3
    <3> QED
      BY <3>2, <3>3 DEF Done
  <2>4. CASE RequestCancel(r)
    <3> DEFINE rec == IF Busy(r) = {}
                      THEN [status |-> "cancelled", epoch |-> run[r].epoch + 1,
                            parent |-> "cancelled"]
                      ELSE [run[r] EXCEPT !.status = "cancel_requested", !.epoch = @ + 1]
    <3>1. run' = [run EXCEPT ![r] = rec]
      BY <2>4 DEF RequestCancel
    <3>2. rec.status = IF Busy(r) = {} THEN "cancelled" ELSE "cancel_requested"
      BY <1>1 DEF RunRecord
    <3> HIDE DEF rec
    <3>3. run'[r].status = IF Busy(r) = {} THEN "cancelled" ELSE "cancel_requested"
      BY <3>1, <3>2 DEF TypeOK
    <3>4. Busy(r) = {} => \A t \in ShardsOf(r) : shard'[t] = "cancelled"
      BY <2>4 DEF RequestCancel, ShardsOf
    <3> QED
      BY <3>3, <3>4 DEF Done, AllDone
  <2> QED
    BY <2>1, <2>2, <2>3, <2>4
<1>5. ASSUME NEW q \in Runs
      PROVE  /\ run'[q].status = "none" => run'[q].epoch = 0
             /\ run'[q].status \in Done => AllDone(q, shard')
  BY <1>2, <1>3, <1>4 DEF RunRows, AllDone, ShardsOf
<1>6. ASSUME NEW t \in Shards, shard'[t] = "cancel_requested"
      PROVE  run'[RunOf[t]].status = "cancel_requested"
  BY <1>2, <1>3, <1>4, <1>6, KernelConstants DEF RunRows, ShardsOf
<1> QED
  BY <1>5, <1>6 DEF RunRows, AllDone, ShardsOf

\* What a recovery does to its shards and to all others.
LEMMA RecoverEffect ==
  ASSUME StoreInv, NEW Gone \in SUBSET {s \in Shards : Held(s)},
         RecoverLeases(Gone)
  PROVE  /\ RunRows'
         /\ \A t \in Shards \ Gone :
              /\ \/ shard'[t] = shard[t]
                 \/ shard[t] \in Done /\ shard'[t] \in Done
              /\ ledger'[t] = ledger[t]
         /\ \A s \in Gone :
              /\ Current(s).started /\ ~Answered(s)
                   => shard'[s] \in Done /\ ledger'[s] = GivenUp(s)
              /\ ~Current(s).started \/ Answered(s) => ledger'[s] = ledger[s]
<1> USE DEF StoreInv, KernelInv
<1> DEFINE lost     == {s \in Gone : Current(s).started /\ ~Answered(s)}
           unused   == {s \in Gone : ~Current(s).started}
           caught   == {s \in unused : CancelCaught(s)}
           finished == {RunOf[s] : s \in lost \cup caught}
           resting  == {RunOf[s] : s \in {t \in lost \cup unused : ~CancelCaught(t)}}
           sh == [s \in Shards |->
                    IF s \in lost THEN UnknownShard(s)
                    ELSE IF s \in caught THEN "cancelled"
                    ELSE IF s \notin unused THEN shard[s]
                    ELSE IF run[RunOf[s]].status = "pause_requested" THEN "paused"
                    ELSE "queued"]
<1>1. /\ run' = [r \in Runs |->
           LET rec == IF r \in finished THEN FinishRun(r, sh, ckpt) ELSE run[r]
           IN  IF r \in resting THEN Rest(rec, r, sh, lease') ELSE rec]
      /\ shard' = FinishShards(finished, sh)
      /\ ledger' = [s \in Shards |-> IF s \in lost THEN GivenUp(s) ELSE ledger[s]]
  BY DEF RecoverLeases
<1>2. \A r \in finished \cup resting : \E s \in Gone : RunOf[s] = r
  OBVIOUS
<1>3. /\ lost \subseteq Gone /\ unused \subseteq Gone /\ caught \subseteq Gone
      /\ Gone \subseteq Shards
  OBVIOUS
<1>4. \A s \in Gone : Current(s).started /\ ~Answered(s) <=> s \in lost
  OBVIOUS
<1>5. \A s \in Shards : s \in lost => sh[s] \in Done
  BY DEF UnknownShard, Done
<1>6. \A s \in Shards : s \notin Gone => sh[s] = shard[s]
  BY <1>3
<1>7. \A s \in Shards : sh[s] = "cancel_requested" => shard[s] = "cancel_requested"
  BY DEF UnknownShard
<1> HIDE DEF finished, resting, lost, unused, caught, sh
<1>8. "cancelled" \in Done /\ "none" \notin Done /\ "paused" \notin Done
      /\ "cancel_requested" \notin Done
  BY DEF Done
<1>9. ASSUME NEW t \in Shards
      PROVE  \/ shard'[t] = sh[t]
             \/ sh[t] \in Done /\ shard'[t] = "cancelled"
  BY <1>1, FinishShardsEffect
<1>10. ASSUME NEW q \in Runs
       PROVE  /\ run'[q].epoch = run[q].epoch
              /\ \/ run'[q] = run[q]
                 \/ AllDone(q, sh) /\ run'[q].status \in Done
                 \/ run[q].status = "pause_requested" /\ run'[q].status = "paused"
  <2>1. run'[q] = LET rec == IF q \in finished THEN FinishRun(q, sh, ckpt) ELSE run[q]
                  IN  IF q \in resting THEN Rest(rec, q, sh, lease') ELSE rec
    BY <1>1
  <2> QED
    BY <2>1, RunAfter
<1>11. ASSUME NEW q \in Runs, run[q].status \in Done
       PROVE  \A t \in ShardsOf(q) : sh[t] = shard[t]
  <2> SUFFICES ASSUME NEW t \in ShardsOf(q) PROVE t \notin Gone
    BY <1>6 DEF ShardsOf
  <2> QED
    BY <1>11, HeldAtWork DEF ShardsOf
<1>12. RunRows'
  <2>1. ASSUME NEW q \in Runs
        PROVE  /\ run'[q].status = "none" => run'[q].epoch = 0
               /\ run'[q].status \in Done => AllDone(q, shard')
    <3>1. AllDone(q, sh) => AllDone(q, shard')
      BY <1>8, <1>9 DEF AllDone, ShardsOf
    <3>2. run[q].status \in Done => AllDone(q, sh)
      BY <1>11 DEF RunRows, AllDone
    <3> QED
      BY <1>8, <1>10, <3>1, <3>2 DEF RunRows
  <2>2. ASSUME NEW t \in Shards, shard'[t] = "cancel_requested"
        PROVE  run'[RunOf[t]].status = "cancel_requested"
    <3>1. sh[t] = "cancel_requested" /\ shard[t] = "cancel_requested"
      BY <1>7, <1>8, <1>9, <2>2
    <3>2. run[RunOf[t]].status = "cancel_requested" /\ RunOf[t] \in Runs
      BY <3>1, KernelConstants DEF RunRows
    <3>3. ~AllDone(RunOf[t], sh)
      BY <1>8, <3>1 DEF AllDone, ShardsOf
    <3> QED
      BY <1>10, <3>2, <3>3
  <2> QED
    BY <2>1, <2>2 DEF RunRows, AllDone, ShardsOf
<1>13. ASSUME NEW t \in Shards \ Gone
       PROVE  /\ \/ shard'[t] = shard[t]
                 \/ shard[t] \in Done /\ shard'[t] \in Done
              /\ ledger'[t] = ledger[t]
  BY <1>1, <1>3, <1>6, <1>8, <1>9
<1>14. ASSUME NEW s \in Gone
       PROVE  /\ Current(s).started /\ ~Answered(s)
                   => shard'[s] \in Done /\ ledger'[s] = GivenUp(s)
              /\ ~Current(s).started \/ Answered(s) => ledger'[s] = ledger[s]
  BY <1>1, <1>3, <1>4, <1>5, <1>8, <1>9
<1> QED
  BY <1>12, <1>13, <1>14

\* A step that touches neither run, shard nor a job's status, and lets leases
\* only fall, leaves every lease with who works.
LEMMA QuietKeepsLeases ==
  ASSUME StoreInv, TypeOK', LeasesFall, run' = run, shard' = shard,
         \A t \in Shards : job'[t].status = job[t].status
  PROVE  LeaseRowsValid' /\ RunRows'
<1> USE DEF StoreInv, KernelInv
<1>1. EpochsRise
  BY DEF EpochsRise, TypeOK, RunRecord
<1>2. \A t \in Shards : StillAtWork(t)
  BY KernelConstants DEF StillAtWork
<1>3. RunRows'
  BY DEF RunRows, AllDone, ShardsOf
<1> QED
  BY <1>1, <1>2, <1>3, LeaseRowsKept

\* Every step of the kernel leaves every lease with who works, and every run
\* with the shards its status allows.
LEMMA LeaseRowsStep ==
  ASSUME StoreInv, TypeOK', Next
  PROVE  LeaseRowsValid' /\ RunRows'
<1> USE DEF StoreInv, KernelInv
<1>1. ASSUME NEW r \in Runs, CreateRun(r) PROVE LeaseRowsValid' /\ RunRows'
  <2>1. LeasesFall
    BY <1>1, LeasesUntouched DEF CreateRun
  <2>2. run[r].epoch = 0 /\ run'[r].epoch = 1 /\ \A q \in Runs \ {r} : run'[q] = run[q]
    BY <1>1 DEF CreateRun, RunRows, TypeOK
  <2>3. EpochsRise
    <3>1. \A q \in Runs : run[q].epoch \in Nat
      BY DEF TypeOK, RunRecord
    <3>2. \A q \in Runs : q = r \/ run'[q] = run[q]
      BY <2>2
    <3> QED
      BY <2>2, <3>1, <3>2 DEF EpochsRise
  <2>4. ASSUME NEW t \in Shards, Held(t) PROVE StillAtWork(t)
    <3>1. RunOf[t] # r
      BY <1>1, <2>4, HeldAtWork DEF CreateRun, Working
    <3> QED
      BY <1>1, <2>2, <3>1, KernelConstants DEF CreateRun, StillAtWork
  <2> QED
    BY <1>1, <2>1, <2>3, <2>4, LeaseRowsKept, OperatorsKeepRuns
<1>2. ASSUME NEW r \in Runs, Resume(r) PROVE LeaseRowsValid' /\ RunRows'
  <2>1. LeasesFall
    BY <1>2, LeasesUntouched DEF Resume
  <2>2. run' = [run EXCEPT ![r] = [run[r] EXCEPT !.status = "queued",
                                                 !.epoch = run[r].epoch + 1]]
    BY <1>2 DEF Resume, TypeOK
  <2>3. run'[r].epoch = run[r].epoch + 1 /\ \A q \in Runs \ {r} : run'[q] = run[q]
    BY <2>2 DEF TypeOK, RunRecord
  <2>4. EpochsRise
    <3>1. \A q \in Runs : run[q].epoch \in Nat
      BY DEF TypeOK, RunRecord
    <3>2. \A q \in Runs : q = r \/ run'[q] = run[q]
      BY <2>3
    <3> QED
      BY <2>3, <3>1, <3>2 DEF EpochsRise
  <2>5. ASSUME NEW t \in Shards, Held(t) PROVE StillAtWork(t)
    <3>1. t \notin ShardsOf(r)
      BY <1>2, <2>5 DEF Resume, HeldIn
    <3>2. RunOf[t] # r /\ shard'[t] = shard[t] /\ job'[t] = job[t]
      BY <1>2, <3>1 DEF Resume, ShardsOf
    <3> QED
      BY <2>3, <3>2, KernelConstants DEF StillAtWork
  <2> QED
    BY <1>2, <2>1, <2>4, <2>5, LeaseRowsKept, OperatorsKeepRuns
<1>3. ASSUME NEW s \in Shards, Lapse(s) PROVE LeaseRowsValid' /\ RunRows'
  <2> DEFINE l == [lease[s][fence[s]] EXCEPT !.lapsed = TRUE]
  <2>1. lease[s][fence[s]] \in Lease
    BY <1>3, CurrentType DEF Lapse, Current
  <2>2. /\ l.status = lease[s][fence[s]].status /\ l.reason = lease[s][fence[s]].reason
        /\ l.runEpoch = lease[s][fence[s]].runEpoch
    BY <2>1 DEF Lease
  <2>3. lease' = [lease EXCEPT ![s][fence[s]] = l]
    BY <1>3 DEF Lapse
  <2> HIDE DEF l
  <2>4. fence[s] \in Fences => (l.status \in {"released", "expired"} => l.reason # "none")
    BY <2>2 DEF LeaseRowsValid
  <2>5. LeasesFall
    BY <2>2, <2>3, <2>4, OneLeaseFalls
  <2> QED
    BY <1>3, <2>5, QuietKeepsLeases DEF Lapse
<1>4. ASSUME NEW s \in Shards, SendRequest(s) PROVE LeaseRowsValid' /\ RunRows'
  <2> DEFINE l == [lease[s][fence[s]] EXCEPT !.attempt = "request_started", !.started = TRUE]
  <2>1. lease[s][fence[s]] \in Lease
    BY <1>4, CurrentType DEF SendRequest, MayDispatch, MayRequest, Usable, Current
  <2>2. /\ l.status = lease[s][fence[s]].status /\ l.reason = lease[s][fence[s]].reason
        /\ l.runEpoch = lease[s][fence[s]].runEpoch
    BY <2>1 DEF Lease
  <2>3. lease' = [lease EXCEPT ![s][fence[s]] = l]
    BY <1>4 DEF SendRequest
  <2> HIDE DEF l
  <2>4. fence[s] \in Fences => (l.status \in {"released", "expired"} => l.reason # "none")
    BY <2>2 DEF LeaseRowsValid
  <2>5. LeasesFall
    BY <2>2, <2>3, <2>4, OneLeaseFalls
  <2> QED
    BY <1>4, <2>5, QuietKeepsLeases DEF SendRequest
<1>5. ASSUME NEW s \in Shards, NEW n \in CallNos, NEW resp \in Responses,
             PersistResponse(s, n, resp)
      PROVE  LeaseRowsValid' /\ RunRows'
  <2> DEFINE f == ledger[s][n].by
             l == [lease[s][f] EXCEPT !.status = "released", !.lapsed = FALSE,
                                      !.reason = "RESPONSE_RECEIVED_PENDING_SETTLEMENT"]
  <2>1. \/ lease' = lease
        \/ lease' = [lease EXCEPT ![s][f] = l]
    BY <1>5 DEF PersistResponse
  <2>2. f \in Fences => /\ l.status = "released" /\ l.reason # "none"
                        /\ l.runEpoch = lease[s][f].runEpoch
    <3>1. f \in Fences => lease[s][f] \in Lease
      BY DEF TypeOK
    <3> QED
      BY <3>1 DEF Lease
  <2> HIDE DEF f, l
  <2>3. LeasesFall
    BY <2>1, <2>2, OneLeaseFalls, LeasesUntouched
  <2> QED
    BY <1>5, <2>3, QuietKeepsLeases DEF PersistResponse
<1>6. ASSUME NEW s \in Shards, Defer(s) PROVE LeaseRowsValid' /\ RunRows'
  <2>1. Held(s)
    BY <1>6 DEF Defer, MayDispatch, MayRequest, Usable
  <2>2. LeasesFall /\ lease'[s][fence[s]].status # "active"
    <3>1. lease' = EndLease(s, "released", "failed", "PROVIDER_THROTTLE_DEFERRED")
      BY <1>6 DEF Defer
    <3> QED
      BY <2>1, <3>1, EndLeaseFalls
  <2>3. /\ run' = run /\ shard'[s] = "retry_scheduled"
        /\ \A t \in Shards \ {s} : shard'[t] = shard[t] /\ job'[t] = job[t]
    BY <1>6 DEF Defer, TypeOK
  <2>4. EpochsRise
    BY <2>3 DEF EpochsRise, TypeOK, RunRecord
  <2>5. ASSUME NEW t \in Shards, lease'[t][fence[t]].status = "active", Held(t)
        PROVE  StillAtWork(t)
    BY <2>2, <2>3, <2>5 DEF StillAtWork
  <2>6. RunRows'
    <3>1. run[RunOf[s]].status \notin Done
      BY <2>1, HeldAtWork
    <3>2. ASSUME NEW q \in Runs, run'[q].status \in Done PROVE AllDone(q, shard')
      <4>1. q # RunOf[s] /\ AllDone(q, shard)
        BY <2>3, <3>1, <3>2 DEF RunRows
      <4> QED
        BY <2>3, <4>1 DEF AllDone, ShardsOf
    <3>3. ASSUME NEW t \in Shards, shard'[t] = "cancel_requested"
          PROVE  run'[RunOf[t]].status = "cancel_requested"
      BY <2>3, <3>3 DEF RunRows
    <3> QED
      BY <2>3, <3>2, <3>3 DEF RunRows, AllDone, ShardsOf
  <2> QED
    BY <2>2, <2>4, <2>5, <2>6, LeaseRowsKept
<1>7. ASSUME LeasesFall, NEW S, RetryFalls(S), run' = run, shard' = shard
      PROVE  LeaseRowsValid' /\ RunRows'
  <2>1. ASSUME NEW j \in JobRecord PROVE [j EXCEPT !.next = "due"].status = j.status
    BY DEF JobRecord
  <2>2. \A t \in Shards : job'[t] \in {job[t], [job[t] EXCEPT !.next = "due"]}
    BY <1>7 DEF RetryFalls
  <2>3. \A t \in Shards : job[t] \in JobRecord
    BY DEF TypeOK
  <2>4. \A t \in Shards : job'[t].status = job[t].status
    BY <2>1, <2>2, <2>3
  <2> QED
    BY <1>7, <2>4, QuietKeepsLeases
<1>8. ASSUME Start PROVE LeaseRowsValid' /\ RunRows'
  <2>1. RecoverLeases({s \in Shards : Held(s)})
    BY <1>8 DEF Start
  <2> QED
    BY <2>1, RecoverKeepsLeases, RecoverEffect
<1>9. ASSUME RecoverExpired PROVE LeaseRowsValid' /\ RunRows'
  <2>1. RecoverLeases({s \in Shards : Held(s) /\ Current(s).lapsed})
    BY <1>9 DEF RecoverExpired
  <2> QED
    BY <2>1, RecoverKeepsLeases, RecoverEffect
<1>10. ASSUME NEW s \in Shards, RetryDue(s) PROVE LeaseRowsValid' /\ RunRows'
  BY <1>7, <1>10, LeasesUntouched DEF RetryDue
<1>11. ASSUME NEW p \in Providers, WindowOpens(p) PROVE LeaseRowsValid' /\ RunRows'
  BY <1>7, <1>11, LeasesUntouched DEF WindowOpens
<1>12. ASSUME NEW s \in Shards, Prepare(s) PROVE LeaseRowsValid' /\ RunRows'
  BY <1>12, LeasesUntouched, QuietKeepsLeases DEF Prepare
<1>13. ASSUME NEW q \in calls, CallLost(q) PROVE LeaseRowsValid' /\ RunRows'
  BY <1>13, LeasesUntouched, QuietKeepsLeases DEF CallLost
<1>14. ASSUME NEW r \in Runs, RequestPause(r) \/ RequestCancel(r)
       PROVE  LeaseRowsValid' /\ RunRows'
  BY <1>14, OperatorsKeepLeases, OperatorsKeepRuns
<1>15. ASSUME NEW s \in Shards, DispatchFails(s) PROVE LeaseRowsValid' /\ RunRows'
  BY <1>15, DispatchFailsKeepsLeases
<1>16. ASSUME NEW s \in Shards, NEW n \in CallNos,
              SettleLate(s, n) \/ SettleSuccess(s, n) \/ SettleFailure(s, n)
       PROVE  LeaseRowsValid' /\ RunRows'
  BY <1>16, SettleKeepsLeases
<1> QED
  BY <1>1, <1>2, <1>3, <1>4, <1>5, <1>6, <1>8, <1>9, <1>10, <1>11, <1>12, <1>13,
     <1>14, <1>15, <1>16, ClaimKeepsLeases DEF Next

-----------------------------------------------------------------------------
(* The rows of the ledger.                                                 *)

\* Of an entry that is unsent or settled nothing more is expected.
Quiet(t, n) == ledger[t][n].status \in {"none", "prepared", "settled"}

\* A step keeps what entries need to know of a lease.
SameLease(t, f) ==
  /\ lease'[t][f].status = lease[t][f].status
  /\ lease'[t][f].attempt = lease[t][f].attempt
  /\ lease'[t][f].started = lease[t][f].started
  /\ lease'[t][f].reason = lease[t][f].reason

\* The shard after a step is one that the entry may have.
ShardFits(t, n) ==
  /\ ledger[t][n].status = "outcome_unknown" => shard'[t] \in Done
  /\ ledger[t][n].status = "response_received" =>
       /\ shard'[t] \in Working \cup Done
       /\ AnswerLease(t, n).attempt = "request_outcome_unknown"
            => shard'[t] \in Done \cup {"cancel_requested"}
  /\ ledger[t][n].status = "cancelled_late" => shard'[t] \in Done

\* What the type of an entry says of its fields.
LEMMA EntryType ==
  ASSUME TypeOK, NEW t \in Shards, NEW n \in CallNos
  PROVE  /\ ledger[t][n] \in LedgerEntry
         /\ ledger[t][n].by \in Nat /\ ledger[t][n].status \in Book!LedgerStatus
         /\ ckpt[t].total \in Nat /\ fence[t] \in Nat /\ fence[t] <= MaxFence
         /\ n \in Nat
<1>1. ledger[t][n] \in LedgerEntry /\ ckpt[t] \in Checkpoint /\ fence[t] \in 0..MaxFence
  BY DEF TypeOK
<1>2. MaxFence \in Nat
  BY KernelConstants
<1>3. n \in Nat
  BY DEF CallNos
<1> QED
  BY <1>1, <1>2, <1>3 DEF LedgerEntry, Checkpoint

\* The lease that has sent an entry is one of its shard's leases.
LEMMA SenderIsLease ==
  ASSUME TypeOK, NEW t \in Shards, NEW n \in CallNos, SentBy(t, n), ledger[t][n].by # 0
  PROVE  ledger[t][n].by \in Fences
<1>1. ledger[t][n].by <= fence[t]
  BY DEF SentBy
<1> QED
  BY <1>1, EntryType, KernelConstants DEF Fences

\* An entry that is not quiet is the last one sent, by the last lease or late.
LEMMA OpenIsLast ==
  ASSUME TypeOK, NEW t \in Shards, NEW n \in CallNos, LedgerRow(t, n), ~Quiet(t, n)
  PROVE  /\ n = ckpt[t].total
         /\ \/ /\ ledger[t][n].by # 0 /\ ledger[t][n].by = fence[t]
               /\ lease[t][fence[t]].started
               /\ ledger[t][n].status \in {"dispatch_started", "outcome_unknown",
                                           "response_received"}
            \/ ledger[t][n].status = "cancelled_late"
<1>1. ledger[t][n].status \in {"dispatch_started", "outcome_unknown",
                               "response_received", "cancelled_late"}
  BY EntryType DEF LedgerRow, SentBy, Quiet, Book!LedgerStatus
<1> QED
  BY <1>1 DEF LedgerRow, SentBy, Open

\* A shard whose lease is unused has only quiet entries, none of them sent
\* by that lease.
LEMMA UnusedIsQuiet ==
  ASSUME TypeOK, LeaseRowsValid, NEW t \in Shards, NEW n \in CallNos, LedgerRow(t, n),
         Held(t), ~Current(t).started
  PROVE  Quiet(t, n) /\ (ledger[t][n].by # 0 => ledger[t][n].by # fence[t])
<1>1. shard[t] \notin Done
  BY HeldAtWork
<1>2. ledger[t][n].by # 0 => ledger[t][n].by # fence[t]
  BY DEF LedgerRow, SentBy, Current
<1>3. ledger[t][n].status # "cancelled_late"
  BY <1>1 DEF LedgerRow, Open
<1> QED
  BY <1>2, <1>3, OpenIsLast

\* Beside an entry that is not quiet all others of the shard are, and the last
\* lease has sent none of them.
LEMMA OthersAreQuiet ==
  ASSUME TypeOK, NEW t \in Shards, NEW n \in CallNos, NEW m \in CallNos, m # n,
         LedgerRow(t, n), LedgerRow(t, m), ~Quiet(t, n)
  PROVE  Quiet(t, m) /\ (ledger[t][m].by # 0 => ledger[t][m].by # fence[t])
<1>1. n = ckpt[t].total
  BY OpenIsLast
<1>2. Quiet(t, m)
  BY <1>1, OpenIsLast
<1>3. ledger[t][m].by # 0 => ledger[t][m].by # fence[t]
  BY <1>1 DEF LedgerRow, SentBy
<1> QED
  BY <1>2, <1>3

\* An entry that is not touched keeps its row if its lease does.
LEMMA RowKept ==
  ASSUME TypeOK, NEW t \in Shards, NEW n \in CallNos, LedgerRow(t, n),
         ledger'[t][n] = ledger[t][n], ckpt'[t].total = ckpt[t].total,
         fence'[t] = fence[t],
         \A f \in Fences : f = ledger[t][n].by => SameLease(t, f),
         ShardFits(t, n)
  PROVE  LedgerRow(t, n)'
<1>1. ledger[t][n].by # 0 => SameLease(t, ledger[t][n].by)
  BY SenderIsLease DEF LedgerRow
<1>2. Unsent(t, n)'
  BY DEF LedgerRow, Unsent
<1>3. SentBy(t, n)'
  BY <1>1 DEF LedgerRow, SentBy, SameLease
<1>4. Open(t, n)'
  <2>1. CASE Quiet(t, n)
    BY <2>1 DEF Quiet, Open
  <2>2. CASE ledger[t][n].status = "cancelled_late"
    BY <2>2 DEF LedgerRow, Open, ShardFits
  <2>3. CASE ledger[t][n].status = "dispatch_started"
    BY <1>1, <2>3 DEF LedgerRow, Open, SameLease, Held, Current
  <2>4. CASE ledger[t][n].status = "outcome_unknown"
    BY <1>1, <2>4 DEF LedgerRow, Open, SameLease, AnswerLease, ShardFits
  <2>5. CASE ledger[t][n].status = "response_received"
    <3>1. Settleable(t, n)'
      BY <1>1, <2>5 DEF LedgerRow, Open, SameLease, AnswerLease, Settleable
    <3>2. ~Held(t)'
      BY <1>1, <2>5 DEF LedgerRow, Open, SameLease, Held, Current
    <3> QED
      BY <1>1, <2>5, <3>1, <3>2 DEF LedgerRow, Open, SameLease, AnswerLease, ShardFits
  <2> QED
    BY <2>1, <2>2, <2>3, <2>4, <2>5, OpenIsLast
<1> QED
  BY <1>2, <1>3, <1>4 DEF LedgerRow

\* A shard whose ledger, leases and counters are not touched keeps its rows.
LEMMA RowsUntouched ==
  ASSUME TypeOK, NEW t \in Shards, \A n \in CallNos : LedgerRow(t, n),
         ledger'[t] = ledger[t], ckpt'[t].total = ckpt[t].total,
         fence'[t] = fence[t], lease'[t] = lease[t],
         \/ shard'[t] = shard[t]
         \/ shard[t] \in Done /\ shard'[t] \in Done
         \/ shard[t] \notin Working \cup Done
  PROVE  \A n \in CallNos : LedgerRow(t, n)'
<1> SUFFICES ASSUME NEW n \in CallNos PROVE LedgerRow(t, n)'
  OBVIOUS
<1>1. ShardFits(t, n)
  BY DEF LedgerRow, Open, ShardFits
<1>2. \A f \in Fences : SameLease(t, f)
  BY DEF SameLease
<1> QED
  BY <1>1, <1>2, RowKept

\* A quiet entry keeps its row whatever becomes of its shard and its leases,
\* as long as they remember what they have sent.
LEMMA QuietRowKept ==
  ASSUME TypeOK, NEW t \in Shards, NEW n \in CallNos, LedgerRow(t, n), Quiet(t, n),
         ledger'[t][n] = ledger[t][n], ckpt'[t].total = ckpt[t].total,
         fence'[t] \in {fence[t], fence[t] + 1},
         \A f \in Fences : f = ledger[t][n].by => lease'[t][f].started = lease[t][f].started
  PROVE  LedgerRow(t, n)'
<1>1. ledger[t][n].by # 0
        => lease'[t][ledger[t][n].by].started = lease[t][ledger[t][n].by].started
  BY SenderIsLease DEF LedgerRow
<1>2. Unsent(t, n)'
  BY DEF LedgerRow, Unsent
<1>3. SentBy(t, n)'
  BY <1>1, EntryType DEF LedgerRow, SentBy
<1>4. Open(t, n)'
  BY DEF Quiet, Open
<1> QED
  BY <1>2, <1>3, <1>4 DEF LedgerRow

\* A request that is given up becomes unknown, and its shard has ended.
LEMMA GivenUpRows ==
  ASSUME TypeOK, LeaseRowsValid, NEW s \in Shards, \A n \in CallNos : LedgerRow(s, n),
         Held(s), ledger'[s] = GivenUp(s), ckpt'[s].total = ckpt[s].total,
         fence'[s] = fence[s], shard'[s] \in Done,
         \A f \in Fences : lease'[s][f].started = lease[s][f].started,
         lease'[s][fence[s]].attempt = "request_outcome_unknown"
  PROVE  \A n \in CallNos : LedgerRow(s, n)'
<1> SUFFICES ASSUME NEW n \in CallNos PROVE LedgerRow(s, n)'
  OBVIOUS
<1> DEFINE e == ledger[s][n]
           u == [e EXCEPT !.status = "outcome_unknown", !.dispatch = "outcome_unknown"]
<1>0. shard[s] \notin Done
  BY HeldAtWork
<1>1. ledger'[s][n] = IF e.by = fence[s] /\ e.dispatch = "started" THEN u ELSE e
  BY DEF GivenUp
<1>2. CASE e.by = fence[s] /\ e.dispatch = "started"
  <2>1. e.status = "dispatch_started"
    BY <1>2 DEF LedgerRow, SentBy
  <2>2. e.by # 0 /\ e.kind = "none" /\ e.evidence = 0 /\ e.pages = 0 /\ n = ckpt[s].total
    BY <2>1 DEF LedgerRow, Open, SentBy
  <2>3. /\ u.status = "outcome_unknown" /\ u.dispatch = "outcome_unknown"
        /\ u.by = e.by /\ u.kind = e.kind /\ u.evidence = e.evidence /\ u.pages = e.pages
    BY EntryType DEF LedgerEntry
  <2>4. e.by \in Fences /\ lease[s][e.by].started
    BY <2>2, SenderIsLease DEF LedgerRow, SentBy
  <2>5. ledger'[s][n] = u
    BY <1>1, <1>2
  <2> HIDE DEF u
  <2>6. Unsent(s, n)'
    BY <2>3, <2>5 DEF Unsent
  <2>7. SentBy(s, n)'
    BY <1>2, <2>2, <2>3, <2>4, <2>5, EntryType DEF SentBy
  <2>8. Open(s, n)'
    BY <1>2, <2>2, <2>3, <2>5 DEF Open, AnswerLease
  <2> QED
    BY <2>6, <2>7, <2>8 DEF LedgerRow
<1>3. CASE ~(e.by = fence[s] /\ e.dispatch = "started")
  <2>1. ledger'[s][n] = ledger[s][n]
    BY <1>1, <1>3
  <2>2. Quiet(s, n)
    BY <1>0, <1>3, OpenIsLast DEF LedgerRow, Open
  <2> QED
    BY <2>1, <2>2, QuietRowKept
<1> QED
  BY <1>2, <1>3

\* Recovering leases keeps the rows of the ledger: what was sent becomes
\* unknown or waits for its settlement, what was not stays prepared.
LEMMA RecoverKeepsLedger ==
  ASSUME StoreInv, NEW Gone \in SUBSET {s \in Shards : Held(s)}, RecoverLeases(Gone),
         UNCHANGED <<ckpt, fence>>
  PROVE  LedgerRows'
<1> USE DEF StoreInv, KernelInv
<1>1. \A t \in Shards, n \in CallNos : LedgerRow(t, n)
  BY DEF LedgerRows
<1>2. ASSUME NEW t \in Shards \ Gone PROVE \A n \in CallNos : LedgerRow(t, n)'
  <2>1. lease'[t] = lease[t] /\ ledger'[t] = ledger[t]
    BY RecoverFalls, RecoverEffect
  <2>2. shard'[t] = shard[t] \/ (shard[t] \in Done /\ shard'[t] \in Done)
    BY RecoverEffect
  <2> QED
    BY <1>1, <2>1, <2>2, RowsUntouched
<1>3. ASSUME NEW s \in Gone PROVE \A n \in CallNos : LedgerRow(s, n)'
  <2>1. /\ Held(s) /\ s \in Shards
        /\ lease'[s][fence[s]] = RecoveredLease(s)
        /\ \A f \in Fences : f # fence[s] => lease'[s][f] = lease[s][f]
        /\ RecoveredLease(s).started = Current(s).started
    BY RecoverFalls
  <2>2. \A f \in Fences : lease'[s][f].started = lease[s][f].started
    BY <2>1 DEF Current
  <2>3. CASE Current(s).started /\ ~Answered(s)
    <3>1. shard'[s] \in Done /\ ledger'[s] = GivenUp(s)
      BY <2>3, RecoverEffect
    <3>2. RecoveredLease(s).attempt = "request_outcome_unknown"
      BY <2>1, <2>3, CurrentType DEF RecoveredLease, Lease
    <3> QED
      BY <1>1, <2>1, <2>2, <3>1, <3>2, GivenUpRows
  <2>4. CASE ~Current(s).started
    <3>1. ledger'[s] = ledger[s]
      BY <2>4, RecoverEffect
    <3>2. \A n \in CallNos : Quiet(s, n)
      BY <1>1, <2>1, <2>4, UnusedIsQuiet
    <3> QED
      BY <1>1, <2>1, <2>2, <3>1, <3>2, QuietRowKept
  <2>5. CASE Answered(s)
    <3>1. ledger'[s] = ledger[s]
      BY <2>5, RecoverEffect
    <3>2. PICK m \in CallNos : /\ ledger[s][m].by = fence[s]
                               /\ ledger[s][m].dispatch = "response_received"
      BY <2>5 DEF Answered
    <3>3. shard[s] \notin Done /\ fence[s] # 0
      BY <2>1, HeldAtWork
    <3>4. ledger[s][m].status = "settled" /\ m = ckpt[s].total
      BY <1>1, <2>1, <3>2, <3>3 DEF LedgerRow, SentBy, Open
    <3>5. ASSUME NEW n \in CallNos PROVE Quiet(s, n)
      BY <1>1, <2>1, <3>3, <3>4, OpenIsLast DEF LedgerRow, Open, Quiet
    <3> QED
      BY <1>1, <2>1, <2>2, <3>1, <3>5, QuietRowKept
  <2> QED
    BY <2>3, <2>4, <2>5
<1> QED
  BY <1>2, <1>3 DEF LedgerRows

\* Pausing leaves the ledger as it is, and cancelling withdraws what has not
\* been sent; only the shard of an open entry has to wait for it.
LEMMA OperatorsKeepLedger ==
  ASSUME StoreInv, NEW r \in Runs, RequestPause(r) \/ RequestCancel(r)
  PROVE  LedgerRows'
<1> USE DEF StoreInv, KernelInv
<1> SUFFICES ASSUME NEW t \in Shards, NEW n \in CallNos PROVE LedgerRow(t, n)'
  BY DEF LedgerRows
<1>1. LedgerRow(t, n)
  BY DEF LedgerRows
<1>2. /\ t \notin HeldIn(r) \ Busy(r) => lease'[t] = lease[t]
      /\ t \in HeldIn(r) \ Busy(r) =>
           /\ lease'[t][fence[t]].started = lease[t][fence[t]].started
           /\ \A f \in Fences : f # fence[t] => lease'[t][f] = lease[t][f]
  <2>1. \E w : w # "none" /\ lease' = GiveBack(r, w)
    BY DEF RequestPause, RequestCancel
  <2> QED
    BY <2>1, GiveBackFalls
<1>3. \A f \in Fences : lease'[t][f].started = lease[t][f].started
  BY <1>2
<1>4. fence'[t] = fence[t] /\ ckpt'[t].total = ckpt[t].total
  <2>1. ckpt[t] \in Checkpoint
    BY DEF TypeOK
  <2>2. [ckpt[t] EXCEPT !.sealed = 0, !.retry = "none", !.done = TRUE].total = ckpt[t].total
    BY <2>1 DEF Checkpoint
  <2> QED
    BY <2>2 DEF RequestPause, RequestCancel
<1>5. CASE RunOf[t] # r
  <2>1. t \notin ShardsOf(r) /\ t \notin HeldIn(r)
    BY <1>5 DEF ShardsOf, HeldIn
  <2>2. shard'[t] = shard[t] /\ ledger'[t] = ledger[t]
    BY <2>1 DEF RequestPause, RequestCancel
  <2> QED
    BY <1>2, <1>4, <2>1, <2>2, RowsUntouched DEF LedgerRows
<1>6. CASE RunOf[t] = r /\ ledger'[t][n] # ledger[t][n]
  <2> DEFINE w == [ledger[t][n] EXCEPT !.status = "settled",
                                       !.kind = "cancelled_before_dispatch"]
  <2>1. ledger[t][n].status = "prepared" /\ ledger'[t][n] = w
    <3>1. ledger' = ledger \/ ledger'[t] = ledger[t] \/ ledger'[t] = Withdrawn(t)
      BY DEF RequestPause, RequestCancel
    <3>2. ledger'[t] = Withdrawn(t)
      BY <1>6, <3>1
    <3>3. ledger'[t][n] = IF ledger[t][n].status = "prepared" THEN w ELSE ledger[t][n]
      BY <3>2 DEF Withdrawn
    <3> QED
      BY <1>6, <3>3
  <2>2. /\ w.status = "settled" /\ w.by = ledger[t][n].by
        /\ w.dispatch = ledger[t][n].dispatch
    BY EntryType DEF LedgerEntry
  <2>3. ledger[t][n].by = 0 /\ ledger[t][n].dispatch = "none"
    BY <1>1, <2>1 DEF LedgerRow, Unsent
  <2> HIDE DEF w
  <2>4. Unsent(t, n)' /\ Open(t, n)'
    BY <2>1, <2>2 DEF Unsent, Open
  <2>5. SentBy(t, n)'
    BY <1>4, <2>1, <2>2, <2>3, EntryType DEF SentBy
  <2> QED
    BY <2>4, <2>5 DEF LedgerRow
<1>7. CASE RunOf[t] = r /\ ledger'[t][n] = ledger[t][n] /\ Quiet(t, n)
  BY <1>1, <1>3, <1>4, <1>7, QuietRowKept
<1>8. CASE RunOf[t] = r /\ ledger'[t][n] = ledger[t][n] /\ ~Quiet(t, n)
  <2>1. t \in ShardsOf(r)
    BY <1>8 DEF ShardsOf
  <2>2. t \notin HeldIn(r) \ Busy(r)
    <3> SUFFICES ASSUME t \in HeldIn(r), t \notin Busy(r) PROVE FALSE
      OBVIOUS
    <3>1. Held(t) /\ ~Current(t).started
      BY DEF HeldIn, Busy
    <3> QED
      BY <1>1, <1>8, <3>1, UnusedIsQuiet
  <2>3. \A f \in Fences : SameLease(t, f)
    BY <1>2, <2>2 DEF SameLease
  <2>4. /\ run[r].status # "cancel_requested" /\ shard[t] # "cancel_requested"
    BY <1>8 DEF RequestPause, RequestCancel, RunRows
  <2>5. ShardFits(t, n)
    <3>1. CASE ledger[t][n].status \in {"outcome_unknown", "cancelled_late"}
      <4>1. shard[t] \in Done /\ n = ckpt[t].total
        BY <1>1, <3>1, <1>8, OpenIsLast DEF LedgerRow, Open
      <4>2. t \notin Busy(r)
        <5>1. ~Held(t)
          BY <4>1, HeldAtWork
        <5>2. \A m \in CallNos : ledger[t][m].status # "response_received"
          <6> SUFFICES ASSUME NEW m \in CallNos, ledger[t][m].status = "response_received"
                       PROVE  FALSE
            OBVIOUS
          <6>1. ~Quiet(t, m) /\ m # n /\ LedgerRow(t, m)
            BY <3>1 DEF Quiet, LedgerRows
          <6> QED
            BY <1>1, <1>8, <6>1, OthersAreQuiet
        <5> QED
          <6> SUFFICES ASSUME t \in Busy(r) PROVE FALSE
            OBVIOUS
          <6>1. t \in {q[1] : q \in Pending(r)}
            BY <5>1 DEF Busy, HeldIn
          <6>2. PICK q \in Pending(r) : q[1] = t
            BY <6>1
          <6>3. q[2] \in CallNos /\ ledger[t][q[2]].status = "response_received"
            BY <6>2 DEF Pending
          <6> QED
            BY <5>2, <6>3
      <4>3. shard'[t] \in Done
        BY <2>1, <4>1, <4>2 DEF RequestPause, RequestCancel, Done
      <4> QED
        BY <3>1, <4>3 DEF ShardFits
    <3>2. CASE ledger[t][n].status = "response_received"
      <4>1. t \in Busy(r)
        <5>1. <<t, n>> \in Pending(r)
          BY <2>1, <3>2 DEF Pending
        <5>2. <<t, n>>[1] = t
          OBVIOUS
        <5> QED
          BY <5>1, <5>2 DEF Busy
      <4>2. /\ shard[t] \in Working \cup Done
            /\ AnswerLease(t, n).attempt = "request_outcome_unknown" => shard[t] \in Done
        BY <1>1, <2>4, <3>2 DEF LedgerRow, Open
      <4>3. CASE RequestPause(r)
        <5>1. shard'[t] = IF shard[t] \in Done THEN shard[t] ELSE "pause_requested"
          BY <2>1, <4>1, <4>3 DEF RequestPause
        <5> QED
          BY <3>2, <4>2, <5>1 DEF ShardFits, Working
      <4>4. CASE RequestCancel(r)
        <5>1. shard'[t] = "cancel_requested"
          BY <2>1, <4>1, <4>4 DEF RequestCancel
        <5> QED
          BY <3>2, <5>1 DEF ShardFits, Working
      <4> QED
        BY <4>3, <4>4
    <3>3. CASE ledger[t][n].status = "dispatch_started"
      BY <3>3 DEF ShardFits
    <3> QED
      BY <1>1, <1>8, <3>1, <3>2, <3>3, OpenIsLast
  <2> QED
    BY <1>1, <1>4, <1>8, <2>3, <2>5, RowKept
<1> QED
  BY <1>5, <1>6, <1>7, <1>8

\* A claim is made for a shard without open entries, and opens none.
LEMMA ClaimKeepsLedger ==
  ASSUME StoreInv, ClaimNext
  PROVE  LedgerRows'
<1> USE DEF StoreInv, KernelInv
<1> SUFFICES ASSUME NEW t \in Shards PROVE \A n \in CallNos : LedgerRow(t, n)'
  BY DEF LedgerRows
<1>1. \A n \in CallNos : LedgerRow(t, n)
  BY DEF LedgerRows
<1>2. ledger'[t] = ledger[t]
  BY DEF ClaimNext
<1>3. ckpt'[t].total = ckpt[t].total
  <2>1. ckpt'[t] = ckpt[t] \/ (~ckpt[t].exists /\ ckpt'[t] = NewCheckpoint(t))
    BY DEF ClaimNext
  <2>2. NewCheckpoint(t).total = 0
    BY DEF NewCheckpoint, NoCheckpoint
  <2> QED
    BY <2>1, <2>2 DEF CheckpointRows
<1>4. CASE t \in Chosen
  <2>1. fence'[t] = fence[t] + 1
    BY <1>4 DEF ClaimNext
  <2>2. ~Held(t) /\ shard[t] \in {"queued", "retry_scheduled"}
    BY <1>4 DEF Chosen, Claimable, HeldIn, ShardsOf
  <2>3. \A n \in CallNos : Quiet(t, n)
    BY <1>1, <2>2, OpenIsLast DEF LedgerRow, Open, Working, Done
  <2>4. \A f \in Fences : f # fence[t] + 1 => lease'[t][f] = lease[t][f]
    BY <1>4 DEF ClaimNext, TypeOK
  <2>5. \A n \in CallNos : ledger[t][n].by # fence[t] + 1
    BY <1>1, EntryType DEF LedgerRow, SentBy
  <2> QED
    BY <1>1, <1>2, <1>3, <2>1, <2>3, <2>4, <2>5, QuietRowKept
<1>5. CASE t \notin Chosen
  <2>1. lease'[t] = lease[t] /\ fence'[t] = fence[t]
    BY <1>5 DEF ClaimNext
  <2>2. shard'[t] = shard[t] \/ shard[t] \in {"queued", "retry_scheduled"}
    BY <1>5 DEF ClaimNext, Skipped, Claimable
  <2>3. shard'[t] = shard[t] \/ shard[t] \notin Working \cup Done
    BY <2>2 DEF Working, Done
  <2> QED
    BY <1>1, <1>2, <1>3, <2>1, <2>3, RowsUntouched
<1> QED
  BY <1>4, <1>5

\* Preparing writes an entry that has not been sent.
LEMMA PrepareKeepsLedger ==
  ASSUME StoreInv, NEW s \in Shards, Prepare(s)
  PROVE  LedgerRows'
<1> USE DEF StoreInv, KernelInv
<1> SUFFICES ASSUME NEW t \in Shards, NEW n \in CallNos PROVE LedgerRow(t, n)'
  BY DEF LedgerRows
<1> DEFINE k == NextCall(s)
           b == [ledger[s][k] EXCEPT !.bound = fence[s]]
<1>1. LedgerRow(t, n)
  BY DEF LedgerRows
<1>2. /\ shard' = shard /\ ckpt' = ckpt /\ fence' = fence /\ lease' = lease
      /\ ckpt[s].total \in Nat /\ fence[s] \in Nat
  BY EntryType DEF Prepare
<1>3. \/ ledger[s][k].status = "none" /\ ledger' = [ledger EXCEPT ![s][k] = NewEntry(s)]
      \/ ledger[s][k].status = "prepared" /\ ledger' = [ledger EXCEPT ![s][k] = b]
  BY DEF Prepare
<1>4. /\ NewEntry(s).status = "prepared" /\ NewEntry(s).by = 0
      /\ NewEntry(s).dispatch = "none" /\ NewEntry(s).kind = "none"
      /\ NewEntry(s).evidence = 0 /\ NewEntry(s).pages = 0
  BY DEF NewEntry, NoEntry
<1>5. k \in CallNos => /\ b.status = ledger[s][k].status /\ b.by = ledger[s][k].by
                       /\ b.dispatch = ledger[s][k].dispatch /\ b.kind = ledger[s][k].kind
                       /\ b.evidence = ledger[s][k].evidence /\ b.pages = ledger[s][k].pages
  BY EntryType DEF LedgerEntry
<1> HIDE DEF b
<1>6. CASE t = s /\ n = k
  <2>1. \/ ledger[s][k].status = "none" /\ ledger'[s][k] = NewEntry(s)
        \/ ledger[s][k].status = "prepared" /\ ledger'[s][k] = b
    BY <1>3, <1>6 DEF TypeOK
  <2>2. /\ n > ckpt[s].total /\ ledger[s][k].by = 0 /\ ledger[s][k].dispatch = "none"
        /\ ledger[s][k].kind = "none" /\ ledger[s][k].evidence = 0
        /\ ledger[s][k].pages = 0
    BY <1>1, <1>6, <2>1 DEF LedgerRow, Unsent
  <2>3. LET e == ledger'[s][k] IN
        /\ e.status = "prepared" /\ e.by = 0 /\ e.dispatch = "none" /\ e.kind = "none"
        /\ e.evidence = 0 /\ e.pages = 0
    BY <1>4, <1>5, <1>6, <2>1, <2>2
  <2> HIDE DEF k
  <2> QED
    BY <1>2, <1>6, <2>2, <2>3 DEF LedgerRow, Unsent, SentBy, Open
<1>7. CASE ~(t = s /\ n = k)
  <2>1. ledger'[t][n] = ledger[t][n]
    BY <1>3, <1>7 DEF TypeOK
  <2>2. ShardFits(t, n) /\ \A f \in Fences : SameLease(t, f)
    BY <1>1, <1>2 DEF LedgerRow, Open, ShardFits, SameLease
  <2> QED
    BY <1>1, <1>2, <2>1, <2>2, RowKept
<1> QED
  BY <1>6, <1>7

\* Sending makes the entry the last one sent, by the lease that is held.
LEMMA SendKeepsLedger ==
  ASSUME StoreInv, NEW s \in Shards, SendRequest(s)
  PROVE  LedgerRows'
<1> USE DEF StoreInv, KernelInv
<1> DEFINE k == NextCall(s)
           l == [lease[s][fence[s]] EXCEPT !.attempt = "request_started", !.started = TRUE]
           x == [ledger[s][k] EXCEPT !.status = "dispatch_started", !.by = fence[s],
                                     !.dispatch = "started"]
           c == [ckpt[s] EXCEPT !.calls = @ + 1, !.total = @ + 1, !.retry = "none"]
<1>1. /\ Held(s) /\ ~Current(s).started /\ ledger[s][k].status = "prepared"
  BY DEF SendRequest, MayDispatch, MayRequest, Usable
<1>2. /\ shard' = shard /\ fence' = fence
      /\ lease' = [lease EXCEPT ![s][fence[s]] = l]
      /\ ledger' = [ledger EXCEPT ![s][k] = x]
      /\ ckpt' = [ckpt EXCEPT ![s] = c]
  BY DEF SendRequest
<1>3. lease[s][fence[s]] \in Lease /\ fence[s] \in Fences
  BY <1>1, CurrentType DEF Current
<1>4. /\ l.attempt = "request_started" /\ l.started
      /\ l.status = lease[s][fence[s]].status
  BY <1>3 DEF Lease
<1>5. c.total = ckpt[s].total + 1 /\ ckpt[s].total \in Nat
  <2>1. ckpt[s] \in Checkpoint
    BY DEF TypeOK
  <2> QED
    BY <2>1 DEF Checkpoint
<1>6. k \in CallNos => /\ x.status = "dispatch_started" /\ x.by = fence[s]
                       /\ x.dispatch = "started" /\ x.kind = ledger[s][k].kind
                       /\ x.evidence = ledger[s][k].evidence
                       /\ x.pages = ledger[s][k].pages
  BY EntryType DEF LedgerEntry
<1> HIDE DEF l, x, c
<1>7. lease'[s][fence[s]] = l /\ \A f \in Fences : f # fence[s] => lease'[s][f] = lease[s][f]
  BY <1>2, <1>3 DEF TypeOK
<1>8. ckpt'[s].total = ckpt[s].total + 1
  BY <1>2, <1>5 DEF TypeOK
<1>9. ASSUME NEW t \in Shards \ {s} PROVE \A n \in CallNos : LedgerRow(t, n)'
  <2>1. /\ ledger'[t] = ledger[t] /\ lease'[t] = lease[t]
        /\ ckpt'[t] = ckpt[t]
    BY <1>2 DEF TypeOK
  <2> QED
    BY <1>2, <2>1, RowsUntouched DEF LedgerRows
<1>10. ASSUME NEW n \in CallNos PROVE LedgerRow(s, n)'
  <2>1. LedgerRow(s, n)
    BY DEF LedgerRows
  <2>2. Quiet(s, n) /\ (ledger[s][n].by # 0 => ledger[s][n].by # fence[s])
    BY <1>1, <2>1, UnusedIsQuiet
  <2>3. CASE n = k
    <3>1. ledger'[s][n] = x
      BY <1>2, <2>3 DEF TypeOK
    <3>2. /\ ledger[s][n].kind = "none" /\ ledger[s][n].evidence = 0
          /\ ledger[s][n].pages = 0
      BY <1>1, <2>1, <2>3 DEF LedgerRow, Unsent
    <3>3. n = ckpt'[s].total
      BY <1>8, <2>3 DEF NextCall
    <3>4. fence[s] # 0 /\ Held(s)'
      BY <1>1, <1>2, <1>4, <1>7 DEF Held, Current
    <3>5. Current(s)'.attempt = "request_started"
      BY <1>2, <1>4, <1>7 DEF Current
    <3>6. Unsent(s, n)'
      BY <1>6, <2>3, <3>1 DEF Unsent
    <3>7. SentBy(s, n)'
      <4>1. /\ ledger'[s][n].by = fence[s] /\ ledger'[s][n].dispatch = "started"
            /\ ledger'[s][n].status = "dispatch_started"
        BY <1>6, <2>3, <3>1
      <4>2. fence'[s] = fence[s] /\ lease'[s][fence[s]].started
        BY <1>2, <1>4, <1>7
      <4>3. fence[s] \in Nat /\ n \in Nat
        BY EntryType
      <4> QED
        BY <3>3, <4>1, <4>2, <4>3 DEF SentBy
    <3>8. Open(s, n)'
      BY <1>2, <1>6, <2>3, <3>1, <3>2, <3>4, <3>5 DEF Open
    <3> QED
      BY <3>6, <3>7, <3>8 DEF LedgerRow
  <2>4. CASE n # k
    <3>1. ledger'[s][n] = ledger[s][n]
      BY <1>2, <2>4 DEF TypeOK
    <3>2. n # ckpt[s].total + 1
      BY <2>4 DEF NextCall
    <3>3. Unsent(s, n)'
      BY <1>5, <1>8, <2>1, <3>1, <3>2, EntryType DEF LedgerRow, Unsent
    <3>4. ledger[s][n].by # 0 => lease'[s][ledger[s][n].by] = lease[s][ledger[s][n].by]
      BY <1>7, <2>1, <2>2, SenderIsLease DEF LedgerRow
    <3>5. SentBy(s, n)'
      BY <1>2, <1>5, <1>8, <2>1, <2>2, <3>1, <3>4, EntryType DEF LedgerRow, SentBy
    <3>6. Open(s, n)'
      BY <2>2, <3>1 DEF Quiet, Open
    <3> QED
      BY <3>3, <3>5, <3>6 DEF LedgerRow
  <2> QED
    BY <2>3, <2>4
<1> QED
  BY <1>9, <1>10 DEF LedgerRows

\* Storing an answer ends the lease of the request, if nothing has before.
LEMMA PersistKeepsLedger ==
  ASSUME StoreInv, NEW s \in Shards, NEW k \in CallNos, NEW resp \in Responses,
         PersistResponse(s, k, resp)
  PROVE  LedgerRows'
<1> USE DEF StoreInv, KernelInv
<1> DEFINE f == ledger[s][k].by
           l == [lease[s][f] EXCEPT !.status = "released", !.lapsed = FALSE,
                                    !.reason = "RESPONSE_RECEIVED_PENDING_SETTLEMENT"]
           x == [ledger[s][k] EXCEPT !.status = "response_received", !.resp = resp,
                                     !.dispatch = "response_received"]
<1>1. MayPersist(s, k)
  BY DEF PersistResponse
<1>2. /\ shard' = shard /\ ckpt' = ckpt /\ fence' = fence
      /\ ledger' = [ledger EXCEPT ![s][k] = x]
      /\ lease' = IF lease[s][f].status = "active" THEN [lease EXCEPT ![s][f] = l]
                  ELSE lease
  BY DEF PersistResponse
<1>3. LedgerRow(s, k) /\ ~Quiet(s, k)
  BY <1>1 DEF MayPersist, LedgerRows, Quiet
<1>4. /\ ledger[s][k].status \in {"dispatch_started", "outcome_unknown"}
      /\ f # 0 /\ f = fence[s] /\ k = ckpt[s].total
      /\ ledger[s][k].kind = "none" /\ ledger[s][k].evidence = 0 /\ ledger[s][k].pages = 0
      /\ ledger[s][k].prep = f
  BY <1>1, <1>3, OpenIsLast DEF MayPersist, LedgerRow, Open
<1>5. f \in Fences
  BY <1>3, <1>4, SenderIsLease DEF LedgerRow
<1>6. lease[s][f] \in Lease
  BY <1>5 DEF TypeOK
<1>7. /\ l.status = "released" /\ l.reason = "RESPONSE_RECEIVED_PENDING_SETTLEMENT"
      /\ l.attempt = lease[s][f].attempt /\ l.started = lease[s][f].started
  BY <1>6 DEF Lease
<1>8. /\ x.status = "response_received" /\ x.dispatch = "response_received"
      /\ x.by = f /\ x.prep = ledger[s][k].prep /\ x.kind = ledger[s][k].kind
      /\ x.evidence = ledger[s][k].evidence /\ x.pages = ledger[s][k].pages
  BY EntryType DEF LedgerEntry
<1>9. ledger'[s][k] = x
  BY <1>2 DEF TypeOK
<1>10. lease'[s][f].started = lease[s][f].started /\ lease[s][f].started
  BY <1>2, <1>3, <1>4, <1>5, <1>7 DEF TypeOK, LedgerRow, SentBy
<1>11. /\ \A g \in Fences : g # f => lease'[s][g] = lease[s][g]
       /\ \A t \in Shards \ {s} : lease'[t] = lease[t]
  BY <1>2 DEF TypeOK
<1>12. /\ lease'[s][f].status \in {"released", "expired"}
       /\ lease'[s][f].reason \in {"RESPONSE_RECEIVED_PENDING_SETTLEMENT",
                                   "REQUEST_OUTCOME_UNKNOWN",
                                   "CANCELLED_REQUEST_OUTCOME_UNKNOWN"}
       /\ \/ lease'[s][f].attempt = "request_started" /\ shard[s] \in Working
          \/ lease'[s][f].attempt = "request_outcome_unknown" /\ shard[s] \in Done
  <2>1. CASE lease[s][f].status = "active"
    <3>1. lease'[s][f] = l
      BY <1>2, <1>5, <2>1 DEF TypeOK
    <3>2. lease[s][f].attempt = "request_started"
      BY <1>1, <2>1 DEF MayPersist, AnswerLease
    <3>3. shard[s] \in Working
      BY <1>5, <2>1, ActiveIsHeld, HeldAtWork
    <3> QED
      BY <1>7, <3>1, <3>2, <3>3
  <2>2. CASE lease[s][f].status # "active"
    <3>1. lease'[s][f] = lease[s][f]
      BY <1>2, <2>2
    <3>2. /\ lease[s][f].status \in {"released", "expired"}
          /\ lease[s][f].attempt = "request_outcome_unknown"
          /\ lease[s][f].reason \in {"REQUEST_OUTCOME_UNKNOWN",
                                     "CANCELLED_REQUEST_OUTCOME_UNKNOWN"}
          /\ ledger[s][k].status = "outcome_unknown"
      BY <1>1, <2>2 DEF MayPersist, AnswerLease
    <3>3. shard[s] \in Done
      BY <1>3, <3>2 DEF LedgerRow, Open
    <3> QED
      BY <3>1, <3>2, <3>3
  <2> QED
    BY <2>1, <2>2
<1> HIDE DEF f, l, x
<1>13. ASSUME NEW t \in Shards \ {s} PROVE \A n \in CallNos : LedgerRow(t, n)'
  <2>1. ledger'[t] = ledger[t]
    BY <1>2 DEF TypeOK
  <2> QED
    BY <1>2, <1>11, <2>1, RowsUntouched DEF LedgerRows
<1>14. ASSUME NEW n \in CallNos, n # k PROVE LedgerRow(s, n)'
  <2>1. Quiet(s, n) /\ LedgerRow(s, n)
    BY <1>3, <1>14, OthersAreQuiet DEF LedgerRows
  <2>2. \A g \in Fences : lease'[s][g].started = lease[s][g].started
    BY <1>10, <1>11
  <2>3. ledger'[s][n] = ledger[s][n]
    BY <1>2, <1>14 DEF TypeOK
  <2> QED
    BY <1>2, <2>1, <2>2, <2>3, QuietRowKept
<1>15. LedgerRow(s, k)'
  <2>1. Unsent(s, k)'
    BY <1>8, <1>9 DEF Unsent
  <2>2. SentBy(s, k)'
    <3>1. /\ ledger'[s][k].by = f /\ ledger'[s][k].dispatch = "response_received"
          /\ ledger'[s][k].status = "response_received"
      BY <1>8, <1>9
    <3>2. lease'[s][f].started
      BY <1>10
    <3>3. fence[s] \in Nat /\ k \in Nat
      BY EntryType
    <3>4. /\ fence'[s] = fence[s] /\ ckpt'[s].total = ckpt[s].total
          /\ f = fence[s] /\ k = ckpt[s].total
      BY <1>2, <1>4
    <3>5. f <= fence'[s] /\ k <= ckpt'[s].total
      BY <3>3, <3>4
    <3> QED
      BY <3>1, <3>2, <3>4, <3>5 DEF SentBy
  <2>3. Settleable(s, k)'
    BY <1>4, <1>8, <1>9, <1>12 DEF Settleable, AnswerLease
  <2>4. ~Held(s)'
    BY <1>2, <1>4, <1>12 DEF Held, Current
  <2>5. Open(s, k)'
    BY <1>2, <1>4, <1>8, <1>9, <1>12, <2>3, <2>4 DEF Open, AnswerLease, Working
  <2> QED
    BY <2>1, <2>2, <2>5 DEF LedgerRow
<1> QED
  BY <1>13, <1>14, <1>15 DEF LedgerRows

\* Settling closes the entry, too late only if its shard has ended.
LEMMA SettleKeepsLedger ==
  ASSUME StoreInv, NEW s \in Shards, NEW k \in CallNos,
         SettleLate(s, k) \/ SettleSuccess(s, k) \/ SettleFailure(s, k)
  PROVE  LedgerRows'
<1> USE DEF StoreInv, KernelInv
<1>1. /\ ledger[s][k].status = "response_received" /\ Settleable(s, k)
      /\ fence' = fence
      /\ Ends(s) \/ GoesBack(s) \/ UNCHANGED <<run, shard>>
  BY SettleShape
<1>2. PICK kind, at :
        /\ Close(s, k, kind, at)
        /\ kind \in {"success", "failure", "cancelled_late"}
        /\ kind = "cancelled_late" => SettleLate(s, k)
  BY DEF SettleLate, SettleSuccess, SettleFailure
<1>3. LedgerRow(s, k) /\ ~Quiet(s, k)
  BY <1>1 DEF LedgerRows, Quiet
<1>4. /\ \A t \in Shards, f \in Fences : lease'[t][f].started = lease[t][f].started
      /\ \A t \in Shards \ {s}, f \in Fences : lease'[t][f] = lease[t][f]
  BY <1>2, CloseFalls
<1>5. \A t \in Shards : ckpt'[t].total = ckpt[t].total
  <2>1. ASSUME NEW c \in Checkpoint, NEW c2 \in Checkpoint, NEW a1, NEW a2, NEW a3,
               NEW a4, NEW a5, NEW a6, NEW a7, NEW a8
        PROVE  /\ [c EXCEPT !.retry = a1].total = c.total
               /\ [c EXCEPT !.retry = a1, !.done = a2, !.partial = a3].total = c.total
               /\ [c EXCEPT !.pages = a1, !.accepted = a2, !.partial = a3, !.retry = a4,
                            !.sealed = a5, !.done = a6].total = c.total
               /\ [c EXCEPT !.pages = a1, !.accepted = a2, !.partial = a3, !.retry = a4,
                            !.no = a5, !.calls = a6, !.sealed = a7].total = c.total
    BY DEF Checkpoint
  <2>2. ckpt[s] \in Checkpoint
    BY DEF TypeOK
  <2>3. CASE SettleLate(s, k)
    BY <2>3 DEF SettleLate
  <2>4. CASE SettleSuccess(s, k)
    <3> DEFINE take == Taken(s, ledger[s][k].resp)
               page == [ckpt[s] EXCEPT !.pages = @ + 1, !.accepted = @ + take,
                          !.partial = @ \/ ledger[s][k].resp.partial
                                        \/ take # ledger[s][k].resp.accepted,
                          !.retry = "none"]
               c1 == [page EXCEPT !.sealed = 0, !.done = TRUE]
               c2 == [page EXCEPT !.no = @ + 1, !.calls = 0,
                                  !.sealed = run[RunOf[s]].epoch]
    <3>1. ckpt' = [ckpt EXCEPT ![s] = c1] \/ ckpt' = [ckpt EXCEPT ![s] = c2]
      BY <2>4 DEF SettleSuccess
    <3>2. c1.total = ckpt[s].total /\ c2.total = ckpt[s].total
      BY <2>2 DEF Checkpoint
    <3> HIDE DEF c1, c2, page, take
    <3> QED
      BY <3>1, <3>2 DEF TypeOK
  <2>5. CASE SettleFailure(s, k)
    <3> DEFINE c == [ckpt[s] EXCEPT !.retry = "later"]
               d == [ckpt[s] EXCEPT !.retry = "none", !.done = TRUE,
                                    !.partial = ckpt[s].accepted > 0]
    <3>1. ckpt' = [ckpt EXCEPT ![s] = c] \/ ckpt' = [ckpt EXCEPT ![s] = d]
      BY <2>5 DEF SettleFailure
    <3>2. c.total = ckpt[s].total /\ d.total = ckpt[s].total
      BY <2>2 DEF Checkpoint
    <3> HIDE DEF c, d
    <3> QED
      BY <3>1, <3>2 DEF TypeOK
  <2> QED
    BY <2>3, <2>4, <2>5
<1> DEFINE x == [ClosedEntry(ledger[s][k], kind) EXCEPT !.evidence = 1]
<1>6. ledger' = [ledger EXCEPT ![s][k] = x]
  BY <1>2 DEF Close
<1>7. /\ x.status = IF kind = "cancelled_late" THEN kind ELSE "settled"
      /\ x.by = ledger[s][k].by /\ x.dispatch = ledger[s][k].dispatch
  BY EntryType DEF ClosedEntry, LedgerEntry
<1>8. ledger'[s][k] = x
  BY <1>6 DEF TypeOK
<1> HIDE DEF x
<1>9. ASSUME NEW t \in Shards \ {s} PROVE \A n \in CallNos : LedgerRow(t, n)'
  <2>1. ledger'[t] = ledger[t] /\ fence'[t] = fence[t]
    BY <1>1, <1>6 DEF TypeOK
  <2>2. shard'[t] = shard[t] \/ (shard[t] \in Done /\ shard'[t] \in Done)
    BY <1>1, EndsEffect, GoesBackEffect DEF OthersStay
  <2>3. \A f \in Fences : SameLease(t, f)
    BY <1>4 DEF SameLease
  <2>4. ASSUME NEW n \in CallNos PROVE ShardFits(t, n)
    BY <2>2 DEF LedgerRows, LedgerRow, Open, ShardFits
  <2> QED
    BY <1>5, <2>1, <2>3, <2>4, RowKept DEF LedgerRows
<1>10. ASSUME NEW n \in CallNos, n # k PROVE LedgerRow(s, n)'
  <2>1. Quiet(s, n) /\ LedgerRow(s, n)
    BY <1>3, <1>10, OthersAreQuiet DEF LedgerRows
  <2>2. ledger'[s][n] = ledger[s][n]
    BY <1>6, <1>10 DEF TypeOK
  <2> QED
    BY <1>1, <1>4, <1>5, <2>1, <2>2, QuietRowKept
<1>11. LedgerRow(s, k)'
  <2>1. ledger[s][k].by # 0 /\ ledger[s][k].by \in Fences
        /\ ledger[s][k].dispatch = "response_received" /\ k = ckpt[s].total
    BY <1>1, <1>3, OpenIsLast, SenderIsLease DEF LedgerRow, Settleable
  <2>2. Unsent(s, k)'
    BY <1>2, <1>7, <1>8 DEF Unsent
  <2>3. SentBy(s, k)'
    <3>1. lease'[s][ledger[s][k].by].started /\ ledger[s][k].by <= fence[s]
      BY <1>3, <1>4, <2>1 DEF LedgerRow, SentBy
    <3>2. ledger'[s][k].status \in {"settled", "cancelled_late"}
      BY <1>2, <1>7, <1>8
    <3> QED
      BY <1>1, <1>5, <1>7, <1>8, <2>1, <3>1, <3>2, EntryType DEF SentBy
  <2>4. kind = "cancelled_late" => shard'[s] \in Done
    <3> SUFFICES ASSUME SettleLate(s, k) PROVE shard'[s] \in Done
      BY <1>2
    <3>1. CASE run[RunOf[s]].status = "cancel_requested"
      <4>1. shard' = FinishShards({RunOf[s]}, [shard EXCEPT ![s] = "cancelled"])
        BY <3>1 DEF SettleLate
      <4>2. [shard EXCEPT ![s] = "cancelled"][s] = "cancelled"
        BY DEF TypeOK
      <4> QED
        BY <4>1, <4>2, FinishShardsEffect DEF Done
    <3>2. CASE run[RunOf[s]].status # "cancel_requested"
      <4>1. shard' = shard /\ Late(s, k)
        BY <3>2 DEF SettleLate
      <4>2. CASE AnswerLease(s, k).attempt = "request_outcome_unknown"
        BY <1>1, <1>3, <3>2, <4>1, <4>2 DEF LedgerRow, Open, RunRows
      <4>3. CASE run[RunOf[s]].status \in Done
        BY <4>1, <4>3, KernelConstants DEF RunRows, AllDone, ShardsOf
      <4> QED
        BY <3>2, <4>1, <4>2, <4>3 DEF Late
    <3> QED
      BY <3>1, <3>2
  <2>5. Open(s, k)'
    BY <1>2, <1>5, <1>7, <1>8, <2>1, <2>4 DEF Open
  <2> QED
    BY <2>2, <2>3, <2>5 DEF LedgerRow
<1> QED
  BY <1>9, <1>10, <1>11 DEF LedgerRows

\* Every step of the kernel keeps the rows of the ledger.
LEMMA LedgerRowsStep ==
  ASSUME StoreInv, Next
  PROVE  LedgerRows'
<1> USE DEF StoreInv, KernelInv
<1>1. ASSUME NEW s \in Shards, DispatchFails(s) PROVE LedgerRows'
  <2>1. Held(s) /\ fence' = fence /\ ckpt' = ckpt
    BY <1>1 DEF DispatchFails
  <2> DEFINE l == [lease[s][fence[s]] EXCEPT !.status = "released",
                     !.attempt = "request_outcome_unknown", !.reason = UnknownReason(s),
                     !.lapsed = FALSE]
  <2>2. lease[s][fence[s]] \in Lease /\ fence[s] \in Fences
    BY <2>1, CurrentType DEF Current
  <2>3. l.attempt = "request_outcome_unknown" /\ l.started = lease[s][fence[s]].started
    BY <2>2 DEF Lease
  <2>4. lease' = [lease EXCEPT ![s][fence[s]] = l]
    BY <1>1 DEF DispatchFails, EndLease
  <2> HIDE DEF l
  <2>5. /\ lease'[s][fence[s]] = l
        /\ \A f \in Fences : lease'[s][f].started = lease[s][f].started
        /\ \A t \in Shards \ {s} : lease'[t] = lease[t]
    BY <2>2, <2>3, <2>4 DEF TypeOK
  <2>6. ledger'[s] = GivenUp(s) /\ \A t \in Shards \ {s} : ledger'[t] = ledger[t]
    BY <1>1 DEF DispatchFails, TypeOK
  <2>7. shard'[s] \in Done /\ OthersStay(s)
    BY <1>1, DispatchFailsEnds, EndsEffect
  <2>8. \A n \in CallNos : LedgerRow(s, n)'
    BY <2>1, <2>3, <2>5, <2>6, <2>7, GivenUpRows DEF LedgerRows
  <2>9. ASSUME NEW t \in Shards \ {s} PROVE \A n \in CallNos : LedgerRow(t, n)'
    BY <2>1, <2>5, <2>6, <2>7, RowsUntouched DEF LedgerRows, OthersStay
  <2> QED
    BY <2>8, <2>9 DEF LedgerRows
<1>2. ASSUME NEW s \in Shards, Defer(s) PROVE LedgerRows'
  <2>1. Held(s) /\ ~Current(s).started
    BY <1>2 DEF Defer, MayDispatch, MayRequest, Usable
  <2>2. /\ ledger' = ledger /\ fence' = fence
        /\ \A t \in Shards \ {s} : shard'[t] = shard[t] /\ ckpt'[t] = ckpt[t]
    BY <1>2 DEF Defer, TypeOK
  <2>3. ckpt'[s].total = ckpt[s].total
    <3>1. ckpt[s] \in Checkpoint
      BY DEF TypeOK
    <3>2. [ckpt[s] EXCEPT !.retry = "later"].total = ckpt[s].total
      BY <3>1 DEF Checkpoint
    <3>3. ckpt'[s] = [ckpt[s] EXCEPT !.retry = "later"]
      BY <1>2 DEF Defer, TypeOK
    <3> QED
      BY <3>2, <3>3
  <2> DEFINE l == [lease[s][fence[s]] EXCEPT !.status = "released", !.attempt = "failed",
                     !.reason = "PROVIDER_THROTTLE_DEFERRED", !.lapsed = FALSE]
  <2>4. lease[s][fence[s]] \in Lease /\ fence[s] \in Fences
    BY <2>1, CurrentType DEF Current
  <2>5. l.started = lease[s][fence[s]].started
    BY <2>4 DEF Lease
  <2>6. lease' = [lease EXCEPT ![s][fence[s]] = l]
    BY <1>2 DEF Defer, EndLease
  <2> HIDE DEF l
  <2>7. /\ \A f \in Fences : lease'[s][f].started = lease[s][f].started
        /\ \A t \in Shards \ {s} : lease'[t] = lease[t]
    BY <2>4, <2>5, <2>6 DEF TypeOK
  <2>8. ASSUME NEW n \in CallNos PROVE LedgerRow(s, n)'
    <3>1. LedgerRow(s, n) /\ Quiet(s, n)
      BY <2>1, UnusedIsQuiet DEF LedgerRows
    <3> QED
      BY <2>2, <2>3, <2>7, <3>1, QuietRowKept
  <2>9. ASSUME NEW t \in Shards \ {s} PROVE \A n \in CallNos : LedgerRow(t, n)'
    BY <2>2, <2>7, RowsUntouched DEF LedgerRows
  <2> QED
    BY <2>8, <2>9 DEF LedgerRows
<1>3. ASSUME NEW s \in Shards, Lapse(s) PROVE LedgerRows'
  <2> DEFINE l == [lease[s][fence[s]] EXCEPT !.lapsed = TRUE]
  <2>1. lease[s][fence[s]] \in Lease /\ fence[s] \in Fences
    BY <1>3, CurrentType DEF Lapse, Current
  <2>2. /\ l.status = lease[s][fence[s]].status /\ l.attempt = lease[s][fence[s]].attempt
        /\ l.started = lease[s][fence[s]].started /\ l.reason = lease[s][fence[s]].reason
    BY <2>1 DEF Lease
  <2>3. lease' = [lease EXCEPT ![s][fence[s]] = l]
    BY <1>3 DEF Lapse
  <2> HIDE DEF l
  <2>4. \A t \in Shards, f \in Fences : SameLease(t, f)
    BY <2>1, <2>2, <2>3 DEF SameLease, TypeOK
  <2>5. ledger' = ledger /\ ckpt' = ckpt /\ fence' = fence /\ shard' = shard
    BY <1>3 DEF Lapse
  <2>6. \A t \in Shards, n \in CallNos : ShardFits(t, n)
    BY <2>5 DEF LedgerRows, LedgerRow, Open, ShardFits
  <2> QED
    BY <2>4, <2>5, <2>6, RowKept DEF LedgerRows
<1>4. ASSUME ledger' = ledger, fence' = fence, lease' = lease, shard' = shard,
             \A t \in Shards : ckpt'[t].total = ckpt[t].total
      PROVE  LedgerRows'
  BY <1>4, RowsUntouched DEF LedgerRows
<1>5. ASSUME NEW S, RetryFalls(S) PROVE \A t \in Shards : ckpt'[t].total = ckpt[t].total
  <2>1. ASSUME NEW c \in Checkpoint PROVE [c EXCEPT !.retry = "due"].total = c.total
    BY DEF Checkpoint
  <2>2. \A t \in Shards : ckpt'[t] \in {ckpt[t], [ckpt[t] EXCEPT !.retry = "due"]}
    BY <1>5 DEF RetryFalls
  <2>3. \A t \in Shards : ckpt[t] \in Checkpoint
    BY DEF TypeOK
  <2> QED
    BY <2>1, <2>2, <2>3
<1>6. ASSUME NEW r \in Runs, Resume(r) PROVE LedgerRows'
  <2>1. ledger' = ledger /\ fence' = fence /\ lease' = lease
    BY <1>6 DEF Resume
  <2>2. ASSUME NEW t \in Shards PROVE ckpt'[t].total = ckpt[t].total
    <3> DEFINE n == IF ckpt[t].sealed = 0 THEN 0 ELSE run[r].epoch + 1
               w == IF ckpt[t].retry = "later" THEN ckpt[t].retry ELSE "none"
               c == [ckpt[t] EXCEPT !.sealed = n, !.retry = w]
    <3>1. ckpt[t] \in Checkpoint
      BY DEF TypeOK
    <3>2. ckpt'[t] = ckpt[t] \/ ckpt'[t] = [ckpt[t] EXCEPT
                                  !.sealed = IF @ = 0 THEN 0 ELSE run[r].epoch + 1,
                                  !.retry  = IF ckpt[t].retry = "later" THEN @ ELSE "none"]
      BY <1>6 DEF Resume
    <3>3. ckpt'[t] = ckpt[t] \/ ckpt'[t] = c
      BY <3>1, <3>2 DEF Checkpoint
    <3> HIDE DEF n, w
    <3>4. c.total = ckpt[t].total
      BY <3>1 DEF Checkpoint
    <3> HIDE DEF c
    <3> QED
      BY <3>3, <3>4
  <2>3. ASSUME NEW t \in Shards
        PROVE  shard'[t] = shard[t] \/ shard[t] \notin Working \cup Done
    BY <1>6 DEF Resume, Working, Done
  <2> QED
    BY <2>1, <2>2, <2>3, RowsUntouched DEF LedgerRows
<1>7. ASSUME Start PROVE LedgerRows'
  <2>1. RecoverLeases({s \in Shards : Held(s)}) /\ ckpt' = ckpt /\ fence' = fence
    BY <1>7 DEF Start
  <2> QED
    BY <2>1, RecoverKeepsLedger
<1>8. ASSUME RecoverExpired PROVE LedgerRows'
  <2>1. /\ RecoverLeases({s \in Shards : Held(s) /\ Current(s).lapsed})
        /\ ckpt' = ckpt /\ fence' = fence
    BY <1>8 DEF RecoverExpired
  <2> QED
    BY <2>1, RecoverKeepsLedger
<1>9. ASSUME NEW r \in Runs, CreateRun(r) PROVE LedgerRows'
  BY <1>4, <1>9 DEF CreateRun
<1>10. ASSUME NEW s \in Shards, RetryDue(s) PROVE LedgerRows'
  BY <1>4, <1>5, <1>10 DEF RetryDue
<1>11. ASSUME NEW p \in Providers, WindowOpens(p) PROVE LedgerRows'
  BY <1>4, <1>5, <1>11 DEF WindowOpens
<1>12. ASSUME NEW q \in calls, CallLost(q) PROVE LedgerRows'
  BY <1>4, <1>12 DEF CallLost
<1>13. ASSUME NEW s \in Shards, NEW n \in CallNos,
              SettleLate(s, n) \/ SettleSuccess(s, n) \/ SettleFailure(s, n)
       PROVE  LedgerRows'
  BY <1>13, SettleKeepsLedger
<1>14. ASSUME NEW r \in Runs, RequestPause(r) \/ RequestCancel(r) PROVE LedgerRows'
  BY <1>14, OperatorsKeepLedger
<1> QED
  BY <1>1, <1>2, <1>3, <1>6, <1>7, <1>8, <1>9, <1>10, <1>11, <1>12, <1>13, <1>14,
     ClaimKeepsLedger, PrepareKeepsLedger, SendKeepsLedger, PersistKeepsLedger DEF Next

\* Only a claim makes a checkpoint and only a dispatch counts on it: no other
\* step touches whether it exists, and how many requests it has sent.
CheckpointKept(t) ==
  ckpt'[t].exists = ckpt[t].exists /\ ckpt'[t].total = ckpt[t].total

\* Every step of the kernel but these two keeps them.
LEMMA CheckpointsKept ==
  ASSUME TypeOK, Next, ~ClaimNext, \A s \in Shards : ~SendRequest(s), NEW t \in Shards
  PROVE  CheckpointKept(t)
<1> DEFINE Same(c, d) == c.exists = d.exists /\ c.total = d.total
<1>1. ckpt[t] \in Checkpoint
  BY DEF TypeOK
<1>2. ASSUME UNCHANGED ckpt PROVE CheckpointKept(t)
  BY <1>2 DEF CheckpointKept
<1>3. ASSUME NEW S, RetryFalls(S) PROVE CheckpointKept(t)
  <2>1. Same([ckpt[t] EXCEPT !.retry = "due"], ckpt[t])
    BY <1>1 DEF Checkpoint
  <2>2. ckpt'[t] \in {ckpt[t], [ckpt[t] EXCEPT !.retry = "due"]}
    BY <1>3 DEF RetryFalls
  <2> QED
    BY <2>1, <2>2 DEF CheckpointKept
<1>4. ASSUME NEW r \in Runs, RequestCancel(r) PROVE CheckpointKept(t)
  <2> DEFINE c == [ckpt[t] EXCEPT !.sealed = 0, !.retry = "none", !.done = TRUE]
  <2>1. Same(c, ckpt[t])
    BY <1>1 DEF Checkpoint
  <2>2. ckpt'[t] = ckpt[t] \/ ckpt'[t] = c
    BY <1>4 DEF RequestCancel
  <2> HIDE DEF c
  <2> QED
    BY <2>1, <2>2 DEF CheckpointKept
<1>5. ASSUME NEW r \in Runs, Resume(r) PROVE CheckpointKept(t)
  <2> DEFINE n == IF ckpt[t].sealed = 0 THEN 0 ELSE run[r].epoch + 1
             w == IF ckpt[t].retry = "later" THEN ckpt[t].retry ELSE "none"
             c == [ckpt[t] EXCEPT !.sealed = n, !.retry = w]
  <2>1. ckpt'[t] = ckpt[t] \/ ckpt'[t] = [ckpt[t] EXCEPT
                                !.sealed = IF @ = 0 THEN 0 ELSE run[r].epoch + 1,
                                !.retry  = IF ckpt[t].retry = "later" THEN @ ELSE "none"]
    BY <1>5 DEF Resume
  <2>2. ckpt'[t] = ckpt[t] \/ ckpt'[t] = c
    BY <1>1, <2>1 DEF Checkpoint
  <2> HIDE DEF n, w
  <2>3. Same(c, ckpt[t])
    BY <1>1 DEF Checkpoint
  <2> HIDE DEF c
  <2> QED
    BY <2>2, <2>3 DEF CheckpointKept
<1>6. ASSUME NEW s \in Shards, Defer(s) PROVE CheckpointKept(t)
  <2> DEFINE c == [ckpt[s] EXCEPT !.retry = "later"]
  <2>1. ckpt' = [ckpt EXCEPT ![s] = c] /\ ckpt[s] \in Checkpoint
    BY <1>6 DEF Defer, TypeOK
  <2>2. Same(c, ckpt[s])
    BY <2>1 DEF Checkpoint
  <2> HIDE DEF c
  <2> QED
    BY <2>1, <2>2 DEF CheckpointKept, TypeOK
<1>7. ASSUME NEW s \in Shards, NEW n \in CallNos, SettleSuccess(s, n)
      PROVE  CheckpointKept(t)
  <2> DEFINE resp == ledger[s][n].resp
             take == Taken(s, resp)
             part == ckpt[s].partial \/ resp.partial \/ take # resp.accepted
             page == [ckpt[s] EXCEPT !.pages = @ + 1, !.accepted = @ + take,
                                     !.partial = part, !.retry = "none"]
             last == [page EXCEPT !.sealed = 0, !.done = TRUE]
             more == [page EXCEPT !.no = @ + 1, !.calls = 0,
                                  !.sealed = run[RunOf[s]].epoch]
  <2>1. ckpt[s] \in Checkpoint
    BY DEF TypeOK
  <2>2. ckpt' = [ckpt EXCEPT ![s] = last] \/ ckpt' = [ckpt EXCEPT ![s] = more]
    BY <1>7, <2>1 DEF SettleSuccess, Checkpoint
  <2> HIDE DEF resp, take, part
  <2>3. Same(last, ckpt[s]) /\ Same(more, ckpt[s])
    BY <2>1 DEF Checkpoint
  <2> HIDE DEF last, more
  <2> QED
    BY <2>2, <2>3 DEF CheckpointKept, TypeOK
<1>8. ASSUME NEW s \in Shards, NEW n \in CallNos, SettleFailure(s, n)
      PROVE  CheckpointKept(t)
  <2> DEFINE part == ckpt[s].accepted > 0
             wait == [ckpt[s] EXCEPT !.retry = "later"]
             last == [ckpt[s] EXCEPT !.retry = "none", !.done = TRUE, !.partial = part]
  <2>1. ckpt[s] \in Checkpoint
    BY DEF TypeOK
  <2>2. ckpt' = [ckpt EXCEPT ![s] = wait] \/ ckpt' = [ckpt EXCEPT ![s] = last]
    BY <1>8, <2>1 DEF SettleFailure, TypeOK
  <2> HIDE DEF part
  <2>3. Same(wait, ckpt[s]) /\ Same(last, ckpt[s])
    BY <2>1 DEF Checkpoint
  <2> HIDE DEF wait, last
  <2> QED
    BY <2>2, <2>3 DEF CheckpointKept, TypeOK
<1> QED
  BY <1>2, <1>3, <1>4, <1>5, <1>6, <1>7, <1>8
     DEF Next, CreateRun, RequestPause, Start, RecoverExpired, WindowOpens, Lapse,
         RetryDue, Prepare, DispatchFails, CallLost, PersistResponse, SettleLate

\* Whoever holds a lease after a step that makes none active held it before.
LEMMA HeldWasHeld ==
  ASSUME TypeOK, NoNewLease, NEW s \in Shards, Held(s)'
  PROVE  Held(s)
<1>1. fence[s] # 0 /\ fence[s] \in Fences
  BY KernelConstants DEF NoNewLease, Held, TypeOK, Fences
<1> QED
  BY <1>1 DEF NoNewLease, Held, Current

\* A checkpoint is never taken back, and only a claim makes a lease.
LEMMA CheckpointRowsStep ==
  ASSUME StoreInv, Next
  PROVE  CheckpointRows'
<1> USE DEF StoreInv, KernelInv
<1> SUFFICES ASSUME NEW s \in Shards
             PROVE  /\ Held(s)' => ckpt'[s].exists
                    /\ ~ckpt'[s].exists => ckpt'[s].total = 0
  BY DEF CheckpointRows
<1>1. CASE ClaimNext
  <2>1. NewCheckpoint(s).exists
    BY DEF NewCheckpoint, NoCheckpoint
  <2>2. CASE s \in Skipped \cup Chosen
    <3>1. ckpt'[s] = IF ckpt[s].exists THEN ckpt[s] ELSE NewCheckpoint(s)
      BY <1>1, <2>2 DEF ClaimNext
    <3> QED
      BY <2>1, <3>1
  <2>3. CASE s \notin Skipped \cup Chosen
    <3>1. ckpt'[s] = ckpt[s] /\ lease'[s] = lease[s] /\ fence'[s] = fence[s]
      BY <1>1, <2>3 DEF ClaimNext
    <3> QED
      BY <3>1 DEF CheckpointRows, Held, Current
  <2> QED
    BY <2>2, <2>3
<1>2. CASE ~ClaimNext
  <2>1. NoNewLease
    BY <1>2, OnlyClaimsMakeLeases
  <2>2. ASSUME CheckpointKept(s) PROVE
          /\ Held(s)' => ckpt'[s].exists
          /\ ~ckpt'[s].exists => ckpt'[s].total = 0
    BY <2>1, <2>2, HeldWasHeld DEF CheckpointKept, CheckpointRows
  <2>3. ASSUME NEW t \in Shards, SendRequest(t), t # s PROVE CheckpointKept(s)
    BY <2>3 DEF SendRequest, CheckpointKept, TypeOK
  <2>4. ASSUME SendRequest(s)
        PROVE  /\ Held(s)' => ckpt'[s].exists
               /\ ~ckpt'[s].exists => ckpt'[s].total = 0
    <3> DEFINE c == [ckpt[s] EXCEPT !.calls = @ + 1, !.total = @ + 1, !.retry = "none"]
    <3>1. c.exists = ckpt[s].exists
      BY DEF TypeOK, Checkpoint
    <3>2. ckpt'[s] = c
      BY <2>4 DEF SendRequest, TypeOK
    <3> HIDE DEF c
    <3>3. Held(s)
      BY <2>4 DEF SendRequest, MayDispatch, MayRequest, Usable
    <3> QED
      BY <3>1, <3>2, <3>3 DEF CheckpointRows
  <2> QED
    BY <1>2, <2>2, <2>3, <2>4, CheckpointsKept
<1> QED
  BY <1>1, <1>2

-----------------------------------------------------------------------------
(* The theorems about the rows.                                            *)

\* A freshly created database has valid rows.
LEMMA StoreInitInv == Init => StoreInv
<1> SUFFICES ASSUME Init PROVE StoreInv
  OBVIOUS
<1>1. KernelInv
  BY InitInv
<1>2. LeaseRowsValid
  BY KernelConstants DEF Init, NoLease, LeaseRowsValid
<1>3. RunRows
  BY DEF Init, RunRows, Done
<1>4. LedgerRows
  <2> SUFFICES ASSUME NEW s \in Shards, NEW n \in CallNos PROVE LedgerRow(s, n)
    BY DEF LedgerRows
  <2>1. ledger[s][n] = NoEntry /\ ckpt[s] = NoCheckpoint /\ fence[s] = 0
    BY DEF Init
  <2>2. NoEntry.status = "none" /\ NoEntry.by = 0 /\ NoEntry.dispatch = "none"
        /\ NoEntry.kind = "none" /\ NoEntry.evidence = 0 /\ NoEntry.pages = 0
        /\ NoCheckpoint.total = 0
    BY DEF NoEntry, NoCheckpoint
  <2> HIDE DEF NoEntry, NoCheckpoint
  <2> QED
    BY <2>1, <2>2 DEF LedgerRow, Unsent, SentBy, Open, CallNos
<1>5. CheckpointRows
  BY DEF Init, NoCheckpoint, CheckpointRows, Held
<1> QED
  BY <1>1, <1>2, <1>3, <1>4, <1>5 DEF StoreInv

\* Every step of the kernel keeps the rows valid.
LEMMA StoreStepInv == StoreInv /\ [Next]_vars => StoreInv'
<1> SUFFICES ASSUME StoreInv, [Next]_vars PROVE StoreInv'
  OBVIOUS
<1>1. KernelInv'
  BY StepInv DEF StoreInv
<1>2. CASE Next
  <2>1. TypeOK'
    BY <1>1 DEF KernelInv
  <2>2. LeaseRowsValid' /\ RunRows'
    BY <1>2, <2>1, LeaseRowsStep
  <2>3. LedgerRows'
    BY <1>2, LedgerRowsStep
  <2>4. CheckpointRows'
    BY <1>2, CheckpointRowsStep
  <2> QED
    BY <1>1, <2>2, <2>3, <2>4 DEF StoreInv
<1>3. CASE UNCHANGED vars
  <2> USE <1>3 DEF vars, StoreInv
  <2>1. LeaseRowsValid'
    BY DEF LeaseRowsValid
  <2>2. RunRows'
    BY DEF RunRows, AllDone, ShardsOf
  <2>3. CheckpointRows'
    BY DEF CheckpointRows, Held, Current
  <2>4. LedgerRows'
    <3> SUFFICES ASSUME NEW s \in Shards, NEW n \in CallNos PROVE LedgerRow(s, n)'
      BY DEF LedgerRows
    <3>1. LedgerRow(s, n)
      BY DEF LedgerRows
    <3> QED
      BY <3>1 DEF LedgerRow, Unsent, SentBy, Open, Held, Current, AnswerLease, Settleable
  <2> QED
    BY <1>1, <2>1, <2>2, <2>3, <2>4
<1> QED
  BY <1>2, <1>3

\* The rows of runs, leases, checkpoints and the ledger fit together in every
\* reachable state.
THEOREM StoreInvariance == Spec => []StoreInv
BY StoreInitInv, StoreStepInv, PTL DEF Spec

\* Whoever holds a lease works on a run, a shard and a job that are at work
\* in the epoch of the lease, whatever operators, claims and recoveries do:
\* the store's validation of its lease rows refuses no transaction.
THEOREM LeasesAreValid == Spec => []LeasesValid
BY StoreInvariance, PTL DEF StoreInv, LeasesValid

\* A request is out only under the active lease that sent it, is unknown only
\* if its attempt is and its shard has ended, and its stored answer can always
\* be settled, through every crash, retry, cancellation and late answer.
THEOREM LedgerAndLeaseAgree == Spec => []LedgerFollowsLease
<1>1. StoreInv => LedgerFollowsLease
  <2> SUFFICES ASSUME StoreInv, NEW s \in Shards, NEW n \in CallNos
               PROVE  LET e == ledger[s][n] IN
                      /\ e.status = "dispatch_started" =>
                           /\ e.by = fence[s] /\ Held(s)
                           /\ Current(s).attempt = "request_started"
                           /\ n = ckpt[s].total
                      /\ e.status = "outcome_unknown" =>
                           /\ AnswerLease(s, n).attempt = "request_outcome_unknown"
                           /\ e.by = fence[s] /\ n = ckpt[s].total /\ shard[s] \in Done
                      /\ e.status = "response_received" =>
                           Settleable(s, n) /\ n = ckpt[s].total
    BY DEF LedgerFollowsLease
  <2>1. LedgerRow(s, n)
    BY DEF StoreInv, LedgerRows
  <2> QED
    BY <2>1 DEF LedgerRow, Open, SentBy
<1> QED
  BY <1>1, StoreInvariance, PTL

-----------------------------------------------------------------------------
(* The kernel implements the request ledger.                               *)

\* An entry as the ledger's promise sees it.
Row(st, di, ki, ev, pg) ==
  [status |-> st, dispatch |-> di, kind |-> ki, evidence |-> ev, pages |-> pg]

View(e) == Row(e.status, e.dispatch, e.kind, e.evidence, e.pages)

\* The row of a request that is sent.
LEMMA RowSends ==
  ASSUME NEW di, NEW ki, NEW ev, NEW pg, NEW a, NEW b, a = Row("prepared", di, ki, ev, pg),
         b = Row("dispatch_started", "started", ki, ev, pg)
  PROVE  Book!Sends(a, b)
<1> DEFINE c == [a EXCEPT !.status = "dispatch_started"]
<1>1. [a EXCEPT !.status = "dispatch_started", !.dispatch = "started"]
      = [c EXCEPT !.dispatch = "started"]
  OBVIOUS
<1>2. c = Row("dispatch_started", di, ki, ev, pg)
  BY DEF Row
<1> HIDE DEF c
<1>3. [c EXCEPT !.dispatch = "started"] = b
  BY <1>2 DEF Row
<1>4. a.status = "prepared"
  BY DEF Row
<1> QED
  BY <1>1, <1>3, <1>4 DEF Book!Sends

\* The row of a request that is given up.
LEMMA RowGivesUp ==
  ASSUME NEW di, NEW ki, NEW ev, NEW pg, NEW a, NEW b, a = Row("dispatch_started", di, ki, ev, pg),
         b = Row("outcome_unknown", "outcome_unknown", ki, ev, pg)
  PROVE  Book!GivesUp(a, b)
<1> DEFINE c == [a EXCEPT !.status = "outcome_unknown"]
<1>1. [a EXCEPT !.status = "outcome_unknown", !.dispatch = "outcome_unknown"]
      = [c EXCEPT !.dispatch = "outcome_unknown"]
  OBVIOUS
<1>2. c = Row("outcome_unknown", di, ki, ev, pg)
  BY DEF Row
<1> HIDE DEF c
<1>3. [c EXCEPT !.dispatch = "outcome_unknown"] = b
  BY <1>2 DEF Row
<1>4. a.status = "dispatch_started"
  BY DEF Row
<1> QED
  BY <1>1, <1>3, <1>4 DEF Book!GivesUp

\* The row of a request that is withdrawn.
LEMMA RowWithdraws ==
  ASSUME NEW di, NEW ki, NEW ev, NEW pg, NEW a, NEW b, a = Row("prepared", di, ki, ev, pg),
         b = Row("settled", di, "cancelled_before_dispatch", ev, pg)
  PROVE  Book!Withdraws(a, b)
<1> DEFINE c == [a EXCEPT !.status = "settled"]
<1>1. [a EXCEPT !.status = "settled", !.kind = "cancelled_before_dispatch"]
      = [c EXCEPT !.kind = "cancelled_before_dispatch"]
  OBVIOUS
<1>2. c = Row("settled", di, ki, ev, pg)
  BY DEF Row
<1> HIDE DEF c
<1>3. [c EXCEPT !.kind = "cancelled_before_dispatch"] = b
  BY <1>2 DEF Row
<1>4. a.status = "prepared"
  BY DEF Row
<1> QED
  BY <1>1, <1>3, <1>4 DEF Book!Withdraws

\* The row of a request that is answered.
LEMMA RowAnswers ==
  ASSUME NEW di, NEW ki, NEW ev, NEW pg,
         NEW st \in {"dispatch_started", "outcome_unknown"}, NEW a, NEW b,
         a = Row(st, di, ki, ev, pg), b = Row("response_received", "response_received", ki, ev, pg)
  PROVE  Book!Answers(a, b)
<1> DEFINE c == [a EXCEPT !.status = "response_received"]
<1>1. [a EXCEPT !.status = "response_received", !.dispatch = "response_received"]
      = [c EXCEPT !.dispatch = "response_received"]
  OBVIOUS
<1>2. c = Row("response_received", di, ki, ev, pg)
  BY DEF Row
<1> HIDE DEF c
<1>3. [c EXCEPT !.dispatch = "response_received"] = b
  BY <1>2 DEF Row
<1>4. a.status = st
  BY DEF Row
<1> QED
  BY <1>1, <1>3, <1>4 DEF Book!Answers

\* The row of a request that is settled.
LEMMA RowSettles ==
  ASSUME NEW di, NEW ki, NEW ev, NEW pg, NEW k \in {"success", "failure", "cancelled_late"},
         NEW a, NEW b, a = Row("response_received", di, ki, ev, pg),
         b = Row(IF k = "cancelled_late" THEN k ELSE "settled", di, k, 1,
                 IF k = "success" THEN 1 ELSE 0)
  PROVE  Book!Settles(a, b)
<1> DEFINE st == IF k = "cancelled_late" THEN k ELSE "settled"
           w  == IF k = "success" THEN 1 ELSE 0
           c1 == [a EXCEPT !.status = st]
           c2 == [c1 EXCEPT !.kind = k]
           c3 == [c2 EXCEPT !.evidence = 1]
<1>0. b = Row(st, di, k, 1, w)
  OBVIOUS
<1>1. ASSUME [a EXCEPT !.status = st, !.kind = k, !.evidence = 1, !.pages = w] = b,
             a.status = "response_received"
      PROVE  Book!Settles(a, b)
  BY <1>1 DEF Book!Settles
<1> HIDE DEF st, w
<1>2. [a EXCEPT !.status = st, !.kind = k, !.evidence = 1, !.pages = w]
      = [c3 EXCEPT !.pages = w]
  OBVIOUS
<1>3. c1 = Row(st, di, ki, ev, pg)
  BY DEF Row
<1> HIDE DEF c1
<1>4. c2 = Row(st, di, k, ev, pg)
  BY <1>3 DEF Row
<1> HIDE DEF c2
<1>5. c3 = Row(st, di, k, 1, pg)
  BY <1>4 DEF Row
<1> HIDE DEF c3
<1>6. [c3 EXCEPT !.pages = w] = b
  BY <1>0, <1>5 DEF Row
<1>7. a.status = "response_received"
  BY DEF Row
<1> QED
  BY <1>1, <1>2, <1>6, <1>7

\* The entry may stay, or make a step of the ledger; it is opened in its turn.
EntryStep(s, n) ==
  LET a == View(ledger[s][n])
      b == View(ledger'[s][n])
  IN
  \/ b = a
  \/ /\ Book!Prepares(a, b)
     /\ \A m \in 1..(n - 1) : ledger[s][m].status = "settled"
  \/ Book!Sends(a, b)
  \/ Book!Answers(a, b)
  \/ Book!GivesUp(a, b)
  \/ Book!Settles(a, b)
  \/ Book!Withdraws(a, b)

\* An entry that the step does not touch stays.
\* An entry that the step does not touch stays.
LEMMA EntryStays ==
  ASSUME NEW s, NEW n, ledger'[s][n] = ledger[s][n]
  PROVE  EntryStep(s, n)
BY DEF EntryStep

\* Giving up the requests of a lease gives up what has left the process.
LEMMA GivenUpSteps ==
  ASSUME StoreInv, NEW s \in Shards, NEW n \in CallNos, ledger'[s] = GivenUp(s)
  PROVE  EntryStep(s, n)
<1> USE DEF StoreInv, KernelInv
<1> DEFINE e == ledger[s][n]
           u == [e EXCEPT !.status = "outcome_unknown", !.dispatch = "outcome_unknown"]
<1>1. CASE e.by = fence[s] /\ e.dispatch = "started"
  <2>1. e.status = "dispatch_started"
    BY <1>1 DEF LedgerRows, LedgerRow, SentBy
  <2>2. ledger'[s][n] = u
    BY <1>1 DEF GivenUp
  <2>3. /\ u.status = "outcome_unknown" /\ u.dispatch = "outcome_unknown"
        /\ u.kind = e.kind /\ u.evidence = e.evidence /\ u.pages = e.pages
    BY EntryType DEF LedgerEntry
  <2> HIDE DEF e, u
  <2>4. Book!GivesUp(View(e), View(u))
    BY <2>1, <2>3, RowGivesUp DEF View
  <2> QED
    BY <2>2, <2>4 DEF EntryStep, e
<1>2. CASE ~(e.by = fence[s] /\ e.dispatch = "started")
  BY <1>2, EntryStays DEF GivenUp
<1> QED
  BY <1>1, <1>2

\* Recovering leases gives up what has left the process, and nothing else.
LEMMA RecoverSteps ==
  ASSUME StoreInv, NEW Gone, RecoverLeases(Gone), NEW s \in Shards, NEW n \in CallNos
  PROVE  EntryStep(s, n)
<1>1. ledger'[s] = GivenUp(s) \/ ledger'[s] = ledger[s]
  BY DEF RecoverLeases
<1> QED
  BY <1>1, GivenUpSteps, EntryStays

\* Cancelling withdraws what has not been sent.
LEMMA CancelSteps ==
  ASSUME StoreInv, NEW r \in Runs, RequestCancel(r), NEW s \in Shards, NEW n \in CallNos
  PROVE  EntryStep(s, n)
<1> USE DEF StoreInv, KernelInv
<1> DEFINE e == ledger[s][n]
           w == [e EXCEPT !.status = "settled", !.kind = "cancelled_before_dispatch"]
<1>1. ledger'[s] = Withdrawn(s) \/ ledger'[s] = ledger[s]
  BY DEF RequestCancel
<1>2. CASE e.status = "prepared" /\ ledger'[s] = Withdrawn(s)
  <2>1. ledger'[s][n] = w
    BY <1>2 DEF Withdrawn
  <2>2. /\ w.status = "settled" /\ w.kind = "cancelled_before_dispatch"
        /\ w.dispatch = e.dispatch /\ w.evidence = e.evidence /\ w.pages = e.pages
    BY EntryType DEF LedgerEntry
  <2>3. e.status = "prepared"
    BY <1>2
  <2> HIDE DEF e, w
  <2>4. Book!Withdraws(View(e), View(w))
    BY <2>2, <2>3, RowWithdraws DEF View
  <2> QED
    BY <2>1, <2>4 DEF EntryStep, e
<1>3. CASE ~(e.status = "prepared" /\ ledger'[s] = Withdrawn(s))
  BY <1>1, <1>3, EntryStays DEF Withdrawn
<1> QED
  BY <1>2, <1>3

\* The numbers before a request's number are numbers of requests.
LEMMA EarlierCalls ==
  ASSUME NEW n \in CallNos, NEW m \in 1..(n - 1)
  PROVE  m \in CallNos
<1>1. MaxCalls \in Nat
  BY KernelConstants DEF MaxCalls
<1> HIDE DEF MaxCalls
<1> QED
  BY <1>1 DEF CallNos

\* A request is prepared when all the earlier ones are settled: its lease is
\* unused, and so nothing of the shard is open.
LEMMA PrepareSteps ==
  ASSUME StoreInv, NEW t \in Shards, Prepare(t), NEW s \in Shards, NEW n \in CallNos
  PROVE  EntryStep(s, n)
<1> USE DEF StoreInv, KernelInv
<1> DEFINE k == NextCall(t)
           b == [ledger[t][k] EXCEPT !.bound = fence[t]]
<1>1. CASE s # t \/ n # k
  <2>1. ledger'[s][n] = ledger[s][n]
    BY <1>1 DEF Prepare, TypeOK
  <2> QED
    BY <2>1, EntryStays
<1>2. CASE s = t /\ n = k /\ ledger[t][k].status = "none"
  <2>1. ledger'[s][n] = NewEntry(t)
    BY <1>2 DEF Prepare, TypeOK
  <2>2. View(NewEntry(t)) = [Book!Blank EXCEPT !.status = "prepared"]
    BY DEF View, Row, NewEntry, NoEntry, Book!Blank
  <2>3. View(ledger[s][n]) = Book!Blank
    BY <1>2 DEF LedgerRows, LedgerRow, Unsent, View, Row, Book!Blank
  <2>4. ASSUME NEW m \in 1..(n - 1) PROVE ledger[s][m].status = "settled"
    <3>1. m \in CallNos /\ m <= ckpt[s].total /\ m \in Nat
      <4>1. ckpt[s].total \in Nat /\ n = ckpt[s].total + 1
        BY <1>2, EntryType DEF NextCall
      <4> HIDE DEF k
      <4> QED
        BY <4>1, EarlierCalls
    <3>2. LedgerRow(s, m)
      BY <3>1 DEF LedgerRows
    <3>3. Held(s) /\ ~Current(s).started
      BY <1>2 DEF Prepare, MayRequest, Usable
    <3>4. Quiet(s, m)
      BY <3>1, <3>2, <3>3, UnusedIsQuiet
    <3>5. ckpt[s].total \in Nat
      BY <3>1, EntryType
    <3> QED
      BY <3>1, <3>2, <3>4, <3>5 DEF Quiet, LedgerRow, Unsent
  <2> HIDE DEF k
  <2> QED
    BY <2>1, <2>2, <2>3, <2>4 DEF EntryStep, Book!Prepares
<1>3. CASE s = t /\ n = k /\ ledger[t][k].status # "none"
  <2>1. ledger' = [ledger EXCEPT ![t][k].bound = fence[t]]
    BY <1>3 DEF Prepare
  <2>2. ledger'[s][n] = b
    BY <1>3, <2>1 DEF TypeOK
  <2>3. View(b) = View(ledger[s][n])
    BY <1>3, EntryType DEF LedgerEntry, View
  <2> QED
    BY <2>2, <2>3 DEF EntryStep
<1> QED
  BY <1>1, <1>2, <1>3

\* A dispatch sends the one request it was prepared for.
LEMMA SendSteps ==
  ASSUME StoreInv, NEW t \in Shards, SendRequest(t), NEW s \in Shards, NEW n \in CallNos
  PROVE  EntryStep(s, n)
<1> USE DEF StoreInv, KernelInv
<1> DEFINE k == NextCall(t)
           e == ledger[s][n]
           d == [ledger[t][k] EXCEPT !.status = "dispatch_started", !.by = fence[t],
                                     !.dispatch = "started"]
<1>1. ledger' = [ledger EXCEPT ![t][k] = d]
  BY DEF SendRequest
<1>2. CASE s # t \/ n # k
  <2>1. ledger'[s][n] = ledger[s][n]
    BY <1>1, <1>2 DEF TypeOK
  <2> QED
    BY <2>1, EntryStays
<1>3. CASE s = t /\ n = k
  <2>1. ledger'[s][n] = d
    BY <1>1, <1>3 DEF TypeOK
  <2>2. e.status = "prepared"
    BY <1>3 DEF SendRequest, MayDispatch
  <2>3. /\ d.status = "dispatch_started" /\ d.dispatch = "started"
        /\ d.kind = e.kind /\ d.evidence = e.evidence /\ d.pages = e.pages
    BY <1>3, EntryType DEF LedgerEntry
  <2> HIDE DEF e, d
  <2>4. Book!Sends(View(e), View(d))
    BY <2>2, <2>3, RowSends DEF View
  <2> QED
    BY <2>1, <2>4 DEF EntryStep, e
<1> QED
  BY <1>2, <1>3

\* A stored answer answers the request it is the answer of.
LEMMA PersistSteps ==
  ASSUME StoreInv, NEW t \in Shards, NEW k \in CallNos, NEW resp \in Responses,
         PersistResponse(t, k, resp), NEW s \in Shards, NEW n \in CallNos
  PROVE  EntryStep(s, n)
<1> USE DEF StoreInv, KernelInv
<1> DEFINE e == ledger[s][n]
           d == [ledger[t][k] EXCEPT !.status = "response_received", !.resp = resp,
                                     !.dispatch = "response_received"]
<1>1. ledger' = [ledger EXCEPT ![t][k] = d]
  BY DEF PersistResponse
<1>2. CASE s # t \/ n # k
  <2>1. ledger'[s][n] = ledger[s][n]
    BY <1>1, <1>2 DEF TypeOK
  <2> QED
    BY <2>1, EntryStays
<1>3. CASE s = t /\ n = k
  <2>1. ledger'[s][n] = d
    BY <1>1, <1>3 DEF TypeOK
  <2>2. e.status \in {"dispatch_started", "outcome_unknown"}
    BY <1>3 DEF PersistResponse, MayPersist
  <2>3. /\ d.status = "response_received" /\ d.dispatch = "response_received"
        /\ d.kind = e.kind /\ d.evidence = e.evidence /\ d.pages = e.pages
    BY <1>3, EntryType DEF LedgerEntry
  <2> HIDE DEF e, d
  <2>4. Book!Answers(View(e), View(d))
    BY <2>2, <2>3, RowAnswers DEF View
  <2> QED
    BY <2>1, <2>4 DEF EntryStep, e
<1> QED
  BY <1>2, <1>3

\* A settlement closes the answered request, and books it once.
LEMMA SettleSteps ==
  ASSUME StoreInv, NEW t \in Shards, NEW k \in CallNos,
         SettleLate(t, k) \/ SettleSuccess(t, k) \/ SettleFailure(t, k),
         NEW s \in Shards, NEW n \in CallNos
  PROVE  EntryStep(s, n)
<1> USE DEF StoreInv, KernelInv
<1>0. PICK kind \in {"success", "failure", "cancelled_late"} : \E at : Close(t, k, kind, at)
  BY SettleShape
<1>1. PICK at : Close(t, k, kind, at)
  BY <1>0
<1> DEFINE st == IF kind = "cancelled_late" THEN kind ELSE "settled"
           pg == IF kind = "success" THEN 1 ELSE 0
           e  == ledger[s][n]
           d  == [[ledger[t][k] EXCEPT !.status = st, !.kind = kind, !.resp = NoResponse,
                                       !.pages = pg] EXCEPT !.evidence = 1]
<1>2. ledger' = [ledger EXCEPT ![t][k] = d]
  BY <1>1 DEF Close, ClosedEntry
<1>3. CASE s # t \/ n # k
  <2>1. ledger'[s][n] = ledger[s][n]
    BY <1>2, <1>3 DEF TypeOK
  <2> QED
    BY <2>1, EntryStays
<1>4. CASE s = t /\ n = k
  <2>1. ledger'[s][n] = d
    BY <1>2, <1>4 DEF TypeOK
  <2>2. e.status = "response_received"
    BY <1>4, SettleShape
  <2> HIDE DEF st, pg
  <2>3. /\ d.status = st /\ d.kind = kind /\ d.evidence = 1 /\ d.pages = pg
        /\ d.dispatch = e.dispatch
    BY <1>4, EntryType DEF LedgerEntry
  <2> HIDE DEF d, e
  <2>4. Book!Settles(View(e), View(d))
    BY <2>2, <2>3, RowSettles DEF View, st, pg
  <2> QED
    BY <2>1, <2>4 DEF EntryStep, e
<1> QED
  BY <1>3, <1>4

\* Every step of the kernel moves every entry as the ledger allows.
LEMMA EntriesStep ==
  ASSUME StoreInv, Next, NEW s \in Shards, NEW n \in CallNos
  PROVE  EntryStep(s, n)
<1>1. ASSUME NEW t \in Shards, DispatchFails(t) PROVE EntryStep(s, n)
  <2>1. ledger'[s] = GivenUp(s) \/ ledger'[s] = ledger[s]
    BY <1>1 DEF DispatchFails, StoreInv, KernelInv, TypeOK
  <2> QED
    BY <2>1, GivenUpSteps, EntryStays
<1>2. ASSUME Start \/ RecoverExpired PROVE EntryStep(s, n)
  <2>1. \E Gone : RecoverLeases(Gone)
    BY <1>2 DEF Start, RecoverExpired
  <2> QED
    BY <2>1, RecoverSteps
<1>3. ASSUME ledger' = ledger PROVE EntryStep(s, n)
  BY <1>3, EntryStays
<1> QED
  BY <1>1, <1>2, <1>3, CancelSteps, PrepareSteps, SendSteps, PersistSteps, SettleSteps
     DEF Next, CreateRun, RequestPause, Resume, ClaimNext, WindowOpens, Lapse, RetryDue,
         Defer, CallLost

\* An entry that has not been opened leaves "none" only by being prepared.
LEMMA OpenedInTurn ==
  ASSUME NEW s, NEW n, EntryStep(s, n), ledger[s][n].status = "none",
         ledger'[s][n].status # "none"
  PROVE  \A m \in 1..(n - 1) : ledger[s][m].status = "settled"
<1>1. \A e : View(e).status = e.status
  BY DEF View, Row
<1> HIDE DEF View
<1> QED
  BY <1>1 DEF EntryStep, Book!Sends, Book!Answers, Book!GivesUp, Book!Settles, Book!Withdraws

\* What the ledger's promise sees of an entry has its type.
LEMMA ViewType ==
  ASSUME NEW e \in LedgerEntry
  PROVE  View(e) \in Book!Entry
BY DEF LedgerEntry, View, Row, Book!Entry

\* The kernel implements the request ledger: through crashes, recoveries,
\* cancellations and late answers every request is sent at most once, answered
\* at most once, booked exactly once when it closes, and opened only when all
\* the earlier ones of its shard are settled.
THEOREM KernelKeepsTheLedger == Spec => KeepsTheLedger
<1> DEFINE bk == [q \in Shards \X CallNos |->
                    LET e == ledger[q[1]][q[2]] IN
                    [status |-> e.status, dispatch |-> e.dispatch, kind |-> e.kind,
                     evidence |-> e.evidence, pages |-> e.pages]]
<1>0. bk = [q \in Shards \X CallNos |-> View(ledger[q[1]][q[2]])]
  BY DEF View, Row
<1>1. Init => Book!Init
  <2> SUFFICES ASSUME Init PROVE bk = [q \in Book!Requests |-> Book!Blank]
    BY DEF Book!Init
  <2>1. \A q \in Shards \X CallNos : ledger[q[1]][q[2]] = NoEntry
    BY DEF Init
  <2>2. View(NoEntry) = Book!Blank
    BY DEF View, Row, NoEntry, Book!Blank
  <2>3. Book!Requests = Shards \X CallNos
    BY DEF Book!Requests, CallNos
  <2> HIDE DEF bk
  <2> QED
    BY <1>0, <2>1, <2>2, <2>3
<1>2. StoreInv /\ StoreInv' /\ [Next]_vars => [Book!Next]_bk
  <2> SUFFICES ASSUME StoreInv, StoreInv', Next PROVE Book!Next
    BY DEF vars
  <2>1. \A s \in Shards, n \in CallNos : EntryStep(s, n)
    BY EntriesStep
  <2>2. bk' \in [Book!Requests -> Book!Entry]
    <3>1. bk' = [q \in Shards \X CallNos |-> View(ledger'[q[1]][q[2]])]
      BY DEF View, Row
    <3>2. \A q \in Shards \X CallNos : View(ledger'[q[1]][q[2]]) \in Book!Entry
      BY ViewType DEF StoreInv, KernelInv, TypeOK
    <3>3. Book!Requests = Shards \X CallNos
      BY DEF Book!Requests, CallNos
    <3> HIDE DEF bk
    <3> QED
      BY <3>1, <3>2, <3>3
  <2>3. ASSUME NEW s \in Shards, NEW n \in CallNos
        PROVE  /\ bk[<<s, n>>] = View(ledger[s][n]) /\ bk'[<<s, n>>] = View(ledger'[s][n])
               /\ bk[<<s, n>>].status = ledger[s][n].status
               /\ bk'[<<s, n>>].status = ledger'[s][n].status
    BY DEF View, Row
  <2>4. ASSUME NEW q \in Book!Requests
        PROVE  bk'[q] = bk[q] \/ Book!Step(bk[q], bk'[q])
    <3>1. PICK s \in Shards, n \in CallNos : q = <<s, n>>
      BY DEF Book!Requests, CallNos
    <3>2. bk[q] = View(ledger[s][n]) /\ bk'[q] = View(ledger'[s][n])
      BY <2>3, <3>1
    <3> HIDE DEF bk
    <3> QED
      BY <2>1, <3>2 DEF EntryStep, Book!Step
  <2>5. ASSUME NEW s \in Shards, NEW n \in 1..MaxCalls PROVE Book!InTurn(s, n)
    <3> SUFFICES ASSUME bk[<<s, n>>].status = "none", bk'[<<s, n>>].status # "none",
                        NEW m \in 1..(n - 1)
                 PROVE  bk[<<s, m>>].status = "settled"
      BY DEF Book!InTurn
    <3> HIDE DEF bk
    <3>1. n \in CallNos /\ m \in CallNos
      BY EarlierCalls DEF CallNos
    <3>2. ledger[s][n].status = "none" /\ ledger'[s][n].status # "none"
      BY <2>3, <3>1
    <3>3. ledger[s][m].status = "settled"
      BY <2>1, <3>1, <3>2, OpenedInTurn
    <3> QED
      BY <2>3, <3>1, <3>3
  <2> QED
    BY <2>2, <2>4, <2>5, Zenon DEF Book!Next
<1> QED
  BY <1>1, <1>2, StoreInvariance, PTL DEF Spec, KeepsTheLedger, Book!Spec

=============================================================================
