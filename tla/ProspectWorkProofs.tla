-------------------------- MODULE ProspectWorkProofs --------------------------
(***************************************************************************)
(* Theorems about the work of the execution kernel, for every number of    *)
(* runs, sources, calls, pages, leases and kernel starts: runs follow      *)
(* their shards, nobody is stranded at work, who waits can go on, and a    *)
(* page is accepted only in the epoch that asked for it.                   *)
(***************************************************************************)
EXTENDS ProspectStoreProofs

-----------------------------------------------------------------------------
(* The inductive invariant: StoreInv, and what follows.                    *)

Settled == Done \ {"cancelled"}

\* What the shards of a run of status st may be, and what one of them is.
Allowed(st) ==
  CASE st = "none"             -> {"queued"}
    [] st = "queued"           -> {"queued", "retry_scheduled"} \cup Settled
    [] st = "running"          -> {"queued", "running", "retry_scheduled"} \cup Settled
    [] st = "pause_requested"  -> {"pause_requested", "paused"} \cup Settled
    [] st = "paused"           -> {"paused"} \cup Settled
    [] st = "cancel_requested" -> {"cancel_requested", "cancelled"} \cup Settled
    [] st = "succeeded"        -> {"succeeded", "succeeded_empty"}
    [] st = "partial_success"  -> Settled
    [] OTHER                   -> {st}
Needed(st) ==
  CASE st = "queued"           -> {"queued", "retry_scheduled"}
    [] st \in {"paused", "cancel_requested", "succeeded"} -> {st}
    [] st = "partial_success"  -> {"partial_success", "failed"}
    [] OTHER                   -> Allowed(st)
Fits(st, r, sh) == /\ \A s \in ShardsOf(r) : sh[s] \in Allowed(st)
                   /\ \E s \in ShardsOf(r) : sh[s] \in Needed(st)

\* The status of a run, and of its parent job, is one its shards allow.
RunShape(r) == /\ Fits(run[r].status, r, shard)
               /\ run[r].parent = ParentOf(run[r].status)
RunShapes == \A r \in Runs : RunShape(r)

\* Whoever is at work has a lease or a stored answer; one about to be
\* cancelled has sent its request.
AtWork(s) ==
  /\ shard[s] \in Working =>
       Held(s) \/ \E n \in CallNos : ledger[s][n].status = "response_received"
  /\ shard[s] = "cancel_requested" /\ Held(s) => Current(s).started

\* An answer in time is one of a shard at work, and of the current epoch of
\* the run unless that is being cancelled; a request that is closed has no
\* lease, and one that is closed without having been sent a cancelled shard.
AnswerRow(s, n) ==
  LET e == ledger[s][n] IN
  /\ e.status = "response_received" /\ AnswerLease(s, n).attempt = "request_started" =>
       /\ shard[s] \in Working
       /\ shard[s] # "cancel_requested" =>
            AnswerLease(s, n).runEpoch = run[RunOf[s]].epoch
  /\ e.status \in {"settled", "cancelled_late"} /\ e.by # 0 /\ e.by = fence[s] => ~Held(s)
  /\ e.status = "settled" /\ e.by = 0 => shard[s] = "cancelled"

\* A shard that has ended well has results, or none if it says so.
ResultRow(s) ==
  /\ shard[s] = "succeeded" => ckpt[s].accepted > 0
  /\ shard[s] = "succeeded_empty" => ckpt[s].accepted = 0

\* A checkpoint that is to go on in epoch e: pages and results are left, its
\* cursor can be opened, and no page has taken more calls than it may.
GoesOn(c, e) ==
  /\ ~c.done
  /\ c.pages < PageLimit /\ c.accepted < ResultLimit
  /\ c.sealed \in {0, e}
  /\ c.total <= CallLimit * c.pages + c.calls

\* So is that of every shard that waits or works; who waits, or has not used
\* its lease, has calls left.
Unwritten(c) == c.calls = 0 /\ c.accepted = 0 /\ c.pages = 0 /\ c.sealed = 0 /\ ~c.done
WaitRow(s) ==
  /\ ~ckpt[s].exists => Unwritten(ckpt[s])
  /\ shard[s] \notin Done \cup {"cancel_requested"} => GoesOn(ckpt[s], run[RunOf[s]].epoch)
  /\ shard[s] \in {"queued", "retry_scheduled", "paused"} \/ (Held(s) /\ ~Current(s).started)
       => ckpt[s].calls < CallLimit

WorkRow(s) == AtWork(s) /\ ResultRow(s) /\ WaitRow(s) /\ \A n \in CallNos : AnswerRow(s, n)
WorkRows == \A s \in Shards : WorkRow(s)

WorkInv == StoreInv /\ RunShapes /\ WorkRows

-----------------------------------------------------------------------------
(* Runs follow their shards.                                               *)

\* The statuses of shards and runs, end by end.
LEMMA Statuses ==
  /\ Settled = {"succeeded", "succeeded_empty", "partial_success", "failed"}
  /\ Done = Settled \cup {"cancelled"}
  /\ ShardStatus = Done \cup Working \cup {"queued", "retry_scheduled", "paused"}
  /\ RunStatus = Done \cup Working \cup {"none", "queued", "paused"}
BY DEF Settled, Done, Working, ShardStatus, RunStatus

\* What is at work is at work as its run is.
LEMMA WorkingShape ==
  ASSUME TypeOK, RunShapes, NEW t \in Shards
  PROVE  /\ shard[t] = "running" => run[RunOf[t]].status = "running"
         /\ shard[t] = "pause_requested" => run[RunOf[t]].status = "pause_requested"
         /\ shard[t] = "cancel_requested" => run[RunOf[t]].status = "cancel_requested"
         /\ shard[t] = "paused" => run[RunOf[t]].status \in {"pause_requested", "paused"}
         /\ shard[t] \in {"queued", "retry_scheduled"}
              => run[RunOf[t]].status \in {"none", "queued", "running"}
         /\ run[RunOf[t]].status = "none" => shard[t] = "queued"
         /\ shard[t] = "cancelled" => run[RunOf[t]].status \in {"cancel_requested", "cancelled"}
<1>1. RunOf[t] \in Runs /\ t \in ShardsOf(RunOf[t])
  BY KernelConstants DEF ShardsOf
<1>2. shard[t] \in Allowed(run[RunOf[t]].status)
  BY <1>1 DEF RunShapes, RunShape, Fits
<1>3. run[RunOf[t]].status \in RunStatus
  BY <1>1 DEF TypeOK, RunRecord
<1> QED
  BY <1>2, <1>3 DEF Allowed, RunStatus, Settled, Done

\* A run whose shards fit passes the bridge's table.
LEMMA FitsIsOK ==
  ASSUME TypeOK, NEW r \in Runs, run[r].status # "none", Fits(run[r].status, r, shard)
  PROVE  RunShardOK(r)
<1> DEFINE S == {shard[s] : s \in ShardsOf(r)}
<1>1. run[r].status \in RunStatus
  BY DEF TypeOK, RunRecord
<1>2. S \subseteq Allowed(run[r].status) /\ S \cap Needed(run[r].status) # {}
  BY DEF Fits
<1> HIDE DEF S
<1>3. CASE run[r].status \in {"queued", "running", "pause_requested", "paused", "cancel_requested"}
  BY <1>2, <1>3 DEF RunShardOK, Allowed, Needed, Settled, Done, S
<1>4. CASE run[r].status \in {"cancelled", "succeeded_empty", "failed"}
  <2>1. S = {run[r].status}
    BY <1>2, <1>4 DEF Allowed
  <2> QED
    BY <1>4, <2>1 DEF RunShardOK, S
<1>5. CASE run[r].status \in {"succeeded", "partial_success"}
  BY <1>2, <1>5 DEF RunShardOK, Allowed, Needed, Settled, Done, S
<1> QED
  BY <1>1, <1>3, <1>4, <1>5 DEF RunStatus

\* And what the bridge accepts fits, unless it is being cancelled.
LEMMA OKFits ==
  ASSUME NEW r \in Runs, RunShardOK(r)', run'[r].status \in RunStatus,
         run'[r].status \notin {"none", "cancel_requested"}
  PROVE  Fits(run'[r].status, r, shard')
<1> DEFINE S == {shard'[s] : s \in ShardsOf(r)}
<1>0. PICK t \in Shards : RunOf[t] = r
  BY KernelConstants
<1>1. shard'[t] \in S /\ t \in ShardsOf(r)
  BY <1>0 DEF ShardsOf
<1>2. S \subseteq Allowed(run'[r].status) /\ S \cap Needed(run'[r].status) # {}
  <2> HIDE DEF S
  <2>1. CASE run'[r].status \in {"queued", "running", "pause_requested", "paused"}
    BY <1>1, <2>1 DEF RunShardOK, Allowed, Needed, Settled, Done, S
  <2>2. CASE run'[r].status \in {"cancelled", "succeeded_empty", "failed"}
    <3>1. S = {run'[r].status}
      BY <2>2 DEF RunShardOK, S
    <3> QED
      BY <1>1, <2>2, <3>1 DEF Allowed, Needed
  <2>3. CASE run'[r].status \in {"succeeded", "partial_success"}
    BY <1>1, <2>3 DEF RunShardOK, Allowed, Needed, Settled, Done, S
  <2> QED
    BY <2>1, <2>2, <2>3 DEF RunStatus
<1> QED
  BY <1>2 DEF Fits

\* The status that ends a run fits its shards, if those of a run that is not
\* cancelled have ended by themselves and say rightly whether they found any.
LEMMA FinalFits ==
  ASSUME NEW r \in Runs, NEW sh, NEW ck, run[r].status # "cancel_requested",
         \A s \in ShardsOf(r) : /\ sh[s] \in Settled
                                /\ ck[s].accepted \in Nat
                                /\ sh[s] = "succeeded" => ck[s].accepted > 0
                                /\ sh[s] = "succeeded_empty" => ck[s].accepted = 0
  PROVE  FinalStatus(r, sh, ck) \in Settled /\ Fits(FinalStatus(r, sh, ck), r, sh)
<1> DEFINE S == {sh[s] : s \in ShardsOf(r)}
           F == FinalStatus(r, sh, ck)
<1>0. PICK t \in Shards : RunOf[t] = r
  BY KernelConstants
<1>1. t \in ShardsOf(r) /\ sh[t] \in S /\ S \subseteq Settled
  BY <1>0 DEF ShardsOf
<1>2. "cancelled" \notin S /\ S # {"cancelled"}
  BY <1>1 DEF Settled
<1>3. CASE S = {"failed"}
  <2>1. F = "failed"
    BY <1>2, <1>3 DEF FinalStatus
  <2> QED
    BY <1>1, <1>3, <2>1 DEF Fits, Allowed, Needed, Settled, Done
<1>4. CASE S # {"failed"} /\ S \cap {"failed", "partial_success"} # {}
  <2>1. F = "partial_success"
    BY <1>2, <1>4 DEF FinalStatus
  <2> QED
    BY <1>1, <1>4, <2>1 DEF Fits, Allowed, Needed, Settled, Done
<1>5. CASE S \cap {"failed", "partial_success"} = {}
  <2>1. \A s \in ShardsOf(r) : sh[s] \in {"succeeded", "succeeded_empty"}
    BY <1>5, Statuses
  <2>2. CASE \E s \in ShardsOf(r) : ck[s].accepted > 0
    <3>1. F = "succeeded"
      BY <1>1, <1>2, <1>5, <2>2 DEF FinalStatus
    <3>2. \E s \in ShardsOf(r) : sh[s] = "succeeded"
      BY <2>1, <2>2
    <3> QED
      BY <2>1, <3>1, <3>2 DEF Fits, Allowed, Needed, Settled, Done
  <2>3. CASE ~\E s \in ShardsOf(r) : ck[s].accepted > 0
    <3>1. F = "succeeded_empty"
      BY <1>1, <1>2, <1>5, <2>3 DEF FinalStatus
    <3>2. \A s \in ShardsOf(r) : sh[s] = "succeeded_empty"
      BY <2>1, <2>3
    <3> QED
      BY <1>1, <3>1, <3>2 DEF Fits, Allowed, Needed, Settled, Done
  <2> QED
    BY <2>2, <2>3
<1> QED
  BY <1>3, <1>4, <1>5

\* Results, as far as the end of a shard needs them, after s has ended as st.
ResultsAgree(r, sh, ck) ==
  \A s \in ShardsOf(r) : /\ ck[s].accepted \in Nat
                         /\ sh[s] = "succeeded" => ck[s].accepted > 0
                         /\ sh[s] = "succeeded_empty" => ck[s].accepted = 0

\* Shard s of run r ends as st, among the shards that R names.
EndsAs(r, s, st, R, ck) ==
  LET sh == [shard EXCEPT ![s] = st] IN
  /\ r \in R
  /\ \A t \in ShardsOf(r) : shard'[t] = FinishShards(R, sh)[t]
  /\ run'[r] \in {FinishRun(r, sh, ck), Rest(FinishRun(r, sh, ck), r, sh, lease')}

\* A run fits its shards after one of them has ended.
LEMMA EndFits ==
  ASSUME TypeOK, NEW r \in Runs, RunShape(r), NEW s \in ShardsOf(r),
         run[r].status \in Working, NEW R, NEW ck, NEW st \in Done,
         EndsAs(r, s, st, R, ck),
         st = "cancelled" => run[r].status = "cancel_requested",
         ResultsAgree(r, [shard EXCEPT ![s] = st], ck)
  PROVE  RunShape(r)'
<1> DEFINE sh  == [shard EXCEPT ![s] = st]
           all == AllDone(r, sh)
           fin == FinalStatus(r, sh, ck)
           one == FinishRun(r, sh, ck)
<1>1. s \in Shards /\ RunOf[s] = r
  BY DEF ShardsOf
<1>2. sh[s] = st /\ \A t \in ShardsOf(r) \ {s} : sh[t] = shard[t]
  BY <1>1 DEF TypeOK, ShardsOf
<1>3. /\ \A t \in ShardsOf(r) : shard'[t] = FinishShards(R, sh)[t]
      /\ r \in R
      /\ run'[r] \in {one, Rest(one, r, sh, lease')}
      /\ ResultsAgree(r, sh, ck)
  BY DEF EndsAs
<1>4. \A t \in ShardsOf(r) : shard[t] \in Allowed(run[r].status)
  BY DEF RunShape, Fits
<1>5. run[r] \in RunRecord
  BY DEF TypeOK
<1> HIDE DEF sh
<1>6. ASSUME NEW t \in ShardsOf(r)
      PROVE  shard'[t] = IF run[r].status = "cancel_requested" /\ all THEN "cancelled" ELSE sh[t]
  <2>1. t \in Shards /\ RunOf[t] = r
    BY DEF ShardsOf
  <2> QED
    BY <1>3, <2>1 DEF FinishShards
<1>7. CASE all
  <2>1. one.status = fin /\ one.parent = ParentOf(fin)
    BY <1>5, <1>7 DEF FinishRun, RunRecord
  <2>2. fin \in Done
    BY DEF FinalStatus, Done
  <2>3. run'[r] = one
    <3> HIDE DEF one
    <3> QED
      BY <1>3, <2>1, <2>2 DEF Rest, Done
  <2>4. Fits(fin, r, shard')
    <3>1. CASE run[r].status = "cancel_requested"
      <4>1. fin = "cancelled"
        BY <3>1 DEF FinalStatus
      <4>2. \A t \in ShardsOf(r) : shard'[t] = "cancelled"
        BY <1>6, <1>7, <3>1
      <4> QED
        BY <4>1, <4>2 DEF Fits, Allowed, Needed
    <3>2. CASE run[r].status # "cancel_requested"
      <4>1. \A t \in ShardsOf(r) : sh[t] \in Settled
        BY <1>2, <1>4, <1>7, <3>2 DEF AllDone, Allowed, Working, Done, Settled
      <4>2. Fits(fin, r, sh)
        BY <1>3, <3>2, <4>1, FinalFits DEF ResultsAgree
      <4>3. \A t \in ShardsOf(r) : shard'[t] = sh[t]
        BY <1>6, <3>2
      <4> HIDE DEF fin
      <4> QED
        BY <4>2, <4>3 DEF Fits
    <3> QED
      BY <3>1, <3>2
  <2> QED
    BY <2>1, <2>3, <2>4 DEF RunShape
<1>8. CASE ~all
  <2>1. one = run[r]
    BY <1>8 DEF FinishRun
  <2>2. \A t \in ShardsOf(r) : shard'[t] = sh[t]
    BY <1>6, <1>8
  <2>3. \A t \in ShardsOf(r) : sh[t] \in Allowed(run[r].status)
    BY <1>2, <1>4 DEF Allowed, Working, Done, Settled
  <2>4. PICK u \in ShardsOf(r) : sh[u] \notin Done
    BY <1>8 DEF AllDone
  <2> HIDE DEF one, all
  <2>5. CASE run'[r] = run[r]
    <3>1. sh[u] \in Needed(run[r].status)
      BY <2>3, <2>4 DEF Allowed, Needed, Working, Done, Settled
    <3> QED
      BY <2>2, <2>3, <2>5, <3>1 DEF RunShape, Fits
  <2>6. CASE run'[r] # run[r]
    <3>1. /\ run[r].status = "pause_requested"
          /\ run'[r] = [run[r] EXCEPT !.status = "paused"]
          /\ \E t \in ShardsOf(r) : sh[t] = "paused"
          /\ \A t \in ShardsOf(r) : sh[t] \in {"paused"} \cup Settled
      BY <1>3, <2>1, <2>6 DEF Rest, Settled
    <3>2. run'[r].status = "paused" /\ run'[r].parent = run[r].parent
      BY <1>5, <3>1 DEF RunRecord
    <3>3. run[r].parent = "queued"
      BY <3>1 DEF RunShape, ParentOf, Done
    <3> QED
      BY <2>2, <3>1, <3>2, <3>3 DEF RunShape, Fits, Allowed, Needed, ParentOf, Done
  <2> QED
    BY <2>5, <2>6
<1> QED
  BY <1>7, <1>8

\* Shard s of run r goes back to wait as st.
BackTo(r, s, st) ==
  LET sh == [shard EXCEPT ![s] = st] IN
  /\ st \in {"queued", "retry_scheduled", "paused"}
  /\ st = "paused" <=> run[r].status = "pause_requested"
  /\ \A t \in ShardsOf(r) : shard'[t] = sh[t]
  /\ run'[r] \in {run[r], Rest(run[r], r, sh, lease')}

\* A run fits its shards after one of them has gone back to wait.
LEMMA BackFits ==
  ASSUME TypeOK, NEW r \in Runs, RunShape(r), NEW s \in ShardsOf(r),
         run[r].status \in {"running", "pause_requested"}, NEW st, BackTo(r, s, st)
  PROVE  RunShape(r)'
<1> DEFINE sh == [shard EXCEPT ![s] = st]
<1>1. s \in Shards
  BY DEF ShardsOf
<1>2. sh[s] = st /\ \A t \in ShardsOf(r) \ {s} : sh[t] = shard[t]
  BY <1>1 DEF TypeOK, ShardsOf
<1>3. /\ \A t \in ShardsOf(r) : shard'[t] = sh[t]
      /\ run'[r] \in {run[r], Rest(run[r], r, sh, lease')}
      /\ st \in {"queued", "retry_scheduled", "paused"}
      /\ st = "paused" <=> run[r].status = "pause_requested"
  BY DEF BackTo
<1>4. \A t \in ShardsOf(r) : shard[t] \in Allowed(run[r].status)
  BY DEF RunShape, Fits
<1>5. run[r] \in RunRecord /\ run[r].parent = "queued"
  BY DEF TypeOK, RunShape, ParentOf, Done
<1> HIDE DEF sh
<1>6. \A t \in ShardsOf(r) : sh[t] \in Allowed(run[r].status)
  BY <1>2, <1>3, <1>4 DEF Allowed
<1>7. CASE run'[r] = run[r]
  BY <1>2, <1>3, <1>6, <1>7 DEF RunShape, Fits, Allowed, Needed
<1>8. CASE run'[r] # run[r]
  <2>1. /\ run[r].status = "pause_requested"
        /\ run'[r] = [run[r] EXCEPT !.status = "paused"]
        /\ \A t \in ShardsOf(r) : sh[t] \in {"paused"} \cup Settled
    BY <1>3, <1>8 DEF Rest, Settled
  <2>2. run'[r].status = "paused" /\ run'[r].parent = run[r].parent
    BY <1>5, <2>1 DEF RunRecord
  <2> QED
    BY <1>2, <1>3, <1>5, <2>1, <2>2 DEF RunShape, Fits, Allowed, Needed, ParentOf, Done
<1> QED
  BY <1>7, <1>8

\* A run that is not touched, nor its shards, fits them as before.
LEMMA ShapeUntouched ==
  ASSUME NEW r \in Runs, RunShape(r), run'[r] = run[r],
         \A t \in ShardsOf(r) : shard'[t] = shard[t]
  PROVE  RunShape(r)'
BY DEF RunShape, Fits

\* A run that passes the bridge after the step fits its shards.
LEMMA BridgeFits ==
  ASSUME TypeOK', NEW r \in Runs, BridgeOK(r)',
         run'[r].status \notin {"none", "cancel_requested"}
  PROVE  RunShape(r)'
<1>1. RunShardOK(r)' /\ run'[r].parent = ParentOf(run'[r].status)
  BY DEF BridgeOK
<1>2. run'[r].status \in RunStatus
  BY DEF TypeOK, RunRecord
<1> QED
  BY <1>1, <1>2, OKFits DEF RunShape

\* The runs after an operation of a user.
LEMMA OperatorsKeepShapes ==
  ASSUME TypeOK, TypeOK', RunShapes, NEW r \in Runs,
         CreateRun(r) \/ RequestPause(r) \/ Resume(r) \/ RequestCancel(r)
  PROVE  RunShapes'
<1> SUFFICES ASSUME NEW q \in Runs PROVE RunShape(q)'
  BY DEF RunShapes
<1>1. RunShape(q) /\ run[q] \in RunRecord /\ run[r] \in RunRecord
  BY DEF RunShapes, TypeOK
<1>2. CASE q # r
  <2>1. run'[q] = run[q]
    BY <1>2 DEF CreateRun, RequestPause, Resume, RequestCancel, TypeOK
  <2>2. ASSUME NEW t \in ShardsOf(q) PROVE shard'[t] = shard[t]
    <3>1. t \in Shards /\ t \notin ShardsOf(r)
      BY <1>2 DEF ShardsOf
    <3> QED
      BY <3>1 DEF CreateRun, RequestPause, Resume, RequestCancel
  <2> QED
    BY <1>1, <2>1, <2>2, ShapeUntouched
<1>3. CASE q = r /\ CreateRun(r)
  <2>1. run'[r].status = "queued" /\ run'[r].parent = "queued"
    BY <1>3 DEF CreateRun, TypeOK
  <2>2. \A t \in ShardsOf(r) : shard'[t] = "queued"
    BY <1>1, <1>3 DEF CreateRun, RunShape, Fits, Allowed
  <2>3. \E t \in ShardsOf(r) : TRUE
    BY KernelConstants DEF ShardsOf
  <2> QED
    BY <1>3, <2>1, <2>2, <2>3 DEF RunShape, Fits, Allowed, Needed, ParentOf, Done
<1>4. CASE q = r /\ RequestPause(r)
  <2>1. run'[r].status \in {"paused", "pause_requested"}
    BY <1>1, <1>4 DEF RequestPause, TypeOK, RunRecord
  <2>2. BridgeOK(r)'
    BY <1>4 DEF RequestPause
  <2> QED
    BY <1>4, <2>1, <2>2, BridgeFits
<1>5. CASE q = r /\ Resume(r)
  <2>1. run'[r].status = "queued"
    BY <1>1, <1>5 DEF Resume, TypeOK, RunRecord
  <2>2. BridgeOK(r)'
    BY <1>5 DEF Resume
  <2> QED
    BY <1>5, <2>1, <2>2, BridgeFits
<1>6. CASE q = r /\ RequestCancel(r)
  <2>1. BridgeOK(r)'
    BY <1>6 DEF RequestCancel
  <2>2. CASE Busy(r) = {}
    <3>1. run'[r].status = "cancelled"
      BY <1>6, <2>2 DEF RequestCancel, TypeOK
    <3> QED
      BY <1>6, <2>1, <3>1, BridgeFits
  <2>3. CASE Busy(r) # {}
    <3>1. run'[r].status = "cancel_requested" /\ run'[r].parent = run[r].parent
      BY <1>1, <1>6, <2>3 DEF RequestCancel, TypeOK, RunRecord
    <3>2. run[r].parent = "queued"
      BY <1>1, <1>6 DEF RequestCancel, RunShape, ParentOf, Done
    <3>3. PICK s \in Busy(r) : TRUE
      BY <2>3
    <3>4. s \in ShardsOf(r) /\ s \in Shards
      BY DEF Busy, HeldIn, Pending, ShardsOf
    <3>5. shard'[s] = "cancel_requested"
      BY <1>6, <3>4 DEF RequestCancel
    <3>6. \A t \in ShardsOf(r) : shard'[t] \in {"cancel_requested", "cancelled"}
      BY <1>6 DEF RequestCancel, ShardsOf
    <3> QED
      BY <1>6, <3>1, <3>2, <3>4, <3>5, <3>6 DEF RunShape, Fits, Allowed, Needed, ParentOf, Done
  <2> QED
    BY <2>2, <2>3
<1> QED
  BY <1>2, <1>3, <1>4, <1>5, <1>6

\* The runs after a claim.
LEMMA ClaimKeepsShapes ==
  ASSUME TypeOK, TypeOK', RunShapes, ClaimNext
  PROVE  RunShapes'
<1> DEFINE touched == {RunOf[s] : s \in Skipped \cup Chosen}
           sh == [s \in Shards |-> IF s \in Skipped THEN "succeeded_empty"
                                   ELSE IF s \in Chosen THEN "running" ELSE shard[s]]
<1>1. /\ shard' = sh
      /\ run' = [r \in Runs |->
           IF \E s \in Chosen : RunOf[s] = r THEN [run[r] EXCEPT !.status = "running"]
           ELSE IF r \in touched THEN FinishRun(r, sh, ckpt')
           ELSE run[r]]
      /\ \A r \in touched : BridgeOK(r)'
  BY DEF ClaimNext
<1>2. \A s \in Skipped \cup Chosen : s \in Shards /\ run[RunOf[s]].status \in {"queued", "running"}
  BY DEF Skipped, Chosen, Claimable
<1> SUFFICES ASSUME NEW q \in Runs PROVE RunShape(q)'
  BY DEF RunShapes
<1>3. RunShape(q) /\ run[q] \in RunRecord
  BY DEF RunShapes, TypeOK
<1>4. CASE q \notin touched
  <2>1. run'[q] = run[q]
    BY <1>1, <1>4
  <2>2. \A t \in ShardsOf(q) : shard'[t] = shard[t]
    BY <1>1, <1>4 DEF ShardsOf
  <2> QED
    BY <1>3, <2>1, <2>2, ShapeUntouched
<1>5. CASE q \in touched
  <2>1. run[q].status \in {"queued", "running"}
    BY <1>2, <1>5
  <2>2. \/ run'[q] = [run[q] EXCEPT !.status = "running"]
        \/ run'[q] = FinishRun(q, sh, ckpt')
    BY <1>1, <1>5
  <2>3. [run[q] EXCEPT !.status = "running"].status = "running"
    BY <1>3 DEF RunRecord
  <2> HIDE DEF sh, touched
  <2>4. \/ FinishRun(q, sh, ckpt') = run[q]
        \/ FinishRun(q, sh, ckpt').status \in Done
    BY FinishRunEffect
  <2>5. run'[q].status \notin {"none", "cancel_requested"}
    BY <2>1, <2>2, <2>3, <2>4 DEF Done
  <2> QED
    BY <1>1, <1>5, <2>5, BridgeFits
<1> QED
  BY <1>4, <1>5

\* What finishing looks at are the shards of the run.
LEMMA SameShards ==
  ASSUME NEW r \in Runs, NEW s1, NEW s2, \A t \in ShardsOf(r) : s1[t] = s2[t],
         NEW rec, NEW ck, NEW ls
  PROVE  /\ AllDone(r, s1) <=> AllDone(r, s2)
         /\ FinishRun(r, s1, ck) = FinishRun(r, s2, ck)
         /\ Rest(rec, r, s1, ls) = Rest(rec, r, s2, ls)
<1>1. {s1[t] : t \in ShardsOf(r)} = {s2[t] : t \in ShardsOf(r)}
  BY Zenon
<1>2. AllDone(r, s1) <=> AllDone(r, s2)
  BY DEF AllDone
<1>3. FinalStatus(r, s1, ck) = FinalStatus(r, s2, ck)
  BY <1>1 DEF FinalStatus
<1>4. FinishRun(r, s1, ck) = FinishRun(r, s2, ck)
  BY <1>2, <1>3 DEF FinishRun
<1>5. Rest(rec, r, s1, ls) = Rest(rec, r, s2, ls)
  BY <1>1 DEF Rest
<1> QED
  BY <1>2, <1>4, <1>5

\* The results of the shards of a run agree with the ends of all of them if
\* they do with that of the one that ends now.
LEMMA OthersAgree ==
  ASSUME TypeOK, NEW r \in Runs, NEW s \in ShardsOf(r), NEW st, NEW ck,
         \A t \in ShardsOf(r) : ck[t].accepted \in Nat,
         \A t \in ShardsOf(r) \ {s} : ResultRow(t) /\ ck[t].accepted = ckpt[t].accepted,
         st = "succeeded" => ck[s].accepted > 0,
         st = "succeeded_empty" => ck[s].accepted = 0
  PROVE  ResultsAgree(r, [shard EXCEPT ![s] = st], ck)
<1> DEFINE sh == [shard EXCEPT ![s] = st]
<1>1. s \in Shards
  BY DEF ShardsOf
<1>2. sh[s] = st /\ \A t \in ShardsOf(r) \ {s} : sh[t] = shard[t]
  BY <1>1 DEF TypeOK, ShardsOf
<1> HIDE DEF sh
<1>3. ResultsAgree(r, sh, ck)
  BY <1>2 DEF ResultsAgree, ResultRow
<1> QED
  BY <1>3 DEF sh

\* The answer of a request that is out is not stored yet.
LEMMA HeldUnanswered ==
  ASSUME StoreInv, NEW s \in Shards, \A n \in CallNos : AnswerRow(s, n), Held(s)
  PROVE  ~Answered(s)
<1> SUFFICES ASSUME NEW n \in CallNos, ledger[s][n].by = fence[s],
                    ledger[s][n].dispatch = "response_received"
             PROVE  FALSE
  BY DEF Answered
<1>1. LedgerRow(s, n) /\ fence[s] # 0
  BY DEF StoreInv, LedgerRows, Held
<1>2. ledger[s][n].status \in {"response_received", "settled", "cancelled_late"}
  BY <1>1 DEF LedgerRow, SentBy
<1>3. ledger[s][n].status # "response_received"
  BY <1>1 DEF LedgerRow, Open
<1> QED
  BY <1>1, <1>2, <1>3 DEF AnswerRow

\* Who holds a lease in a run that is being cancelled has had its epoch
\* fenced off, and nobody else has.
LEMMA CaughtIffCancelled ==
  ASSUME StoreInv, NEW s \in Shards, Held(s)
  PROVE  CancelCaught(s) <=> run[RunOf[s]].status = "cancel_requested"
<1>1. fence[s] \in Fences /\ Current(s).status = "active"
  BY HeldAtWork DEF StoreInv, KernelInv
<1>2. run[RunOf[s]].status = "cancel_requested" => run[RunOf[s]].epoch = Current(s).runEpoch + 1
  BY <1>1 DEF StoreInv, LeaseRowsValid, Current
<1> QED
  BY <1>2 DEF CancelCaught

\* A lease that is unused is that of a run that is not being cancelled.
LEMMA UnusedGoesOn ==
  ASSUME StoreInv, RunShapes, NEW s \in Shards, AtWork(s), Held(s), ~Current(s).started
  PROVE  /\ run[RunOf[s]].status \in {"running", "pause_requested"}
         /\ shard[s] \in {"running", "pause_requested"} /\ ~CancelCaught(s)
<1>1. shard[s] \in Working /\ run[RunOf[s]].status \in Working
  BY HeldAtWork DEF StoreInv, KernelInv
<1>2. shard[s] # "cancel_requested"
  BY DEF AtWork
<1>3. run[RunOf[s]].status # "cancel_requested"
  BY <1>1, <1>2, WorkingShape DEF Working, StoreInv, KernelInv
<1> QED
  BY <1>1, <1>2, <1>3, CaughtIffCancelled DEF Working

\* How the shard of a request that is given up ends.
LEMMA UnknownEnd ==
  ASSUME StoreInv, NEW s \in Shards, Held(s)
  PROVE  /\ UnknownShard(s) \in Done
         /\ UnknownShard(s) = "cancelled" => run[RunOf[s]].status = "cancel_requested"
         /\ UnknownShard(s) \notin {"succeeded", "succeeded_empty"}
BY CaughtIffCancelled DEF UnknownShard, Done

\* The runs after a recovery: each has lost at most one lease.
LEMMA RecoverKeepsShapes ==
  ASSUME StoreInv, RunShapes, WorkRows, NEW Gone \in SUBSET {s \in Shards : Held(s)},
         RecoverLeases(Gone)
  PROVE  RunShapes'
<1> USE DEF StoreInv, KernelInv
<1> DEFINE lost     == {s \in Gone : Current(s).started /\ ~Answered(s)}
           unused   == {s \in Gone : ~Current(s).started}
           caught   == {s \in unused : CancelCaught(s)}
           finished == {RunOf[s] : s \in lost \cup caught}
           resting  == {RunOf[s] : s \in {t \in lost \cup unused : ~CancelCaught(t)}}
           sh == [s \in Shards |->
                    IF s \in lost THEN UnknownShard(s)
                    ELSE IF s \in caught THEN "cancelled"
                    ELSE IF s \notin unused THEN shard[s]
                    ELSE IF run[RunOf[s]].status = "pause_requested" THEN "paused"
                    ELSE "queued"]
<1>1. /\ run' = [r \in Runs |->
           LET rec == IF r \in finished THEN FinishRun(r, sh, ckpt) ELSE run[r]
           IN  IF r \in resting THEN Rest(rec, r, sh, lease') ELSE rec]
      /\ shard' = FinishShards(finished, sh)
  BY DEF RecoverLeases
<1>2. \A s \in Gone : s \in Shards /\ Held(s) /\ WorkRow(s)
  BY DEF WorkRows
<1>3. ASSUME NEW s \in Gone, ~Current(s).started PROVE ~CancelCaught(s)
  BY <1>2, <1>3, UnusedGoesOn DEF WorkRow
<1>4. caught = {}
  BY <1>3
<1>5. /\ lost \subseteq Gone /\ unused \subseteq Gone /\ lost \cap unused = {}
      /\ \A s \in lost \cup unused : s \in Gone
  OBVIOUS
<1>6. \A r \in finished : \E s \in lost : RunOf[s] = r
  BY <1>4
<1>7. \A r \in resting : \E s \in Gone : RunOf[s] = r
  OBVIOUS
<1>8. \A s \in lost : RunOf[s] \in finished
  OBVIOUS
<1>9. \A s \in Gone : s \in lost \cup unused
  BY <1>2, HeldUnanswered DEF WorkRow
<1>10. \A s \in Shards : sh[s] = IF s \in lost THEN UnknownShard(s)
                                 ELSE IF s \notin unused THEN shard[s]
                                 ELSE IF run[RunOf[s]].status = "pause_requested"
                                 THEN "paused" ELSE "queued"
  BY <1>4
<1> HIDE DEF sh, lost, unused, caught, finished, resting
<1> SUFFICES ASSUME NEW q \in Runs PROVE RunShape(q)'
  BY DEF RunShapes
<1>11. RunShape(q) /\ run[q] \in RunRecord
  BY DEF RunShapes, TypeOK
<1>12. run'[q] = LET rec == IF q \in finished THEN FinishRun(q, sh, ckpt) ELSE run[q]
                 IN  IF q \in resting THEN Rest(rec, q, sh, lease') ELSE rec
  BY <1>1
<1>13. \A t \in ShardsOf(q) : t \in Shards /\ RunOf[t] = q
  BY DEF ShardsOf
<1>14. CASE \A g \in Gone : RunOf[g] # q
  <2>1. q \notin finished /\ q \notin resting
    BY <1>5, <1>6, <1>7, <1>14
  <2>2. \A t \in ShardsOf(q) : shard'[t] = shard[t]
    BY <1>1, <1>5, <1>10, <1>13, <1>14, <2>1 DEF FinishShards
  <2> QED
    BY <1>11, <1>12, <2>1, <2>2, ShapeUntouched
<1>15. CASE \E g \in Gone : RunOf[g] = q
  <2>1. PICK g \in Gone : RunOf[g] = q
    BY <1>15
  <2>2. \A t \in ShardsOf(q) : t \in Gone => t = g
    BY <1>2, <1>13, <2>1, OneHeld
  <2>3. g \in ShardsOf(q) /\ g \in Shards /\ Held(g)
    BY <1>2, <2>1 DEF ShardsOf
  <2>4. \A t \in ShardsOf(q) \ {g} : sh[t] = shard[t]
    BY <1>5, <1>10, <1>13, <2>2
  <2>5. run[q].status \in Working
    BY <2>1, <2>3, HeldAtWork
  <2>6. CASE g \in lost
    <3> DEFINE st == UnknownShard(g)
               s1 == [shard EXCEPT ![g] = st]
    <3>1. \A t \in ShardsOf(q) : sh[t] = s1[t]
      BY <1>10, <1>13, <2>3, <2>4, <2>6 DEF TypeOK
    <3>2. q \in finished
      BY <1>8, <2>1, <2>6
    <3> HIDE DEF s1
    <3>3. FinishRun(q, sh, ckpt) = FinishRun(q, s1, ckpt)
      BY <3>1, SameShards
    <3>4. run'[q] \in {FinishRun(q, s1, ckpt), Rest(FinishRun(q, s1, ckpt), q, s1, lease')}
      <4>1. \/ run'[q] = FinishRun(q, sh, ckpt)
            \/ run'[q] = Rest(FinishRun(q, sh, ckpt), q, sh, lease')
        BY <1>12, <3>2
      <4>2. Rest(FinishRun(q, sh, ckpt), q, sh, lease')
              = Rest(FinishRun(q, sh, ckpt), q, s1, lease')
        BY <3>1, SameShards
      <4> QED
        BY <3>3, <4>1, <4>2
    <3>5. AllDone(q, sh) <=> AllDone(q, s1)
      BY <3>1, SameShards
    <3>6. \A t \in ShardsOf(q) : shard'[t] = FinishShards(finished, s1)[t]
      BY <1>1, <1>13, <3>1, <3>5 DEF FinishShards
    <3>7. /\ st \in Done
          /\ st = "cancelled" => run[q].status = "cancel_requested"
          /\ st \notin {"succeeded", "succeeded_empty"}
      BY <2>1, <2>3, UnknownEnd
    <3> HIDE DEF st
    <3>8. EndsAs(q, g, st, finished, ckpt)
      BY <3>2, <3>4, <3>6 DEF EndsAs, s1
    <3>9. ResultsAgree(q, [shard EXCEPT ![g] = st], ckpt)
      <4>1. \A t \in ShardsOf(q) : ckpt[t].accepted \in Nat /\ ResultRow(t)
        BY <1>13 DEF TypeOK, Checkpoint, WorkRows, WorkRow
      <4> QED
        BY <2>3, <3>7, <4>1, OthersAgree
    <3> QED
      BY <1>11, <2>3, <2>5, <3>7, <3>8, <3>9, EndFits
  <2>7. CASE g \notin lost
    <3> DEFINE st == IF run[q].status = "pause_requested" THEN "paused" ELSE "queued"
               s1 == [shard EXCEPT ![g] = st]
    <3>1. g \in unused
      BY <1>9, <2>7
    <3>2. ~Current(g).started
      BY <3>1 DEF unused
    <3>3. run[q].status \in {"running", "pause_requested"}
      BY <1>2, <2>1, <2>3, <3>2, UnusedGoesOn DEF WorkRow
    <3>4. \A t \in ShardsOf(q) : sh[t] = s1[t]
      BY <1>10, <1>13, <2>1, <2>3, <2>4, <2>7, <3>1 DEF TypeOK
    <3>5. q \notin finished
      BY <1>5, <1>6, <1>13, <2>2, <2>7 DEF ShardsOf
    <3> HIDE DEF s1
    <3>6. \A t \in ShardsOf(q) : shard'[t] = s1[t]
      BY <1>1, <1>13, <3>4, <3>5 DEF FinishShards
    <3>7. run'[q] \in {run[q], Rest(run[q], q, s1, lease')}
      <4>1. run'[q] = run[q] \/ run'[q] = Rest(run[q], q, sh, lease')
        BY <1>12, <3>5
      <4>2. Rest(run[q], q, sh, lease') = Rest(run[q], q, s1, lease')
        BY <3>4, SameShards
      <4> QED
        BY <4>1, <4>2
    <3>8. BackTo(q, g, st)
      BY <3>3, <3>6, <3>7 DEF BackTo, s1
    <3> QED
      BY <1>11, <2>3, <3>3, <3>8, BackFits
  <2> QED
    BY <2>6, <2>7
<1> QED
  BY <1>14, <1>15

\* The runs after a call that throws.
LEMMA DispatchFailsShapes ==
  ASSUME StoreInv, TypeOK', RunShapes, WorkRows, NEW s \in Shards, DispatchFails(s)
  PROVE  RunShapes'
<1> USE DEF StoreInv, KernelInv
<1> DEFINE r == RunOf[s]
           st == UnknownShard(s)
           sh == [shard EXCEPT ![s] = st]
<1>1. r \in Runs /\ s \in ShardsOf(r) /\ Held(s) /\ RunShape(r)
  BY KernelConstants DEF DispatchFails, ShardsOf, RunShapes
<1>2. /\ shard' = FinishShards({r}, sh)
      /\ run' = [run EXCEPT ![r] = Rest(FinishRun(r, sh, ckpt), r, sh, lease')]
  BY DEF DispatchFails
<1>3. /\ st \in Done
      /\ st = "cancelled" => run[r].status = "cancel_requested"
      /\ st \notin {"succeeded", "succeeded_empty"}
  BY <1>1, UnknownEnd
<1>4. run[r].status \in Working
  BY <1>1, HeldAtWork
<1>5. run'[r] = Rest(FinishRun(r, sh, ckpt), r, sh, lease')
  BY <1>1, <1>2 DEF TypeOK
<1> HIDE DEF st
<1>6. EndsAs(r, s, st, {r}, ckpt)
  BY <1>2, <1>5 DEF EndsAs
<1>7. ResultsAgree(r, sh, ckpt)
  <2>1. \A t \in ShardsOf(r) : ckpt[t].accepted \in Nat /\ ResultRow(t)
    BY DEF TypeOK, Checkpoint, WorkRows, WorkRow, ShardsOf
  <2> QED
    BY <1>1, <1>3, <2>1, OthersAgree
<1>8. RunShape(r)'
  BY <1>1, <1>3, <1>4, <1>6, <1>7, EndFits
<1>9. ASSUME NEW q \in Runs, q # r PROVE RunShape(q)'
  <2>1. run'[q] = run[q]
    BY <1>1, <1>2, <1>9 DEF TypeOK
  <2>2. \A t \in ShardsOf(q) : shard'[t] = shard[t]
    <3> SUFFICES ASSUME NEW t \in ShardsOf(q) PROVE shard'[t] = shard[t]
      OBVIOUS
    <3>1. t \in Shards /\ RunOf[t] # r /\ t # s
      BY <1>9 DEF ShardsOf
    <3> QED
      BY <1>2, <3>1 DEF FinishShards, TypeOK
  <2> QED
    BY <2>1, <2>2, ShapeUntouched DEF RunShapes
<1> QED
  BY <1>8, <1>9 DEF RunShapes

\* How the shard of a settled answer ends, and how it goes on.
SettledEnd(s) ==
  /\ run[RunOf[s]].status \in Working
  /\ \E st \in Done :
       /\ EndsAs(RunOf[s], s, st, {RunOf[s]}, ckpt')
       /\ st = "cancelled" => run[RunOf[s]].status = "cancel_requested"
       /\ st = "succeeded" => ckpt'[s].accepted > 0
       /\ st = "succeeded_empty" => ckpt'[s].accepted = 0
SettledBack(s) ==
  /\ run[RunOf[s]].status \in {"running", "pause_requested"}
  /\ \E st : BackTo(RunOf[s], s, st)
  /\ ckpt'[s].calls < CallLimit /\ GoesOn(ckpt'[s], run[RunOf[s]].epoch)

\* What a settlement does to its run, and to the others.
LEMMA SettleEffect ==
  ASSUME StoreInv, TypeOK', RunShapes, NEW s \in Shards, NEW n \in CallNos, WorkRow(s),
         SettleLate(s, n) \/ SettleSuccess(s, n) \/ SettleFailure(s, n)
  PROVE  /\ \/ SettledEnd(s) \/ SettledBack(s)
            \/ Late(s, n) /\ UNCHANGED <<run, shard, ckpt>>
         /\ \A q \in Runs \ {RunOf[s]} : run'[q] = run[q]
         /\ \A t \in Shards : RunOf[t] # RunOf[s] => shard'[t] = shard[t]
         /\ \A t \in Shards \ {s} : ckpt'[t] = ckpt[t]
         /\ run[RunOf[s]].status \in Done => UNCHANGED <<run, shard, ckpt>>
         /\ OnTime(s, n) \/ ckpt' = ckpt
         /\ ckpt'[s].exists = ckpt[s].exists
<1> USE DEF StoreInv, KernelInv
<1> DEFINE r == RunOf[s]
<1>1. r \in Runs /\ run[r].status \in RunStatus
  BY KernelConstants DEF TypeOK, RunRecord
<1>2. ASSUME NEW st \in Settled, NEW err, FinishShard(s, st, err)
      PROVE  /\ EndsAs(r, s, st, {r}, ckpt') /\ st # "cancelled"
             /\ \A q \in Runs \ {r} : run'[q] = run[q]
             /\ \A t \in Shards : RunOf[t] # r => shard'[t] = shard[t]
  <2> DEFINE sh == [shard EXCEPT ![s] = st]
             new == Rest(FinishRun(r, sh, ckpt'), r, sh, lease')
  <2>1. shard' = FinishShards({r}, sh) /\ run' = [run EXCEPT ![r] = new]
    BY <1>2 DEF FinishShard
  <2> HIDE DEF new
  <2>2. run'[r] = new /\ \A q \in Runs \ {r} : run'[q] = run[q]
    BY <1>1, <2>1 DEF TypeOK
  <2>3. EndsAs(r, s, st, {r}, ckpt')
    BY <2>1, <2>2 DEF EndsAs, new
  <2>4. \A t \in Shards : RunOf[t] # r => sh[t] = shard[t]
    BY DEF TypeOK
  <2> HIDE DEF sh
  <2>5. \A t \in Shards : RunOf[t] # r => shard'[t] = shard[t]
    BY <2>1, <2>4 DEF FinishShards
  <2> QED
    BY <2>2, <2>3, <2>5, Statuses
<1>3. ASSUME NEW st \in {"queued", "retry_scheduled"}, KeepShard(s, st), OnTime(s, n)
      PROVE  /\ run[r].status \in {"running", "pause_requested"}
             /\ \E w : BackTo(r, s, w)
             /\ \A q \in Runs \ {r} : run'[q] = run[q]
             /\ \A t \in Shards : RunOf[t] # r => shard'[t] = shard[t]
  <2> DEFINE w == IF run[r].status = "pause_requested" THEN "paused" ELSE st
             sh == [shard EXCEPT ![s] = w]
             new == Rest(run[r], r, sh, lease')
  <2>1. shard' = sh /\ run' = [run EXCEPT ![r] = new]
    BY <1>3 DEF KeepShard
  <2> HIDE DEF new
  <2>2. run'[r] = new /\ \A q \in Runs \ {r} : run'[q] = run[q]
    BY <1>1, <2>1 DEF TypeOK
  <2>3. BackTo(r, s, w)
    BY <2>1, <2>2 DEF BackTo, new
  <2>4. \A t \in Shards : RunOf[t] # r => shard'[t] = shard[t]
    BY <2>1 DEF TypeOK
  <2>5. run[r].status \in {"running", "pause_requested"}
    BY <1>3 DEF OnTime
  <2> QED
    BY <2>2, <2>3, <2>4, <2>5
<1>4. OnTime(s, n) => run[r].status \notin Done /\ run[r].status \in Working
  BY DEF OnTime, Late, Working
<1>8. ASSUME OnTime(s, n)
       PROVE  /\ shard[s] \in {"running", "pause_requested"}
              /\ GoesOn(ckpt[s], run[r].epoch) /\ ckpt[s].calls <= CallLimit
  <2>1. AnswerLease(s, n).attempt = "request_started" /\ ledger[s][n].status = "response_received"
    BY <1>8, SettleShape DEF OnTime, Late, Settleable
  <2>2. shard[s] \in Working /\ run[r].status # "cancel_requested"
    BY <1>8, <2>1 DEF WorkRow, AnswerRow, OnTime, Late
  <2>3. shard[s] \in {"running", "pause_requested"}
    BY <2>2, WorkingShape DEF Working
  <2> QED
    BY <2>3 DEF WorkRow, WaitRow, WithinLimits, Done
<1>5. CASE SettleLate(s, n)
  <2>1. ckpt' = ckpt
    BY <1>5 DEF SettleLate
  <2>2. CASE run[r].status = "cancel_requested"
    <3> DEFINE sh == [shard EXCEPT ![s] = "cancelled"]
               new == FinishRun(r, sh, ckpt)
    <3>1. shard' = FinishShards({r}, sh) /\ run' = [run EXCEPT ![r] = new]
      BY <1>5, <2>2 DEF SettleLate
    <3> HIDE DEF new
    <3>2. run'[r] = new /\ \A q \in Runs \ {r} : run'[q] = run[q]
      BY <1>1, <3>1 DEF TypeOK
    <3>3. EndsAs(r, s, "cancelled", {r}, ckpt')
      BY <2>1, <3>1, <3>2 DEF EndsAs, new
    <3>4. \A t \in Shards : RunOf[t] # r => sh[t] = shard[t]
      BY DEF TypeOK
    <3> HIDE DEF sh
    <3>5. \A t \in Shards : RunOf[t] # r => shard'[t] = shard[t]
      BY <3>1, <3>4 DEF FinishShards
    <3>6. "cancelled" \in Done /\ "cancel_requested" \notin Done
      BY DEF Done
    <3> QED
      BY <2>1, <2>2, <3>2, <3>3, <3>5, <3>6 DEF SettledEnd, Working
  <2>3. CASE run[r].status # "cancel_requested"
    BY <1>5, <2>1, <2>3 DEF SettleLate
  <2> QED
    BY <2>2, <2>3
<1>6. CASE SettleSuccess(s, n)
  <2> DEFINE resp  == ledger[s][n].resp
             take  == Taken(s, resp)
             page  == [ckpt[s] EXCEPT !.pages = @ + 1, !.accepted = @ + take,
                               !.partial = @ \/ resp.partial \/ take # resp.accepted,
                               !.retry = "none"]
             limit == page.pages >= PageLimit \/ page.accepted >= ResultLimit
             end   == IF page.partial THEN "partial_success"
                      ELSE IF page.accepted > 0 THEN "succeeded" ELSE "succeeded_empty"
  <2>1. OnTime(s, n)
    BY <1>6 DEF SettleSuccess
  <2>2. CASE limit \/ ~resp.more
    <3>1. /\ ckpt' = [ckpt EXCEPT ![s] = [page EXCEPT !.sealed = 0, !.done = TRUE]]
          /\ FinishShard(s, end, "none")
      BY <1>6, <2>2 DEF SettleSuccess
    <3>2. ckpt'[s] = [page EXCEPT !.sealed = 0, !.done = TRUE]
          /\ \A t \in Shards \ {s} : ckpt'[t] = ckpt[t]
      BY <3>1 DEF TypeOK
    <3>3. page.accepted = ckpt[s].accepted + take
      BY DEF TypeOK, Checkpoint
    <3>4. [page EXCEPT !.sealed = 0, !.done = TRUE].accepted = page.accepted
      BY DEF TypeOK, Checkpoint
    <3>5. ckpt'[s].accepted \in Nat
      BY DEF TypeOK, Checkpoint
    <3>6. end \in Settled
      BY Statuses
    <3>7. /\ end = "succeeded" => ckpt'[s].accepted > 0
          /\ end = "succeeded_empty" => ckpt'[s].accepted = 0
      <4> HIDE DEF page
      <4> QED
        BY <3>2, <3>4, <3>5
    <3>9. ckpt'[s].exists = ckpt[s].exists
      BY <3>2 DEF TypeOK, Checkpoint
    <3> HIDE DEF end
    <3>8. SettledEnd(s)
      BY <1>2, <1>4, <2>1, <3>1, <3>6, <3>7, Statuses DEF SettledEnd
    <3> QED
      BY <1>2, <1>4, <2>1, <3>1, <3>2, <3>6, <3>8, <3>9
  <2>3. CASE ~(limit \/ ~resp.more)
    <3>1. /\ ckpt' = [ckpt EXCEPT ![s] = [page EXCEPT !.no = @ + 1, !.calls = 0,
                                                      !.sealed = run[RunOf[s]].epoch]]
          /\ KeepShard(s, "queued")
      BY <1>6, <2>3 DEF SettleSuccess
    <3>2. /\ ckpt'[s] = [page EXCEPT !.no = @ + 1, !.calls = 0,
                                     !.sealed = run[RunOf[s]].epoch]
          /\ \A t \in Shards \ {s} : ckpt'[t] = ckpt[t]
      BY <3>1 DEF TypeOK
    <3>4. /\ page.pages = ckpt[s].pages + 1 /\ page.total = ckpt[s].total
          /\ page.done = ckpt[s].done /\ page.exists = ckpt[s].exists
      BY DEF TypeOK, Checkpoint
    <3>5. /\ ckpt'[s].calls = 0 /\ ckpt'[s].sealed = run[r].epoch
          /\ ckpt'[s].pages = page.pages /\ ckpt'[s].accepted = page.accepted
          /\ ckpt'[s].total = page.total /\ ckpt'[s].done = page.done
          /\ ckpt'[s].exists = page.exists
      BY <3>2 DEF TypeOK, Checkpoint
    <3>3. page.pages < PageLimit /\ page.accepted < ResultLimit
      <4>1. ckpt'[s].pages \in Nat /\ ckpt'[s].accepted \in Nat
        BY DEF TypeOK, Checkpoint
      <4>2. page.pages \in Nat /\ page.accepted \in Nat
        <5> HIDE DEF page
        <5> QED
          BY <3>5, <4>1
      <4> QED
        BY <2>3, <4>2, KernelConstants
    <3> HIDE DEF page
    <3>6. ckpt[s].total <= CallLimit * (ckpt[s].pages + 1) + 0
      <4>1. /\ ckpt[s].total \in Nat /\ ckpt[s].pages \in Nat /\ ckpt[s].calls \in Nat
            /\ CallLimit \in Nat
        BY KernelConstants DEF TypeOK, Checkpoint
      <4>2. ckpt[s].total <= CallLimit * ckpt[s].pages + ckpt[s].calls /\ ckpt[s].calls <= CallLimit
        BY <1>8, <2>1 DEF GoesOn
      <4>3. CallLimit * (ckpt[s].pages + 1) = CallLimit * ckpt[s].pages + CallLimit
        BY <4>1
      <4>4. CallLimit * ckpt[s].pages \in Nat
        BY <4>1
      <4> QED
        BY <4>1, <4>2, <4>3, <4>4
    <3>7. GoesOn(ckpt'[s], run[r].epoch)
      BY <1>8, <2>1, <3>3, <3>4, <3>5, <3>6 DEF GoesOn
    <3>8. SettledBack(s)
      BY <1>3, <2>1, <3>1, <3>5, <3>7, KernelConstants DEF SettledBack
    <3> QED
      BY <1>3, <1>4, <2>1, <3>1, <3>2, <3>4, <3>5, <3>8
  <2> QED
    BY <2>2, <2>3
<1>7. CASE SettleFailure(s, n)
  <2> DEFINE resp == ledger[s][n].resp
             end  == IF ckpt[s].accepted > 0 THEN "partial_success" ELSE "failed"
  <2>1. OnTime(s, n)
    BY <1>7 DEF SettleFailure
  <2>2. CASE resp.retryable /\ ckpt[s].calls < CallLimit
    <3>1. ckpt' = [ckpt EXCEPT ![s].retry = "later"] /\ KeepShard(s, "retry_scheduled")
      BY <1>7, <2>2 DEF SettleFailure
    <3>2. /\ ckpt'[s] = [ckpt[s] EXCEPT !.retry = "later"]
          /\ \A t \in Shards \ {s} : ckpt'[t] = ckpt[t]
      BY <3>1 DEF TypeOK
    <3>4. /\ ckpt'[s].calls = ckpt[s].calls /\ ckpt'[s].sealed = ckpt[s].sealed
          /\ ckpt'[s].pages = ckpt[s].pages /\ ckpt'[s].accepted = ckpt[s].accepted
          /\ ckpt'[s].total = ckpt[s].total /\ ckpt'[s].done = ckpt[s].done
          /\ ckpt'[s].exists = ckpt[s].exists
      BY <3>2 DEF TypeOK, Checkpoint
    <3>5. GoesOn(ckpt'[s], run[r].epoch)
      BY <1>8, <2>1, <3>4 DEF GoesOn
    <3>3. SettledBack(s)
      BY <1>3, <2>1, <2>2, <3>1, <3>4, <3>5 DEF SettledBack
    <3> QED
      BY <1>3, <1>4, <2>1, <3>1, <3>2, <3>3, <3>4
  <2>3. CASE ~(resp.retryable /\ ckpt[s].calls < CallLimit)
    <3>1. /\ \A t \in Shards \ {s} : ckpt'[t] = ckpt[t]
          /\ FinishShard(s, end, "provider")
          /\ ckpt'[s] = [ckpt[s] EXCEPT !.retry = "none", !.done = TRUE,
                                        !.partial = ckpt[s].accepted > 0]
      BY <1>7, <2>3 DEF SettleFailure, TypeOK
    <3>4. ckpt'[s].exists = ckpt[s].exists
      BY <3>1 DEF TypeOK, Checkpoint
    <3>2. end \in Settled /\ end \notin {"succeeded", "succeeded_empty"}
      BY Statuses
    <3> HIDE DEF end
    <3>3. SettledEnd(s)
      BY <1>2, <1>4, <2>1, <3>1, <3>2, Statuses DEF SettledEnd
    <3> QED
      BY <1>2, <1>4, <2>1, <3>1, <3>2, <3>3, <3>4
  <2> QED
    BY <2>2, <2>3
<1> QED
  BY <1>5, <1>6, <1>7

\* The runs after a settlement.
LEMMA SettleKeepsShapes ==
  ASSUME StoreInv, TypeOK', RunShapes, WorkRows, NEW s \in Shards, NEW n \in CallNos,
         SettleLate(s, n) \/ SettleSuccess(s, n) \/ SettleFailure(s, n)
  PROVE  RunShapes'
<1> USE DEF StoreInv, KernelInv
<1> DEFINE r == RunOf[s]
<1>1. r \in Runs /\ s \in ShardsOf(r) /\ RunShape(r)
  BY KernelConstants DEF ShardsOf, RunShapes
<1>2. /\ SettledEnd(s) \/ SettledBack(s) \/ UNCHANGED <<run, shard, ckpt>>
      /\ \A q \in Runs \ {r} : run'[q] = run[q]
      /\ \A t \in Shards : RunOf[t] # r => shard'[t] = shard[t]
      /\ \A t \in Shards \ {s} : ckpt'[t] = ckpt[t]
  BY SettleEffect DEF WorkRows
<1>3. ASSUME NEW q \in Runs, q # r PROVE RunShape(q)'
  <2>1. \A t \in ShardsOf(q) : shard'[t] = shard[t]
    BY <1>2, <1>3 DEF ShardsOf
  <2> QED
    BY <1>2, <1>3, <2>1, ShapeUntouched DEF RunShapes
<1>4. RunShape(r)'
  <2>1. CASE SettledEnd(s)
    <3>1. PICK st \in Done :
            /\ EndsAs(r, s, st, {r}, ckpt')
            /\ st = "cancelled" => run[r].status = "cancel_requested"
            /\ st = "succeeded" => ckpt'[s].accepted > 0
            /\ st = "succeeded_empty" => ckpt'[s].accepted = 0
      BY <2>1 DEF SettledEnd
    <3>2. \A t \in ShardsOf(r) : ckpt'[t].accepted \in Nat /\ ResultRow(t)
      BY DEF TypeOK, Checkpoint, WorkRows, WorkRow, ShardsOf
    <3>3. \A t \in ShardsOf(r) \ {s} : ckpt'[t].accepted = ckpt[t].accepted
      BY <1>2 DEF ShardsOf
    <3>4. ResultsAgree(r, [shard EXCEPT ![s] = st], ckpt')
      BY <1>1, <3>1, <3>2, <3>3, OthersAgree
    <3> QED
      BY <1>1, <2>1, <3>1, <3>4, EndFits DEF SettledEnd
  <2>2. CASE SettledBack(s)
    BY <1>1, <2>2, BackFits DEF SettledBack
  <2>3. CASE UNCHANGED <<run, shard, ckpt>>
    BY <1>1, <2>3, ShapeUntouched
  <2> QED
    BY <1>2, <2>1, <2>2, <2>3
<1> QED
  BY <1>3, <1>4 DEF RunShapes

\* The runs after a claim is put off.
LEMMA DeferKeepsShapes ==
  ASSUME StoreInv, TypeOK', RunShapes, NEW s \in Shards, Defer(s)
  PROVE  RunShapes'
<1> USE DEF StoreInv, KernelInv
<1> DEFINE r == RunOf[s]
<1>1. r \in Runs /\ s \in ShardsOf(r) /\ RunShape(r)
  BY KernelConstants DEF ShardsOf, RunShapes
<1>2. Usable(s) /\ run[r].status # "pause_requested"
  BY DEF Defer, MayDispatch, MayRequest
<1>3. run[r].status = "running"
  <2>1. run[r].status \in Working /\ Held(s)
    BY <1>2, HeldAtWork DEF Usable
  <2>2. run[r].status # "cancel_requested"
    <3>1. run[r].epoch # run[r].epoch + 1
      BY <1>1 DEF TypeOK, RunRecord
    <3> QED
      BY <1>2, <2>1, <3>1, CaughtIffCancelled DEF CancelCaught, Usable
  <2> QED
    BY <1>2, <2>1, <2>2 DEF Working
<1>4. run' = run /\ shard' = [shard EXCEPT ![s] = "retry_scheduled"]
  BY DEF Defer
<1>5. BackTo(r, s, "retry_scheduled")
  BY <1>3, <1>4 DEF BackTo
<1>6. RunShape(r)'
  BY <1>1, <1>3, <1>5, BackFits
<1>7. ASSUME NEW q \in Runs, q # r PROVE RunShape(q)'
  <2>1. \A t \in ShardsOf(q) : shard'[t] = shard[t]
    BY <1>4, <1>7 DEF ShardsOf, TypeOK
  <2> QED
    BY <1>4, <2>1, ShapeUntouched DEF RunShapes
<1> QED
  BY <1>6, <1>7 DEF RunShapes

\* Every step leaves every run with a status that its shards allow.
LEMMA RunShapesStep ==
  ASSUME StoreInv, TypeOK', RunShapes, WorkRows, [Next]_vars
  PROVE  RunShapes'
<1> USE DEF StoreInv, KernelInv
<1>1. ASSUME UNCHANGED <<run, shard>> PROVE RunShapes'
  BY <1>1, ShapeUntouched DEF RunShapes
<1>2. ASSUME NEW r \in Runs, CreateRun(r) \/ RequestPause(r) \/ Resume(r) \/ RequestCancel(r)
      PROVE  RunShapes'
  BY <1>2, OperatorsKeepShapes
<1>3. ASSUME Start PROVE RunShapes'
  BY <1>3, RecoverKeepsShapes DEF Start
<1>4. ASSUME RecoverExpired PROVE RunShapes'
  <2>1. {s \in Shards : Held(s) /\ Current(s).lapsed} \in SUBSET {s \in Shards : Held(s)}
    OBVIOUS
  <2> QED
    BY <1>4, <2>1, RecoverKeepsShapes DEF RecoverExpired
<1>5. ASSUME ClaimNext PROVE RunShapes'
  BY <1>5, ClaimKeepsShapes
<1>6. ASSUME NEW p \in Providers, WindowOpens(p) PROVE RunShapes'
  BY <1>1, <1>6 DEF WindowOpens
<1>7. ASSUME NEW s \in Shards, Lapse(s) \/ RetryDue(s) \/ Prepare(s) \/ SendRequest(s)
      PROVE  RunShapes'
  BY <1>1, <1>7 DEF Lapse, RetryDue, Prepare, SendRequest
<1>8. ASSUME NEW s \in Shards, Defer(s) PROVE RunShapes'
  BY <1>8, DeferKeepsShapes
<1>9. ASSUME NEW s \in Shards, DispatchFails(s) PROVE RunShapes'
  BY <1>9, DispatchFailsShapes
<1>10. ASSUME NEW q \in calls, CallLost(q) PROVE RunShapes'
  BY <1>1, <1>10 DEF CallLost
<1>11. ASSUME NEW s \in Shards, NEW n \in CallNos, NEW resp, PersistResponse(s, n, resp)
       PROVE  RunShapes'
  BY <1>1, <1>11 DEF PersistResponse
<1>12. ASSUME NEW s \in Shards, NEW n \in CallNos,
              SettleLate(s, n) \/ SettleSuccess(s, n) \/ SettleFailure(s, n)
       PROVE  RunShapes'
  BY <1>12, SettleKeepsShapes
<1>13. CASE UNCHANGED vars
  BY <1>1, <1>13 DEF vars
<1> QED
  BY <1>2, <1>3, <1>4, <1>5, <1>6, <1>7, <1>8, <1>9, <1>10, <1>11, <1>12, <1>13 DEF Next

-----------------------------------------------------------------------------
(* The rows of shards, those a step does not touch first.                  *)

\* A stored answer that came in time.
InTime(s, n) == /\ ledger[s][n].status = "response_received"
                /\ AnswerLease(s, n).attempt = "request_started"

\* The leases of a shard are as they were, but for lapsing.
SameWork(t) ==
  /\ fence'[t] = fence[t]
  /\ \A f \in Fences :
       /\ lease'[t][f].status = "active" <=> lease[t][f].status = "active"
       /\ lease'[t][f].attempt = lease[t][f].attempt
       /\ lease'[t][f].started = lease[t][f].started
       /\ lease'[t][f].runEpoch = lease[t][f].runEpoch

\* And its checkpoint, but for retry times.
SameCounters(t) ==
  /\ ckpt'[t].exists = ckpt[t].exists /\ ckpt'[t].done = ckpt[t].done
  /\ ckpt'[t].pages = ckpt[t].pages /\ ckpt'[t].accepted = ckpt[t].accepted
  /\ ckpt'[t].calls = ckpt[t].calls /\ ckpt'[t].total = ckpt[t].total
  /\ ckpt'[t].sealed = ckpt[t].sealed

\* A shard that is not touched, or has ended, keeps its row.
LEMMA RowUntouched ==
  ASSUME StoreInv, NEW t \in Shards, WorkRow(t), SameWork(t), SameCounters(t),
         ledger'[t] = ledger[t],
         \/ shard'[t] = shard[t]
         \/ shard[t] \in Done /\ shard'[t] = "cancelled",
         \/ run'[RunOf[t]].epoch = run[RunOf[t]].epoch
         \/ shard[t] \in Done
  PROVE  WorkRow(t)'
<1> USE DEF StoreInv, KernelInv
<1>1. fence[t] # 0 => fence[t] \in Fences
  BY KernelConstants DEF TypeOK, Fences
<1>2. /\ Held(t)' <=> Held(t)
      /\ Held(t) => lease'[t][fence'[t]].started = Current(t).started
  BY <1>1 DEF SameWork, Held, Current
<1>3. "cancelled" \in Done /\ Done \cap Working = {}
      /\ Done \cap {"queued", "retry_scheduled", "paused", "cancel_requested"} = {}
  BY DEF Done, Working
<1>4. AtWork(t)'
  BY <1>2, <1>3 DEF WorkRow, AtWork, Current
<1>5. ResultRow(t)'
  BY <1>3 DEF WorkRow, ResultRow, SameCounters
<1>6. WaitRow(t)'
  BY <1>2, <1>3 DEF WorkRow, WaitRow, SameCounters, GoesOn, Unwritten, Current
<1>7. ASSUME NEW n \in CallNos PROVE AnswerRow(t, n)'
  <2>1. LedgerRow(t, n) /\ AnswerRow(t, n)
    BY DEF LedgerRows, WorkRow
  <2>2. ledger[t][n].by # 0 => ledger[t][n].by \in Fences
    BY <2>1, SenderIsLease DEF LedgerRow
  <2>3. ledger[t][n].status = "response_received" => ledger[t][n].by # 0
    BY <2>1 DEF LedgerRow, Open
  <2>4. ledger[t][n].by # 0 =>
          /\ lease'[t][ledger[t][n].by].attempt = AnswerLease(t, n).attempt
          /\ lease'[t][ledger[t][n].by].runEpoch = AnswerLease(t, n).runEpoch
    BY <2>2 DEF SameWork, AnswerLease
  <2> QED
    BY <1>2, <1>3, <2>1, <2>3, <2>4 DEF AnswerRow, AnswerLease, SameWork
<1> QED
  BY <1>4, <1>5, <1>6, <1>7 DEF WorkRow

\* The row of a shard that has ended.
LEMMA EndedRow ==
  ASSUME NEW t \in Shards, shard'[t] \in Done, ~Held(t)', ResultRow(t)',
         ~ckpt'[t].exists => Unwritten(ckpt'[t]),
         \A n \in CallNos : /\ ~InTime(t, n)'
                            /\ ledger'[t][n].status = "settled" /\ ledger'[t][n].by = 0
                                 => shard'[t] = "cancelled"
  PROVE  WorkRow(t)'
<1>1. Done \cap Working = {}
      /\ Done \cap {"queued", "retry_scheduled", "paused", "cancel_requested"} = {}
  BY DEF Done, Working
<1>2. AtWork(t)'
  BY <1>1 DEF AtWork
<1>3. WaitRow(t)'
  BY <1>1 DEF WaitRow, Unwritten
<1>4. \A n \in CallNos : AnswerRow(t, n)'
  BY DEF AnswerRow, InTime
<1> QED
  BY <1>2, <1>3, <1>4 DEF WorkRow

\* The row of a shard that waits.
LEMMA WaitingRow ==
  ASSUME NEW t \in Shards, shard'[t] \in {"queued", "retry_scheduled", "paused"}, ~Held(t)',
         ~ckpt'[t].exists => Unwritten(ckpt'[t]),
         GoesOn(ckpt'[t], run'[RunOf[t]].epoch), ckpt'[t].calls < CallLimit,
         \A n \in CallNos : /\ ~InTime(t, n)'
                            /\ ~(ledger'[t][n].status = "settled" /\ ledger'[t][n].by = 0)
  PROVE  WorkRow(t)'
<1>1. shard'[t] \notin Working /\ shard'[t] # "succeeded" /\ shard'[t] # "succeeded_empty"
      /\ shard'[t] # "cancel_requested"
  BY DEF Working
<1>2. AtWork(t)' /\ ResultRow(t)'
  BY <1>1 DEF AtWork, ResultRow
<1>3. WaitRow(t)'
  BY DEF WaitRow, Unwritten, GoesOn
<1>4. \A n \in CallNos : AnswerRow(t, n)'
  BY DEF AnswerRow, InTime
<1> QED
  BY <1>2, <1>3, <1>4 DEF WorkRow

\* Who holds a lease has no answer stored, and nothing withdrawn; who has not
\* ended neither has anything withdrawn; who does not work has no answer in time.
LEMMA NoAnswerYet ==
  ASSUME StoreInv, NEW t \in Shards, WorkRow(t), NEW n \in CallNos
  PROVE  /\ Held(t) => ledger[t][n].status # "response_received" /\ shard[t] \notin Done
         /\ shard[t] \notin Done => ~(ledger[t][n].status = "settled" /\ ledger[t][n].by = 0)
         /\ shard[t] \notin Working => ~InTime(t, n)
<1> USE DEF StoreInv, KernelInv
<1>1. LedgerRow(t, n) /\ AnswerRow(t, n)
  BY DEF LedgerRows, WorkRow
<1>2. Held(t) => ledger[t][n].status # "response_received"
  BY <1>1 DEF LedgerRow, Open
<1>3. Held(t) => shard[t] \notin Done
  BY HeldAtWork
<1>4. "cancelled" \in Done
  BY DEF Done
<1> QED
  BY <1>1, <1>2, <1>3, <1>4 DEF AnswerRow, InTime

-----------------------------------------------------------------------------
(* The rows of shards after the operations of users.                       *)

\* Who is busy: whose request is out, or whose answer is unsettled.
LEMMA BusyMeans ==
  ASSUME NEW r \in Runs, NEW t \in ShardsOf(r)
  PROVE  t \in Busy(r) <=> \/ Held(t) /\ Current(t).started
                           \/ \E n \in CallNos : ledger[t][n].status = "response_received"
<1>1. t \in {s \in HeldIn(r) : Current(s).started} <=> Held(t) /\ Current(t).started
  BY DEF HeldIn
<1>2. ASSUME NEW n \in CallNos, ledger[t][n].status = "response_received"
      PROVE  t \in {q[1] : q \in Pending(r)}
  <2>1. <<t, n>> \in Pending(r)
    BY <1>2 DEF Pending
  <2>2. <<t, n>>[1] = t
    OBVIOUS
  <2> QED
    BY <2>1, <2>2
<1>3. ASSUME t \in {q[1] : q \in Pending(r)}
      PROVE  \E n \in CallNos : ledger[t][n].status = "response_received"
  <2>1. PICK q \in Pending(r) : t = q[1]
    BY <1>3
  <2>2. q[2] \in CallNos /\ ledger[q[1]][q[2]].status = "response_received"
    BY DEF Pending
  <2> QED
    BY <2>1, <2>2
<1> QED
  BY <1>1, <1>2, <1>3 DEF Busy

\* What giving back leaves of the leases of a shard.
LEMMA GiveBackLeaves ==
  ASSUME TypeOK, NEW r \in Runs, NEW why, lease' = GiveBack(r, why), fence' = fence,
         NEW t \in Shards
  PROVE  /\ t \in HeldIn(r) \ Busy(r) => ~Held(t)'
         /\ t \notin HeldIn(r) \ Busy(r) => lease'[t] = lease[t] /\ (Held(t)' <=> Held(t))
<1>1. CASE t \in HeldIn(r) \ Busy(r)
  <2>1. fence[t] \in Fences /\ Current(t) \in Lease
    BY <1>1, CurrentType DEF HeldIn
  <2>2. lease'[t] = [lease[t] EXCEPT ![fence[t]] = [Current(t) EXCEPT !.status = "released",
                                     !.attempt = "failed", !.reason = why, !.lapsed = FALSE]]
    BY <1>1 DEF GiveBack, Current
  <2>3. lease'[t][fence[t]] = [Current(t) EXCEPT !.status = "released",
                                     !.attempt = "failed", !.reason = why, !.lapsed = FALSE]
    BY <2>1, <2>2 DEF TypeOK
  <2>4. lease'[t][fence[t]].status = "released"
    <3> HIDE DEF Current
    <3> QED
      BY <2>1, <2>3 DEF Lease
  <2> QED
    BY <1>1, <2>4 DEF Held, Current
<1>2. CASE t \notin HeldIn(r) \ Busy(r)
  <2>1. lease'[t] = lease[t]
    BY <1>2 DEF GiveBack
  <2> QED
    BY <1>2, <2>1 DEF Held, Current
<1> QED
  BY <1>1, <1>2

\* Leases that are not touched are as they were.
LEMMA SameLeases ==
  ASSUME NEW t \in Shards, lease'[t] = lease[t], fence'[t] = fence[t]
  PROVE  SameWork(t)
BY DEF SameWork

\* The rows after a run is created.
LEMMA CreateKeepsRows ==
  ASSUME StoreInv, RunShapes, WorkRows, NEW r \in Runs, CreateRun(r), NEW t \in Shards
  PROVE  WorkRow(t)'
<1> USE DEF StoreInv, KernelInv
<1>1. /\ UNCHANGED <<shard, ckpt, lease, fence, ledger>>
      /\ run' = [run EXCEPT ![r] = [status |-> "queued", epoch |-> 1, parent |-> "queued"]]
      /\ run[r].status = "none"
  BY DEF CreateRun
<1>2. WorkRow(t) /\ SameWork(t) /\ SameCounters(t)
  BY <1>1, SameLeases DEF WorkRows, SameCounters
<1>3. CASE RunOf[t] # r
  <2>1. run'[RunOf[t]] = run[RunOf[t]]
    BY <1>1, <1>3, KernelConstants DEF TypeOK
  <2> QED
    BY <1>1, <1>2, <2>1, RowUntouched
<1>4. CASE RunOf[t] = r
  <2>1. shard[t] = "queued" /\ run[r].epoch = 0
    BY <1>1, <1>4, WorkingShape DEF RunRows
  <2>2. ~Held(t)
    BY <1>1, <1>4, HeldAtWork DEF Working
  <2>3. ~Held(t)'
    BY <1>1, <2>2 DEF Held, Current
  <2>4. shard[t] \notin Done \cup Working \cup {"cancel_requested"}
    BY <2>1 DEF Done, Working
  <2>5. GoesOn(ckpt[t], 0) /\ ckpt[t].calls < CallLimit
        /\ (~ckpt[t].exists => Unwritten(ckpt[t]))
    BY <1>2, <1>4, <2>1, <2>4 DEF WorkRow, WaitRow
  <2>6. GoesOn(ckpt'[t], run'[RunOf[t]].epoch)
    BY <1>1, <2>5 DEF GoesOn
  <2>7. ASSUME NEW n \in CallNos
        PROVE  /\ ~InTime(t, n)'
               /\ ~(ledger'[t][n].status = "settled" /\ ledger'[t][n].by = 0)
    <3>1. ~InTime(t, n) /\ ~(ledger[t][n].status = "settled" /\ ledger[t][n].by = 0)
      BY <1>2, <2>4, NoAnswerYet
    <3> QED
      BY <1>1, <3>1 DEF InTime, AnswerLease
  <2> QED
    BY <1>1, <2>1, <2>3, <2>5, <2>6, <2>7, WaitingRow
<1> QED
  BY <1>3, <1>4

\* The rows after a pause is asked for.
LEMMA PauseKeepsRows ==
  ASSUME StoreInv, RunShapes, WorkRows, NEW r \in Runs, RequestPause(r), NEW t \in Shards
  PROVE  WorkRow(t)'
<1> USE DEF StoreInv, KernelInv
<1>1. /\ UNCHANGED <<ckpt, fence, ledger>>
      /\ run' = [run EXCEPT ![r].status = IF Busy(r) = {} THEN "paused" ELSE "pause_requested"]
      /\ run[r].status \in {"queued", "running"}
      /\ lease' = GiveBack(r, "PAUSED_BEFORE_REQUEST")
      /\ shard' = [s \in Shards |->
                 IF s \notin ShardsOf(r) \/ shard[s] \in Done THEN shard[s]
                 ELSE IF s \in Busy(r) THEN "pause_requested"
                 ELSE "paused"]
  BY DEF RequestPause
<1>2. WorkRow(t) /\ SameCounters(t)
  BY <1>1 DEF WorkRows, SameCounters
<1>3. run'[RunOf[t]].epoch = run[RunOf[t]].epoch /\ RunOf[t] \in Runs
  BY <1>1, KernelConstants DEF TypeOK, RunRecord
<1>4. /\ t \in HeldIn(r) \ Busy(r) => ~Held(t)'
      /\ t \notin HeldIn(r) \ Busy(r) => lease'[t] = lease[t] /\ (Held(t)' <=> Held(t))
  BY <1>1, GiveBackLeaves
<1>5. CASE t \notin ShardsOf(r) \/ shard[t] \in Done
  <2>1. shard'[t] = shard[t]
    BY <1>1, <1>5
  <2>2. t \notin HeldIn(r)
    BY <1>5, HeldAtWork DEF HeldIn, ShardsOf
  <2>3. SameWork(t)
    BY <1>1, <1>4, <2>2, SameLeases
  <2> QED
    BY <1>1, <1>2, <1>3, <2>1, <2>3, RowUntouched
<1>6. CASE t \in ShardsOf(r) /\ shard[t] \notin Done
  <2>0. RunOf[t] = r
    BY <1>6 DEF ShardsOf
  <2>1. shard[t] \in {"queued", "running", "retry_scheduled"}
    <3>1. shard[t] \in ShardStatus
      BY DEF TypeOK
    <3> QED
      BY <1>1, <1>6, <2>0, <3>1, WorkingShape DEF ShardStatus, Done
  <2>2. GoesOn(ckpt'[t], run'[RunOf[t]].epoch) /\ (~ckpt'[t].exists => Unwritten(ckpt'[t]))
    <3>1. GoesOn(ckpt[t], run[RunOf[t]].epoch) /\ (~ckpt[t].exists => Unwritten(ckpt[t]))
      BY <1>2, <2>1 DEF WorkRow, WaitRow, Done
    <3> QED
      BY <1>1, <1>3, <3>1 DEF GoesOn
  <2>3. CASE t \in Busy(r)
    <3>1. shard'[t] = "pause_requested"
      BY <1>1, <1>6, <2>3
    <3>2. lease'[t] = lease[t] /\ (Held(t)' <=> Held(t))
      BY <1>4, <2>3
    <3>3. AtWork(t)'
      <4>1. Held(t) \/ \E n \in CallNos : ledger[t][n].status = "response_received"
        BY <1>6, <2>3, BusyMeans
      <4> QED
        BY <1>1, <3>1, <3>2, <4>1 DEF AtWork
    <3>4. ResultRow(t)'
      BY <3>1 DEF ResultRow
    <3>5. WaitRow(t)'
      <4>1. (Held(t) /\ ~Current(t).started) => ckpt[t].calls < CallLimit
        BY <1>2 DEF WorkRow, WaitRow
      <4>2. (Held(t)' /\ ~Current(t)'.started) => ckpt'[t].calls < CallLimit
        BY <1>1, <3>2, <4>1 DEF Current
      <4> QED
        BY <2>2, <3>1, <4>2 DEF WaitRow, GoesOn, Unwritten, Done
    <3>6. ASSUME NEW n \in CallNos PROVE AnswerRow(t, n)'
      <4>1. AnswerRow(t, n) /\ shard[t] # "cancel_requested" /\ shard[t] # "cancelled"
        BY <1>2, <2>1 DEF WorkRow
      <4> QED
        BY <1>1, <1>3, <1>6, <3>1, <3>2, <4>1 DEF AnswerRow, AnswerLease, Working
    <3> QED
      BY <3>3, <3>4, <3>5, <3>6 DEF WorkRow
  <2>4. CASE t \notin Busy(r)
    <3>1. shard'[t] = "paused"
      BY <1>1, <1>6, <2>4
    <3>2. ~(Held(t) /\ Current(t).started)
          /\ \A n \in CallNos : ledger[t][n].status # "response_received"
      BY <1>6, <2>4, BusyMeans
    <3>3. ~Held(t)'
      BY <1>4, <1>6, <2>4 DEF HeldIn
    <3>4. ckpt'[t].calls < CallLimit
      <4>1. CASE shard[t] = "running"
        <5>1. Held(t)
          BY <1>2, <3>2, <4>1 DEF WorkRow, AtWork, Working
        <5> QED
          BY <1>1, <1>2, <3>2, <5>1 DEF WorkRow, WaitRow
      <4>2. CASE shard[t] # "running"
        BY <1>1, <1>2, <2>1, <4>2 DEF WorkRow, WaitRow
      <4> QED
        BY <4>1, <4>2
    <3>5. ASSUME NEW n \in CallNos
          PROVE  /\ ~InTime(t, n)'
                 /\ ~(ledger'[t][n].status = "settled" /\ ledger'[t][n].by = 0)
      <4>1. ~(ledger[t][n].status = "settled" /\ ledger[t][n].by = 0)
        BY <1>2, <1>6, NoAnswerYet
      <4> QED
        BY <1>1, <3>2, <4>1 DEF InTime
    <3> QED
      BY <2>2, <3>1, <3>3, <3>4, <3>5, WaitingRow
  <2> QED
    BY <2>3, <2>4
<1> QED
  BY <1>5, <1>6

\* The rows after a run is resumed.
LEMMA ResumeKeepsRows ==
  ASSUME StoreInv, RunShapes, WorkRows, NEW r \in Runs, Resume(r), NEW t \in Shards
  PROVE  WorkRow(t)'
<1> USE DEF StoreInv, KernelInv
<1>1. /\ UNCHANGED <<lease, fence, ledger>>
      /\ run' = [run EXCEPT ![r].status = "queued", ![r].epoch = @ + 1]
      /\ run[r].status = "paused" /\ HeldIn(r) = {}
      /\ ckpt'[t] = IF t \in ShardsOf(r) /\ shard[t] = "paused" /\ ckpt[t].exists
                    THEN [ckpt[t] EXCEPT
                            !.sealed = IF @ = 0 THEN 0 ELSE run[r].epoch + 1,
                            !.retry  = IF ckpt[t].retry = "later" THEN @ ELSE "none"]
                    ELSE ckpt[t]
      /\ shard'[t] = IF ~(t \in ShardsOf(r) /\ shard[t] = "paused") THEN shard[t]
                     ELSE IF ckpt[t].retry = "later" THEN "retry_scheduled" ELSE "queued"
  BY DEF Resume
<1>2. WorkRow(t) /\ SameWork(t)
  BY <1>1, SameLeases DEF WorkRows
<1>3. CASE t \in ShardsOf(r) /\ shard[t] = "paused"
  <2>1. RunOf[t] = r /\ ckpt[t] \in Checkpoint /\ run[r] \in RunRecord
    BY <1>3 DEF ShardsOf, TypeOK
  <2>2. run'[r].epoch = run[r].epoch + 1
    BY <1>1, <2>1 DEF TypeOK, RunRecord
  <2>3. ~Held(t)
    BY <1>1, <1>3 DEF HeldIn
  <2>4. ~Held(t)'
    BY <1>1, <2>3 DEF Held, Current
  <2>5. shard'[t] \in {"queued", "retry_scheduled", "paused"}
    BY <1>1, <1>3
  <2>6. shard[t] \notin Done \cup Working \cup {"cancel_requested"}
    BY <1>3 DEF Done, Working
  <2>7. GoesOn(ckpt[t], run[r].epoch) /\ ckpt[t].calls < CallLimit
        /\ (~ckpt[t].exists => Unwritten(ckpt[t]))
    BY <1>2, <1>3, <2>1, <2>6 DEF WorkRow, WaitRow
  <2>8. /\ ckpt'[t].exists = ckpt[t].exists /\ ckpt'[t].done = ckpt[t].done
        /\ ckpt'[t].pages = ckpt[t].pages /\ ckpt'[t].accepted = ckpt[t].accepted
        /\ ckpt'[t].calls = ckpt[t].calls /\ ckpt'[t].total = ckpt[t].total
        /\ ckpt'[t].sealed \in {0, run[r].epoch + 1}
        /\ ~ckpt[t].exists => ckpt'[t] = ckpt[t]
    <3>1. CASE ~ckpt[t].exists
      BY <1>1, <2>7, <3>1 DEF Unwritten
    <3>2. CASE ckpt[t].exists
      BY <1>1, <1>3, <2>1, <3>2 DEF Checkpoint
    <3> QED
      BY <3>1, <3>2
  <2>9. GoesOn(ckpt'[t], run'[RunOf[t]].epoch)
    BY <2>1, <2>2, <2>7, <2>8 DEF GoesOn
  <2>10. ASSUME NEW n \in CallNos
         PROVE  /\ ~InTime(t, n)'
                /\ ~(ledger'[t][n].status = "settled" /\ ledger'[t][n].by = 0)
    <3>1. ~InTime(t, n) /\ ~(ledger[t][n].status = "settled" /\ ledger[t][n].by = 0)
      BY <1>2, <2>6, NoAnswerYet
    <3> QED
      BY <1>1, <3>1 DEF InTime, AnswerLease
  <2> QED
    BY <2>4, <2>5, <2>7, <2>8, <2>9, <2>10, WaitingRow
<1>4. CASE ~(t \in ShardsOf(r) /\ shard[t] = "paused")
  <2>1. shard'[t] = shard[t] /\ SameCounters(t)
    BY <1>1, <1>4 DEF SameCounters
  <2>2. run'[RunOf[t]].epoch = run[RunOf[t]].epoch \/ shard[t] \in Done
    <3>1. CASE RunOf[t] # r
      <4>1. run'[RunOf[t]] = run[RunOf[t]]
        BY <1>1, <3>1, KernelConstants DEF TypeOK
      <4> QED
        BY <4>1
    <3>2. CASE RunOf[t] = r
      <4>1. t \in ShardsOf(r) /\ RunShape(r)
        BY <3>2 DEF ShardsOf, RunShapes
      <4>2. shard[t] \in Allowed("paused")
        BY <1>1, <4>1 DEF RunShape, Fits
      <4> QED
        BY <1>4, <4>1, <4>2 DEF Allowed, Settled
    <3> QED
      BY <3>1, <3>2
  <2> QED
    BY <1>1, <1>2, <2>1, <2>2, RowUntouched
<1> QED
  BY <1>3, <1>4

\* The rows after a run is cancelled.
LEMMA CancelKeepsRows ==
  ASSUME StoreInv, RunShapes, WorkRows, NEW r \in Runs, RequestCancel(r), NEW t \in Shards
  PROVE  WorkRow(t)'
<1> USE DEF StoreInv, KernelInv
<1>1. /\ UNCHANGED fence
      /\ ledger'[t] = IF t \in ShardsOf(r) /\ Busy(r) = {} THEN Withdrawn(t) ELSE ledger[t]
      /\ lease' = GiveBack(r, "CANCELLED_BEFORE_REQUEST")
      /\ ckpt'[t] = IF t \in ShardsOf(r) /\ ckpt[t].exists /\ ~ckpt[t].done
                    THEN [ckpt[t] EXCEPT !.sealed = 0, !.retry = "none", !.done = TRUE]
                    ELSE ckpt[t]
      /\ shard'[t] = IF t \notin ShardsOf(r) THEN shard[t]
                     ELSE IF t \in Busy(r) THEN "cancel_requested" ELSE "cancelled"
      /\ \A q \in Runs \ {r} : run'[q] = run[q]
      /\ run[r].status \in {"queued", "running", "pause_requested", "paused"}
  BY DEF RequestCancel, TypeOK
<1>2. WorkRow(t) /\ ckpt[t] \in Checkpoint
  BY DEF WorkRows, TypeOK
<1>3. /\ t \in HeldIn(r) \ Busy(r) => ~Held(t)'
      /\ t \notin HeldIn(r) \ Busy(r) => lease'[t] = lease[t] /\ (Held(t)' <=> Held(t))
  BY <1>1, GiveBackLeaves
<1>4. CASE t \notin ShardsOf(r)
  <2>1. lease'[t] = lease[t]
    BY <1>3, <1>4 DEF HeldIn
  <2>2. SameWork(t) /\ SameCounters(t)
    BY <1>1, <1>4, <2>1, SameLeases DEF SameCounters
  <2>3. run'[RunOf[t]] = run[RunOf[t]]
    BY <1>1, <1>4, KernelConstants DEF ShardsOf
  <2> QED
    BY <1>1, <1>2, <1>4, <2>2, <2>3, RowUntouched
<1>5. CASE t \in ShardsOf(r) /\ t \in Busy(r)
  <2>1. /\ shard'[t] = "cancel_requested" /\ lease'[t] = lease[t]
        /\ ledger'[t] = ledger[t] /\ (Held(t)' <=> Held(t))
    BY <1>1, <1>3, <1>5
  <2>2. \/ Held(t) /\ Current(t).started
        \/ \E n \in CallNos : ledger[t][n].status = "response_received"
    BY <1>5, BusyMeans
  <2>3. Held(t) => Current(t).started
    BY <1>2, <2>2, NoAnswerYet
  <2>4. Held(t)' => Current(t)'.started
    BY <1>1, <2>1, <2>3 DEF Current
  <2>5. AtWork(t)'
    BY <2>1, <2>2, <2>4 DEF AtWork
  <2>6. ResultRow(t)'
    BY <2>1 DEF ResultRow
  <2>7. ~ckpt'[t].exists => Unwritten(ckpt'[t])
    BY <1>1, <1>2 DEF WorkRow, WaitRow, Checkpoint
  <2>8. WaitRow(t)'
    BY <2>1, <2>4, <2>7 DEF WaitRow, Unwritten
  <2>9. ASSUME NEW n \in CallNos PROVE AnswerRow(t, n)'
    <3>1. AnswerRow(t, n)
      BY <1>2 DEF WorkRow
    <3>2. shard[t] # "cancelled"
      BY <1>1, <1>5, WorkingShape DEF ShardsOf
    <3> QED
      BY <1>1, <2>1, <3>1, <3>2 DEF AnswerRow, AnswerLease, Working
  <2> QED
    BY <2>5, <2>6, <2>8, <2>9 DEF WorkRow
<1>6. CASE t \in ShardsOf(r) /\ t \notin Busy(r)
  <2>1. shard'[t] = "cancelled"
    BY <1>1, <1>6
  <2>2. shard'[t] \in Done /\ ResultRow(t)'
    BY <2>1 DEF Done, ResultRow
  <2>3. \A n \in CallNos : ledger[t][n].status # "response_received"
    BY <1>6, BusyMeans
  <2>4. ~Held(t)'
    BY <1>3, <1>6 DEF HeldIn
  <2>5. ~ckpt'[t].exists => Unwritten(ckpt'[t])
    BY <1>1, <1>2 DEF WorkRow, WaitRow, Checkpoint
  <2>6. ASSUME NEW n \in CallNos PROVE ~InTime(t, n)'
    <3>1. ledger[t][n] \in LedgerEntry
      BY DEF TypeOK
    <3>2. \/ ledger'[t][n] = ledger[t][n]
          \/ ledger'[t][n] = [ledger[t][n] EXCEPT !.status = "settled",
                                               !.kind = "cancelled_before_dispatch"]
      BY <1>1 DEF Withdrawn
    <3>3. ledger'[t][n].status # "response_received"
      BY <2>3, <3>1, <3>2 DEF LedgerEntry
    <3> QED
      BY <3>3 DEF InTime
  <2> QED
    BY <2>1, <2>2, <2>4, <2>5, <2>6, EndedRow
<1> QED
  BY <1>4, <1>5, <1>6

-----------------------------------------------------------------------------
(* The rows of shards after a recovery, and after a claim.                 *)

\* Where a recovery puts the shards.
LEMMA RecoverPlaces ==
  ASSUME StoreInv, RunShapes, WorkRows, NEW Gone \in SUBSET {s \in Shards : Held(s)},
         RecoverLeases(Gone)
  PROVE  /\ \A q \in Runs : run'[q].epoch = run[q].epoch
         /\ \A t \in Shards \ Gone : \/ shard'[t] = shard[t]
                                     \/ shard[t] \in Done /\ shard'[t] = "cancelled"
         /\ \A t \in Gone :
              /\ Current(t).started => shard'[t] \in Done \ {"succeeded", "succeeded_empty"}
              /\ ~Current(t).started => shard'[t] \in {"queued", "paused"}
              /\ CancelCaught(t) => shard'[t] = "cancelled"
              /\ run[RunOf[t]].status = "pause_requested" => shard'[t] # "queued"
<1> USE DEF StoreInv, KernelInv
<1> DEFINE lost     == {s \in Gone : Current(s).started /\ ~Answered(s)}
           unused   == {s \in Gone : ~Current(s).started}
           caught   == {s \in unused : CancelCaught(s)}
           finished == {RunOf[s] : s \in lost \cup caught}
           resting  == {RunOf[s] : s \in {t \in lost \cup unused : ~CancelCaught(t)}}
           sh == [s \in Shards |->
                    IF s \in lost THEN UnknownShard(s)
                    ELSE IF s \in caught THEN "cancelled"
                    ELSE IF s \notin unused THEN shard[s]
                    ELSE IF run[RunOf[s]].status = "pause_requested" THEN "paused"
                    ELSE "queued"]
<1>1. /\ run' = [r \in Runs |->
           LET rec == IF r \in finished THEN FinishRun(r, sh, ckpt) ELSE run[r]
           IN  IF r \in resting THEN Rest(rec, r, sh, lease') ELSE rec]
      /\ shard' = FinishShards(finished, sh)
  BY DEF RecoverLeases
<1>2. \A s \in Gone : s \in Shards /\ Held(s) /\ WorkRow(s)
  BY DEF WorkRows
<1>3. ASSUME NEW s \in Gone, ~Current(s).started PROVE ~CancelCaught(s)
  BY <1>2, <1>3, UnusedGoesOn DEF WorkRow
<1>4. caught = {}
  BY <1>3
<1>5. \A s \in lost \cup unused : s \in Gone
  OBVIOUS
<1>6. \A s \in Gone : /\ s \in lost <=> Current(s).started
                      /\ s \in unused <=> ~Current(s).started
  BY <1>2, HeldUnanswered DEF WorkRow
<1>7. \A s \in Shards : sh[s] = IF s \in lost THEN UnknownShard(s)
                                ELSE IF s \notin unused THEN shard[s]
                                ELSE IF run[RunOf[s]].status = "pause_requested"
                                THEN "paused" ELSE "queued"
  BY <1>4
<1> HIDE DEF sh, lost, unused, caught, finished, resting
<1>8. \A t \in Shards : \/ shard'[t] = sh[t]
                        \/ sh[t] \in Done /\ shard'[t] = "cancelled"
  BY <1>1, FinishShardsEffect
<1>9. ASSUME NEW q \in Runs PROVE run'[q].epoch = run[q].epoch
  <2>1. run'[q] = LET rec == IF q \in finished THEN FinishRun(q, sh, ckpt) ELSE run[q]
                  IN  IF q \in resting THEN Rest(rec, q, sh, lease') ELSE rec
    BY <1>1
  <2> QED
    BY <2>1, RunAfter
<1>10. ASSUME NEW t \in Shards \ Gone
       PROVE  shard'[t] = shard[t] \/ (shard[t] \in Done /\ shard'[t] = "cancelled")
  BY <1>5, <1>7, <1>8
<1>11. ASSUME NEW t \in Gone, Current(t).started
       PROVE  shard'[t] \in Done \ {"succeeded", "succeeded_empty"}
  <2>1. sh[t] = UnknownShard(t) /\ t \in Shards
    BY <1>2, <1>6, <1>7, <1>11
  <2>2. sh[t] \in Done \ {"succeeded", "succeeded_empty"}
    BY <1>2, <2>1, UnknownEnd
  <2> QED
    BY <1>8, <2>1, <2>2 DEF Done
<1>12. ASSUME NEW t \in Gone, ~Current(t).started PROVE shard'[t] \in {"queued", "paused"}
  <2>1. sh[t] \in {"queued", "paused"} /\ t \in Shards
    BY <1>2, <1>6, <1>7, <1>12
  <2> QED
    BY <1>8, <2>1 DEF Done
<1>13. ASSUME NEW t \in Gone, CancelCaught(t) PROVE shard'[t] = "cancelled"
  <2>1. sh[t] = "cancelled" /\ t \in Shards
    BY <1>2, <1>3, <1>6, <1>7, <1>13 DEF UnknownShard
  <2> QED
    BY <1>8, <2>1
<1>14. ASSUME NEW t \in Gone, run[RunOf[t]].status = "pause_requested" PROVE shard'[t] # "queued"
  <2>1. sh[t] # "queued" /\ t \in Shards
    BY <1>2, <1>6, <1>7, <1>14 DEF UnknownShard
  <2> QED
    BY <1>8, <2>1
<1> QED
  BY <1>9, <1>10, <1>11, <1>12, <1>13, <1>14

\* The rows after a recovery.
LEMMA RecoverKeepsRows ==
  ASSUME StoreInv, RunShapes, WorkRows, NEW Gone \in SUBSET {s \in Shards : Held(s)},
         RecoverLeases(Gone), UNCHANGED <<ckpt, fence>>, NEW t \in Shards
  PROVE  WorkRow(t)'
<1> USE DEF StoreInv, KernelInv
<1>1. WorkRow(t) /\ SameCounters(t) /\ RunOf[t] \in Runs
  BY KernelConstants DEF WorkRows, SameCounters
<1>2. run'[RunOf[t]].epoch = run[RunOf[t]].epoch
  BY <1>1, RecoverPlaces
<1>3. CASE t \notin Gone
  <2>1. lease'[t] = lease[t] /\ ledger'[t] = ledger[t]
    BY <1>3, RecoverFalls, RecoverEffect
  <2>2. shard'[t] = shard[t] \/ (shard[t] \in Done /\ shard'[t] = "cancelled")
    BY <1>3, RecoverPlaces
  <2> QED
    BY <1>1, <1>2, <2>1, <2>2, SameLeases, RowUntouched
<1>4. CASE t \in Gone
  <2>1. Held(t) /\ shard[t] \notin Done
    BY <1>4, HeldAtWork
  <2>2. ~Held(t)'
    BY <1>4, RecoverFalls DEF Held, Current
  <2>3. \A n \in CallNos : /\ ledger[t][n].status # "response_received"
                           /\ ~(ledger[t][n].status = "settled" /\ ledger[t][n].by = 0)
    BY <1>1, <2>1, NoAnswerYet
  <2>4. ~ckpt'[t].exists => Unwritten(ckpt'[t])
    BY <1>1 DEF WorkRow, WaitRow
  <2>5. CASE Current(t).started
    <3>1. shard'[t] \in Done /\ ResultRow(t)'
      BY <1>4, <2>5, RecoverPlaces DEF ResultRow
    <3>2. ledger'[t] = GivenUp(t)
      BY <1>1, <1>4, <2>1, <2>5, HeldUnanswered, RecoverEffect DEF WorkRow
    <3>3. ASSUME NEW n \in CallNos
          PROVE  /\ ledger'[t][n].status # "response_received"
                 /\ ledger'[t][n].status = "settled" => ledger'[t][n] = ledger[t][n]
      <4>1. ledger[t][n] \in LedgerEntry
        BY DEF TypeOK
      <4>2. \/ ledger'[t][n] = ledger[t][n]
            \/ ledger'[t][n] = [ledger[t][n] EXCEPT !.status = "outcome_unknown",
                                                    !.dispatch = "outcome_unknown"]
        BY <3>2 DEF GivenUp
      <4> QED
        BY <2>3, <4>1, <4>2 DEF LedgerEntry
    <3> QED
      BY <2>2, <2>3, <2>4, <3>1, <3>3, EndedRow DEF InTime
  <2>6. CASE ~Current(t).started
    <3>1. shard'[t] \in {"queued", "retry_scheduled", "paused"}
      BY <1>4, <2>6, RecoverPlaces
    <3>2. ledger'[t] = ledger[t]
      BY <1>4, <2>6, RecoverEffect
    <3>3. shard[t] \in {"running", "pause_requested"}
      BY <1>1, <2>1, <2>6, UnusedGoesOn DEF WorkRow
    <3>4. GoesOn(ckpt[t], run[RunOf[t]].epoch) /\ ckpt[t].calls < CallLimit
      BY <1>1, <2>1, <2>6, <3>3 DEF WorkRow, WaitRow, Done
    <3>5. GoesOn(ckpt'[t], run'[RunOf[t]].epoch) /\ ckpt'[t].calls < CallLimit
      BY <1>2, <3>4 DEF GoesOn
    <3>6. \A n \in CallNos : /\ ~InTime(t, n)'
                             /\ ~(ledger'[t][n].status = "settled" /\ ledger'[t][n].by = 0)
      BY <2>3, <3>2 DEF InTime
    <3> QED
      BY <2>2, <2>4, <3>1, <3>5, <3>6, WaitingRow
  <2> QED
    BY <2>5, <2>6
<1> QED
  BY <1>3, <1>4

\* The rows after a claim.
LEMMA ClaimKeepsRows ==
  ASSUME StoreInv, TypeOK', RunShapes, WorkRows, ClaimNext, NEW t \in Shards
  PROVE  WorkRow(t)'
<1> USE DEF StoreInv, KernelInv
<1> DEFINE touched == {RunOf[s] : s \in Skipped \cup Chosen}
           sh == [s \in Shards |-> IF s \in Skipped THEN "succeeded_empty"
                                   ELSE IF s \in Chosen THEN "running" ELSE shard[s]]
<1>1. /\ ckpt'[t] = IF t \in Skipped \cup Chosen /\ ~ckpt[t].exists THEN NewCheckpoint(t)
                    ELSE ckpt[t]
      /\ shard'[t] = IF t \in Skipped THEN "succeeded_empty"
                     ELSE IF t \in Chosen THEN "running" ELSE shard[t]
      /\ fence'[t] = IF t \in Chosen THEN fence[t] + 1 ELSE fence[t]
      /\ lease'[t] = IF t \in Chosen THEN [lease[t] EXCEPT ![fence[t] + 1] = NewLease(t)]
                     ELSE lease[t]
      /\ UNCHANGED ledger
  BY DEF ClaimNext
<1>2. WorkRow(t) /\ RunOf[t] \in Runs
  BY KernelConstants DEF WorkRows
<1>3. \A q \in Runs : run'[q].epoch = run[q].epoch
  <2> SUFFICES ASSUME NEW q \in Runs PROVE run'[q].epoch = run[q].epoch
    OBVIOUS
  <2>1. run'[q] = IF \E s \in Chosen : RunOf[s] = q THEN [run[q] EXCEPT !.status = "running"]
                  ELSE IF q \in touched THEN FinishRun(q, sh, ckpt')
                  ELSE run[q]
    BY DEF ClaimNext
  <2>2. run[q] \in RunRecord
    BY DEF TypeOK
  <2>3. [run[q] EXCEPT !.status = "running"].epoch = run[q].epoch
    BY <2>2 DEF RunRecord
  <2> HIDE DEF sh, touched
  <2> QED
    BY <2>1, <2>3, RunAfter
<1>4. ASSUME t \in Skipped \cup Chosen
      PROVE  /\ shard[t] \in {"queued", "retry_scheduled"} /\ ~Held(t)
             /\ shard[t] \notin Done \cup Working
             /\ GoesOn(ckpt[t], run[RunOf[t]].epoch) /\ ckpt[t].calls < CallLimit
  <2>1. shard[t] \in {"queued", "retry_scheduled"} /\ ~Held(t)
    BY <1>4 DEF Skipped, Chosen, Claimable, HeldIn, ShardsOf
  <2>2. shard[t] \notin Done \cup Working \cup {"cancel_requested"}
    BY <2>1 DEF Done, Working
  <2> QED
    BY <1>2, <2>1, <2>2 DEF WorkRow, WaitRow
<1>5. ASSUME t \in Skipped \cup Chosen
      PROVE  \A n \in CallNos : ~InTime(t, n)
                                /\ ~(ledger[t][n].status = "settled" /\ ledger[t][n].by = 0)
  BY <1>2, <1>4, <1>5, NoAnswerYet
<1>6. /\ NewCheckpoint(t).exists /\ NewCheckpoint(t).accepted = 0
      /\ NewCheckpoint(t).pages = 0 /\ NewCheckpoint(t).calls = 0
      /\ NewCheckpoint(t).total = 0
      /\ NewCheckpoint(t).sealed \in {0, run[RunOf[t]].epoch}
      /\ NewCheckpoint(t).done = (position[ScopeOf[t]] = "exhausted")
  BY DEF NewCheckpoint, NoCheckpoint
<1>7. CASE t \in Skipped
  <2>1. shard'[t] = "succeeded_empty" /\ t \notin Chosen
    BY <1>1, <1>7 DEF Skipped, Chosen
  <2>2. lease'[t] = lease[t] /\ fence'[t] = fence[t]
    BY <1>1, <2>1
  <2>3. ~Held(t)' /\ \A n \in CallNos : ~InTime(t, n)'
    BY <1>1, <1>4, <1>5, <1>7, <2>2 DEF Held, Current, InTime, AnswerLease
  <2>4. ckpt'[t] = NewCheckpoint(t)
    BY <1>1, <1>7 DEF Skipped, Exhausted
  <2>5. ResultRow(t)' /\ shard'[t] \in Done
    BY <1>6, <2>1, <2>4 DEF ResultRow, Done
  <2>6. ckpt'[t].exists
    BY <1>6, <2>4
  <2> QED
    BY <1>1, <1>5, <1>7, <2>3, <2>5, <2>6, EndedRow
<1>8. CASE t \in Chosen
  <2>1. t \notin Skipped /\ ~Exhausted(t) /\ shard'[t] = "running"
    BY <1>1, <1>8 DEF Skipped, Chosen
  <2>2. fence'[t] = fence[t] + 1 /\ fence[t] + 1 \in Fences /\ fence[t] \in Nat
    BY <1>1, <1>8, KernelConstants DEF ClaimNext, TypeOK, Fences
  <2>3. lease'[t] = [lease[t] EXCEPT ![fence[t] + 1] = NewLease(t)]
    BY <1>1, <1>8
  <2>4. lease'[t][fence[t] + 1] = NewLease(t)
    BY <2>2, <2>3 DEF TypeOK
  <2>5. NewLease(t).status = "active" /\ NewLease(t).started = FALSE
    BY DEF NewLease, NoLease
  <2>6. Held(t)' /\ ~Current(t)'.started
    BY <2>2, <2>4, <2>5 DEF Held, Current, Fences
  <2>7. AtWork(t)' /\ ResultRow(t)'
    BY <2>1, <2>6 DEF AtWork, ResultRow
  <2>8. GoesOn(ckpt'[t], run'[RunOf[t]].epoch) /\ ckpt'[t].calls < CallLimit
        /\ ckpt'[t].exists
    <3>1. CASE ckpt[t].exists
      BY <1>1, <1>2, <1>3, <1>4, <1>8, <3>1 DEF GoesOn
    <3>2. CASE ~ckpt[t].exists
      <4>1. ckpt'[t] = NewCheckpoint(t)
        BY <1>1, <1>8, <3>2
      <4>2. ~NewCheckpoint(t).done
        BY <1>6, <2>1, <3>2 DEF Exhausted
      <4>3. 0 < PageLimit /\ 0 < ResultLimit /\ 0 < CallLimit /\ CallLimit * 0 + 0 = 0
        BY KernelConstants
      <4> QED
        BY <1>2, <1>3, <1>6, <4>1, <4>2, <4>3 DEF GoesOn
    <3> QED
      BY <3>1, <3>2
  <2>9. WaitRow(t)'
    BY <2>8 DEF WaitRow, GoesOn
  <2>10. ASSUME NEW n \in CallNos PROVE AnswerRow(t, n)'
    <3>1. LedgerRow(t, n) /\ ledger[t][n].by \in Nat
      BY EntryType DEF LedgerRows
    <3>2. ledger[t][n].by <= fence[t]
      BY <3>1 DEF LedgerRow, SentBy
    <3>3. lease'[t][ledger[t][n].by] = lease[t][ledger[t][n].by]
      <4>1. ledger[t][n].by # fence[t] + 1
        BY <2>2, <3>1, <3>2
      <4> QED
        BY <2>3, <4>1
    <3>4. ~InTime(t, n)'
      BY <1>1, <1>5, <1>8, <3>3 DEF InTime, AnswerLease
    <3>5. ledger'[t][n].by # fence'[t]
      BY <1>1, <2>2, <3>1, <3>2
    <3> QED
      BY <1>1, <1>5, <1>8, <3>4, <3>5 DEF AnswerRow, InTime
  <2> QED
    BY <2>7, <2>9, <2>10 DEF WorkRow
<1>9. CASE t \notin Skipped \cup Chosen
  <2>1. SameWork(t) /\ SameCounters(t) /\ shard'[t] = shard[t]
    BY <1>1, <1>9, SameLeases DEF SameCounters
  <2> QED
    BY <1>1, <1>2, <1>3, <2>1, RowUntouched
<1> QED
  BY <1>7, <1>8, <1>9

-----------------------------------------------------------------------------
(* The rows of shards after the steps of a request.                        *)

\* The rows after a lease runs out, a retry time comes or a call is lost.
LEMMA TimeKeepsRows ==
  ASSUME StoreInv, TypeOK', WorkRows, NEW t \in Shards,
         \/ \E s \in Shards : Lapse(s) \/ RetryDue(s)
         \/ \E p \in Providers : WindowOpens(p)
         \/ \E q \in calls : CallLost(q)
         \/ UNCHANGED vars
  PROVE  WorkRow(t)'
<1> USE DEF StoreInv, KernelInv
<1>1. WorkRow(t) /\ RunOf[t] \in Runs /\ ckpt[t] \in Checkpoint
  BY KernelConstants DEF WorkRows, TypeOK
<1>2. UNCHANGED <<run, shard, fence, ledger>>
  BY DEF Lapse, RetryDue, WindowOpens, CallLost, vars
<1>3. SameCounters(t)
  <2>1. ckpt'[t] = ckpt[t] \/ ckpt'[t] = [ckpt[t] EXCEPT !.retry = "due"]
    BY DEF Lapse, RetryDue, WindowOpens, CallLost, vars, RetryFalls
  <2> QED
    BY <1>1, <2>1 DEF SameCounters, Checkpoint
<1>4. SameWork(t)
  <2>1. CASE lease'[t] = lease[t]
    BY <1>2, <2>1, SameLeases
  <2>2. CASE lease'[t] # lease[t]
    <3>1. /\ Held(t)
          /\ lease' = [lease EXCEPT ![t][fence[t]].lapsed = TRUE]
      <4>1. PICK s \in Shards : Lapse(s)
        BY <2>2 DEF RetryDue, WindowOpens, CallLost, vars
      <4>2. lease' = [lease EXCEPT ![s][fence[s]].lapsed = TRUE] /\ Held(s)
        BY <4>1 DEF Lapse
      <4>3. s = t
        BY <2>2, <4>2 DEF TypeOK
      <4> QED
        BY <4>2, <4>3
    <3>2. fence[t] \in Fences /\ lease[t][fence[t]] \in Lease
      BY <3>1, CurrentType DEF Current
    <3>3. lease'[t] = [lease[t] EXCEPT ![fence[t]] = [lease[t][fence[t]] EXCEPT !.lapsed = TRUE]]
      BY <3>1 DEF TypeOK
    <3>4. \A f \in Fences : \/ lease'[t][f] = lease[t][f]
                            \/ f = fence[t] /\ lease'[t][f] = [lease[t][f] EXCEPT !.lapsed = TRUE]
      BY <3>2, <3>3 DEF TypeOK
    <3>5. /\ [lease[t][fence[t]] EXCEPT !.lapsed = TRUE].status = lease[t][fence[t]].status
          /\ [lease[t][fence[t]] EXCEPT !.lapsed = TRUE].attempt = lease[t][fence[t]].attempt
          /\ [lease[t][fence[t]] EXCEPT !.lapsed = TRUE].started = lease[t][fence[t]].started
          /\ [lease[t][fence[t]] EXCEPT !.lapsed = TRUE].runEpoch = lease[t][fence[t]].runEpoch
      BY <3>2 DEF Lease
    <3> QED
      BY <1>2, <3>4, <3>5 DEF SameWork
  <2> QED
    BY <2>1, <2>2
<1> QED
  BY <1>1, <1>2, <1>3, <1>4, RowUntouched

\* Who may ask for a call is at work, in a run that is running.
LEMMA RequesterWorks ==
  ASSUME StoreInv, RunShapes, WorkRows, NEW s \in Shards, MayRequest(s)
  PROVE  /\ Held(s) /\ ~Current(s).started
         /\ shard[s] = "running" /\ run[RunOf[s]].status = "running"
         /\ GoesOn(ckpt[s], run[RunOf[s]].epoch) /\ ckpt[s].calls < CallLimit
         /\ ckpt[s].exists
<1> USE DEF StoreInv, KernelInv
<1>1. Held(s) /\ ~Current(s).started /\ WorkRow(s)
  BY DEF MayRequest, Usable, WorkRows
<1>2. shard[s] = "running" /\ run[RunOf[s]].status = "running"
  BY <1>1, UnusedGoesOn DEF WorkRow, MayRequest
<1>3. GoesOn(ckpt[s], run[RunOf[s]].epoch)
  BY <1>1, <1>2 DEF WorkRow, WaitRow, Done
<1> QED
  BY <1>1, <1>2, <1>3 DEF MayRequest, CheckpointRows

\* The rows after a request is prepared.
LEMMA PrepareKeepsRows ==
  ASSUME StoreInv, RunShapes, WorkRows, NEW s \in Shards, Prepare(s), NEW t \in Shards
  PROVE  WorkRow(t)'
<1> USE DEF StoreInv, KernelInv
<1> DEFINE k == NextCall(s)
<1>1. UNCHANGED <<run, shard, ckpt, lease, fence>> /\ WorkRow(t)
  BY DEF Prepare, WorkRows
<1>2. MayRequest(s) /\ ledger[s][k].status \in {"none", "prepared"}
      /\ \E e : ledger' = [ledger EXCEPT ![s][k] = e]
                /\ (ledger[s][k] \in LedgerEntry => e.status = "prepared")
  <2>1. NewEntry(s).status = "prepared"
    BY DEF NewEntry, NoEntry
  <2>2. CASE ledger[s][k].status = "none"
    BY <2>1, <2>2 DEF Prepare
  <2>3. CASE ledger[s][k].status = "prepared"
    <3> DEFINE e == [ledger[s][k] EXCEPT !.bound = fence[s]]
    <3>1. ledger' = [ledger EXCEPT ![s][k] = e]
      BY <2>3 DEF Prepare
    <3>2. ledger[s][k] \in LedgerEntry => e.status = "prepared"
      BY <2>3 DEF LedgerEntry
    <3> QED
      BY <2>3, <3>1, <3>2 DEF Prepare
  <2> QED
    BY <2>2, <2>3 DEF Prepare
<1>3. PICK e : ledger' = [ledger EXCEPT ![s][k] = e]
               /\ (ledger[s][k] \in LedgerEntry => e.status = "prepared")
  BY <1>2
<1>4. CASE t # s
  <2>1. ledger'[t] = ledger[t]
    BY <1>3, <1>4
  <2> QED
    BY <1>1, <2>1, SameLeases, RowUntouched DEF SameCounters
<1>5. CASE t = s
  <2>1. Held(s)
    BY <1>2, RequesterWorks
  <2>2. Held(s)'
    BY <1>1, <2>1 DEF Held, Current
  <2>3. shard[s] = "running"
    BY <1>2, RequesterWorks
  <2>4. AtWork(t)' /\ ResultRow(t)'
    BY <1>1, <1>5, <2>2, <2>3 DEF AtWork, ResultRow
  <2>5. WaitRow(t)'
    <3>1. Held(t)' <=> Held(t)
      BY <1>1 DEF Held, Current
    <3> QED
      BY <1>1, <3>1 DEF WorkRow, WaitRow, GoesOn, Unwritten, Current
  <2>6. ASSUME NEW n \in CallNos PROVE AnswerRow(t, n)'
    <3>1. AnswerRow(t, n) /\ ledger[s][n] \in LedgerEntry
      BY <1>1 DEF WorkRow, TypeOK
    <3>2. CASE n = k
      <4>1. ledger'[t][n] = e
        BY <1>3, <1>5, <3>2 DEF TypeOK
      <4> QED
        BY <1>3, <3>1, <3>2, <4>1 DEF AnswerRow
    <3>3. CASE n # k
      <4>1. ledger'[t][n] = ledger[t][n]
        BY <1>3, <1>5, <3>3 DEF TypeOK
      <4>2. Held(t)' <=> Held(t)
        BY <1>1 DEF Held, Current
      <4> QED
        BY <1>1, <3>1, <4>1, <4>2 DEF AnswerRow, AnswerLease
    <3> QED
      BY <3>2, <3>3
  <2> QED
    BY <2>4, <2>5, <2>6 DEF WorkRow
<1> QED
  BY <1>4, <1>5

\* The rows after a claim is put off.
LEMMA DeferKeepsRows ==
  ASSUME StoreInv, RunShapes, WorkRows, NEW s \in Shards, Defer(s), NEW t \in Shards
  PROVE  WorkRow(t)'
<1> USE DEF StoreInv, KernelInv
<1>1. /\ UNCHANGED <<run, fence, ledger>> /\ WorkRow(t)
      /\ lease' = EndLease(s, "released", "failed", "PROVIDER_THROTTLE_DEFERRED")
      /\ ckpt' = [ckpt EXCEPT ![s].retry = "later"]
      /\ shard' = [shard EXCEPT ![s] = "retry_scheduled"]
      /\ MayRequest(s)
  BY DEF Defer, MayDispatch, WorkRows
<1>2. Held(s) /\ shard[s] = "running"
      /\ GoesOn(ckpt[s], run[RunOf[s]].epoch) /\ ckpt[s].calls < CallLimit /\ ckpt[s].exists
  BY <1>1, RequesterWorks
<1>3. lease'[s][fence[s]].status # "active" /\ \A q \in Shards : q # s => lease'[q] = lease[q]
  BY <1>1, <1>2, EndLeaseFalls
<1>4. CASE t # s
  <2>1. lease'[t] = lease[t] /\ ckpt'[t] = ckpt[t] /\ shard'[t] = shard[t]
    BY <1>1, <1>3, <1>4
  <2> QED
    BY <1>1, <2>1, SameLeases, RowUntouched DEF SameCounters
<1>5. CASE t = s
  <2>1. shard'[t] = "retry_scheduled" /\ ~Held(t)'
    BY <1>1, <1>3, <1>5 DEF TypeOK, Held, Current
  <2>2. ckpt[t] \in Checkpoint /\ ckpt'[t] = [ckpt[t] EXCEPT !.retry = "later"]
    BY <1>1, <1>5 DEF TypeOK
  <2>3. /\ ckpt'[t].exists = ckpt[t].exists /\ ckpt'[t].done = ckpt[t].done
        /\ ckpt'[t].pages = ckpt[t].pages /\ ckpt'[t].accepted = ckpt[t].accepted
        /\ ckpt'[t].calls = ckpt[t].calls /\ ckpt'[t].total = ckpt[t].total
        /\ ckpt'[t].sealed = ckpt[t].sealed
    BY <2>2 DEF Checkpoint
  <2>4. GoesOn(ckpt'[t], run'[RunOf[t]].epoch) /\ ckpt'[t].calls < CallLimit /\ ckpt'[t].exists
    BY <1>1, <1>2, <1>5, <2>3 DEF GoesOn
  <2>5. ASSUME NEW n \in CallNos
        PROVE  ~InTime(t, n)' /\ ~(ledger'[t][n].status = "settled" /\ ledger'[t][n].by = 0)
    <3>1. shard[t] \notin Done
      BY <1>2, <1>5 DEF Done
    <3>2. /\ ledger[t][n].status # "response_received"
          /\ ~(ledger[t][n].status = "settled" /\ ledger[t][n].by = 0)
      BY <1>1, <1>2, <1>5, <3>1, NoAnswerYet
    <3> QED
      BY <1>1, <3>2 DEF InTime
  <2> QED
    BY <2>1, <2>4, <2>5, WaitingRow
<1> QED
  BY <1>4, <1>5

\* The rows after a request is sent.
LEMMA SendKeepsRows ==
  ASSUME StoreInv, RunShapes, WorkRows, NEW s \in Shards, SendRequest(s), NEW t \in Shards
  PROVE  WorkRow(t)'
<1> USE DEF StoreInv, KernelInv
<1> DEFINE k == NextCall(s)
<1>1. /\ UNCHANGED <<run, shard, fence>> /\ WorkRow(t)
      /\ ckpt' = [ckpt EXCEPT ![s] = [ckpt[s] EXCEPT !.calls = @ + 1, !.total = @ + 1,
                                                     !.retry = "none"]]
      /\ lease' = [lease EXCEPT ![s][fence[s]] =
                     [@ EXCEPT !.attempt = "request_started", !.started = TRUE]]
      /\ ledger' = [ledger EXCEPT ![s][k] =
                      [@ EXCEPT !.status = "dispatch_started", !.by = fence[s],
                                !.dispatch = "started"]]
      /\ MayRequest(s)
  BY DEF SendRequest, MayDispatch, WorkRows
<1>2. /\ Held(s) /\ ~Current(s).started /\ shard[s] = "running"
      /\ GoesOn(ckpt[s], run[RunOf[s]].epoch) /\ ckpt[s].calls < CallLimit /\ ckpt[s].exists
  BY <1>1, RequesterWorks
<1>3. CASE t # s
  <2>1. lease'[t] = lease[t] /\ ckpt'[t] = ckpt[t] /\ ledger'[t] = ledger[t]
    BY <1>1, <1>3
  <2> QED
    BY <1>1, <2>1, SameLeases, RowUntouched DEF SameCounters
<1>4. CASE t = s
  <2>1. fence[t] \in Fences /\ Current(t) \in Lease /\ Current(t).status = "active"
    BY <1>2, <1>4, HeldAtWork
  <2>2. lease'[t][fence[t]] = [Current(t) EXCEPT !.attempt = "request_started", !.started = TRUE]
        /\ \A f \in Fences \ {fence[t]} : lease'[t][f] = lease[t][f]
    BY <1>1, <1>4, <2>1 DEF TypeOK, Current
  <2>3. lease'[t][fence[t]].status = "active" /\ lease'[t][fence[t]].started
    <3> HIDE DEF Current
    <3> QED
      BY <2>1, <2>2 DEF Lease
  <2>4. Held(t)' /\ Current(t)'.started
    BY <1>1, <1>2, <1>4, <2>3 DEF Held, Current
  <2>5. AtWork(t)' /\ ResultRow(t)'
    BY <1>1, <1>2, <1>4, <2>4 DEF AtWork, ResultRow
  <2>6. WaitRow(t)'
    <3>1. ckpt[t] \in Checkpoint
          /\ ckpt'[t] = [ckpt[t] EXCEPT !.calls = @ + 1, !.total = @ + 1, !.retry = "none"]
      BY <1>1, <1>4 DEF TypeOK
    <3>2. /\ ckpt'[t].exists = ckpt[t].exists /\ ckpt'[t].done = ckpt[t].done
          /\ ckpt'[t].pages = ckpt[t].pages /\ ckpt'[t].accepted = ckpt[t].accepted
          /\ ckpt'[t].calls = ckpt[t].calls + 1 /\ ckpt'[t].total = ckpt[t].total + 1
          /\ ckpt'[t].sealed = ckpt[t].sealed
      BY <3>1 DEF Checkpoint
    <3>3. /\ ckpt[t].calls \in Nat /\ ckpt[t].total \in Nat /\ ckpt[t].pages \in Nat
          /\ CallLimit * ckpt[t].pages \in Nat
      BY <3>1, KernelConstants DEF Checkpoint
    <3> DEFINE m == CallLimit * ckpt[t].pages
    <3>4. ckpt'[t].total <= m + ckpt'[t].calls
      <4>1. ckpt[t].total <= m + ckpt[t].calls
        BY <1>2, <1>4 DEF GoesOn
      <4>2. m \in Nat
        BY <3>3
      <4> HIDE DEF m
      <4> QED
        BY <3>2, <3>3, <4>1, <4>2
    <3>5. CallLimit * ckpt'[t].pages = m
      BY <3>2
    <3>6. GoesOn(ckpt'[t], run'[RunOf[t]].epoch) /\ ckpt'[t].exists
      BY <1>1, <1>2, <1>4, <3>2, <3>4, <3>5 DEF GoesOn
    <3> QED
      BY <1>1, <1>2, <1>4, <2>4, <3>6 DEF WaitRow
  <2>7. ASSUME NEW n \in CallNos PROVE AnswerRow(t, n)'
    <3>1. ledger[t][n] \in LedgerEntry /\ AnswerRow(t, n) /\ LedgerRow(t, n)
      BY <1>1 DEF TypeOK, WorkRow, LedgerRows
    <3>2. CASE n = k
      <4>1. ledger'[t][n] = [ledger[t][n] EXCEPT !.status = "dispatch_started",
                                  !.by = fence[s], !.dispatch = "started"]
        BY <1>1, <1>4, <3>2 DEF TypeOK
      <4>2. ledger'[t][n].status = "dispatch_started"
        BY <3>1, <4>1 DEF LedgerEntry
      <4> QED
        BY <4>2 DEF AnswerRow
    <3>3. CASE n # k
      <4>1. ledger'[t][n] = ledger[t][n]
        BY <1>1, <1>4, <3>3 DEF TypeOK
      <4>2. ledger[t][n].by # 0 => ledger[t][n].by # fence[t]
        BY <1>2, <1>4, <3>1, UnusedIsQuiet
      <4>3. ledger[t][n].status # "response_received"
        BY <1>1, <1>2, <1>4, NoAnswerYet
      <4> QED
        BY <1>1, <3>1, <4>1, <4>2, <4>3 DEF AnswerRow
    <3> QED
      BY <3>2, <3>3
  <2> QED
    BY <2>5, <2>6, <2>7 DEF WorkRow
<1> QED
  BY <1>3, <1>4

\* The rows after a call has failed.
LEMMA DispatchFailsRows ==
  ASSUME StoreInv, RunShapes, WorkRows, NEW s \in Shards, DispatchFails(s), NEW t \in Shards
  PROVE  WorkRow(t)'
<1> USE DEF StoreInv, KernelInv
<1> DEFINE r == RunOf[s]
           sh == [shard EXCEPT ![s] = UnknownShard(s)]
<1>1. /\ UNCHANGED <<ckpt, fence>> /\ WorkRow(t) /\ Held(s)
      /\ ledger' = [ledger EXCEPT ![s] = GivenUp(s)]
      /\ lease' = EndLease(s, "released", "request_outcome_unknown", UnknownReason(s))
      /\ shard' = FinishShards({r}, sh)
      /\ run' = [run EXCEPT ![r] = Rest(FinishRun(r, sh, ckpt), r, sh, lease')]
  BY DEF DispatchFails, WorkRows
<1>2. lease'[s][fence[s]].status # "active" /\ \A q \in Shards : q # s => lease'[q] = lease[q]
  <2>1. UnknownReason(s) # "none"
    BY DEF UnknownReason
  <2> QED
    BY <1>1, <2>1, EndLeaseFalls
<1>3. run'[RunOf[t]].epoch = run[RunOf[t]].epoch /\ RunOf[t] \in Runs
  <2>1. RunOf[t] \in Runs /\ r \in Runs
    BY KernelConstants
  <2> HIDE DEF sh
  <2>2. Rest(FinishRun(r, sh, ckpt), r, sh, lease').epoch = run[r].epoch
    BY <2>1, RunAfter
  <2> QED
    BY <1>1, <2>1, <2>2 DEF TypeOK
<1>4. \A q \in Shards : shard'[q] = sh[q] \/ (sh[q] \in Done /\ shard'[q] = "cancelled")
  BY <1>1, FinishShardsEffect
<1>5. CASE t # s
  <2>1. lease'[t] = lease[t] /\ ledger'[t] = ledger[t] /\ sh[t] = shard[t]
    BY <1>1, <1>2, <1>5
  <2> HIDE DEF sh
  <2> QED
    BY <1>1, <1>3, <1>4, <2>1, SameLeases, RowUntouched DEF SameCounters
<1>6. CASE t = s
  <2>1. ~Held(t)'
    BY <1>1, <1>2, <1>6 DEF Held, Current
  <2>2. sh[s] = UnknownShard(s)
    BY DEF TypeOK
  <2>3. shard'[t] \in Done \ {"succeeded", "succeeded_empty"}
    <3>1. UnknownShard(s) \in Done \ {"succeeded", "succeeded_empty"}
      BY <1>1, UnknownEnd
    <3> HIDE DEF sh
    <3> QED
      BY <1>4, <1>6, <2>2, <3>1 DEF Done
  <2>4. shard'[t] \in Done /\ ResultRow(t)'
    BY <2>3 DEF ResultRow
  <2>5. ~ckpt'[t].exists => Unwritten(ckpt'[t])
    BY <1>1 DEF WorkRow, WaitRow
  <2>6. ASSUME NEW n \in CallNos
        PROVE  ~InTime(t, n)' /\ ~(ledger'[t][n].status = "settled" /\ ledger'[t][n].by = 0)
    <3>1. /\ ledger[t][n].status # "response_received"
          /\ ~(ledger[t][n].status = "settled" /\ ledger[t][n].by = 0)
      BY <1>1, <1>6, NoAnswerYet
    <3>2. ledger[t][n] \in LedgerEntry
      BY DEF TypeOK
    <3>3. ledger'[t] = GivenUp(t)
      BY <1>1, <1>6 DEF TypeOK
    <3>4. \/ ledger'[t][n] = ledger[t][n]
          \/ ledger'[t][n] = [ledger[t][n] EXCEPT !.status = "outcome_unknown",
                                                  !.dispatch = "outcome_unknown"]
      BY <3>3 DEF GivenUp
    <3>5. \/ ledger'[t][n] = ledger[t][n]
          \/ ledger'[t][n].status = "outcome_unknown"
      BY <3>2, <3>4 DEF LedgerEntry
    <3> QED
      BY <3>1, <3>5 DEF InTime
  <2> QED
    BY <2>1, <2>4, <2>5, <2>6, EndedRow
<1> QED
  BY <1>5, <1>6

\* The rows after an answer is stored.
LEMMA PersistKeepsRows ==
  ASSUME StoreInv, RunShapes, WorkRows, NEW s \in Shards, NEW k \in CallNos,
         NEW resp \in Responses, PersistResponse(s, k, resp), NEW t \in Shards
  PROVE  WorkRow(t)'
<1> USE DEF StoreInv, KernelInv
<1> DEFINE f == ledger[s][k].by
<1>1. /\ UNCHANGED <<run, shard, ckpt, fence>> /\ WorkRow(t)
      /\ MayPersist(s, k)
      /\ ledger' = [ledger EXCEPT ![s][k] =
                  [@ EXCEPT !.status = "response_received", !.resp = resp,
                            !.dispatch = "response_received"]]
      /\ lease' = IF lease[s][f].status = "active"
              THEN [lease EXCEPT ![s][f] =
                      [@ EXCEPT !.status = "released", !.lapsed = FALSE,
                                !.reason = "RESPONSE_RECEIVED_PENDING_SETTLEMENT"]]
              ELSE lease
  BY DEF PersistResponse, WorkRows
<1>2. CASE t # s
  <2>1. lease'[t] = lease[t] /\ ledger'[t] = ledger[t]
    BY <1>1, <1>2
  <2> QED
    BY <1>1, <2>1, SameLeases, RowUntouched DEF SameCounters
<1>3. CASE t = s
  <2>1. LedgerRow(t, k) /\ ledger[t][k] \in LedgerEntry
    BY DEF LedgerRows, TypeOK
  <2>2. ledger[t][k].status \in {"dispatch_started", "outcome_unknown"}
    BY <1>1, <1>3 DEF MayPersist
  <2>3. f # 0 /\ f = fence[t] /\ f \in Fences
    BY <1>3, <2>1, <2>2, SenderIsLease DEF LedgerRow, Open
  <2>4. ledger'[t][k] = [ledger[t][k] EXCEPT !.status = "response_received", !.resp = resp,
                                             !.dispatch = "response_received"]
        /\ \A n \in CallNos \ {k} : ledger'[t][n] = ledger[t][n]
    BY <1>1, <1>3 DEF TypeOK
  <2>5. ledger'[t][k].status = "response_received" /\ ledger'[t][k].by = f
    BY <1>3, <2>1, <2>4 DEF LedgerEntry
  <2>6. ~Held(t)' /\ lease'[t][f].attempt = lease[t][f].attempt
        /\ lease'[t][f].runEpoch = lease[t][f].runEpoch
        /\ \A g \in Fences : g # f => lease'[t][g] = lease[t][g]
    <3>1. lease[t][f] \in Lease
      BY <2>3 DEF TypeOK
    <3>2. CASE lease[t][f].status = "active"
      <4>1. lease'[t][f] = [lease[t][f] EXCEPT !.status = "released", !.lapsed = FALSE,
                                !.reason = "RESPONSE_RECEIVED_PENDING_SETTLEMENT"]
            /\ \A g \in Fences : g # f => lease'[t][g] = lease[t][g]
        BY <1>1, <1>3, <2>3, <3>2 DEF TypeOK
      <4> HIDE DEF f
      <4>2. lease'[t][f].status = "released" /\ lease'[t][f].attempt = lease[t][f].attempt
            /\ lease'[t][f].runEpoch = lease[t][f].runEpoch
        BY <3>1, <4>1 DEF Lease
      <4> QED
        BY <1>1, <2>3, <4>1, <4>2 DEF Held, Current
    <3>3. CASE lease[t][f].status # "active"
      <4>1. lease' = lease
        BY <1>1, <1>3, <3>3
      <4> QED
        BY <1>1, <2>3, <3>3, <4>1 DEF Held, Current
    <3> QED
      BY <3>2, <3>3
  <2>7. AtWork(t)'
    BY <2>5, <2>6 DEF AtWork
  <2>8. ResultRow(t)'
    BY <1>1 DEF WorkRow, ResultRow
  <2>9. WaitRow(t)'
    BY <1>1, <2>6 DEF WorkRow, WaitRow, GoesOn, Unwritten
  <2>10. AnswerRow(t, k)'
    <3>1. CASE lease[t][f].status = "active"
      <4>1. Held(t)
        BY <2>3, <3>1 DEF Held, Current
      <4>2. shard[t] \in Working /\ run[RunOf[t]].status \in Working
        BY <4>1, HeldAtWork
      <4>3. shard[t] # "cancel_requested" => run[RunOf[t]].status # "cancel_requested"
        BY <4>2, WorkingShape DEF Working
      <4>4. run[RunOf[t]].status # "cancel_requested"
              => lease[t][f].runEpoch = run[RunOf[t]].epoch
        <5>1. lease[t][f] \in Lease /\ run[RunOf[t]] \in RunRecord
          BY <2>3, KernelConstants DEF TypeOK
        <5> QED
          BY <2>3, <3>1, <5>1 DEF LeaseRowsValid, Lease, RunRecord
      <4> HIDE DEF f
      <4> QED
        BY <1>1, <2>5, <2>6, <4>2, <4>3, <4>4 DEF AnswerRow, AnswerLease
    <3>2. CASE lease[t][f].status # "active"
      <4>1. lease[t][f].attempt = "request_outcome_unknown"
        BY <1>1, <1>3, <3>2 DEF MayPersist, AnswerLease
      <4> HIDE DEF f
      <4> QED
        BY <2>5, <2>6, <4>1 DEF AnswerRow, AnswerLease
    <3> QED
      BY <3>1, <3>2
  <2>11. ASSUME NEW n \in CallNos, n # k PROVE AnswerRow(t, n)'
    <3>1. AnswerRow(t, n) /\ LedgerRow(t, n) /\ ledger'[t][n] = ledger[t][n]
      BY <1>1, <2>4, <2>11 DEF WorkRow, LedgerRows
    <3>2. Quiet(t, n)
      BY <2>1, <2>2, <2>11, <3>1, OthersAreQuiet DEF Quiet
    <3> QED
      BY <1>1, <2>6, <3>1, <3>2 DEF AnswerRow, Quiet
  <2> QED
    BY <2>7, <2>8, <2>9, <2>10, <2>11 DEF WorkRow
<1> QED
  BY <1>2, <1>3

-----------------------------------------------------------------------------
(* The rows of shards after a settlement.                                  *)

\* A settlement closes the entry of the last call and leaves the others.
LEMMA SettleCloses ==
  ASSUME StoreInv, NEW s \in Shards, NEW k \in CallNos,
         SettleLate(s, k) \/ SettleSuccess(s, k) \/ SettleFailure(s, k)
  PROVE  /\ ckpt[s].exists /\ ~Held(s)'
         /\ \A n \in CallNos :
              /\ ~InTime(s, n)'
              /\ (ledger'[s][n].status = "settled" /\ ledger'[s][n].by = 0)
                   => (ledger[s][n].status = "settled" /\ ledger[s][n].by = 0)
         /\ \A t \in Shards \ {s} : lease'[t] = lease[t] /\ ledger'[t] = ledger[t]
         /\ fence' = fence
<1> USE DEF StoreInv, KernelInv
<1>1. ledger[s][k].status = "response_received" /\ ~Held(s) /\ fence' = fence
  BY SettleShape
<1>2. PICK kind, at :
        /\ Close(s, k, kind, at)
        /\ kind \in {"success", "failure", "cancelled_late"}
  BY DEF SettleLate, SettleSuccess, SettleFailure
<1>3. LedgerRow(s, k) /\ ~Quiet(s, k) /\ ledger[s][k].by # 0 /\ ledger[s][k].by \in Fences
  <2>1. LedgerRow(s, k) /\ ~Quiet(s, k) /\ ledger[s][k].by # 0
    BY <1>1 DEF LedgerRows, Quiet, LedgerRow, Open
  <2> QED
    BY <2>1, SenderIsLease DEF LedgerRow
<1> DEFINE x == [ClosedEntry(ledger[s][k], kind) EXCEPT !.evidence = 1]
<1>4. /\ ledger' = [ledger EXCEPT ![s][k] = x]
      /\ \A t \in Shards \ {s} : lease'[t] = lease[t] /\ ledger'[t] = ledger[t]
  BY <1>2 DEF Close
<1>5. /\ x.status = IF kind = "cancelled_late" THEN kind ELSE "settled"
      /\ x.by = ledger[s][k].by
  BY EntryType DEF ClosedEntry, LedgerEntry
<1>6. ledger'[s][k] = x /\ \A n \in CallNos \ {k} : ledger'[s][n] = ledger[s][n]
  BY <1>4 DEF TypeOK
<1> HIDE DEF x
<1>7. ckpt[s].exists
  <2>1. k <= ckpt[s].total
    BY <1>3 DEF LedgerRow, SentBy
  <2>2. k # 0 /\ k \in Nat
    BY DEF CallNos
  <2>3. ckpt[s].total # 0
    BY <2>1, <2>2, EntryType
  <2> QED
    BY <2>3 DEF CheckpointRows
<1>8. ~Held(s)'
  <2>1. \A f \in Fences : lease'[s][f].status = lease[s][f].status
    BY <1>2, CloseFalls
  <2>2. fence[s] = 0 \/ fence[s] \in Fences
    BY KernelConstants DEF TypeOK, Fences
  <2> QED
    BY <1>1, <2>1, <2>2 DEF Held, Current
<1>9. ASSUME NEW n \in CallNos
      PROVE  /\ ~InTime(s, n)'
             /\ (ledger'[s][n].status = "settled" /\ ledger'[s][n].by = 0)
                  => (ledger[s][n].status = "settled" /\ ledger[s][n].by = 0)
  <2>1. CASE n = k
    BY <1>2, <1>3, <1>5, <1>6, <2>1 DEF InTime
  <2>2. CASE n # k
    <3>1. Quiet(s, n)
      BY <1>3, <2>2, OthersAreQuiet DEF LedgerRows
    <3> QED
      BY <1>6, <2>2, <3>1 DEF InTime, Quiet
  <2> QED
    BY <2>1, <2>2
<1> QED
  BY <1>1, <1>4, <1>7, <1>8, <1>9

\* Whose answer is settled in time is at work.
LEMMA OnTimeWorks ==
  ASSUME StoreInv, RunShapes, NEW s \in Shards, NEW k \in CallNos, WorkRow(s),
         ledger[s][k].status = "response_received", OnTime(s, k)
  PROVE  /\ shard[s] \in {"running", "pause_requested"}
         /\ AnswerLease(s, k).runEpoch = run[RunOf[s]].epoch
<1> USE DEF StoreInv, KernelInv
<1>1. LedgerRow(s, k) /\ AnswerRow(s, k)
  BY DEF LedgerRows, WorkRow
<1>2. AnswerLease(s, k).attempt = "request_started"
  BY <1>1 DEF LedgerRow, Open, Settleable, OnTime, Late
<1>3. shard[s] \in Working /\ run[RunOf[s]].status # "cancel_requested"
  BY <1>1, <1>2 DEF AnswerRow, OnTime, Late
<1>4. shard[s] \in {"running", "pause_requested"}
  BY <1>3, WorkingShape DEF Working
<1> QED
  BY <1>1, <1>2, <1>4 DEF AnswerRow

\* A settlement leaves the other shards where they are, but for cancelling those
\* that have ended.
LEMMA SettleLeavesOthers ==
  ASSUME StoreInv, TypeOK', RunShapes, NEW s \in Shards, NEW k \in CallNos, WorkRow(s),
         SettleLate(s, k) \/ SettleSuccess(s, k) \/ SettleFailure(s, k),
         NEW t \in Shards, t # s
  PROVE  shard'[t] = shard[t] \/ (shard[t] \in Done /\ shard'[t] = "cancelled")
<1> DEFINE r == RunOf[s]
<1>1. /\ SettledEnd(s) \/ SettledBack(s) \/ UNCHANGED <<run, shard, ckpt>>
      /\ RunOf[t] # r => shard'[t] = shard[t]
  BY SettleEffect
<1>2. CASE SettledEnd(s) /\ RunOf[t] = r
  <2>1. PICK st \in Done : EndsAs(r, s, st, {r}, ckpt')
    BY <1>2 DEF SettledEnd
  <2> DEFINE sh == [shard EXCEPT ![s] = st]
  <2>2. shard'[t] = FinishShards({r}, sh)[t]
    BY <1>2, <2>1 DEF EndsAs, ShardsOf
  <2>3. sh[t] = shard[t]
    OBVIOUS
  <2> HIDE DEF sh
  <2> QED
    BY <2>2, <2>3, FinishShardsEffect
<1>3. CASE SettledBack(s) /\ RunOf[t] = r
  BY <1>3 DEF SettledBack, BackTo, ShardsOf
<1> QED
  BY <1>1, <1>2, <1>3

\* The rows after a settlement.
LEMMA SettleKeepsRows ==
  ASSUME StoreInv, TypeOK', RunShapes, WorkRows, NEW s \in Shards, NEW k \in CallNos,
         SettleLate(s, k) \/ SettleSuccess(s, k) \/ SettleFailure(s, k), NEW t \in Shards
  PROVE  WorkRow(t)'
<1> USE DEF StoreInv, KernelInv
<1> DEFINE r == RunOf[s]
<1>1. WorkRow(t) /\ WorkRow(s) /\ r \in Runs /\ s \in ShardsOf(r) /\ RunOf[t] \in Runs
  BY KernelConstants DEF WorkRows, ShardsOf
<1>2. /\ \/ SettledEnd(s) \/ SettledBack(s)
         \/ Late(s, k) /\ UNCHANGED <<run, shard, ckpt>>
      /\ \A q \in Runs \ {r} : run'[q] = run[q]
      /\ \A q \in Shards : RunOf[q] # r => shard'[q] = shard[q]
      /\ \A q \in Shards \ {s} : ckpt'[q] = ckpt[q]
      /\ OnTime(s, k) \/ ckpt' = ckpt
      /\ ckpt'[s].exists = ckpt[s].exists
  BY <1>1, SettleEffect
<1>3. /\ ckpt[s].exists /\ ~Held(s)'
      /\ \A n \in CallNos :
           /\ ~InTime(s, n)'
           /\ (ledger'[s][n].status = "settled" /\ ledger'[s][n].by = 0)
                => (ledger[s][n].status = "settled" /\ ledger[s][n].by = 0)
      /\ \A q \in Shards \ {s} : lease'[q] = lease[q] /\ ledger'[q] = ledger[q]
      /\ fence' = fence
  BY SettleCloses
<1>4. ledger[s][k].status = "response_received" /\ LedgerRow(s, k)
  BY SettleShape DEF LedgerRows
<1>5. run'[r].epoch = run[r].epoch
  <2>1. ASSUME NEW sh, run'[r] \in {FinishRun(r, sh, ckpt'), Rest(FinishRun(r, sh, ckpt'), r, sh, lease')}
        PROVE  run'[r].epoch = run[r].epoch
    BY <1>1, <2>1, RunAfter
  <2>2. ASSUME NEW sh, run'[r] \in {run[r], Rest(run[r], r, sh, lease')}
        PROVE  run'[r].epoch = run[r].epoch
    BY <1>1, <2>2, RunAfter
  <2>3. CASE SettledEnd(s)
    BY <2>1, <2>3 DEF SettledEnd, EndsAs
  <2>4. CASE SettledBack(s)
    BY <2>2, <2>4 DEF SettledBack, BackTo
  <2> QED
    BY <1>2, <2>3, <2>4
<1>6. CASE t # s
  <2>1. lease'[t] = lease[t] /\ ledger'[t] = ledger[t] /\ ckpt'[t] = ckpt[t]
    BY <1>2, <1>3, <1>6
  <2>2. run'[RunOf[t]].epoch = run[RunOf[t]].epoch
    BY <1>1, <1>2, <1>5
  <2>3. shard'[t] = shard[t] \/ (shard[t] \in Done /\ shard'[t] = "cancelled")
    BY <1>1, <1>6, SettleLeavesOthers
  <2> QED
    BY <1>1, <1>3, <2>1, <2>2, <2>3, SameLeases, RowUntouched DEF SameCounters
<1>7. CASE t = s
  <2>1. ~ckpt'[t].exists => Unwritten(ckpt'[t])
    BY <1>2, <1>3, <1>7
  <2>2. CASE OnTime(s, k)
    <3>1. shard[s] \in {"running", "pause_requested"}
      BY <1>1, <1>4, <2>2, OnTimeWorks
    <3>2. shard[s] \notin Done
      BY <3>1 DEF Done
    <3>3. \A n \in CallNos : ~(ledger'[s][n].status = "settled" /\ ledger'[s][n].by = 0)
      BY <1>1, <1>3, <3>2, NoAnswerYet
    <3>4. CASE SettledEnd(s)
      <4>1. PICK st \in Done :
              /\ EndsAs(r, s, st, {r}, ckpt')
              /\ st = "succeeded" => ckpt'[s].accepted > 0
              /\ st = "succeeded_empty" => ckpt'[s].accepted = 0
        BY <3>4 DEF SettledEnd
      <4> DEFINE sh == [shard EXCEPT ![s] = st]
      <4>2. shard'[s] = FinishShards({r}, sh)[s]
        BY <1>1, <4>1 DEF EndsAs
      <4>3. sh[s] = st
        BY DEF TypeOK
      <4> HIDE DEF sh
      <4>4. shard'[s] \in {st, "cancelled"}
        BY <4>2, <4>3, FinishShardsEffect
      <4>5. shard'[s] \in Done /\ ResultRow(s)'
        BY <4>1, <4>4 DEF Done, ResultRow
      <4> QED
        BY <1>3, <1>7, <2>1, <3>3, <4>5, EndedRow
    <3>5. CASE SettledBack(s)
      <4>1. /\ shard'[s] \in {"queued", "retry_scheduled", "paused"}
            /\ ckpt'[s].calls < CallLimit /\ GoesOn(ckpt'[s], run[r].epoch)
        <5>1. PICK st : BackTo(r, s, st)
          BY <3>5 DEF SettledBack
        <5>2. shard'[s] = [shard EXCEPT ![s] = st][s]
              /\ st \in {"queued", "retry_scheduled", "paused"}
          BY <1>1, <5>1 DEF BackTo
        <5> QED
          BY <3>5, <5>2 DEF SettledBack, TypeOK
      <4>2. GoesOn(ckpt'[s], run'[r].epoch)
        BY <1>5, <4>1
      <4> QED
        BY <1>3, <1>7, <2>1, <3>3, <4>1, <4>2, WaitingRow
    <3> QED
      BY <1>2, <2>2, <3>4, <3>5 DEF OnTime
  <2>3. CASE ~OnTime(s, k)
    <3>1. SettleLate(s, k) /\ Late(s, k) /\ ckpt' = ckpt
      BY <1>2, <2>3 DEF SettleLate, SettleSuccess, SettleFailure
    <3>2. CASE run[r].status = "cancel_requested"
      <4> DEFINE sh == [shard EXCEPT ![s] = "cancelled"]
      <4>1. shard' = FinishShards({r}, sh)
        BY <3>1, <3>2 DEF SettleLate
      <4>2. sh[s] = "cancelled"
        BY DEF TypeOK
      <4> HIDE DEF sh
      <4>3. shard'[s] = "cancelled"
        BY <4>1, <4>2, FinishShardsEffect
      <4>4. shard'[s] \in Done /\ ResultRow(s)'
        BY <4>3 DEF Done, ResultRow
      <4> QED
        BY <1>3, <1>7, <2>1, <4>3, <4>4, EndedRow
    <3>3. CASE run[r].status # "cancel_requested"
      <4>1. shard' = shard
        BY <3>1, <3>3 DEF SettleLate
      <4>2. shard[s] \in Done
        <5>1. CASE AnswerLease(s, k).attempt = "request_outcome_unknown"
          BY <1>4, <3>3, <5>1 DEF LedgerRow, Open, RunRows
        <5>2. CASE run[r].status \in Done
          BY <1>1, <5>2 DEF RunRows, AllDone
        <5> QED
          BY <3>1, <3>3, <5>1, <5>2 DEF Late
      <4>3. ResultRow(s)' /\ shard'[s] \in Done
        BY <1>1, <3>1, <4>1, <4>2 DEF WorkRow, ResultRow
      <4>4. \A n \in CallNos : (ledger'[s][n].status = "settled" /\ ledger'[s][n].by = 0)
                                 => shard'[s] = "cancelled"
        BY <1>1, <1>3, <4>1 DEF WorkRow, AnswerRow
      <4> QED
        BY <1>3, <1>7, <2>1, <4>3, <4>4, EndedRow
    <3> QED
      BY <3>2, <3>3
  <2> QED
    BY <2>2, <2>3
<1> QED
  BY <1>6, <1>7

-----------------------------------------------------------------------------
(* The invariant, and what follows from it.                                *)

\* Every step leaves every shard with a row that fits.
LEMMA WorkRowsStep ==
  ASSUME StoreInv, TypeOK', RunShapes, WorkRows, [Next]_vars
  PROVE  WorkRows'
<1> SUFFICES ASSUME NEW t \in Shards PROVE WorkRow(t)'
  BY DEF WorkRows
<1>1. ASSUME NEW r \in Runs, CreateRun(r) \/ RequestPause(r) \/ Resume(r) \/ RequestCancel(r)
      PROVE  WorkRow(t)'
  BY <1>1, CreateKeepsRows, PauseKeepsRows, ResumeKeepsRows, CancelKeepsRows
<1>2. ASSUME Start PROVE WorkRow(t)'
  BY <1>2, RecoverKeepsRows DEF Start
<1>3. ASSUME RecoverExpired PROVE WorkRow(t)'
  <2>1. {s \in Shards : Held(s) /\ Current(s).lapsed} \in SUBSET {s \in Shards : Held(s)}
    OBVIOUS
  <2> QED
    BY <1>3, <2>1, RecoverKeepsRows DEF RecoverExpired
<1>4. ASSUME ClaimNext PROVE WorkRow(t)'
  BY <1>4, ClaimKeepsRows
<1>5. ASSUME \/ \E s \in Shards : Lapse(s) \/ RetryDue(s)
             \/ \E p \in Providers : WindowOpens(p)
             \/ \E q \in calls : CallLost(q)
             \/ UNCHANGED vars
      PROVE  WorkRow(t)'
  BY <1>5, TimeKeepsRows
<1>6. ASSUME NEW s \in Shards, Prepare(s) \/ Defer(s) \/ SendRequest(s) \/ DispatchFails(s)
      PROVE  WorkRow(t)'
  BY <1>6, PrepareKeepsRows, DeferKeepsRows, SendKeepsRows, DispatchFailsRows
<1>7. ASSUME NEW s \in Shards, NEW n \in CallNos, NEW resp \in Responses,
             PersistResponse(s, n, resp)
      PROVE  WorkRow(t)'
  BY <1>7, PersistKeepsRows
<1>8. ASSUME NEW s \in Shards, NEW n \in CallNos,
             SettleLate(s, n) \/ SettleSuccess(s, n) \/ SettleFailure(s, n)
      PROVE  WorkRow(t)'
  BY <1>8, SettleKeepsRows
<1> QED
  BY <1>1, <1>2, <1>3, <1>4, <1>5, <1>6, <1>7, <1>8 DEF Next

\* The invariant holds at first.
LEMMA WorkInitInv == Init => WorkInv
<1> SUFFICES ASSUME Init PROVE WorkInv
  OBVIOUS
<1>1. StoreInv
  BY StoreInitInv
<1>2. RunShapes
  <2> SUFFICES ASSUME NEW r \in Runs PROVE RunShape(r)
    BY DEF RunShapes
  <2>1. run[r].status = "none" /\ run[r].parent = "queued"
    BY DEF Init
  <2>2. \A s \in ShardsOf(r) : shard[s] = "queued"
    BY DEF Init, ShardsOf
  <2>3. \E s \in ShardsOf(r) : TRUE
    BY KernelConstants DEF ShardsOf
  <2>4. ParentOf("none") = "queued"
    BY DEF ParentOf, Done
  <2> QED
    BY <2>1, <2>2, <2>3, <2>4 DEF RunShape, Fits, Allowed, Needed
<1>3. WorkRows
  <2> SUFFICES ASSUME NEW s \in Shards PROVE WorkRow(s)
    BY DEF WorkRows
  <2>1. /\ shard[s] = "queued" /\ fence[s] = 0
        /\ ckpt[s] = NoCheckpoint /\ run[RunOf[s]].epoch = 0
        /\ \A n \in CallNos : ledger[s][n] = NoEntry
    BY KernelConstants DEF Init
  <2>2. /\ NoEntry.status = "none" /\ ~NoCheckpoint.done /\ NoCheckpoint.calls = 0
        /\ NoCheckpoint.accepted = 0 /\ NoCheckpoint.pages = 0 /\ NoCheckpoint.sealed = 0
        /\ NoCheckpoint.total = 0
    BY DEF NoEntry, NoCheckpoint
  <2>3. 0 < PageLimit /\ 0 < ResultLimit /\ 0 < CallLimit /\ CallLimit * 0 + 0 = 0
    BY KernelConstants
  <2> HIDE DEF NoEntry, NoCheckpoint
  <2>4. AtWork(s) /\ ResultRow(s)
    BY <2>1 DEF AtWork, ResultRow, Working, Held
  <2>5. WaitRow(s)
    BY <2>1, <2>2, <2>3 DEF WaitRow, GoesOn, Unwritten
  <2>6. \A n \in CallNos : AnswerRow(s, n)
    BY <2>1, <2>2 DEF AnswerRow
  <2> QED
    BY <2>4, <2>5, <2>6 DEF WorkRow
<1> QED
  BY <1>1, <1>2, <1>3 DEF WorkInv

\* And every step keeps it.
LEMMA WorkStepInv == WorkInv /\ [Next]_vars => WorkInv'
<1> SUFFICES ASSUME WorkInv, [Next]_vars PROVE WorkInv'
  OBVIOUS
<1>1. StoreInv'
  BY StoreStepInv DEF WorkInv
<1>2. TypeOK'
  BY <1>1 DEF StoreInv, KernelInv
<1> QED
  BY <1>1, <1>2, RunShapesStep, WorkRowsStep DEF WorkInv

\* Runs, shards, checkpoints and stored answers fit together in every
\* reachable state.
THEOREM WorkInvariance == Spec => []WorkInv
BY WorkInitInv, WorkStepInv, PTL DEF Spec

\* Whoever is at work has a lease, or a stored answer to settle.
LEMMA WorkIsInHand == WorkInv => NoOrphan
<1> USE DEF WorkInv, StoreInv, KernelInv
<1> SUFFICES ASSUME WorkInv, NEW s \in Shards, shard[s] \in Working, ~Held(s)
             PROVE  \E n \in CallNos : Settleable(s, n) /\ (OnTime(s, n) \/ Late(s, n))
  BY DEF NoOrphan
<1>1. PICK n \in CallNos : ledger[s][n].status = "response_received"
  BY DEF WorkRows, WorkRow, AtWork
<1>2. Settleable(s, n)
  BY <1>1 DEF LedgerRows, LedgerRow, Open
<1>3. run[RunOf[s]].status \in Working
  BY WorkingShape DEF Working
<1> QED
  BY <1>2, <1>3 DEF OnTime, Late, Working

\* No shard is stranded at work: through every crash, pause, cancellation and
\* late answer it keeps a lease that recovery can end, or a stored answer that
\* a settlement accepts.
THEOREM NobodyIsStranded == Spec => []NoOrphan
BY WorkInvariance, WorkIsInHand, PTL

\* The status of a run is one its shards allow.
LEMMA ShapesAreValid == WorkInv => RunFollowsShards
<1> SUFFICES ASSUME WorkInv, NEW r \in Runs, run[r].status # "none"
             PROVE  RunShardOK(r) /\ run[r].parent = ParentOf(run[r].status)
  BY DEF RunFollowsShards
<1> QED
  BY FitsIsOK DEF WorkInv, StoreInv, KernelInv, RunShapes, RunShape

\* The status of a run is always the one its shards allow, and its parent job
\* has the status of the run, whichever shards end, wait or are given up first.
THEOREM RunsFollow == Spec => []RunFollowsShards
BY WorkInvariance, ShapesAreValid, PTL

\* Who is to be cancelled still waits for an answer.
LEMMA CancelledIsBusy == WorkInv => CancelHasCause
<1> USE DEF WorkInv, StoreInv, KernelInv
<1> SUFFICES ASSUME WorkInv, NEW r \in Runs, run[r].status = "cancel_requested"
             PROVE  Busy(r) # {}
  BY DEF CancelHasCause
<1>1. PICK s \in ShardsOf(r) : shard[s] = "cancel_requested"
  BY DEF RunShapes, RunShape, Fits, Needed
<1>2. AtWork(s)
  BY DEF ShardsOf, WorkRows, WorkRow
<1>3. s \in Busy(r)
  BY <1>1, <1>2, BusyMeans DEF AtWork, Working
<1> QED
  BY <1>3

\* A cancellation waits only while a request is out or an answer is unsettled.
THEOREM CancellationsHaveCause == Spec => []CancelHasCause
BY WorkInvariance, CancelledIsBusy, PTL

\* A checkpoint that may go on has a call number left.
LEMMA CallLeft ==
  ASSUME TypeOK, NEW s \in Shards, NEW e, GoesOn(ckpt[s], e), ckpt[s].calls < CallLimit
  PROVE  NextCall(s) \in CallNos
<1> DEFINE c == ckpt[s].calls
           p == ckpt[s].pages
           x == ckpt[s].total
<1>1. c \in Nat /\ p \in Nat /\ x \in Nat /\ CallLimit \in Nat /\ PageLimit \in Nat
  BY KernelConstants DEF TypeOK, Checkpoint
<1>2. c < CallLimit /\ p < PageLimit /\ x <= CallLimit * p + c
  BY DEF GoesOn
<1> HIDE DEF c, p, x
<1>3. PICK d \in Nat : PageLimit = p + 1 + d
  <2>1. PageLimit - (p + 1) \in Nat /\ PageLimit = p + 1 + (PageLimit - (p + 1))
    BY <1>1, <1>2
  <2> QED
    BY <2>1
<1>4. CallLimit * PageLimit = CallLimit * p + CallLimit + CallLimit * d
  BY <1>1, <1>3
<1>5. CallLimit * p \in Nat /\ CallLimit * d \in Nat /\ CallLimit * PageLimit \in Nat
  BY <1>1, <1>3
<1>6. x + 1 \in 1..(CallLimit * PageLimit)
  BY <1>1, <1>2, <1>4, <1>5
<1> QED
  BY <1>6 DEF NextCall, CallNos, MaxCalls, x

\* Who waits can go on.
LEMMA WaitersGoOn == WorkInv => WaitingCanWork
<1> USE DEF WorkInv, StoreInv, KernelInv
<1> SUFFICES ASSUME WorkInv, NEW s \in Shards,
                    shard[s] \in {"queued", "retry_scheduled", "paused"}
             PROVE  /\ ckpt[s].calls < CallLimit /\ ~ckpt[s].done
                    /\ ckpt[s].pages < PageLimit /\ ckpt[s].accepted < ResultLimit
                    /\ ckpt[s].sealed \in {0, run[RunOf[s]].epoch}
                    /\ NextCall(s) \in CallNos
                    /\ ledger[s][NextCall(s)].status \in {"none", "prepared"}
  BY DEF WaitingCanWork
<1>1. shard[s] \notin Done \cup {"cancel_requested"} /\ shard[s] # "cancelled"
  BY DEF Done
<1>2. GoesOn(ckpt[s], run[RunOf[s]].epoch) /\ ckpt[s].calls < CallLimit
  BY <1>1 DEF WorkRows, WorkRow, WaitRow
<1>3. NextCall(s) \in CallNos
  BY <1>2, CallLeft
<1> DEFINE k == NextCall(s)
<1>4. LedgerRow(s, k) /\ AnswerRow(s, k) /\ ledger[s][k].status \in Book!LedgerStatus
  BY <1>3, EntryType DEF LedgerRows, WorkRows, WorkRow
<1>5. k # ckpt[s].total /\ ~(k <= ckpt[s].total)
  BY <1>3, EntryType DEF NextCall
<1> HIDE DEF k
<1>6. ledger[s][k].by = 0
  BY <1>4, <1>5 DEF LedgerRow, SentBy
<1>7. ledger[s][k].status \in {"none", "prepared"}
  BY <1>1, <1>4, <1>5, <1>6 DEF LedgerRow, Open, SentBy, AnswerRow, Book!LedgerStatus
<1> QED
  BY <1>2, <1>3, <1>7 DEF GoesOn, k

\* No shard waits in vain: whatever is queued, put off or paused has calls,
\* pages and results left, a cursor it can open and an entry to send.
THEOREM WaitersCanWork == Spec => []WaitingCanWork
BY WorkInvariance, WaitersGoOn, PTL

\* Only a settlement moves the pages of a checkpoint.
LEMMA PagesKept ==
  ASSUME WorkInv, Next, NEW t \in Shards,
         \A s \in Shards, n \in CallNos :
           ~(SettleLate(s, n) \/ SettleSuccess(s, n) \/ SettleFailure(s, n))
  PROVE  ckpt'[t].pages = ckpt[t].pages
<1> USE DEF WorkInv, StoreInv, KernelInv
<1>1. ckpt[t] \in Checkpoint
  BY DEF TypeOK
<1>2. ASSUME NEW S, RetryFalls(S) PROVE ckpt'[t].pages = ckpt[t].pages
  <2>1. [ckpt[t] EXCEPT !.retry = "due"].pages = ckpt[t].pages
    BY <1>1 DEF Checkpoint
  <2>2. ckpt'[t] \in {ckpt[t], [ckpt[t] EXCEPT !.retry = "due"]}
    BY <1>2 DEF RetryFalls
  <2> QED
    BY <2>1, <2>2
<1>3. ASSUME NEW r \in Runs, RequestCancel(r) PROVE ckpt'[t].pages = ckpt[t].pages
  <2> DEFINE c == [ckpt[t] EXCEPT !.sealed = 0, !.retry = "none", !.done = TRUE]
  <2>1. c.pages = ckpt[t].pages
    BY <1>1 DEF Checkpoint
  <2>2. ckpt'[t] = ckpt[t] \/ ckpt'[t] = c
    BY <1>3 DEF RequestCancel
  <2> HIDE DEF c
  <2> QED
    BY <2>1, <2>2
<1>4. ASSUME NEW r \in Runs, Resume(r) PROVE ckpt'[t].pages = ckpt[t].pages
  <2> DEFINE n == IF ckpt[t].sealed = 0 THEN 0 ELSE run[r].epoch + 1
             w == IF ckpt[t].retry = "later" THEN ckpt[t].retry ELSE "none"
             c == [ckpt[t] EXCEPT !.sealed = n, !.retry = w]
  <2>1. ckpt'[t] = ckpt[t] \/ ckpt'[t] = [ckpt[t] EXCEPT
                                !.sealed = IF @ = 0 THEN 0 ELSE run[r].epoch + 1,
                                !.retry  = IF ckpt[t].retry = "later" THEN @ ELSE "none"]
    BY <1>4 DEF Resume
  <2>2. ckpt'[t] = ckpt[t] \/ ckpt'[t] = c
    BY <1>1, <2>1 DEF Checkpoint
  <2> HIDE DEF n, w
  <2>3. c.pages = ckpt[t].pages
    BY <1>1 DEF Checkpoint
  <2> HIDE DEF c
  <2> QED
    BY <2>2, <2>3
<1>5. ASSUME NEW s \in Shards, Defer(s) PROVE ckpt'[t].pages = ckpt[t].pages
  <2>1. ckpt'[t] = ckpt[t] \/ ckpt'[t] = [ckpt[t] EXCEPT !.retry = "later"]
    BY <1>5 DEF Defer, TypeOK
  <2> QED
    BY <1>1, <2>1 DEF Checkpoint
<1>6. ASSUME NEW s \in Shards, SendRequest(s) PROVE ckpt'[t].pages = ckpt[t].pages
  <2> DEFINE c == [ckpt[s] EXCEPT !.calls = @ + 1, !.total = @ + 1, !.retry = "none"]
  <2>1. ckpt' = [ckpt EXCEPT ![s] = c] /\ ckpt[s] \in Checkpoint
    BY <1>6 DEF SendRequest, TypeOK
  <2>2. c.pages = ckpt[s].pages
    BY <2>1 DEF Checkpoint
  <2> HIDE DEF c
  <2> QED
    BY <2>1, <2>2 DEF TypeOK
<1>7. ASSUME ClaimNext PROVE ckpt'[t].pages = ckpt[t].pages
  <2>1. ckpt'[t] = ckpt[t] \/ (~ckpt[t].exists /\ ckpt'[t] = NewCheckpoint(t))
    BY <1>7 DEF ClaimNext
  <2>2. NewCheckpoint(t).pages = 0
    BY DEF NewCheckpoint, NoCheckpoint
  <2>3. ~ckpt[t].exists => ckpt[t].pages = 0
    BY DEF WorkRows, WorkRow, WaitRow, Unwritten
  <2> QED
    BY <2>1, <2>2, <2>3
<1> QED
  BY <1>2, <1>3, <1>4, <1>5, <1>6, <1>7
     DEF Next, CreateRun, RequestPause, Start, RecoverExpired, WindowOpens, Lapse,
         RetryDue, Prepare, DispatchFails, CallLost, PersistResponse

\* A page is accepted only from a request of the current epoch of a run that
\* is running or about to pause, never from one sent before a cancellation or
\* before a pause and resume.
THEOREM PagesInTheirEpoch == Spec => PagesOfThisEpoch
<1>1. ASSUME WorkInv, WorkInv', [Next]_vars, NEW t \in Shards, ckpt'[t].pages # ckpt[t].pages
      PROVE  /\ run[RunOf[t]].status \in {"running", "pause_requested"}
             /\ \E n \in CallNos :
                  /\ ledger[t][n].status = "response_received"
                  /\ AnswerLease(t, n).runEpoch = run[RunOf[t]].epoch
  <2> USE <1>1 DEF WorkInv, StoreInv, KernelInv
  <2>1. Next
    BY DEF vars
  <2>2. PICK s \in Shards, n \in CallNos :
          SettleLate(s, n) \/ SettleSuccess(s, n) \/ SettleFailure(s, n)
    BY <2>1, PagesKept
  <2>3. WorkRow(s) /\ ledger[s][n].status = "response_received"
    BY <2>2, SettleShape DEF WorkRows
  <2>4. t = s /\ OnTime(s, n)
    BY <2>2, <2>3, SettleEffect
  <2> QED
    BY <2>3, <2>4, OnTimeWorks DEF OnTime
<1>2. WorkInv /\ WorkInv' /\ [Next]_vars =>
        [\A s \in Shards : ckpt'[s].pages # ckpt[s].pages =>
       /\ run[RunOf[s]].status \in {"running", "pause_requested"}
       /\ \E n \in CallNos :
            /\ ledger[s][n].status = "response_received"
            /\ AnswerLease(s, n).runEpoch = run[RunOf[s]].epoch]_vars
  BY <1>1
<1> QED
  BY <1>2, WorkInvariance, PTL DEF Spec, PagesOfThisEpoch

=============================================================================
