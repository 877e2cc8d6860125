----------------------- MODULE ProspectPlanningProofs -----------------------
(***************************************************************************)
(* Theorems about campaigns, schedules and the scheduler, for any owners,  *)
(* scopes, schedules, batches, runs, periods and numbers of user acts and  *)
(* faults.                                                                 *)
(*                                                                         *)
(* PlanningInv is the inductive invariant.  To what the properties say it  *)
(* adds that runs are created in order, that a plan's time is ahead of the *)
(* runs it has had (SchedulesAhead, JobAhead) and that the review a poll   *)
(* is about to start has no run yet unless the campaign has changed hands  *)
(* (JobReviews).                                                           *)
(***************************************************************************)
EXTENDS ProspectScheduler, TLAPS

-----------------------------------------------------------------------------
(* The calendar.                                                           *)

\* Division with a remainder.
LEMMA DivMod ==
  ASSUME NEW x \in Nat
  PROVE  /\ x \div Period \in Nat
         /\ x % Period \in 0..(Period - 1)
         /\ x = Period * (x \div Period) + (x % Period)
BY ScheduleConstants

\* A multiple of the period leaves no remainder.
LEMMA ModOfMultiple ==
  ASSUME NEW q \in Nat
  PROVE  (Period * q) % Period = 0
BY ScheduleConstants

\* A number without a remainder is a period at least.
LEMMA SmallMod ==
  ASSUME NEW x \in Nat, x % Period = 0, x > 0
  PROVE  x >= Period
BY ScheduleConstants

\* Beyond a time that has come there is an occurrence, a period after the
\* planned one at least.
LEMMA AdvanceIsLater ==
  ASSUME NEW p \in Nat, NEW t \in Nat, p <= t
  PROVE  AdvanceBeyond(p, t) \in Nat /\ AdvanceBeyond(p, t) >= p + Period
<1> DEFINE q == (t - p) \div Period
           w == p + Period * (q + 1)
           Good(n) == /\ n > t /\ n > p
                      /\ (n - p) % Period = 0
                      /\ n - Period <= t \/ n - Period = p
<1>1. /\ q \in Nat /\ (t - p) % Period \in 0..(Period - 1)
      /\ t - p = Period * q + ((t - p) % Period)
  <2>1. t - p \in Nat
    OBVIOUS
  <2> QED
    BY <2>1, DivMod
<1> HIDE DEF q
<1>2. Period * (q + 1) = Period * q + Period /\ Period * q \in Nat
  BY <1>1, ScheduleConstants
<1>3. w \in Nat /\ w > t /\ w > p /\ w - Period <= t /\ w - p = Period * (q + 1)
  BY <1>1, <1>2, ScheduleConstants
<1>4. (w - p) % Period = 0
  BY <1>1, <1>3, ModOfMultiple
<1>5. w \in p..(p + t + Period)
  BY <1>1, <1>2, ScheduleConstants
<1>6. Good(w)
  BY <1>3, <1>4
<1> HIDE DEF w, Good
<1>7. PICK n \in p..(p + t + Period) : Good(n) /\ n = AdvanceBeyond(p, t)
  BY <1>5, <1>6 DEF AdvanceBeyond, Good
<1>8. n \in Nat /\ n - p \in Nat /\ n - p > 0 /\ (n - p) % Period = 0
  BY <1>7 DEF Good
<1> QED
  BY <1>7, <1>8, SmallMod, ScheduleConstants

-----------------------------------------------------------------------------
(* The campaign, its strategies and its runs.                              *)

\* No strategy belongs to a version to come.
VersionsExist == \A s \in StrategyIds : strategy[s].version <= campaign.version

\* Runs are created in order.
RunsInOrder ==
  \A q, r \in RunIds : q < r /\ run[r] # NoRun => run[q] # NoRun

CampaignInv ==
  /\ CampaignsTypeOK /\ VersionsExist /\ RunsInOrder
  /\ RunsFitTheirPlan /\ ActiveCampaignHasStrategy /\ OneSearchPerScope

\* The invariant is kept, and a run keeps its owner's campaign unless a
\* transfer is counted.
CampaignKept ==
  /\ CampaignInv'
  /\ campaign'.transfers >= campaign.transfers
  /\ campaign'.transfers = campaign.transfers => campaign'.owner = campaign.owner

\* A change of the campaign's status or owner keeps the invariant if live
\* runs and an active campaign allow it.
LEMMA CampaignChanges ==
  ASSUME CampaignInv,
         campaign' \in Campaign, campaign'.version = campaign.version,
         strategy' = strategy, run' = run, exhausted' = exhausted,
         campaign'.status = "active" => Approved # {},
         LiveRuns # {} => /\ campaign'.status \in {"active", "paused"}
                          /\ campaign'.owner = campaign.owner
  PROVE  CampaignInv'
<1>1. Approved' = Approved /\ LiveRuns' = LiveRuns
  BY DEF Approved, LiveRuns
<1>2. CampaignsTypeOK' /\ VersionsExist' /\ RunsInOrder'
  BY DEF CampaignInv, CampaignsTypeOK, VersionsExist, RunsInOrder
<1>3. RunsFitTheirPlan' /\ ActiveCampaignHasStrategy' /\ OneSearchPerScope'
  BY <1>1 DEF CampaignInv, RunsFitTheirPlan, ActiveCampaignHasStrategy,
              OneSearchPerScope
<1> QED
  BY <1>2, <1>3 DEF CampaignInv

\* Of the approved strategies one without live runs may go.
LEMMA StrategyGoes ==
  ASSUME CampaignInv, NEW s \in StrategyIds, DisableStrategy(s)
  PROVE  CampaignInv'
<1>1. strategy[s] \in Strategy /\ strategy' \in [StrategyIds -> Strategy]
  BY DEF CampaignInv, CampaignsTypeOK, DisableStrategy, Strategy
<1>2. \A t \in StrategyIds : /\ strategy'[t].scope = strategy[t].scope
                             /\ strategy'[t].version = strategy[t].version
                             /\ t # s => strategy'[t] = strategy[t]
                             /\ strategy'[s].status = "disabled"
  BY <1>1 DEF CampaignInv, CampaignsTypeOK, DisableStrategy, Strategy
<1>3. Approved' = Approved \ {s} /\ LiveRuns' = LiveRuns
  BY <1>2 DEF Approved, LiveRuns, DisableStrategy
<1>4. CampaignsTypeOK' /\ VersionsExist' /\ RunsInOrder'
  BY <1>1, <1>2 DEF CampaignInv, CampaignsTypeOK, VersionsExist, RunsInOrder,
                    DisableStrategy
<1>5. RunsFitTheirPlan'
  BY <1>2, <1>3 DEF CampaignInv, RunsFitTheirPlan, DisableStrategy, MayDisable,
                    Approved
<1>6. ActiveCampaignHasStrategy'
  BY <1>3 DEF CampaignInv, ActiveCampaignHasStrategy, DisableStrategy, MayDisable
<1>7. OneSearchPerScope'
  BY <1>2, <1>3 DEF CampaignInv, OneSearchPerScope, DisableStrategy, Approved
<1> QED
  BY <1>4, <1>5, <1>6, <1>7 DEF CampaignInv

\* What users do to the campaign keeps its invariant, and the runs.
LEMMA CampaignStepKeeps ==
  ASSUME CampaignInv, CampaignStep
  PROVE  CampaignKept /\ run' = run
<1>1. ASSUME NEW s \in StrategyIds,
             CreateStrategy(s) \/ UpdateStrategy(s) \/ ApproveStrategy(s)
      PROVE  CampaignInv'
  <2> USE CampaignConstants
      DEF CampaignInv, CampaignsTypeOK, VersionsExist, RunsInOrder,
          RunsFitTheirPlan, ActiveCampaignHasStrategy, OneSearchPerScope,
          Approved, LiveRuns, Campaign, Strategy, StrategyIds
  <2>1. CASE CreateStrategy(s)
    BY <2>1 DEF CreateStrategy, Resting
  <2>2. CASE UpdateStrategy(s)
    BY <2>2 DEF UpdateStrategy, CurrentDraft, Resting
  <2>3. CASE ApproveStrategy(s)
    BY <2>3 DEF ApproveStrategy, CurrentDraft, Resting
  <2> HIDE DEF CampaignInv
  <2> QED
    BY <1>1, <2>1, <2>2, <2>3
<1>2. ASSUME ActivateCampaign
      PROVE  CampaignInv'
  BY <1>2, CampaignChanges
     DEF ActivateCampaign, Resting, CampaignInv, CampaignsTypeOK, Campaign,
         RunsFitTheirPlan
<1>3. ASSUME NEW to \in {"paused", "completed", "archived"}, CloseCampaign(to)
      PROVE  CampaignInv'
  BY <1>3, CampaignChanges
     DEF CloseCampaign, LiveRunsOf, CampaignInv, CampaignsTypeOK, Campaign
<1>4. ASSUME CreateVersion
      PROVE  CampaignInv'
  BY <1>4, CampaignConstants
     DEF CampaignInv, CampaignsTypeOK, VersionsExist, RunsInOrder,
         RunsFitTheirPlan, ActiveCampaignHasStrategy, OneSearchPerScope,
         Approved, LiveRuns, LiveRunsOf, Campaign, Strategy, StrategyIds,
         CreateVersion, Resting
<1>5. ASSUME NEW o \in Owners, TransferCampaign(o)
      PROVE  CampaignInv'
  <2>1. /\ campaign' \in Campaign /\ campaign'.status = campaign.status
        /\ campaign'.version = campaign.version
    <3>1. campaign \in Campaign
      BY DEF CampaignInv, CampaignsTypeOK
    <3>2. campaign' = [campaign EXCEPT !.owner = o, !.transfers = @ + 1]
      BY <1>5 DEF TransferCampaign
    <3>3. campaign' = [status |-> campaign.status, version |-> campaign.version,
                       owner |-> o, transfers |-> campaign.transfers + 1]
      BY <3>1, <3>2 DEF Campaign
    <3> QED
      BY <3>1, <3>3 DEF Campaign
  <2>2. campaign'.status = "active" => Approved # {}
    BY <2>1 DEF CampaignInv, ActiveCampaignHasStrategy
  <2> QED
    BY <1>5, <2>1, <2>2, CampaignChanges DEF TransferCampaign, LiveRunsOf
<1>6. CampaignInv'
  BY <1>1, <1>2, <1>3, <1>4, <1>5, StrategyGoes DEF CampaignStep
<1>7. /\ campaign'.transfers >= campaign.transfers
      /\ campaign'.transfers = campaign.transfers =>
           campaign'.owner = campaign.owner
  <2> USE DEF CampaignInv, CampaignsTypeOK, Campaign
  <2>1. CASE \E s \in StrategyIds : \/ CreateStrategy(s) \/ UpdateStrategy(s)
                                     \/ ApproveStrategy(s) \/ DisableStrategy(s)
    BY <2>1 DEF CreateStrategy, UpdateStrategy, ApproveStrategy, DisableStrategy
  <2>2. CASE ActivateCampaign
    BY <2>2 DEF ActivateCampaign
  <2>3. CASE \E to \in {"paused", "completed", "archived"} : CloseCampaign(to)
    BY <2>3 DEF CloseCampaign
  <2>4. CASE CreateVersion
    BY <2>4 DEF CreateVersion
  <2>5. CASE \E o \in Owners : TransferCampaign(o)
    BY <2>5 DEF TransferCampaign
  <2> QED
    BY <2>1, <2>2, <2>3, <2>4, <2>5 DEF CampaignStep
<1>8. run' = run
  BY DEF CampaignStep, CreateStrategy, UpdateStrategy, ApproveStrategy,
         DisableStrategy, ActivateCampaign, CloseCampaign, CreateVersion,
         TransferCampaign
<1> QED
  BY <1>6, <1>7, <1>8 DEF CampaignKept

\* A new run comes after all others, with a key of its own; the others stay.
LEMMA NewRun ==
  ASSUME CampaignInv, NEW r \in RunIds, NEW key \in Key, NEW request \in Request,
         CreateRun(r, key, request)
  PROVE  /\ run' \in [RunIds -> Run \cup {NoRun}]
         /\ run[r] = NoRun /\ run'[r] # NoRun
         /\ run'[r].status = "live" /\ run'[r].key = key
         /\ run'[r].request = request /\ run'[r].owner = campaign.owner
         /\ run'[r].version = campaign.version
         /\ run'[r].scope = strategy[request.strategy].scope
         /\ \A q \in RunIds : q # r => run'[q] = run[q]
         /\ \A q \in RunIds : run[q] # NoRun => q < r /\ run[q].key # key
<1>1. /\ run \in [RunIds -> Run \cup {NoRun}] /\ campaign \in Campaign
      /\ strategy \in [StrategyIds -> Strategy] /\ RunsInOrder
  BY DEF CampaignInv, CampaignsTypeOK
<1> DEFINE new == [status |-> "live", key |-> key, request |-> request,
                   owner |-> campaign.owner, version |-> campaign.version,
                   scope |-> strategy[request.strategy].scope]
<1>2. run[r] = NoRun /\ UsedBy(key) = {} /\ run' = [run EXCEPT ![r] = new]
  BY DEF CreateRun
<1>3. new \in Run
  BY <1>1 DEF Run, Campaign, Strategy, Request
<1>4. new # NoRun
  BY DEF NoRun
<1>5. \A q \in RunIds : run[q] # NoRun => q < r /\ run[q].key # key
  BY <1>1, <1>2 DEF RunsInOrder, UsedBy, RunIds
<1>6. /\ new.status = "live" /\ new.key = key /\ new.request = request
      /\ new.owner = campaign.owner /\ new.version = campaign.version
      /\ new.scope = strategy[request.strategy].scope
  OBVIOUS
<1> HIDE DEF new
<1>7. /\ run' \in [RunIds -> Run \cup {NoRun}] /\ run'[r] = new
      /\ \A q \in RunIds : q # r => run'[q] = run[q]
  BY <1>1, <1>2, <1>3
<1> QED
  BY <1>2, <1>4, <1>5, <1>6, <1>7

\* Creating a run keeps the campaign's invariant.
LEMMA CreateRunKeeps ==
  ASSUME CampaignInv, NEW r \in RunIds, NEW key \in Key, NEW request \in Request,
         CreateRun(r, key, request)
  PROVE  CampaignInv'
<1>1. /\ campaign' = campaign /\ strategy' = strategy /\ exhausted' = exhausted
      /\ MayStart(request)
  BY DEF CreateRun
<1>2. Approved' = Approved
  BY <1>1 DEF Approved
<1>3. /\ run' \in [RunIds -> Run \cup {NoRun}]
      /\ run[r] = NoRun /\ run'[r] # NoRun
      /\ \A q \in RunIds : q # r => run'[q] = run[q]
      /\ \A q \in RunIds : run[q] # NoRun => q < r
      /\ run'[r].status = "live" /\ run'[r].request = request
      /\ run'[r].owner = campaign.owner /\ run'[r].version = campaign.version
      /\ run'[r].scope = strategy[request.strategy].scope
  BY NewRun
<1>4. r \notin LiveRuns /\ LiveRuns' = LiveRuns \cup {r}
  BY <1>3 DEF LiveRuns, NoRun
<1>5. CampaignsTypeOK' /\ VersionsExist'
  BY <1>1, <1>3 DEF CampaignInv, CampaignsTypeOK, VersionsExist
<1>6. RunsInOrder'
  <2> SUFFICES ASSUME NEW p \in RunIds, NEW q \in RunIds, p < q, run'[q] # NoRun
               PROVE  run'[p] # NoRun
    BY DEF RunsInOrder
  <2>1. CASE q = r
    BY <2>1, <1>3 DEF CreateRun, RunIds
  <2>2. CASE q # r
    BY <2>2, <1>3 DEF CampaignInv, RunsInOrder
  <2> QED
    BY <2>1, <2>2
<1>7. RunsFitTheirPlan' /\ ActiveCampaignHasStrategy'
  BY <1>1, <1>2, <1>3, <1>4
     DEF CampaignInv, RunsFitTheirPlan, ActiveCampaignHasStrategy, MayStart,
         LiveRuns
<1>8. \A q \in LiveRuns : run[q].scope # strategy[request.strategy].scope
  BY <1>1 DEF CampaignInv, RunsFitTheirPlan, MayStart
<1>9. OneSearchPerScope'
  <2>1. \A p, q \in LiveRuns \cup {r} : run'[p].scope = run'[q].scope => p = q
    BY <1>3, <1>4, <1>8 DEF CampaignInv, OneSearchPerScope, LiveRuns
  <2> QED
    BY <1>1, <1>2, <1>4, <2>1 DEF CampaignInv, OneSearchPerScope
<1> QED
  BY <1>5, <1>6, <1>7, <1>9 DEF CampaignInv

\* The end of a run changes nothing of it but its status.
LEMMA EndedRun ==
  ASSUME CampaignInv, NEW r \in RunIds, EndRun(r)
  PROVE  /\ run' \in [RunIds -> Run \cup {NoRun}]
         /\ \A q \in RunIds :
              /\ run'[q] = NoRun <=> run[q] = NoRun
              /\ run[q] # NoRun =>
                   /\ run'[q].key = run[q].key /\ run'[q].owner = run[q].owner
                   /\ run'[q].request = run[q].request
         /\ run'[r].status = "ended" /\ \A q \in RunIds : q # r => run'[q] = run[q]
<1>1. run \in [RunIds -> Run \cup {NoRun}] /\ run[r].status = "live"
  BY DEF CampaignInv, CampaignsTypeOK, EndRun
<1>2. run[r] \in Run /\ run[r] # NoRun
  BY <1>1 DEF NoRun
<1> DEFINE new == [run[r] EXCEPT !.status = "ended"]
<1>3. /\ new \in Run /\ new # NoRun /\ new.key = run[r].key
      /\ new.owner = run[r].owner /\ new.request = run[r].request
      /\ new.status = "ended"
  BY <1>2 DEF Run, NoRun
<1>4. run' = [run EXCEPT ![r] = new]
  BY DEF EndRun
<1> HIDE DEF new
<1> QED
  BY <1>1, <1>2, <1>3, <1>4

\* The end of a run keeps the campaign's invariant.
LEMMA EndRunKeeps ==
  ASSUME CampaignInv, NEW r \in RunIds, EndRun(r)
  PROVE  CampaignInv'
<1>1. /\ campaign' = campaign /\ strategy' = strategy
      /\ Approved' = Approved /\ LiveRuns' = LiveRuns \ {r}
  BY EndedRun DEF EndRun, Approved, LiveRuns
<1>2. exhausted' \subseteq StrategyIds \X Owners
  <2>1. run[r] \in Run
    BY DEF CampaignInv, CampaignsTypeOK, EndRun, NoRun
  <2>2. <<run[r].request.strategy, run[r].owner>> \in StrategyIds \X Owners
    BY <2>1 DEF Run, Request
  <2> QED
    BY <2>2 DEF EndRun, CampaignInv, CampaignsTypeOK
<1>3. CampaignsTypeOK' /\ VersionsExist' /\ RunsInOrder'
  BY <1>1, <1>2, EndedRun
     DEF CampaignInv, CampaignsTypeOK, VersionsExist, RunsInOrder
<1>4. RunsFitTheirPlan' /\ ActiveCampaignHasStrategy' /\ OneSearchPerScope'
  BY <1>1, EndedRun
     DEF CampaignInv, RunsFitTheirPlan, ActiveCampaignHasStrategy,
         OneSearchPerScope, LiveRuns
<1> QED
  BY <1>3, <1>4 DEF CampaignInv

-----------------------------------------------------------------------------
(* Schedules, runs and the scheduler's job.                                *)

PlanRuns(s) == {r \in RunIds : /\ run[r] # NoRun
                               /\ run[r].key.kind = "plan"
                               /\ run[r].key.schedule = s}

\* The runs of schedule s are for occurrences a period before t at least, or
\* for t itself.
Ahead(s, t) ==
  \A r \in PlanRuns(s) : run[r].key.at + Period <= t \/ run[r].key.at = t

PlanTimes ==
  \A r \in RunIds : run[r] # NoRun /\ run[r].key.kind = "plan" =>
    run[r].key.at \in Nat /\ run[r].key.at <= now

SchedulesAhead ==
  \A s \in Schedules :
    /\ plan[s].status \in {"active", "paused"} => Ahead(s, plan[s].next)
    /\ plan[s].status = "none" => PlanRuns(s) = {}

\* The job of a poll is about an occurrence that has come and has at most one
\* run, unless users have moved the schedule on meanwhile.
JobAhead ==
  job # NoJob /\ job.step # "stop" /\ (job.review => job.step = "skip") =>
    /\ job.planned <= at
    /\ Ahead(job.schedule, job.planned)
    /\ plan[job.schedule].status \in {"active", "paused"} =>
         \/ plan[job.schedule].next = job.planned
         \/ job.planned + Period <= plan[job.schedule].next

JobReviews ==
  job # NoJob =>
    /\ job.request.revision <= campaign.transfers
    /\ job.step = "create" /\ job.review =>
         /\ job.request.batch \in Batches
         /\ job.request.revision = campaign.transfers =>
              \A r \in RunIds :
                run[r] # NoRun /\ run[r].owner = campaign.owner =>
                  run[r].request.batch # job.request.batch

RunInv      == PlanTimes /\ PlansApart /\ ReviewsNotRepeated
ScheduleInv == SchedulesTypeOK /\ SchedulesAhead
JobInv ==
  /\ due \in Batches \cup {NoBatch}
  /\ todo \subseteq Schedules /\ at \in 0..MaxTime /\ at <= now
  /\ job \in Job \cup {NoJob}
  /\ job # NoJob => job.schedule \in todo
  /\ \A s \in todo : plan[s].status # "none"
  /\ JobAhead /\ JobReviews
Counted == acts \in 0..MaxActs /\ faults \in 0..MaxFaults

PlanningInv == CampaignInv /\ RunInv /\ ScheduleInv /\ JobInv /\ Counted

\* Planning starts with the invariant.
LEMMA PlanningInvInit ==
  ASSUME PlanningInit PROVE PlanningInv
<1> USE CampaignConstants, ScheduleConstants, SchedulerConstants DEF PlanningInit
<1>1. CampaignInv
  BY DEF CampaignsInit, CampaignInv, CampaignsTypeOK, VersionsExist, RunsInOrder,
         RunsFitTheirPlan, ActiveCampaignHasStrategy, OneSearchPerScope,
         Approved, LiveRuns, Campaign, Strategy, StrategyIds, RunIds, NoRun
<1>2. \A r \in RunIds : run[r] = NoRun
  BY DEF CampaignsInit
<1>3. RunInv
  BY <1>2 DEF RunInv, PlanTimes, PlansApart, ReviewsNotRepeated
<1>4. Owners # {}
  BY DEF CampaignsInit
<1>5. SchedulesTypeOK
  <2>1. NoPlan("none") \in Plan
    BY <1>4 DEF NoPlan, Plan, StrategyIds
  <2> QED
    BY <2>1 DEF SchedulesInit, SchedulesTypeOK
<1>6. SchedulesAhead
  BY <1>2 DEF SchedulesInit, SchedulesAhead, NoPlan, PlanRuns
<1>7. JobInv /\ Counted
  BY DEF JobInv, Counted, JobAhead, JobReviews, SchedulesInit
<1> QED
  BY <1>1, <1>3, <1>5, <1>6, <1>7 DEF PlanningInv, ScheduleInv

\* The invariant of the campaign depends on the campaign alone.
LEMMA CampaignStays ==
  ASSUME CampaignInv, UNCHANGED campaignVars
  PROVE  CampaignInv'
BY DEF campaignVars, CampaignInv, CampaignsTypeOK, VersionsExist, RunsInOrder,
       RunsFitTheirPlan, ActiveCampaignHasStrategy, OneSearchPerScope,
       Approved, LiveRuns

\* The same runs, some of them perhaps ended.
SameRuns ==
  \A r \in RunIds :
    /\ run'[r] = NoRun <=> run[r] = NoRun
    /\ run[r] # NoRun => /\ run'[r].key = run[r].key
                         /\ run'[r].owner = run[r].owner
                         /\ run'[r].request = run[r].request

\* Time and the end of runs keep what is said about the runs.
LEMMA RunsStay ==
  ASSUME RunInv, SameRuns, now \in Nat, now' \in Nat, now <= now'
  PROVE  /\ RunInv'
         /\ \A s : PlanRuns(s)' = PlanRuns(s)
         /\ \A s, t : Ahead(s, t) => Ahead(s, t)'
<1>1. PlanTimes' /\ PlansApart'
  BY DEF RunInv, SameRuns, PlanTimes, PlansApart
<1>2. ReviewsNotRepeated'
  BY DEF RunInv, SameRuns, ReviewsNotRepeated
<1>3. \A s : PlanRuns(s)' = PlanRuns(s)
  BY DEF SameRuns, PlanRuns
<1>4. \A s, t : Ahead(s, t) => Ahead(s, t)'
  BY <1>3 DEF SameRuns, Ahead, PlanRuns
<1> QED
  BY <1>1, <1>2, <1>3, <1>4 DEF RunInv

-----------------------------------------------------------------------------
(* The scheduler's steps within the process.                               *)

\* The invariant of runs and schedules does not depend on the poll.
LEMMA OnlyPollMoves ==
  ASSUME PlanningInv, UNCHANGED <<campaignVars, scheduleVars>>
  PROVE  /\ CampaignInv' /\ RunInv' /\ ScheduleInv'
         /\ \A s, t : Ahead(s, t) => Ahead(s, t)'
<1>1. CampaignInv' /\ SameRuns
  BY CampaignStays DEF PlanningInv, campaignVars, SameRuns
<1>2. now \in Nat /\ now' = now /\ plan' = plan /\ saved' = saved
  BY ScheduleConstants DEF PlanningInv, ScheduleInv, SchedulesTypeOK, scheduleVars
<1>3. /\ RunInv' /\ \A s : PlanRuns(s)' = PlanRuns(s)
      /\ \A s, t : Ahead(s, t) => Ahead(s, t)'
  BY <1>1, <1>2, RunsStay DEF PlanningInv
<1>4. ScheduleInv'
  BY <1>2, <1>3 DEF PlanningInv, ScheduleInv, SchedulesTypeOK, SchedulesAhead
<1> QED
  BY <1>1, <1>3, <1>4

\* A poll starts with the active schedules.
LEMMA PollKeeps ==
  ASSUME PlanningInv, Poll
  PROVE  JobInv'
BY ScheduleConstants
   DEF PlanningInv, ScheduleInv, SchedulesTypeOK, JobInv, Poll, Quiet, Active,
       JobAhead, JobReviews

\* A schedule is left alone, or left behind.
LEMMA LeaveKeeps ==
  ASSUME JobInv, NEW s \in Schedules, Leave(s), due' = due, now' = now,
         now \in 1..MaxTime,
         \A q \in Schedules : plan'[q].status = "none" => plan[q].status = "none"
  PROVE  JobInv'
BY ScheduleConstants DEF JobInv, Leave, JobAhead, JobReviews

\* Looking at a schedule takes its next time, and the campaign as it is.
LEMMA LookAtKeeps ==
  ASSUME PlanningInv, NEW s \in Schedules, LookAt(s)
  PROVE  JobInv'
<1>1. /\ plan[s] \in Plan /\ campaign \in Campaign /\ s \in todo /\ s \in Active
      /\ due \in Batches \cup {NoBatch}
      /\ UNCHANGED <<campaign, run, plan, now, due, todo, at>>
      /\ \A r \in RunIds : run[r] # NoRun => run[r] \in Run
  BY DEF PlanningInv, CampaignInv, CampaignsTypeOK, ScheduleInv, SchedulesTypeOK,
         JobInv, LookAt, Quiet
<1>2. /\ campaign.transfers \in Nat /\ plan[s].anchor \in StrategyIds
      /\ plan[s].next \in Nat /\ plan[s].status = "active"
  BY <1>1 DEF Campaign, Plan, Active
<1>3. /\ at \in Nat /\ IsDue(s) \in BOOLEAN /\ Ahead(s, plan[s].next)
  BY <1>1, <1>2, ScheduleConstants
     DEF PlanningInv, ScheduleInv, SchedulesAhead, JobInv, IsDue
<1>4. \A t, u : Ahead(t, u) => Ahead(t, u)'
  BY <1>1 DEF Ahead, PlanRuns
\* The job is one for this schedule and its next time.
<1>5. /\ job' \in Job /\ job'.schedule = s /\ job'.planned = plan[s].next
      /\ job'.step # "stop" /\ (job'.review => job'.step = "skip") => IsDue(s)
      /\ job'.request.revision <= campaign.transfers
      /\ job'.step = "create" /\ job'.review =>
           ~Invalid(s) /\ job'.request.batch = due /\ ReviewDue(s)
  <2>1. CASE /\ Invalid(s)
             /\ \E a \in StrategyIds :
                  /\ a = plan[s].anchor
                  /\ job' = [step |-> "stop", schedule |-> s, review |-> ~IsDue(s),
                             planned |-> plan[s].next, run |-> 0,
                             failure |-> "other",
                             request |-> [strategy |-> a, revision |-> 0,
                                          batch |-> NoBatch]]
    BY <2>1, <1>1, <1>2, <1>3 DEF Job, Request
  <2>2. CASE /\ ~Invalid(s) /\ Selected(s) = {} /\ IsDue(s)
             /\ job' = [step |-> "skip", schedule |-> s, review |-> FALSE,
                        planned |-> plan[s].next, run |-> 0, failure |-> "other",
                        request |-> [strategy |-> plan[s].anchor, revision |-> 0,
                                     batch |-> NoBatch]]
    BY <2>2, <1>1, <1>2, <1>3 DEF Job, Request
  <2>3. CASE /\ ~Invalid(s)
             /\ \E a \in Selected(s) :
                  job' = [step |-> "create", schedule |-> s, review |-> ~IsDue(s),
                          planned |-> plan[s].next, run |-> 0, failure |-> "",
                          request |-> [strategy |-> a,
                                       revision |-> campaign.transfers,
                                       batch |-> due]]
    <3>1. Selected(s) \subseteq StrategyIds
      BY DEF Selected, Usable, Eligible
    <3>2. IsDue(s) \/ ReviewDue(s)
      BY DEF LookAt
    <3>3. PICK a \in StrategyIds :
            job' = [step |-> "create", schedule |-> s, review |-> ~IsDue(s),
                    planned |-> plan[s].next, run |-> 0, failure |-> "",
                    request |-> [strategy |-> a, revision |-> campaign.transfers,
                                 batch |-> due]]
      BY <2>3, <3>1
    <3>4. /\ job'.step = "create" /\ job'.schedule = s
          /\ job'.review <=> ~IsDue(s)
          /\ job'.planned = plan[s].next
          /\ job'.request.revision = campaign.transfers
          /\ job'.request.batch = due
      BY <3>3
    <3>5. job' \in Job
      BY <3>3, <1>1, <1>2, <1>3 DEF Job, Request
    <3>6. job'.request.revision <= campaign.transfers
      BY <3>4, <1>2
    <3>7. ~Invalid(s)
      BY <2>3
    <3>8. job'.review \in BOOLEAN
      BY <3>5 DEF Job
    <3> QED
      BY <3>2, <3>4, <3>5, <3>6, <3>7, <3>8, Zenon
  <2> QED
    BY <2>1, <2>2, <2>3 DEF LookAt
<1>6. JobAhead'
  BY <1>1, <1>2, <1>3, <1>4, <1>5 DEF JobAhead, IsDue
<1>7. JobReviews'
  BY <1>1, <1>5 DEF JobReviews, ReviewDue, ReviewStarted, Invalid
<1> QED
  BY <1>1, <1>5, <1>6, <1>7 DEF PlanningInv, JobInv

\* A job that does something is a job.
LEMMA AtWork ==
  ASSUME JobInv, job.step # "none"
  PROVE  job \in Job /\ job # NoJob
BY DEF JobInv, NoJob

\* An attempt that leaves no new run behind is to be recorded.
LEMMA RecordedKeeps ==
  ASSUME JobInv, job.step = "create",
         NEW r \in RunIds \cup {0}, NEW failure \in {"", "review", "other"},
         Recorded(r, failure),
         UNCHANGED <<campaign, run, plan, now, due, todo, at>>
  PROVE  JobInv'
<1>1. job \in Job /\ job # NoJob
  BY AtWork
<1>2. job' = [job EXCEPT !.step = "record", !.run = r, !.failure = failure]
  BY DEF Recorded
<1>3. /\ job' \in Job /\ job'.schedule = job.schedule /\ job'.step = "record"
      /\ job'.review = job.review /\ job'.planned = job.planned
      /\ job'.request = job.request
  BY <1>1, <1>2 DEF Job
<1>4. \A s, t : Ahead(s, t) => Ahead(s, t)'
  BY DEF Ahead, PlanRuns
<1>5. JobAhead'
  BY <1>1, <1>3, <1>4 DEF JobInv, JobAhead
<1>6. JobReviews'
  BY <1>1, <1>3 DEF JobInv, JobReviews
<1> QED
  BY <1>1, <1>3, <1>5, <1>6 DEF JobInv

-----------------------------------------------------------------------------
(* New runs.                                                               *)

\* The key of the scheduler's run says what its job says.
LEMMA JobKeyType ==
  ASSUME PlanningInv, job.step = "create"
  PROVE  /\ job \in Job /\ job # NoJob /\ job.request \in Request
         /\ JobKey \in Key /\ JobKey.schedule = job.schedule
         /\ JobKey.kind = IF job.review THEN "review" ELSE "plan"
         /\ ~job.review => JobKey.at = job.planned
<1>1. job \in Job /\ job # NoJob
  BY AtWork DEF PlanningInv
<1>2. job.request \in Request /\ job.schedule \in Schedules /\ job.planned \in Nat
  BY <1>1 DEF Job
<1>3. job.review => job.request.batch \in Batches
  BY <1>1 DEF PlanningInv, JobInv, JobReviews
<1>4. CASE job.review
  BY <1>1, <1>2, <1>3, <1>4 DEF JobKey, Key
<1>5. CASE ~job.review
  BY <1>1, <1>2, <1>5 DEF JobKey, Key
<1> QED
  BY <1>4, <1>5

\* A new run keeps what is said about the runs if its key comes in time.
LEMMA NewRunFits ==
  ASSUME PlanningInv, NEW r \in RunIds, NEW key \in Key, NEW request \in Request,
         CreateRun(r, key, request), now' = now,
         key.kind = "plan" =>
           key.at \in Nat /\ key.at <= now /\ Ahead(key.schedule, key.at),
         key.kind = "review" =>
           \A q \in RunIds :
             run[q] # NoRun /\ run[q].owner = campaign.owner =>
               run[q].request.batch # request.batch
  PROVE  RunInv'
<1>1. CampaignInv /\ RunInv /\ now \in Nat
  BY ScheduleConstants DEF PlanningInv, ScheduleInv, SchedulesTypeOK
<1>2. /\ run[r] = NoRun /\ run'[r] # NoRun /\ run'[r].key = key
      /\ run'[r].owner = campaign.owner /\ run'[r].request = request
      /\ \A q \in RunIds : q # r => run'[q] = run[q]
      /\ \A q \in RunIds : run[q] # NoRun => q < r /\ run[q].key # key
  BY <1>1, NewRun
<1>3. \A q \in RunIds : run[q] # NoRun => run[q].key \in Key
  BY <1>1 DEF CampaignInv, CampaignsTypeOK, Run
<1>4. PlanTimes'
  BY <1>1, <1>2 DEF RunInv, PlanTimes
<1>5. ReviewsNotRepeated'
  <2> SUFFICES ASSUME NEW p \in RunIds, NEW q \in RunIds, p < q,
                      run'[p] # NoRun, run'[q] # NoRun,
                      run'[q].key.kind = "review", run'[p].owner = run'[q].owner
               PROVE  run'[p].request.batch # run'[q].request.batch
    BY DEF ReviewsNotRepeated
  <2>1. p # r
    BY <1>2 DEF RunIds
  <2>2. CASE q = r
    BY <1>2, <2>1, <2>2
  <2>3. CASE q # r
    BY <1>1, <1>2, <2>1, <2>3 DEF RunInv, ReviewsNotRepeated
  <2> QED
    BY <2>2, <2>3
<1>6. PlansApart'
  <2> SUFFICES ASSUME NEW p \in RunIds, NEW q \in RunIds,
                      run'[p] # NoRun, run'[q] # NoRun,
                      run'[p].key.kind = "plan", run'[q].key.kind = "plan",
                      run'[p].key.schedule = run'[q].key.schedule
               PROVE  /\ run'[p].key.at <= now
                      /\ p # q => \/ run'[p].key.at + Period <= run'[q].key.at
                                  \/ run'[q].key.at + Period <= run'[p].key.at
    BY DEF PlansApart
  <2>1. run'[p].key.at <= now
    BY <1>4 DEF PlanTimes
  <2>2. \A u \in RunIds : u # r /\ run[u] # NoRun /\ run[u].key.kind = "plan"
                            /\ key.kind = "plan" /\ run[u].key.schedule = key.schedule
                          => run[u].key.at + Period <= key.at
    <3> SUFFICES ASSUME NEW u \in RunIds, u # r, run[u] # NoRun,
                        run[u].key.kind = "plan", key.kind = "plan",
                        run[u].key.schedule = key.schedule
                 PROVE  run[u].key.at + Period <= key.at
      OBVIOUS
    <3>1. run[u].key.at # key.at
      BY <1>2, <1>3 DEF Key
    <3> QED
      BY <3>1 DEF Ahead, PlanRuns
  <2>3. CASE p # r /\ q # r
    BY <1>1, <1>2, <2>1, <2>3 DEF RunInv, PlansApart
  <2>4. CASE p = r \/ q = r
    BY <1>2, <2>1, <2>2, <2>4
  <2> QED
    BY <2>3, <2>4
<1> QED
  BY <1>4, <1>5, <1>6 DEF RunInv

\* It comes before later times of its schedule.
LEMMA NewRunAhead ==
  ASSUME CampaignInv, NEW r \in RunIds, NEW key \in Key, NEW request \in Request,
         CreateRun(r, key, request), NEW s, NEW t, Ahead(s, t),
         key.kind = "plan" /\ key.schedule = s =>
           key.at + Period <= t \/ key.at = t
  PROVE  Ahead(s, t)'
<1>1. /\ run'[r].key = key /\ \A q \in RunIds : q # r => run'[q] = run[q]
  BY NewRun
<1> QED
  BY <1>1 DEF Ahead, PlanRuns

\* The scheduler creates the run of its job.
LEMMA CreatesKeeps ==
  ASSUME PlanningInv, Creates
  PROVE  PlanningInv'
<1>1. /\ job.step = "create" /\ CampaignInv /\ JobInv
      /\ UNCHANGED <<plan, saved, now, due, todo, at, acts, faults>>
  BY DEF Creates, scheduleVars, PlanningInv
<1>2. /\ job \in Job /\ job # NoJob /\ job.request \in Request
      /\ JobKey \in Key /\ JobKey.schedule = job.schedule
      /\ JobKey.kind = IF job.review THEN "review" ELSE "plan"
      /\ ~job.review => JobKey.at = job.planned
  BY <1>1, JobKeyType
<1>3. PICK r \in RunIds : CreateRun(r, JobKey, job.request) /\ Recorded(r, "")
  BY DEF Creates
<1>4. /\ job.schedule \in Schedules /\ job.planned \in Nat /\ job.review \in BOOLEAN
      /\ job.schedule \in todo /\ plan[job.schedule].status # "none"
      /\ now \in Nat /\ at \in Nat /\ at <= now
      /\ plan \in [Schedules -> Plan]
  <2>1. /\ job.schedule \in todo /\ at \in 0..MaxTime /\ at <= now
        /\ \A s \in todo : plan[s].status # "none"
    BY <1>1, <1>2 DEF JobInv
  <2>2. plan \in [Schedules -> Plan] /\ now \in 1..MaxTime
    BY DEF PlanningInv, ScheduleInv, SchedulesTypeOK
  <2>3. job.schedule \in Schedules /\ job.planned \in Nat /\ job.review \in BOOLEAN
    BY <1>2 DEF Job
  <2> QED
    BY <2>1, <2>2, <2>3, ScheduleConstants
<1>5. ~job.review =>
        /\ job.planned <= at /\ Ahead(job.schedule, job.planned)
        /\ plan[job.schedule].status \in {"active", "paused"} =>
             \/ plan[job.schedule].next = job.planned
             \/ job.planned + Period <= plan[job.schedule].next
  BY <1>1, <1>2 DEF JobInv, JobAhead
<1>6. job.review =>
        \A q \in RunIds : run[q] # NoRun /\ run[q].owner = campaign.owner =>
          run[q].request.batch # job.request.batch
  BY <1>1, <1>2, <1>3 DEF JobInv, JobReviews, CreateRun, MayStart
<1>7. CampaignInv'
  BY <1>1, <1>2, <1>3, CreateRunKeeps
<1>8. RunInv'
  <2>1. JobKey.kind = "plan" =>
          JobKey.at \in Nat /\ JobKey.at <= now /\ Ahead(JobKey.schedule, JobKey.at)
    BY <1>2, <1>4, <1>5
  <2>2. JobKey.kind = "review" =>
          \A q \in RunIds : run[q] # NoRun /\ run[q].owner = campaign.owner =>
            run[q].request.batch # job.request.batch
    BY <1>2, <1>6
  <2> QED
    BY <1>1, <1>2, <1>3, <2>1, <2>2, NewRunFits
<1>9. \A s, t : /\ Ahead(s, t)
                /\ ~job.review /\ job.schedule = s =>
                     job.planned + Period <= t \/ job.planned = t
                => Ahead(s, t)'
  BY <1>1, <1>2, <1>3, NewRunAhead
<1>10. SchedulesAhead'
  <2> SUFFICES ASSUME NEW s \in Schedules
               PROVE  /\ plan[s].status \in {"active", "paused"} =>
                           Ahead(s, plan[s].next)'
                      /\ plan[s].status = "none" => PlanRuns(s)' = {}
    BY <1>1 DEF SchedulesAhead
  <2>1. SchedulesAhead
    BY DEF PlanningInv, ScheduleInv
  <2>2. CASE plan[s].status \in {"active", "paused"}
    BY <1>1, <1>2, <1>5, <1>9, <2>1, <2>2 DEF SchedulesAhead
  <2>3. CASE plan[s].status = "none"
    <3>1. /\ run'[r].key = JobKey /\ \A q \in RunIds : q # r => run'[q] = run[q]
      BY <1>1, <1>2, <1>3, NewRun
    <3>2. JobKey.schedule # s
      BY <1>2, <1>4, <2>3
    <3>3. PlanRuns(s) = {}
      BY <2>1, <2>3 DEF SchedulesAhead
    <3> QED
      BY <2>3, <3>1, <3>2, <3>3 DEF PlanRuns
  <2> QED
    BY <2>2, <2>3
<1>11. ScheduleInv'
  BY <1>1, <1>10 DEF PlanningInv, ScheduleInv, SchedulesTypeOK
<1>12. /\ job' \in Job /\ job'.schedule = job.schedule /\ job'.step = "record"
       /\ job'.review = job.review /\ job'.planned = job.planned
       /\ job'.request = job.request /\ job' # NoJob
  <2>1. job' = [job EXCEPT !.step = "record", !.run = r, !.failure = ""]
    BY <1>3 DEF Recorded
  <2> QED
    BY <1>2, <2>1 DEF Job, NoJob
<1>13. JobAhead'
  BY <1>1, <1>4, <1>5, <1>9, <1>12 DEF JobAhead
<1>14. JobReviews'
  BY <1>1, <1>2, <1>3, <1>12 DEF JobInv, JobReviews, CreateRun
<1>15. JobInv' /\ Counted'
  BY <1>1, <1>4, <1>12, <1>13, <1>14 DEF JobInv, PlanningInv, Counted
<1> QED
  BY <1>7, <1>8, <1>11, <1>15 DEF PlanningInv

\* A user creates a run.
LEMMA UserRunsKeeps ==
  ASSUME PlanningInv, UserRuns, UNCHANGED <<due, pollVars>>
  PROVE  CampaignInv' /\ RunInv' /\ ScheduleInv' /\ JobInv'
<1>1. /\ CampaignInv /\ JobInv /\ ScheduleInv
      /\ UNCHANGED <<plan, saved, now, due, todo, at, job>>
  BY DEF UserRuns, scheduleVars, pollVars, PlanningInv
<1>2. PICK r \in RunIds, a \in Approved :
        CreateRun(r, [kind |-> "user", at |-> r,
                      schedule |-> CHOOSE s \in Schedules : TRUE],
                  [strategy |-> a, revision |-> campaign.transfers,
                   batch |-> NoBatch])
  BY DEF UserRuns
<1> DEFINE key == [kind |-> "user", at |-> r,
                   schedule |-> CHOOSE s \in Schedules : TRUE]
           request == [strategy |-> a, revision |-> campaign.transfers,
                       batch |-> NoBatch]
<1>3. key \in Key /\ key.kind = "user"
  BY CampaignConstants DEF Key, RunIds
<1>4. request \in Request /\ request.batch = NoBatch
  BY <1>1 DEF Request, Approved, CampaignInv, CampaignsTypeOK, Campaign
<1>5. CreateRun(r, key, request)
  BY <1>2
<1> HIDE DEF key, request
<1>6. CampaignInv'
  BY <1>1, <1>3, <1>4, <1>5, CreateRunKeeps
<1>7. RunInv'
  BY <1>1, <1>3, <1>4, <1>5, NewRunFits
<1>8. \A s, t : Ahead(s, t) => Ahead(s, t)'
  BY <1>1, <1>3, <1>4, <1>5, NewRunAhead
<1>9. /\ run'[r].key = key /\ run'[r].request = request
      /\ \A q \in RunIds : q # r => run'[q] = run[q]
  BY <1>1, <1>3, <1>4, <1>5, NewRun
<1>10. ScheduleInv'
  <2>1. \A s : PlanRuns(s)' = PlanRuns(s)
    <3>1. run[r] = NoRun
      BY <1>5 DEF CreateRun
    <3> QED
      BY <3>1, <1>3, <1>9 DEF PlanRuns
  <2> QED
    BY <1>1, <1>8, <2>1 DEF ScheduleInv, SchedulesTypeOK, SchedulesAhead
<1>11. JobReviews'
  BY <1>1, <1>4, <1>5, <1>9, CampaignConstants
     DEF JobInv, JobReviews, CreateRun
<1>12. JobAhead'
  BY <1>1, <1>8 DEF JobInv, JobAhead
<1> QED
  BY <1>1, <1>6, <1>7, <1>10, <1>11, <1>12 DEF JobInv

-----------------------------------------------------------------------------
(* What happens around the scheduler.                                      *)

\* Time passes, runs end, prospects become due.
LEMMA WorldKeeps ==
  ASSUME PlanningInv, WorldStep \/ UserReviews
  PROVE  CampaignInv' /\ RunInv' /\ ScheduleInv' /\ JobInv'
<1>1. /\ CampaignInv /\ RunInv /\ JobInv /\ ScheduleInv
      /\ campaign' = campaign /\ strategy' = strategy
      /\ UNCHANGED <<plan, saved, todo, at, job>>
      /\ due' \in Batches \cup {NoBatch}
  BY DEF PlanningInv, WorldStep, UserReviews, Clock, EndRun, campaignVars,
         scheduleVars, pollVars, JobInv
<1>2. now \in 1..MaxTime /\ now' \in 1..MaxTime /\ now <= now'
  BY ScheduleConstants
     DEF PlanningInv, ScheduleInv, SchedulesTypeOK, WorldStep, UserReviews, Clock,
         scheduleVars
<1>3. CampaignInv' /\ SameRuns
  <2>1. CASE \E r \in RunIds : EndRun(r)
    BY <1>1, <2>1, EndRunKeeps, EndedRun DEF SameRuns
  <2>2. CASE UNCHANGED campaignVars
    BY <1>1, <2>2, CampaignStays DEF SameRuns, campaignVars
  <2> QED
    BY <2>1, <2>2 DEF WorldStep, UserReviews, Clock
<1>4. /\ RunInv' /\ \A s : PlanRuns(s)' = PlanRuns(s)
      /\ \A s, t : Ahead(s, t) => Ahead(s, t)'
  BY <1>1, <1>2, <1>3, RunsStay, ScheduleConstants
<1>5. ScheduleInv'
  BY <1>1, <1>2, <1>4 DEF ScheduleInv, SchedulesTypeOK, SchedulesAhead
<1>6. JobAhead'
  BY <1>1, <1>4 DEF JobInv, JobAhead
<1>7. JobReviews'
  BY <1>1, <1>3 DEF JobInv, JobReviews, SameRuns
<1>8. JobInv'
  BY <1>1, <1>2, <1>6, <1>7, ScheduleConstants DEF JobInv
<1> QED
  BY <1>3, <1>4, <1>5, <1>8

\* Users change the campaign.
LEMMA CampaignCommitsKeeps ==
  ASSUME PlanningInv, CampaignCommits, UNCHANGED <<due, pollVars>>
  PROVE  CampaignInv' /\ RunInv' /\ ScheduleInv' /\ JobInv'
<1>1. /\ CampaignInv /\ RunInv /\ JobInv /\ ScheduleInv /\ CampaignStep
      /\ UNCHANGED <<plan, saved, now, due, todo, at, job>>
  BY DEF PlanningInv, CampaignCommits, scheduleVars, pollVars
<1>2. CampaignInv' /\ CampaignKept /\ run' = run
  BY <1>1, CampaignStepKeeps DEF CampaignKept
<1>3. /\ RunInv' /\ \A s : PlanRuns(s)' = PlanRuns(s)
      /\ \A s, t : Ahead(s, t) => Ahead(s, t)'
  BY <1>1, <1>2, RunsStay, ScheduleConstants
     DEF SameRuns, ScheduleInv, SchedulesTypeOK
<1>4. ScheduleInv' /\ JobAhead'
  BY <1>1, <1>3
     DEF ScheduleInv, SchedulesTypeOK, SchedulesAhead, JobInv, JobAhead
<1>5. JobReviews'
  <2> SUFFICES ASSUME job # NoJob
               PROVE  JobReviews'
    BY <1>1 DEF JobReviews
  <2>1. /\ campaign.transfers \in Nat /\ campaign'.transfers \in Nat
        /\ job.request.revision \in Nat
    BY <1>1, <1>2
       DEF CampaignInv, CampaignsTypeOK, Campaign, JobInv, Job, Request
  <2>2. /\ campaign'.transfers >= campaign.transfers
        /\ campaign'.transfers = campaign.transfers =>
             campaign'.owner = campaign.owner
    BY <1>2 DEF CampaignKept
  <2> QED
    BY <1>1, <1>2, <2>1, <2>2 DEF JobInv, JobReviews
<1>6. JobInv'
  BY <1>1, <1>4, <1>5 DEF JobInv
<1> QED
  BY <1>2, <1>3, <1>4, <1>6

-----------------------------------------------------------------------------
(* Schedules.                                                              *)

Current(p) == p.status \in {"active", "paused"}

\* A plan with other fields is a plan: what a resume writes ...
LEMMA ResumedPlan ==
  \A p \in Plan, n \in Nat :
    LET q == [p EXCEPT !.status = "active", !.next = n, !.failure = ""]
    IN  q \in Plan /\ q.status = "active" /\ q.next = n
BY DEF Plan

\* ... and what stops a schedule.
LEMMA StoppedPlan ==
  \A p \in Plan :
    LET q == [p EXCEPT !.status = "paused", !.failure = "other"]
    IN  q \in Plan /\ q.status = "paused" /\ q.next = p.next
BY DEF Plan

\* A transaction that commits leaves memory and rows alike.
LEMMA CommitsType ==
  ASSUME SchedulesTypeOK, NEW about, Commits(about), plan' \in [Schedules -> Plan]
  PROVE  SchedulesTypeOK' /\ now' = now
BY DEF SchedulesTypeOK, Commits

\* Schedules may move on as long as they stay ahead of their runs.
LEMMA SchedulesMove ==
  ASSUME PlanningInv, UNCHANGED campaignVars, now' = now, SchedulesTypeOK',
         \A s \in Schedules :
           /\ plan'[s].status = "none" => plan[s].status = "none"
           /\ Current(plan'[s]) => Ahead(s, plan'[s].next)
  PROVE  /\ CampaignInv' /\ RunInv' /\ ScheduleInv'
         /\ \A s, t : Ahead(s, t) => Ahead(s, t)'
<1>1. CampaignInv' /\ SameRuns
  BY CampaignStays DEF PlanningInv, campaignVars, SameRuns
<1>2. now \in Nat
  BY ScheduleConstants DEF PlanningInv, ScheduleInv, SchedulesTypeOK
<1>3. /\ RunInv' /\ \A s : PlanRuns(s)' = PlanRuns(s)
      /\ \A s, t : Ahead(s, t) => Ahead(s, t)'
  BY <1>1, <1>2, RunsStay DEF PlanningInv
<1>4. SchedulesAhead'
  BY <1>3 DEF PlanningInv, ScheduleInv, SchedulesAhead, Current
<1> QED
  BY <1>1, <1>3, <1>4 DEF ScheduleInv

\* A step of a user keeps a schedule's time or counts a period from now.
LEMMA UserMovesSchedules ==
  ASSUME PlanningInv, UNCHANGED campaignVars, now' = now, SchedulesTypeOK',
         UNCHANGED <<due, pollVars>>,
         \A s \in Schedules :
           /\ plan'[s].status = "none" => plan[s].status = "none"
           /\ Current(plan'[s]) =>
                \/ Current(plan[s]) /\ plan'[s].next = plan[s].next
                \/ plan'[s].next = now + Period
  PROVE  CampaignInv' /\ RunInv' /\ ScheduleInv' /\ JobInv'
<1>1. /\ RunInv /\ JobInv /\ ScheduleInv /\ now \in Nat
      /\ UNCHANGED <<campaign, run, due, todo, at, job>>
  BY ScheduleConstants
     DEF PlanningInv, ScheduleInv, SchedulesTypeOK, campaignVars, pollVars
<1>2. \A s \in Schedules : Ahead(s, now + Period)
  BY <1>1, ScheduleConstants DEF RunInv, PlanTimes, Ahead, PlanRuns
<1>3. \A s \in Schedules : Current(plan'[s]) => Ahead(s, plan'[s].next)
  BY <1>1, <1>2 DEF ScheduleInv, SchedulesAhead, Current
<1>4. /\ CampaignInv' /\ RunInv' /\ ScheduleInv'
      /\ \A s, t : Ahead(s, t) => Ahead(s, t)'
  BY <1>3, SchedulesMove
<1>5. JobAhead'
  <2> SUFFICES ASSUME job # NoJob, job.step # "stop",
                      job.review => job.step = "skip"
               PROVE  /\ job.planned <= at
                      /\ Ahead(job.schedule, job.planned)'
                      /\ Current(plan'[job.schedule]) =>
                           \/ plan'[job.schedule].next = job.planned
                           \/ job.planned + Period <= plan'[job.schedule].next
    BY <1>1 DEF JobAhead, Current
  <2>1. /\ job.planned \in Nat /\ job.schedule \in Schedules
        /\ at \in Nat /\ at <= now
    <3>1. job \in Job /\ at \in 0..MaxTime /\ at <= now
      BY <1>1 DEF JobInv
    <3>2. job.planned \in Nat /\ job.schedule \in Schedules
      BY <3>1 DEF Job
    <3>3. at \in Nat
      BY <3>1, ScheduleConstants
    <3> QED
      BY <3>1, <3>2, <3>3
  <2>2. /\ job.planned <= at /\ Ahead(job.schedule, job.planned)
        /\ Current(plan[job.schedule]) =>
             \/ plan[job.schedule].next = job.planned
             \/ job.planned + Period <= plan[job.schedule].next
    BY <1>1 DEF JobInv, JobAhead, Current
  <2> QED
    BY <1>1, <1>4, <2>1, <2>2, ScheduleConstants
<1>6. JobReviews'
  BY <1>1 DEF JobInv, JobReviews
<1> QED
  BY <1>1, <1>4, <1>5, <1>6 DEF JobInv

\* What users do to schedules.
LEMMA UserSchedulesKeeps ==
  ASSUME PlanningInv, UNCHANGED <<due, pollVars>>, NEW s \in Schedules,
         \/ CreateSchedule(s) \/ PauseSchedule(s) \/ DeleteSchedule(s)
         \/ ResumeSchedule(s) \/ RefusedResume(s)
  PROVE  CampaignInv' /\ RunInv' /\ ScheduleInv' /\ JobInv'
<1>1. /\ SchedulesTypeOK /\ CampaignInv /\ plan \in [Schedules -> Plan]
      /\ plan[s] \in Plan /\ now \in Nat
  BY ScheduleConstants DEF PlanningInv, ScheduleInv, SchedulesTypeOK
<1>2. \A p \in Plan : p.next \in Nat
  BY DEF Plan
<1>3. CASE CreateSchedule(s)
  <2>1. PICK a \in Approved, cost \in BOOLEAN :
          plan' = [plan EXCEPT ![s] =
            [status |-> "active", owner |-> campaign.owner,
             version |-> campaign.version, anchor |-> a, cost |-> cost,
             next |-> NextOccurrence(now), lastAt |-> 0, lastRun |-> 0,
             failure |-> ""]]
    BY <1>3 DEF CreateSchedule
  <2> DEFINE new == [status |-> "active", owner |-> campaign.owner,
                     version |-> campaign.version, anchor |-> a, cost |-> cost,
                     next |-> NextOccurrence(now), lastAt |-> 0, lastRun |-> 0,
                     failure |-> ""]
  <2>2. /\ new \in Plan /\ new.status = "active" /\ new.next = now + Period
    <3>1. campaign.owner \in Owners /\ campaign.version \in Nat
      BY <1>1 DEF CampaignInv, CampaignsTypeOK, Campaign
    <3>2. a \in StrategyIds
      BY DEF Approved
    <3>3. NextOccurrence(now) \in Nat /\ NextOccurrence(now) = now + Period
      BY <1>1, ScheduleConstants DEF NextOccurrence
    <3> QED
      BY <3>1, <3>2, <3>3 DEF Plan
  <2> HIDE DEF new
  <2>3. /\ plan' = [plan EXCEPT ![s] = new] /\ plan' \in [Schedules -> Plan]
        /\ plan'[s] = new /\ \A q \in Schedules : q # s => plan'[q] = plan[q]
    BY <1>1, <2>1, <2>2 DEF new
  <2>4. SchedulesTypeOK' /\ now' = now /\ UNCHANGED campaignVars
    BY <1>1, <1>3, <2>3, CommitsType DEF CreateSchedule
  <2> QED
    BY <2>2, <2>3, <2>4, UserMovesSchedules DEF Current
<1>4. CASE PauseSchedule(s)
  <2> DEFINE new == [plan[s] EXCEPT !.status = "paused"]
  <2>1. new \in Plan /\ new.status = "paused" /\ new.next = plan[s].next
    BY <1>1 DEF Plan
  <2>2. plan' = [plan EXCEPT ![s] = new]
    BY <1>4 DEF PauseSchedule
  <2> HIDE DEF new
  <2>3. /\ plan' \in [Schedules -> Plan]
        /\ plan'[s] = new /\ \A q \in Schedules : q # s => plan'[q] = plan[q]
    BY <1>1, <2>1, <2>2
  <2>4. SchedulesTypeOK' /\ now' = now /\ UNCHANGED campaignVars
    BY <1>1, <1>4, <2>3, CommitsType DEF PauseSchedule
  <2> QED
    BY <1>4, <2>1, <2>3, <2>4, UserMovesSchedules DEF Current, PauseSchedule
<1>5. CASE DeleteSchedule(s)
  <2>1. NoPlan("deleted") \in Plan /\ NoPlan("deleted").status = "deleted"
    <3>1. Owners # {} /\ 1 \in StrategyIds
      BY <1>1, CampaignConstants
         DEF StrategyIds, CampaignInv, CampaignsTypeOK, Campaign
    <3> QED
      BY <3>1 DEF Plan, NoPlan
  <2>2. /\ plan' \in [Schedules -> Plan] /\ plan'[s] = NoPlan("deleted")
        /\ \A q \in Schedules : q # s => plan'[q] = plan[q]
    BY <1>1, <1>5, <2>1 DEF DeleteSchedule
  <2>3. SchedulesTypeOK' /\ now' = now /\ UNCHANGED campaignVars
    BY <1>1, <1>5, <2>2, CommitsType DEF DeleteSchedule
  <2> QED
    BY <2>1, <2>2, <2>3, UserMovesSchedules DEF Current
<1>6. CASE ResumeSchedule(s)
  <2> DEFINE new == [plan[s] EXCEPT !.status = "active",
                                    !.next = NextOccurrence(now), !.failure = ""]
  <2>1. new \in Plan /\ new.status = "active" /\ new.next = now + Period
    <3>1. NextOccurrence(now) \in Nat /\ NextOccurrence(now) = now + Period
      BY <1>1, ScheduleConstants DEF NextOccurrence
    <3>2. plan[s] \in Plan
      BY <1>1
    <3>3. new \in Plan /\ new.status = "active" /\ new.next = NextOccurrence(now)
      BY <3>1, <3>2, ResumedPlan
    <3> QED
      BY <3>1, <3>3
  <2>2. plan' = [plan EXCEPT ![s] = new]
    BY <1>1, <1>6 DEF ResumeSchedule
  <2> HIDE DEF new
  <2>3. /\ plan' \in [Schedules -> Plan]
        /\ plan'[s] = new /\ \A q \in Schedules : q # s => plan'[q] = plan[q]
    BY <1>1, <2>1, <2>2
  <2>4. SchedulesTypeOK' /\ now' = now /\ UNCHANGED campaignVars
    BY <1>1, <1>6, <2>3, CommitsType DEF ResumeSchedule
  <2> QED
    BY <2>1, <2>3, <2>4, UserMovesSchedules DEF Current
<1>7. CASE RefusedResume(s)
  <2> DEFINE new == [plan[s] EXCEPT !.status = "active"]
  <2>1. new \in Plan /\ new.status = "active" /\ new.next = plan[s].next
    BY <1>1 DEF Plan
  <2>2. /\ plan' = [plan EXCEPT ![s] = new] /\ plan[s].status = "paused"
        /\ saved' = saved /\ now' = now /\ UNCHANGED campaignVars
    BY <1>7 DEF RefusedResume
  <2>3. plan[s] = saved[s]
    <3>1. plan[s] # saved[s] => plan[s] = [saved[s] EXCEPT !.status = "active"]
      BY <1>1 DEF SchedulesTypeOK
    <3>2. saved[s] \in Plan
      BY <1>1 DEF SchedulesTypeOK
    <3>3. [saved[s] EXCEPT !.status = "active"].status = "active"
      BY <3>2 DEF Plan
    <3> QED
      BY <2>2, <3>1, <3>3
  <2>4. new = [saved[s] EXCEPT !.status = "active"] /\ saved[s].status = "paused"
    BY <2>2, <2>3
  <2> HIDE DEF new
  <2>5. /\ plan' \in [Schedules -> Plan]
        /\ plan'[s] = new /\ \A q \in Schedules : q # s => plan'[q] = plan[q]
    BY <1>1, <2>1, <2>2
  <2>6. SchedulesTypeOK'
    BY <1>1, <2>2, <2>4, <2>5 DEF SchedulesTypeOK
  <2> QED
    BY <2>1, <2>2, <2>5, <2>6, UserMovesSchedules DEF Current
<1> QED
  BY <1>3, <1>4, <1>5, <1>6, <1>7

-----------------------------------------------------------------------------
(* The second transaction of the scheduler, and its restarts.              *)

\* The schedule of a job that has something to record is still the job's, or
\* has been paused, resumed or deleted meanwhile.
LEMMA JobOfPoll ==
  ASSUME PlanningInv, job.step \in {"record", "skip", "stop"}
  PROVE  /\ job \in Job /\ job # NoJob /\ job.schedule \in Schedules
         /\ job.planned \in Nat /\ at \in Nat /\ at <= now
         /\ job.run \in RunIds \cup {0} /\ job.failure \in {"", "review", "other"}
         /\ plan[job.schedule] \in Plan /\ plan[job.schedule].status # "none"
<1>1. job \in Job /\ job # NoJob
  BY AtWork DEF PlanningInv
<1>2. /\ job.schedule \in Schedules /\ job.planned \in Nat
      /\ job.run \in RunIds \cup {0} /\ job.failure \in {"", "review", "other"}
  BY <1>1 DEF Job
<1>3. job.schedule \in todo /\ at \in 0..MaxTime /\ at <= now
      /\ \A s \in todo : plan[s].status # "none"
  BY <1>1 DEF PlanningInv, JobInv
<1>4. plan \in [Schedules -> Plan]
  BY DEF PlanningInv, ScheduleInv, SchedulesTypeOK
<1>5. at \in Nat
  BY <1>3, ScheduleConstants
<1>6. plan[job.schedule] \in Plan /\ plan[job.schedule].status # "none"
  BY <1>2, <1>3, <1>4
<1> QED
  BY <1>1, <1>2, <1>3, <1>5, <1>6

\* An update leaves the schedule ahead of its runs.
LEMMA UpdatedAhead ==
  ASSUME PlanningInv, job.step \in {"record", "skip", "stop"},
         plan[job.schedule].status # "deleted"
  PROVE  /\ Updated(plan[job.schedule]) \in Plan
         /\ Updated(plan[job.schedule]).status # "none"
         /\ Ahead(job.schedule, Updated(plan[job.schedule]).next)
<1> DEFINE s == job.schedule
           p == plan[s]
<1>1. /\ job \in Job /\ job # NoJob /\ s \in Schedules
      /\ job.planned \in Nat /\ at \in Nat /\ at <= now
      /\ job.run \in RunIds \cup {0} /\ job.failure \in {"", "review", "other"}
      /\ p \in Plan /\ p.status # "none"
  BY JobOfPoll
<1>2. p.status \in {"active", "paused"} /\ Ahead(s, p.next)
  BY <1>1 DEF Plan, PlanningInv, ScheduleInv, SchedulesAhead
<1> DEFINE new == Updated(p)
<1> DEFINE r == job.run
           f == job.failure
<1>6. /\ p \in Plan /\ at \in Nat
      /\ r \in RunIds \cup {0} /\ f \in {"", "review", "other"}
  BY <1>1
<1> HIDE DEF r, f
<1> SUFFICES new \in Plan /\ new.status # "none" /\ Ahead(s, new.next)
  OBVIOUS
<1>3. CASE job.step = "stop"
  <2>1. new = [p EXCEPT !.status = "paused", !.failure = "other"]
    BY <1>3 DEF Updated
  <2> HIDE DEF s, p, new
  <2>2. new \in Plan /\ new.status = "paused" /\ new.next = p.next
    BY <1>1, <2>1, StoppedPlan
  <2> QED
    BY <1>2, <2>2
<1>4. CASE job.step = "record" /\ job.review
  <2>1. new = [p EXCEPT !.lastAt = at, !.lastRun = r, !.failure = f]
    BY <1>4 DEF Updated, r, f
  <2> HIDE DEF s, p, new
  <2>2. new \in Plan /\ new.status = p.status /\ new.next = p.next
    BY <1>6, <2>1 DEF Plan
  <2> QED
    BY <1>1, <1>2, <2>2
<1>5. CASE job.step = "skip" \/ (job.step = "record" /\ ~job.review)
  <2> DEFINE n == AdvanceBeyond(job.planned, at)
  <2>1. job.planned <= at /\ Ahead(s, job.planned)
    BY <1>1, <1>5 DEF PlanningInv, JobInv, JobAhead
  <2>2. n \in Nat /\ n >= job.planned + Period
    BY <1>1, <2>1, AdvanceIsLater
  <2>3. new = [p EXCEPT !.lastAt = at, !.lastRun = r, !.failure = f, !.next = n]
    BY <1>5 DEF Updated, Moved, r, f
  <2>6. n \in Nat
    BY <2>2
  <2> HIDE DEF s, p, new, n
  <2>4. new \in Plan /\ new.status = p.status /\ new.next = n
    BY <1>6, <2>3, <2>6 DEF Plan
  <2>5. Ahead(s, n)
    <3>1. \A i \in PlanRuns(s) : run[i].key.at \in Nat
      BY DEF PlanRuns, PlanningInv, RunInv, PlanTimes
    <3>2. \A k \in Nat : k + Period <= job.planned \/ k = job.planned => k + Period <= n
      <4>1. job.planned \in Nat
        BY <1>1
      <4> QED
        BY <2>2, <4>1, ScheduleConstants
    <3> QED
      BY <2>1, <3>1, <3>2 DEF Ahead
  <2> QED
    BY <1>1, <2>4, <2>5
<1>8. \/ job.step = "stop"
      \/ job.step = "record" /\ job.review
      \/ job.step = "skip" \/ (job.step = "record" /\ ~job.review)
  OBVIOUS
<1> HIDE DEF s, p, new
<1> QED
  BY <1>3, <1>4, <1>5, <1>8

\* What the scheduler records keeps the invariant.
LEMMA RecordsKeeps ==
  ASSUME PlanningInv, Records
  PROVE  CampaignInv' /\ RunInv' /\ ScheduleInv' /\ JobInv'
<1> DEFINE s == job.schedule
           new == Updated(plan[s])
<1>1. /\ job.step \in {"record", "skip", "stop"} /\ SchedulesTypeOK
      /\ s \in Schedules /\ plan \in [Schedules -> Plan]
      /\ JobInv /\ now \in 1..MaxTime
      /\ UNCHANGED campaignVars /\ due' = due /\ Leave(s)
      /\ IF plan[s].status = "deleted"
           THEN plan' = plan /\ Commits({})
           ELSE plan' = [plan EXCEPT ![s] = new] /\ Commits({s})
  BY JobOfPoll DEF Records, PlanningInv, ScheduleInv, SchedulesTypeOK
<1>2. plan[s].status # "deleted" =>
        new \in Plan /\ new.status # "none" /\ Ahead(s, new.next)
  BY <1>1, UpdatedAhead
<1> HIDE DEF s, new
<1>3. plan' \in [Schedules -> Plan]
  BY <1>1, <1>2
<1>4. SchedulesTypeOK' /\ now' = now
  BY <1>1, <1>3, CommitsType
<1>5. \A q \in Schedules :
        /\ plan'[q].status = "none" => plan[q].status = "none"
        /\ Current(plan'[q]) => Ahead(q, plan'[q].next)
  <2>1. \A q \in Schedules : Current(plan[q]) => Ahead(q, plan[q].next)
    BY DEF PlanningInv, ScheduleInv, SchedulesAhead, Current
  <2>2. CASE plan[s].status = "deleted"
    BY <1>1, <2>1, <2>2
  <2>3. CASE plan[s].status # "deleted"
    BY <1>1, <1>2, <2>1, <2>3
  <2> QED
    BY <2>2, <2>3
<1>6. CampaignInv' /\ RunInv' /\ ScheduleInv'
  BY <1>1, <1>4, <1>5, SchedulesMove
<1>7. JobInv'
  BY <1>1, <1>4, <1>5, LeaveKeeps
<1> QED
  BY <1>6, <1>7

\* So does starting again with what the rows say.
LEMMA RestartKeeps ==
  ASSUME PlanningInv, Restart
  PROVE  CampaignInv' /\ RunInv' /\ ScheduleInv' /\ JobInv'
<1>1. /\ SchedulesTypeOK /\ plan' = saved /\ now' = now /\ saved' = saved
      /\ UNCHANGED campaignVars /\ campaign' = campaign /\ due' = due
      /\ todo' = {} /\ at' = 0 /\ job' = NoJob
  BY DEF Restart, PlanningInv, ScheduleInv, campaignVars
<1>2. SchedulesTypeOK'
  BY <1>1 DEF SchedulesTypeOK
<1>3. \A s \in Schedules :
        /\ saved[s].status = "none" => plan[s].status = "none"
        /\ Current(saved[s]) => Current(plan[s]) /\ plan[s].next = saved[s].next
  <2> SUFFICES ASSUME NEW s \in Schedules, plan[s] # saved[s]
               PROVE  /\ saved[s].status # "none" /\ Current(plan[s])
                      /\ plan[s].next = saved[s].next
    OBVIOUS
  <2>1. /\ saved[s] \in Plan /\ saved[s].status = "paused"
        /\ plan[s] = [saved[s] EXCEPT !.status = "active"]
    BY <1>1 DEF SchedulesTypeOK
  <2> QED
    BY <2>1 DEF Plan, Current
<1>4. \A s \in Schedules :
        /\ plan'[s].status = "none" => plan[s].status = "none"
        /\ Current(plan'[s]) => Ahead(s, plan'[s].next)
  BY <1>1, <1>3 DEF PlanningInv, ScheduleInv, SchedulesAhead, Current
<1>5. CampaignInv' /\ RunInv' /\ ScheduleInv'
  BY <1>1, <1>2, <1>4, SchedulesMove
<1>6. JobInv'
  <2>1. now \in Nat /\ MaxTime \in Nat
    BY ScheduleConstants DEF PlanningInv, ScheduleInv, SchedulesTypeOK
  <2>2. due' \in Batches \cup {NoBatch}
    BY <1>1 DEF PlanningInv, JobInv
  <2> QED
    BY <1>1, <2>1, <2>2 DEF JobInv, JobAhead, JobReviews
<1> QED
  BY <1>5, <1>6

-----------------------------------------------------------------------------
(* All steps.                                                              *)

\* The scheduler's own steps keep the invariant.
LEMMA SchedulerStepKeeps ==
  ASSUME PlanningInv, SchedulerStep
  PROVE  PlanningInv'
<1>1. CASE Creates
  BY <1>1, CreatesKeeps
<1>2. Counted /\ JobInv /\ now \in 1..MaxTime
  BY DEF PlanningInv, ScheduleInv, SchedulesTypeOK
\* Steps that change nothing but the poll.
<1>3. ASSUME Quiet PROVE /\ CampaignInv' /\ RunInv' /\ ScheduleInv' /\ Counted'
                         /\ UNCHANGED <<campaign, run, plan, now, due>>
  <2>1. UNCHANGED <<campaignVars, scheduleVars>> /\ UNCHANGED <<acts, faults>>
        /\ UNCHANGED <<campaign, run, plan, now, due>>
    BY <1>3 DEF Quiet, campaignVars, scheduleVars
  <2>2. Counted'
    BY <1>2, <2>1 DEF Counted
  <2> QED
    BY <2>1, <2>2, OnlyPollMoves
<1>4. CASE Poll
  <2>1. Quiet
    BY <1>4 DEF Poll
  <2> QED
    BY <1>3, <1>4, <2>1, PollKeeps DEF PlanningInv
<1>5. ASSUME NEW s \in Schedules, PassOver(s) PROVE PlanningInv'
  <2>1. Quiet /\ Leave(s)
    BY <1>5 DEF PassOver
  <2>2. JobInv'
    BY <1>2, <1>3, <2>1, LeaveKeeps
  <2> QED
    BY <1>3, <2>1, <2>2 DEF PlanningInv
<1>6. ASSUME NEW s \in Schedules, LookAt(s) PROVE PlanningInv'
  <2>1. Quiet
    BY <1>6 DEF LookAt
  <2> QED
    BY <1>3, <1>6, <2>1, LookAtKeeps DEF PlanningInv
<1>7. CASE Replays
  <2>1. PICK r \in RunIds : job.step = "create" /\ Recorded(r, "")
    BY <1>7 DEF Replays, Replayed, UsedBy
  <2>2. Quiet /\ UNCHANGED <<todo, at>>
    BY <1>7 DEF Replays
  <2>3. JobInv'
    BY <1>2, <1>3, <2>1, <2>2, RecordedKeeps
  <2> QED
    BY <1>3, <2>2, <2>3 DEF PlanningInv
<1>8. CASE Refuses
  <2>1. PICK f \in {"", "review", "other"} : job.step = "create" /\ Recorded(0, f)
    BY <1>8 DEF Refuses
  <2>2. Quiet /\ UNCHANGED <<todo, at>>
    BY <1>8 DEF Refuses
  <2>3. JobInv'
    BY <1>2, <1>3, <2>1, <2>2, RecordedKeeps
  <2> QED
    BY <1>3, <2>2, <2>3 DEF PlanningInv
<1>12. FailsToCreate => Counted'
  BY <1>2, SchedulerConstants DEF Counted, FailsToCreate
<1>9. CASE FailsToCreate
  <2>1. PICK f \in {"", "review", "other"} : job.step = "create" /\ Recorded(0, f)
    BY <1>9 DEF FailsToCreate
  <2>2. /\ UNCHANGED <<campaignVars, scheduleVars>>
        /\ UNCHANGED <<campaign, run, plan, now, due, todo, at>>
        /\ acts' = acts /\ faults < MaxFaults /\ faults' = faults + 1
    BY <1>9 DEF FailsToCreate, campaignVars, scheduleVars
  <2>3. CampaignInv' /\ RunInv' /\ ScheduleInv'
    BY <2>2, OnlyPollMoves
  <2>4. JobInv'
    BY <1>2, <2>1, <2>2, RecordedKeeps
  <2>5. Counted'
    BY <1>9, <1>12
  <2> QED
    BY <2>3, <2>4, <2>5 DEF PlanningInv
<1>10. CASE Records
  <2>1. Counted'
    BY <1>2, <1>10 DEF Counted, Records
  <2> QED
    BY <1>10, <2>1, RecordsKeeps DEF PlanningInv
<1>11. CASE RecordThrows
  <2>1. Restart /\ Counted'
    BY <1>2, <1>11 DEF Counted, RecordThrows, Restart
  <2> QED
    BY <2>1, RestartKeeps DEF PlanningInv
<1> QED
  BY <1>1, <1>4, <1>5, <1>6, <1>7, <1>8, <1>9, <1>10, <1>11 DEF SchedulerStep

\* Every step of users, scheduler, world and faults keeps the invariant.
LEMMA PlanningInvStep ==
  ASSUME PlanningInv, [PlanningNext]_planningVars
  PROVE  PlanningInv'
<1>1. CASE SchedulerStep
  BY <1>1, SchedulerStepKeeps
<1>2. CASE UserStep
  <2>1. /\ acts < MaxActs /\ acts' = acts + 1 /\ faults' = faults
        /\ UNCHANGED <<due, pollVars>>
    BY <1>2 DEF UserStep
  <2>2. Counted'
    BY <2>1, SchedulerConstants DEF PlanningInv, Counted
  <2>3. CampaignInv' /\ RunInv' /\ ScheduleInv' /\ JobInv'
    <3>1. CASE CampaignCommits
      BY <2>1, <3>1, CampaignCommitsKeeps
    <3>2. ASSUME NEW s \in Schedules,
                 \/ CreateSchedule(s) \/ PauseSchedule(s) \/ DeleteSchedule(s)
                 \/ ResumeSchedule(s) \/ RefusedResume(s)
          PROVE  CampaignInv' /\ RunInv' /\ ScheduleInv' /\ JobInv'
      BY <2>1, <3>2, UserSchedulesKeeps
    <3>3. CASE UserRuns
      BY <2>1, <3>3, UserRunsKeeps
    <3> QED
      BY <1>2, <3>1, <3>2, <3>3 DEF UserStep
  <2> QED
    BY <2>2, <2>3 DEF PlanningInv
<1>3. CASE WorldStep \/ UserReviews
  <2>1. Counted'
    BY <1>3, SchedulerConstants
       DEF PlanningInv, Counted, WorldStep, UserReviews
  <2> QED
    BY <1>3, <2>1, WorldKeeps DEF PlanningInv
<1>4. CASE Crash
  <2>1. Restart /\ Counted'
    BY <1>4, SchedulerConstants DEF PlanningInv, Counted, Crash, Restart
  <2> QED
    BY <2>1, RestartKeeps DEF PlanningInv
<1>5. CASE UNCHANGED planningVars
  <2>1. /\ UNCHANGED <<campaignVars, scheduleVars>>
        /\ UNCHANGED <<campaign, run, plan, now, due, todo, at, job, acts, faults>>
    BY <1>5 DEF planningVars, campaignVars, scheduleVars
  <2>2. CampaignInv' /\ RunInv' /\ ScheduleInv' /\ \A s, t : Ahead(s, t) => Ahead(s, t)'
    BY <2>1, OnlyPollMoves
  <2>3. JobInv'
    BY <2>1, <2>2 DEF PlanningInv, JobInv, JobAhead, JobReviews
  <2>4. Counted'
    BY <2>1 DEF PlanningInv, Counted
  <2> QED
    BY <2>2, <2>3, <2>4 DEF PlanningInv
<1> QED
  BY <1>1, <1>2, <1>3, <1>4, <1>5 DEF PlanningNext

-----------------------------------------------------------------------------
\* PlanningInv holds whatever users, scheduler, time and faults do, in any
\* order: the transactions of prospect-scheduler.ts, prospect-schedules.ts,
\* prospect-campaigns.ts and prospect-strategies.ts keep it together.
THEOREM PlanningInvariant == PlanningSpec => []PlanningInv
<1>1. PlanningInit => PlanningInv
  BY PlanningInvInit
<1>2. PlanningInv /\ [PlanningNext]_planningVars => PlanningInv'
  BY PlanningInvStep
<1> QED
  BY <1>1, <1>2, PTL DEF PlanningSpec

\* Campaign, schedules and poll always have their types, and memory and rows
\* of the schedules differ by a refused resume at most.
THEOREM PlanningTypeCorrect == PlanningSpec => []PlanningTypeOK
<1>1. PlanningInv => PlanningTypeOK
  BY DEF PlanningInv, CampaignInv, ScheduleInv, JobInv, Counted, PlanningTypeOK
<1> QED
  BY <1>1, PlanningInvariant, PTL

\* The campaign, the version, the owner and the strategy of a live run stay
\* what they were when createProspectRun checked them.
THEOREM LiveRunsFit == PlanningSpec => []RunsFitTheirPlan
<1>1. PlanningInv => RunsFitTheirPlan
  BY DEF PlanningInv, CampaignInv
<1> QED
  BY <1>1, PlanningInvariant, PTL

\* An active campaign never loses its last approved strategy.
THEOREM ActiveCampaignsCanSearch == PlanningSpec => []ActiveCampaignHasStrategy
<1>1. PlanningInv => ActiveCampaignHasStrategy
  BY DEF PlanningInv, CampaignInv
<1> QED
  BY <1>1, PlanningInvariant, PTL

\* One scope is never searched by two live runs, nor approved twice.
THEOREM ScopesAreSearchedOnce == PlanningSpec => []OneSearchPerScope
<1>1. PlanningInv => OneSearchPerScope
  BY DEF PlanningInv, CampaignInv
<1> QED
  BY <1>1, PlanningInvariant, PTL

\* The scheduler never runs a schedule more often than once a period, however
\* its two transactions, users, crashes and replays follow each other.
THEOREM SchedulesKeepTheirPeriod == PlanningSpec => []PlansApart
<1>1. PlanningInv => PlansApart
  BY DEF PlanningInv, RunInv
<1> QED
  BY <1>1, PlanningInvariant, PTL

\* A batch of prospects due for review is not taken along again by a review
\* run of the same owner.
THEOREM ReviewsRunOnce == PlanningSpec => []ReviewsNotRepeated
<1>1. PlanningInv => ReviewsNotRepeated
  BY DEF PlanningInv, RunInv
<1> QED
  BY <1>1, PlanningInvariant, PTL
=============================================================================
