------------------------- MODULE ProspectScheduler -------------------------
(***************************************************************************)
(* The scheduler of the API process (prospect-scheduler.ts).  Every poll   *)
(* (runOnce) it goes through the active schedules.  For one whose          *)
(* occurrence is due it creates a run and, in a second transaction, moves  *)
(* the schedule to its next occurrence.  For one that is not due it may    *)
(* create a run that reviews known prospects.  Between the two             *)
(* transactions, and between what it has read and the first of them, users *)
(* act, time passes and the process may die.  An exception that leaves     *)
(* runOnce is an unhandled rejection of its timer and ends the process.    *)
(***************************************************************************)
EXTENDS ProspectSchedules

CONSTANTS
  ReviewDelay,   \* how long a failed review is put off
  MaxActs,       \* bound: what users do
  MaxFaults      \* bound: crashes and database failures

ASSUME SchedulerConstants ==
  ReviewDelay \in Nat /\ MaxActs \in Nat /\ MaxFaults \in Nat

VARIABLES
  due,     \* the batch of prospects due for review
  todo,    \* schedules this poll has still to look at
  at,      \* the time this poll has read, 0 between polls
  job,     \* what the poll is doing for one schedule
  acts,    \* what users have done so far
  faults   \* faults so far

pollVars     == <<todo, at, job>>
planningVars == <<campaign, strategy, run, exhausted, plan, saved, now,
                  due, todo, at, job, acts, faults>>

NoJob == [step |-> "none"]
Job == [step : {"create", "record", "skip", "stop"}, schedule : Schedules,
        review : BOOLEAN, planned : Nat, request : Request,
        run : RunIds \cup {0}, failure : {"", "review", "other"}]

\* Campaign, schedules and poll have their types, and memory and rows differ
\* by a refused resume at most.
PlanningTypeOK ==
  /\ CampaignsTypeOK /\ SchedulesTypeOK
  /\ due \in Batches \cup {NoBatch}
  /\ todo \subseteq Schedules /\ at \in 0..MaxTime
  /\ job \in Job \cup {NoJob}
  /\ job # NoJob => job.schedule \in todo
  /\ acts \in 0..MaxActs /\ faults \in 0..MaxFaults

PlanningInit ==
  /\ CampaignsInit /\ SchedulesInit
  /\ due = NoBatch /\ todo = {} /\ at = 0 /\ job = NoJob
  /\ acts = 0 /\ faults = 0

-----------------------------------------------------------------------------
\* invalidReason: project, owner or version are not what they were.
Invalid(s) == \/ campaign.owner # plan[s].owner
              \/ campaign.status # "active"
              \/ campaign.version # plan[s].version

\* eligibleStrategies, and those with something left to read.
Eligible(s) ==
  {a \in StrategyIds : /\ strategy[a].status = "approved"
                       /\ strategy[a].version = plan[s].version
                       /\ plan[s].cost \/ strategy[a].scope \notin Costly}
Usable(s) == {a \in Eligible(s) : <<a, plan[s].owner>> \notin exhausted}

LastStrategy(s) ==
  IF plan[s].lastRun = 0 THEN 0 ELSE run[plan[s].lastRun].request.strategy

\* The order of selectNextStrategy: in turn after the strategy of the last
\* run; without a last run the anchor comes first.
Sooner(s, a, b) ==
  LET last == LastStrategy(s) IN
  IF last \in Eligible(s)
    THEN IF (a > last) <=> (b > last) THEN a < b ELSE a > last
    ELSE IF last = 0 /\ plan[s].anchor \in {a, b}
           THEN a = plan[s].anchor ELSE a < b
Selected(s) == {a \in Usable(s) : \A b \in Usable(s) \ {a} : Sooner(s, a, b)}

\* Mutant of ReviewStarted: only runs of this very schedule are looked at.
ReviewStartedHere(s, b) ==
  \E r \in RunIds : /\ run[r] # NoRun
                    /\ run[r].key.schedule = s
                    /\ run[r].key.kind = "review"
                    /\ run[r].request.batch = b
\* reviewBatchAlreadyStarted: a run of this owner names the batch.
ReviewStarted(s, b) ==
  \E r \in RunIds : /\ run[r] # NoRun
                    /\ run[r].owner = plan[s].owner
                    /\ run[r].request.batch = b

\* reviewRetryDeferred.
ReviewDeferred(s) == /\ plan[s].failure = "review"
                     /\ plan[s].lastAt # 0
                     /\ at < plan[s].lastAt + ReviewDelay

IsDue(s)     == plan[s].next <= at
ReviewDue(s) == /\ due # NoBatch
                /\ ~ReviewStarted(s, due)
                /\ ~ReviewDeferred(s)

-----------------------------------------------------------------------------
Quiet == UNCHANGED <<campaign, strategy, run, exhausted, plan, saved, now,
                     due, acts, faults>>

\* The poll is through with a schedule.
Leave(s) == /\ todo' = todo \ {s} /\ job' = NoJob
            /\ at' = IF todo' = {} THEN 0 ELSE at

\* runOnce starts; only one poll runs at a time.
Poll ==
  /\ todo = {} /\ Active # {}
  /\ todo' = Active /\ at' = now /\ job' = NoJob
  /\ Quiet

\* Nothing to do for this schedule.
PassOver(s) ==
  /\ job = NoJob /\ s \in todo
  /\ \/ s \notin Active
     \/ ~IsDue(s) /\ ~ReviewDue(s)
     \/ ~IsDue(s) /\ ~Invalid(s) /\ Selected(s) = {}
  /\ Leave(s)
  /\ Quiet

\* executeDue and executeReviewDue up to their first transaction.
LookAt(s) ==
  /\ job = NoJob /\ s \in todo /\ s \in Active
  /\ IsDue(s) \/ ReviewDue(s)
  /\ \/ /\ Invalid(s)
        /\ \E a \in StrategyIds :
             /\ a = plan[s].anchor
             /\ job' = [step |-> "stop", schedule |-> s, review |-> ~IsDue(s),
                        planned |-> plan[s].next, run |-> 0, failure |-> "other",
                        request |-> [strategy |-> a, revision |-> 0, batch |-> NoBatch]]
     \/ /\ ~Invalid(s) /\ Selected(s) = {} /\ IsDue(s)
        /\ job' = [step |-> "skip", schedule |-> s, review |-> FALSE,
                   planned |-> plan[s].next, run |-> 0, failure |-> "other",
                   request |-> [strategy |-> plan[s].anchor, revision |-> 0,
                                batch |-> NoBatch]]
     \/ /\ ~Invalid(s)
        /\ \E a \in Selected(s) :
             job' = [step |-> "create", schedule |-> s, review |-> ~IsDue(s),
                     planned |-> plan[s].next, run |-> 0, failure |-> "",
                     request |-> [strategy |-> a,
                                  revision |-> campaign.transfers,
                                  batch |-> due]]
  /\ UNCHANGED <<todo, at>>
  /\ Quiet

\* Mutant of JobKey: the time of the poll instead of the planned time.
JobKeyOfPoll ==
  [kind |-> IF job.review THEN "review" ELSE "plan",
   schedule |-> job.schedule,
   at |-> IF job.review THEN job.request.batch ELSE at]
\* The idempotency key of the run: planned time, or batch.
JobKey ==
  [kind |-> IF job.review THEN "review" ELSE "plan",
   schedule |-> job.schedule,
   at |-> IF job.review THEN job.request.batch ELSE job.planned]

Recorded(r, failure) ==
  job' = [job EXCEPT !.step = "record", !.run = r, !.failure = failure]

\* createProspectRun returns a new run.
Creates ==
  /\ job.step = "create"
  /\ \E r \in RunIds : CreateRun(r, JobKey, job.request) /\ Recorded(r, "")
  /\ UNCHANGED <<scheduleVars, due, todo, at, acts, faults>>

\* It finds the run that an earlier poll has created before it died.
Replays ==
  /\ job.step = "create"
  /\ \E r \in Replayed(JobKey, job.request) : Recorded(r, "")
  /\ UNCHANGED <<todo, at>> /\ Quiet

\* It refuses: a key used for another request, or a check.  executeDue stores
\* the code with the prefix for reviews, executeReviewDue without.
Refuses ==
  /\ job.step = "create"
  /\ Replayed(JobKey, job.request) = {}
  /\ UsedBy(JobKey) # {} \/ ~MayStart(job.request)
  /\ Recorded(0, IF job.review THEN "other" ELSE "review")
  /\ UNCHANGED <<todo, at>> /\ Quiet

\* The database fails.  Here executeReviewDue is the one with the prefix.
FailsToCreate ==
  /\ job.step = "create"
  /\ faults < MaxFaults /\ faults' = faults + 1
  /\ Recorded(0, IF job.review THEN "review" ELSE "other")
  /\ UNCHANGED <<todo, at, campaignVars, scheduleVars, due, acts>>

-----------------------------------------------------------------------------
\* Mutant of Moved: counted from the poll, without regard to the plan.
MovedFromPoll(p) == [p EXCEPT !.lastAt = at, !.lastRun = job.run,
                              !.failure = job.failure]
\* The schedule after its attempt.
Moved(p) == [p EXCEPT !.lastAt = at, !.lastRun = job.run,
                      !.failure = job.failure,
                      !.next = AdvanceBeyond(job.planned, at)]

\* What updateSchedule writes: it finds the schedule by its id alone, so also
\* one that has been paused or resumed in the meantime.
Updated(p) ==
  CASE job.step = "stop" -> [p EXCEPT !.status = "paused", !.failure = "other"]
    [] job.step = "record" /\ job.review ->
         [p EXCEPT !.lastAt = at, !.lastRun = job.run, !.failure = job.failure]
    [] OTHER -> Moved(p)

\* The second transaction.  A deleted schedule is no longer there to update.
Records ==
  /\ job.step \in {"record", "skip", "stop"}
  /\ LET s == job.schedule IN
     /\ IF plan[s].status = "deleted"
          THEN plan' = plan /\ Commits({})
          ELSE plan' = [plan EXCEPT ![s] = Updated(@)] /\ Commits({s})
     /\ Leave(s)
  /\ UNCHANGED <<campaignVars, due, acts, faults>>

\* The process ends and starts again with what the rows say.
Restart ==
  /\ plan' = saved /\ todo' = {} /\ job' = NoJob /\ at' = 0
  /\ UNCHANGED <<campaignVars, saved, now, due, acts>>

\* The second transaction is refused, because a refused resume has come
\* between memory and rows.
RecordThrows ==
  /\ job.step \in {"record", "skip", "stop"}
  /\ ~Accepted(IF plan[job.schedule].status = "deleted" THEN {} ELSE {job.schedule})
  /\ Restart /\ UNCHANGED faults

\* The process dies at any moment, or the database fails in readBarrier or
\* in updateSchedule.
Crash == faults < MaxFaults /\ faults' = faults + 1 /\ Restart

-----------------------------------------------------------------------------
\* A user creates a run, with a key of his own.
UserRuns ==
  /\ \E r \in RunIds, a \in Approved :
       CreateRun(r, [kind |-> "user", at |-> r,
                     schedule |-> CHOOSE s \in Schedules : TRUE],
                 [strategy |-> a, revision |-> campaign.transfers,
                  batch |-> NoBatch])
  /\ UNCHANGED scheduleVars

UserStep ==
  /\ acts < MaxActs /\ acts' = acts + 1
  /\ \/ CampaignCommits
     \/ \E s \in Schedules :
          \/ CreateSchedule(s) \/ PauseSchedule(s) \/ DeleteSchedule(s)
          \/ ResumeSchedule(s) \/ RefusedResume(s)
     \/ UserRuns
  /\ UNCHANGED <<due, pollVars, faults>>

\* A user reviews prospects, or changes when they are due.
UserReviews ==
  /\ acts < MaxActs /\ acts' = acts + 1
  /\ due' \in (Batches \cup {NoBatch}) \ {due}
  /\ UNCHANGED <<campaignVars, scheduleVars, pollVars, faults>>

\* Time passes and prospects become due with it; runs end.
WorldStep ==
  /\ \/ Clock /\ due' \in Batches \cup {NoBatch}
     \/ \E r \in RunIds : EndRun(r) /\ UNCHANGED <<scheduleVars, due>>
  /\ UNCHANGED <<pollVars, acts, faults>>

\* The scheduler's own steps.
SchedulerStep ==
  \/ Poll
  \/ \E s \in Schedules : PassOver(s) \/ LookAt(s)
  \/ Creates \/ Replays \/ Refuses \/ FailsToCreate
  \/ Records \/ RecordThrows

PlanningNext ==
  SchedulerStep \/ UserStep \/ UserReviews \/ WorldStep \/ Crash

PlanningSpec ==
  PlanningInit /\ [][PlanningNext]_planningVars /\ WF_planningVars(SchedulerStep)

-----------------------------------------------------------------------------
\* Runs for different occurrences of one schedule are at least a period
\* apart, and none is for an occurrence to come: whatever users pause, resume
\* and delete between the scheduler's transactions, whatever is replayed after
\* a crash, a schedule does not spend its money more often than planned.
PlansApart ==
  \A q, r \in RunIds :
    run[q] # NoRun /\ run[r] # NoRun
      /\ run[q].key.kind = "plan" /\ run[r].key.kind = "plan"
      /\ run[q].key.schedule = run[r].key.schedule =>
         /\ run[q].key.at <= now
         /\ q # r => \/ run[q].key.at + Period <= run[r].key.at
                     \/ run[r].key.at + Period <= run[q].key.at

\* No run is created to review a batch that an earlier run of the owner,
\* regular or review, has already taken along.
ReviewsNotRepeated ==
  \A q, r \in RunIds :
    run[q] # NoRun /\ run[r] # NoRun /\ q < r
      /\ run[r].key.kind = "review" /\ run[q].owner = run[r].owner =>
         run[q].request.batch # run[r].request.batch

\* A schedule that is due is served: it gets a new time, or stops being
\* active, in spite of crashes, database failures and refused resumes (while
\* the bound leaves room for another run).
DueIsServed ==
  \A s \in Schedules :
    (s \in Active /\ plan[s].next <= now)
      ~> \/ ~(s \in Active /\ plan[s].next <= now)
         \/ \A r \in RunIds : run[r] # NoRun
=============================================================================
