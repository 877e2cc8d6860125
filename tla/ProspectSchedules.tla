------------------------- MODULE ProspectSchedules -------------------------
(***************************************************************************)
(* Schedules that repeat a campaign's search (prospect-schedules.ts), as   *)
(* the API process keeps them in memory and as MySQL has them.             *)
(*                                                                         *)
(* A generic transaction (persistMutation of mysql-store.ts) changes the   *)
(* memory, then writes all tables; if writing fails it undoes its change.  *)
(* Rows of schedules may only change with a new revision, and a            *)
(* transaction gives one only to the schedule it is about.  A mutation     *)
(* that throws after it has begun to change the memory is not undone: this *)
(* is how a refused resume leaves memory and rows apart.                   *)
(***************************************************************************)
EXTENDS ProspectCampaigns

CONSTANTS
  Period,    \* between two occurrences; the calendar is abstracted
  MaxTime    \* bound: the clock

ASSUME ScheduleConstants == Period \in Nat \ {0} /\ MaxTime \in Nat \ {0}

VARIABLES
  plan,    \* the schedules in memory
  saved,   \* the rows of prospect_schedules
  now      \* the clock

scheduleVars == <<plan, saved, now>>

\* failure is the lastFailureCode: none, one that reviewRetryDeferred
\* recognizes ("review"), or another.  lastAt is 0 before the first attempt.
Plan == [status : {"none", "active", "paused", "deleted"}, owner : Owners,
         version : Nat, anchor : StrategyIds, cost : BOOLEAN, next : Nat,
         lastAt : Nat, lastRun : RunIds \cup {0},
         failure : {"", "review", "other"}]

SchedulesTypeOK ==
  /\ plan \in [Schedules -> Plan]
  /\ saved \in [Schedules -> Plan]
  /\ now \in 1..MaxTime
  \* Only the status can differ, and only after a refused resume.
  /\ \A s \in Schedules : plan[s] # saved[s] =>
       /\ saved[s].status = "paused"
       /\ plan[s] = [saved[s] EXCEPT !.status = "active"]

\* The identifier of a schedule that is not there (yet, or any more).
NoPlan(status) ==
  [status |-> status, owner |-> CHOOSE o \in Owners : TRUE, version |-> 1,
   anchor |-> 1, cost |-> FALSE, next |-> 0, lastAt |-> 0, lastRun |-> 0,
   failure |-> ""]

SchedulesInit ==
  /\ plan = [s \in Schedules |-> NoPlan("none")]
  /\ saved = plan
  /\ now = 1

-----------------------------------------------------------------------------
\* syncProspectScheduleRows accepts the memory if nothing but the schedules
\* the transaction is about differs from the rows.
Accepted(about) == \A s \in Schedules \ about : plan[s] = saved[s]

\* Mutant of Commits: the rows are not written.
CommitsUnsaved(about) == Accepted(about) /\ UNCHANGED <<saved, now>>
\* A generic transaction about certain schedules commits.
Commits(about) == Accepted(about) /\ saved' = plan' /\ UNCHANGED now

Active == {s \in Schedules : plan[s].status = "active"}

\* nextProspectScheduleOccurrence, and advanceProspectScheduleBeyond: the
\* first occurrence after planned that is later than t.
NextOccurrence(t) == t + Period
AdvanceBeyond(planned, t) ==
  CHOOSE n \in planned..(planned + t + Period) :
    /\ n > t /\ n > planned
    /\ (n - planned) % Period = 0
    /\ n - Period <= t \/ n - Period = planned

\* An active schedule of the same owner for the same campaign version.
Rivals(s) == {q \in Active \ {s} : /\ plan[q].owner = plan[s].owner
                                   /\ plan[q].version = plan[s].version}

-----------------------------------------------------------------------------
\* createProspectSchedule, by the owner of the campaign.
CreateSchedule(s) ==
  /\ plan[s].status = "none"
  /\ s = CHOOSE q \in Schedules : plan[q].status = "none"
  /\ campaign.status = "active"
  /\ \A q \in Active : \/ plan[q].owner # campaign.owner
                       \/ plan[q].version # campaign.version
  /\ \E a \in Approved, cost \in BOOLEAN :
       /\ strategy[a].scope \in Costly => cost
       /\ plan' = [plan EXCEPT ![s] =
            [status |-> "active", owner |-> campaign.owner,
             version |-> campaign.version, anchor |-> a, cost |-> cost,
             next |-> NextOccurrence(now), lastAt |-> 0, lastRun |-> 0,
             failure |-> ""]]
  /\ Commits({s})
  /\ UNCHANGED campaignVars

\* transitionProspectSchedule to paused.
PauseSchedule(s) ==
  /\ plan[s].status = "active"
  /\ plan' = [plan EXCEPT ![s].status = "paused"]
  /\ Commits({s})
  /\ UNCHANGED campaignVars

\* The checks of a resume: no rival, and references that still hold.
MayResume(s) ==
  /\ Rivals(s) = {}
  /\ plan[s].anchor \in Approved
  /\ campaign.status = "active"
  /\ campaign.version = plan[s].version
  /\ campaign.owner = plan[s].owner

\* transitionProspectSchedule to active.
ResumeSchedule(s) ==
  /\ plan[s].status = "paused"
  /\ MayResume(s)
  /\ plan' = [plan EXCEPT ![s].status = "active", ![s].next = NextOccurrence(now),
                          ![s].failure = ""]
  /\ Commits({s})
  /\ UNCHANGED campaignVars

\* The same, refused: the status has been assigned before the checks, and
\* what a mutation changes before it throws stays in memory.
RefusedResume(s) ==
  /\ plan[s].status = "paused"
  /\ ~MayResume(s)
  /\ plan' = [plan EXCEPT ![s].status = "active"]
  /\ UNCHANGED <<saved, now>>
  /\ UNCHANGED campaignVars

\* deleteProspectSchedule.
DeleteSchedule(s) ==
  /\ plan[s].status \in {"active", "paused"}
  /\ plan' = [plan EXCEPT ![s] = NoPlan("deleted")]
  /\ Commits({s})
  /\ UNCHANGED campaignVars

\* A transaction about the campaign commits only while nothing has come
\* between memory and rows: a generic transaction writes every table.
CampaignCommits ==
  /\ CampaignStep
  /\ Accepted({}) /\ UNCHANGED scheduleVars

Clock == now < MaxTime /\ now' = now + 1 /\ UNCHANGED <<campaignVars, plan, saved>>

=============================================================================
