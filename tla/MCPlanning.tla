---------------------------- MODULE MCPlanning ----------------------------
(* A small instance of campaign, schedules and scheduler for TLC.  It      *)
(* starts after a first strategy has been approved, the campaign activated *)
(* and a first schedule created, so that MaxActs is left for what users do *)
(* from then on.  Both may have gone on a little: there may be a second    *)
(* strategy, and the schedule may be paused.                               *)
EXTENDS ProspectScheduler

Starts == {<<"active", "none">>, <<"active", "draft">>, <<"paused", "approved">>}

MCInit ==
  /\ campaign = [status |-> "active", version |-> 1, transfers |-> 0,
                 owner |-> CHOOSE o \in Owners : TRUE]
  /\ \E start \in Starts, wide \in Costly, narrow \in Scopes \ Costly :
       /\ strategy = [s \in StrategyIds |->
            CASE s = 1 -> [status |-> "approved", version |-> 1, scope |-> wide]
              [] s = 2 /\ start[2] # "none" ->
                   [status |-> start[2], version |-> 1, scope |-> narrow]
              [] OTHER -> [status |-> "none", version |-> 0, scope |-> narrow]]
       /\ plan = [s \in Schedules |->
            IF s # CHOOSE q \in Schedules : TRUE THEN NoPlan("none")
            ELSE [status |-> start[1], owner |-> campaign.owner, version |-> 1,
                  anchor |-> 1, cost |-> TRUE, next |-> NextOccurrence(1),
                  lastAt |-> 0, lastRun |-> 0, failure |-> ""]]
  /\ run = [r \in RunIds |-> NoRun] /\ exhausted = {}
  /\ saved = plan /\ now = 2
  /\ due = NoBatch /\ todo = {} /\ at = 0 /\ job = NoJob
  /\ acts = 0 /\ faults = 0

MCSpec == MCInit /\ [][PlanningNext]_planningVars /\ WF_planningVars(SchedulerStep)
=============================================================================
