------------------------- MODULE ProspectCampaigns -------------------------
(***************************************************************************)
(* A prospecting campaign with its versions, its search strategies and the *)
(* search runs created from them (prospect-campaigns.ts,                   *)
(* prospect-strategies.ts and createProspectRun of prospect-runs.ts).      *)
(*                                                                         *)
(* A strategy is drafted and approved while its campaign rests, and runs   *)
(* are created from approved strategies while it is active.  Versions,     *)
(* transfers, closing a campaign and disabling a strategy are refused      *)
(* while runs are alive; which refusal protects which part of a live run   *)
(* is spread over two files, and RunsFitTheirPlan says what they add up to.*)
(*                                                                         *)
(* Every action is one transaction of the store.  An If-Match that no      *)
(* longer matches refuses a request like any other check; only that of     *)
(* createProspectRun matters, because the scheduler reads the strategy in  *)
(* one step and creates the run in a later one.                            *)
(***************************************************************************)
EXTENDS Naturals, FiniteSets

CONSTANTS
  Owners,         \* users who may own campaigns
  Scopes,         \* what a strategy searches for (queryFingerprint)
  Costly,         \* scopes whose sources cost money each time
  Schedules,      \* schedules that callers name in idempotency keys
  Batches,        \* sets of prospects due for review (their fingerprints)
  NoBatch,        \* no prospect is due
  MaxStrategies,  \* bound: strategies of the campaign
  MaxVersion,     \* bound: versions of the campaign
  MaxTransfers,   \* bound: transfers to another owner
  MaxRuns         \* bound: runs

ASSUME CampaignConstants ==
  /\ Costly \subseteq Scopes
  /\ NoBatch \notin Batches
  /\ Schedules # {}
  /\ MaxStrategies \in Nat \ {0} /\ MaxVersion \in Nat
  /\ MaxTransfers \in Nat /\ MaxRuns \in Nat

VARIABLES
  campaign,   \* its status, current version and owner, and its transfers
  strategy,   \* its strategies, in the order of their creation
  run,        \* the runs, in the order of their creation
  exhausted   \* strategies whose sources an owner has read to the end

campaignVars == <<campaign, strategy, run, exhausted>>

StrategyIds == 1..MaxStrategies
RunIds      == 1..MaxRuns

Key == [kind : {"user", "plan", "review"}, schedule : Schedules,
        at : Nat \cup Batches]
\* What the request hash covers: strategy, its ETag and the batch named in
\* the reason.  An approved strategy gets a new revision by a transfer only.
Request == [strategy : StrategyIds, revision : Nat,
            batch : Batches \cup {NoBatch}]

Campaign == [status : {"draft", "active", "paused", "completed", "archived"},
             version : Nat, owner : Owners, transfers : Nat]
Strategy == [status : {"none", "draft", "approved", "disabled"},
             version : Nat, scope : Scopes]
NoRun    == [status |-> "none"]
Run      == [status : {"live", "ended"}, key : Key, request : Request,
             owner : Owners, version : Nat, scope : Scopes]

CampaignsTypeOK ==
  /\ campaign \in Campaign
  /\ strategy \in [StrategyIds -> Strategy]
  /\ run \in [RunIds -> Run \cup {NoRun}]
  /\ exhausted \subseteq StrategyIds \X Owners

\* createProspectCampaign makes a draft with a default draft strategy.
CampaignsInit ==
  /\ \E o \in Owners :
       campaign = [status |-> "draft", version |-> 1, owner |-> o, transfers |-> 0]
  /\ \E c \in Scopes :
       strategy = [s \in StrategyIds |->
                    IF s = 1
                    THEN [status |-> "draft", version |-> 1, scope |-> c]
                    ELSE [status |-> "none", version |-> 0, scope |-> c]]
  /\ run = [r \in RunIds |-> NoRun]
  /\ exhausted = {}

-----------------------------------------------------------------------------
LiveRuns == {r \in RunIds : run[r].status = "live"}

\* Mutant of LiveRunsOf: a paused campaign is taken to have none.
LiveRunsOfActive == IF campaign.status = "active" THEN LiveRuns ELSE {}
\* activeProspectRunsForCampaign: there is one campaign here.
LiveRunsOf == LiveRuns

Approved == {s \in StrategyIds : /\ strategy[s].status = "approved"
                                 /\ strategy[s].version = campaign.version}

Resting == campaign.status \in {"draft", "paused"}

-----------------------------------------------------------------------------
\* createProspectStrategy: with content of its own or copied from another.
CreateStrategy(s) ==
  /\ Resting
  /\ strategy[s].status = "none"
  /\ \A t \in StrategyIds : t < s => strategy[t].status # "none"
  /\ \E c \in Scopes :
       strategy' = [strategy EXCEPT ![s] = [status |-> "draft",
                                            version |-> campaign.version,
                                            scope |-> c]]
  /\ UNCHANGED <<campaign, run, exhausted>>

CurrentDraft(s) ==
  Resting /\ strategy[s].status = "draft" /\ strategy[s].version = campaign.version

\* updateProspectStrategy.
UpdateStrategy(s) ==
  /\ CurrentDraft(s)
  /\ \E c \in Scopes \ {strategy[s].scope} :
       strategy' = [strategy EXCEPT ![s].scope = c]
  /\ UNCHANGED <<campaign, run, exhausted>>

\* approveProspectStrategy: not twice for one scope in one version.
ApproveStrategy(s) ==
  /\ CurrentDraft(s)
  /\ \A t \in Approved : strategy[t].scope # strategy[s].scope
  /\ strategy' = [strategy EXCEPT ![s].status = "approved"]
  /\ UNCHANGED <<campaign, run, exhausted>>

\* Mutant of MayDisable: the last strategy of an active campaign may go.
MayDisableLast(s) ==
  \A r \in LiveRuns : run[r].request.strategy # s
\* The checks of disableProspectStrategy on runs and on the other strategies.
MayDisable(s) ==
  /\ \A r \in LiveRuns : run[r].request.strategy # s
  /\ campaign.status = "active" /\ s \in Approved => Approved # {s}

\* disableProspectStrategy.
DisableStrategy(s) ==
  /\ campaign.status \notin {"completed", "archived"}
  /\ strategy[s].status \in {"draft", "approved"}
  /\ MayDisable(s)
  /\ strategy' = [strategy EXCEPT ![s].status = "disabled"]
  /\ UNCHANGED <<campaign, run, exhausted>>

-----------------------------------------------------------------------------
\* activateProspectCampaign.
ActivateCampaign ==
  /\ Resting
  /\ Approved # {}
  /\ campaign' = [campaign EXCEPT !.status = "active"]
  /\ UNCHANGED <<strategy, run, exhausted>>

\* transitionProspectCampaign: a pause keeps the runs (it pauses those that
\* are queued), the end of a campaign wants none alive.
CloseCampaign(to) ==
  /\ to \in CASE campaign.status = "active"    -> {"paused", "completed"}
              [] campaign.status = "draft"     -> {"archived"}
              [] campaign.status = "paused"    -> {"completed", "archived"}
              [] campaign.status = "completed" -> {"archived"}
              [] OTHER                         -> {}
  /\ to # "paused" => LiveRunsOf = {}
  /\ campaign' = [campaign EXCEPT !.status = to]
  /\ UNCHANGED <<strategy, run, exhausted>>

\* createProspectCampaignVersion: the strategies stay with their version.
CreateVersion ==
  /\ LiveRunsOf = {}
  /\ Resting
  /\ campaign.version < MaxVersion
  /\ campaign' = [campaign EXCEPT !.version = @ + 1]
  /\ UNCHANGED <<strategy, run, exhausted>>

\* updateProspectCampaign with another owner; the strategies follow, with a
\* new revision each.  A new name alone changes nothing modelled.
TransferCampaign(o) ==
  /\ o # campaign.owner
  /\ LiveRunsOf = {}
  /\ campaign.transfers < MaxTransfers
  /\ campaign' = [campaign EXCEPT !.owner = o, !.transfers = @ + 1]
  /\ UNCHANGED <<strategy, run, exhausted>>

-----------------------------------------------------------------------------
UsedBy(key) == {r \in RunIds : run[r] # NoRun /\ run[r].key = key}

\* replayResult: the run an earlier request with this key has created, or a
\* refusal if that was another request.
Replayed(key, request) == {r \in UsedBy(key) : run[r].request = request}

\* Mutant of MayStart: the same search may be going on.
MayStartTwice(request) ==
  /\ request.revision = campaign.transfers
  /\ campaign.status = "active"
  /\ request.strategy \in Approved
\* assertStrategyIfMatch, runReadinessIssues and activeDuplicate.
MayStart(request) ==
  LET s == request.strategy IN
  /\ request.revision = campaign.transfers
  /\ campaign.status = "active"
  /\ s \in Approved
  /\ \A r \in LiveRuns : \/ run[r].owner # campaign.owner
                         \/ run[r].scope # strategy[s].scope

\* createProspectRun when no request has used the key and all checks pass.
CreateRun(r, key, request) ==
  /\ run[r] = NoRun
  /\ \A q \in RunIds : q < r => run[q] # NoRun
  /\ UsedBy(key) = {}
  /\ MayStart(request)
  /\ run' = [run EXCEPT ![r] =
       [status |-> "live", key |-> key, request |-> request,
        owner |-> campaign.owner, version |-> campaign.version,
        scope |-> strategy[request.strategy].scope]]
  /\ UNCHANGED <<campaign, strategy, exhausted>>

\* The execution kernel ends a run, perhaps with its sources read to the end.
EndRun(r) ==
  /\ run[r].status = "live"
  /\ run' = [run EXCEPT ![r].status = "ended"]
  /\ exhausted' \in {exhausted,
                     exhausted \cup {<<run[r].request.strategy, run[r].owner>>}}
  /\ UNCHANGED <<campaign, strategy>>

\* What the users of the campaign do, other than to create runs.
CampaignStep ==
  \/ \E s \in StrategyIds : \/ CreateStrategy(s) \/ UpdateStrategy(s)
                            \/ ApproveStrategy(s) \/ DisableStrategy(s)
  \/ ActivateCampaign
  \/ \E to \in {"paused", "completed", "archived"} : CloseCampaign(to)
  \/ CreateVersion
  \/ \E o \in Owners : TransferCampaign(o)

-----------------------------------------------------------------------------
\* What a live run was created from still stands: its campaign is neither a
\* draft nor closed, has the version and the owner it had, and its strategy
\* is approved with the scope that was asked for.  Six checks in different
\* transactions have to play together for it.
RunsFitTheirPlan ==
  \A r \in LiveRuns :
    LET s == run[r].request.strategy IN
    /\ campaign.status \in {"active", "paused"}
    /\ run[r].version = campaign.version
    /\ run[r].owner = campaign.owner
    /\ s \in Approved
    /\ run[r].scope = strategy[s].scope

\* An active campaign has an approved strategy of its current version: what
\* activateProspectCampaign asks for, versions, disabling and closing keep.
ActiveCampaignHasStrategy == campaign.status = "active" => Approved # {}

\* No two live runs, and no two approved strategies of one version, search
\* the same scope: the provider is not paid twice for one search at a time.
OneSearchPerScope ==
  /\ \A q, r \in LiveRuns : run[q].scope = run[r].scope => q = r
  /\ \A s, t \in Approved : strategy[s].scope = strategy[t].scope => s = t
=============================================================================
