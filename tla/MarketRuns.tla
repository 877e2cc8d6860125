---------------------------- MODULE MarketRuns ----------------------------
(***************************************************************************)
(* Market analyses (market-analysis-runs.ts) on top of the provider        *)
(* runtime's shared fetches and cache (executeProviderTradeQuery of        *)
(* provider-runtime.ts, provider-response-cache.ts), in the API process    *)
(* with the MySQL store.                                                   *)
(*                                                                         *)
(* A request looks for a job by its key, for a running analysis of the     *)
(* same question and for one that must wait, and else makes a job of its   *)
(* own.  The job is started in one transaction, the provider is awaited,   *)
(* and a second transaction stores job, observations and facts.  Requests  *)
(* that came meanwhile bind their key to the same job as an alias.         *)
(*                                                                         *)
(* While a run waits, any reload of the store (readBarrier, before most    *)
(* reads and by every poll of the scheduler) replaces the job objects in   *)
(* memory by new ones from the rows.  The run keeps the object it had: it  *)
(* is detached, and what happens to it is never written.                   *)
(*                                                                         *)
(* A transaction can be committed although its caller gets an error.  Then *)
(* memory is rolled back, and as long as it lacks an alias, a job or facts *)
(* of the rows, it is refused (verifyImmutableRows, syncAgentJobRows).     *)
(***************************************************************************)
EXTENDS MarketJobs

CONSTANTS
  Public,    \* queries whose catalog entry lets responses be cached and shared
  MaxEvents  \* bound: requests for known jobs, reloads, crashes, database failures

ASSUME RunConstants == Public \subseteq Queries /\ MaxEvents \in Nat

VARIABLES
  row,      \* the rows of agent_jobs
  mem,      \* the jobs of the store in memory
  aliasRow, \* the rows of agent_job_idempotency_aliases
  alias,    \* the aliases of the store in memory
  run,      \* the run of each job: where it is and the object it works on
  pending,  \* requests that are to bind their key to a run's job
  facts,    \* jobs whose observations and facts are in the rows
  known,    \* those whose facts the store in memory has
  answered, \* jobs whose success a request has been told
  fetching, \* queries a provider has been asked and has not answered
  cache,    \* queries with a fresh public response
  now,      \* the clock
  events    \* requests, reloads and faults so far, up to MaxEvents

rows == <<row, aliasRow, facts>>
vars == <<rows, mem, alias, run, pending, known, answered, fetching, cache,
          now, events>>

Alias == [asker : Askers, key : Keys, job : JobIds]
\* early: the run is not stored yet; ready: the alias is to be written;
\* awaited: and the run waits for it (aliasPersistenceTail) before it ends.
Pending == [asker : Askers, key : Keys, job : JobIds,
            at : {"early", "ready", "awaited"}]
AliasOf(p) == [asker |-> p.asker, key |-> p.key, job |-> p.job]

\* out: the job is not in the store yet; in: the run's object is the store's;
\* off: it is detached, and the run's own is all there is of it.
Idle == [step |-> "idle"]
Run == [step : {"starting", "reading", "missed", "waiting", "got", "lost",
                "failing"},
        held : {"out", "in", "off"}, own : Job \cup {NoJob},
        snap : Job \cup {NoJob}]

MarketInit ==
  /\ row = [j \in JobIds |-> NoJob] /\ mem = row
  /\ aliasRow = {} /\ alias = {} /\ pending = {}
  /\ facts = {} /\ known = {} /\ answered = {}
  /\ run = [j \in JobIds |-> Idle]
  /\ fetching = {} /\ cache = {}
  /\ now = 0 /\ events = 0

-----------------------------------------------------------------------------
Working == {j \in JobIds : run[j] # Idle}

\* The object a run works on.
Object(j) == IF run[j].held = "in" THEN mem[j] ELSE run[j].own
\* It changes, in the store or on its own.
Changed(j, job, step) ==
  /\ run' = [run EXCEPT ![j].step = step,
                        ![j].own = IF run[j].held = "in" THEN NoJob ELSE job]
  /\ mem' = IF run[j].held = "in" THEN [mem EXCEPT ![j] = job] ELSE mem

\* The state has its type; an attached object is the job of the store, and a
\* run that has started works on a running job.  A request that waits for the
\* run to be stored has a run to wait for.
MarketTypeOK ==
  /\ row \in [JobIds -> Job \cup {NoJob}]
  /\ mem \in [JobIds -> Job \cup {NoJob}]
  /\ aliasRow \subseteq Alias /\ alias \subseteq aliasRow
  /\ pending \subseteq Pending
  /\ \A p \in pending : p.at = "early" => run[p.job].step = "starting"
  /\ run \in [JobIds -> Run \cup {Idle}]
  /\ \A j \in JobIds : run[j] # Idle =>
       /\ run[j].held = "in" => mem[j] # NoJob /\ run[j].own = NoJob
       /\ run[j].held # "in" => run[j].own # NoJob
       /\ run[j].held = "out" => mem[j] = NoJob
       /\ run[j].step \notin {"starting", "failing"} => Object(j).status = "running"
  /\ facts \subseteq JobIds /\ known \subseteq facts /\ answered \subseteq JobIds
  /\ fetching \subseteq Queries /\ cache \subseteq Queries
  /\ now \in 0..MaxTime /\ events \in 0..MaxEvents

Stored == {j \in JobIds : mem[j] # NoJob}

\* findAgentJobByIdempotency: by the job's own key, then by an alias.
BoundTo(asker, key) ==
  {j \in Stored : mem[j].asker = asker /\ mem[j].key = key}
    \cup {a.job : a \in {b \in alias : b.asker = asker /\ b.key = key}}

\* Mutant of Active: jobs are told apart by their key.
ActiveOfKey(asker, query) == {}
\* activeMarketAnalysisRuns, which knows asker and question.
Active(asker, query) ==
  {j \in Working : Object(j).asker = asker /\ Object(j).query = query}

CoolingDown(asker, query) ==
  {j \in Stored : /\ mem[j].asker = asker /\ mem[j].query = query
                  /\ mem[j].until > now}

Begin(j, held, own) ==
  run' = [run EXCEPT ![j] = [step |-> "starting", held |-> held, own |-> own,
                             snap |-> NoJob]]

Event == events < MaxEvents /\ events' = events + 1

\* The requests that have joined the runs of these jobs get on.
Moved(jobs, from, to) ==
  {IF p.job \in jobs /\ p.at = from THEN [p EXCEPT !.at = to] ELSE p : p \in pending}

\* createMarketAnalysisRun with a key and a question nobody has used.
AskNew(j, asker, key, query) ==
  /\ BoundTo(asker, key) = {} /\ Active(asker, query) = {}
  /\ CoolingDown(asker, query) = {}
  /\ \A i \in JobIds : i < j <=> row[i] # NoJob \/ run[i] # Idle
  /\ Begin(j, "out", Enqueued(asker, query, key))
  /\ UNCHANGED <<rows, mem, alias, pending, known, answered, fetching, cache,
                 now, events>>

\* createMarketAnalysisRun with a known key and the same question, or
\* retryMarketAnalysisJob; assertRetryDue.  When the run is going on, or the
\* job has ended, the request only waits or reads.
AskAgain(j) ==
  /\ j \in Stored
  /\ mem[j].status \in {"running", "failed", "dead_letter"}
  /\ Active(mem[j].asker, mem[j].query) = {}
  /\ mem[j].until <= now
  /\ Event
  /\ Begin(j, "in", NoJob)
  /\ UNCHANGED <<rows, mem, alias, pending, known, answered, fetching, cache,
                 now>>

\* createMarketAnalysisRun with a new key while the question is being asked.
Join(asker, key, query) ==
  /\ BoundTo(asker, key) = {}
  /\ \E j \in Active(asker, query) :
       pending' = pending \cup
         {[asker |-> asker, key |-> key, job |-> j,
           at |-> IF run[j].step = "starting" THEN "early" ELSE "ready"]}
  /\ pending' # pending
  /\ Event
  /\ UNCHANGED <<rows, mem, alias, run, known, answered, fetching, cache,
                 now>>

-----------------------------------------------------------------------------
\* Mutant of MayBind: only the keys of jobs are looked at.
MayBindBesideAliases(asker, key, j) ==
  \A i \in Stored \ {j} : ~(mem[i].asker = asker /\ mem[i].key = key)
\* attachAgentJobIdempotencyAlias and assertJobIdempotencyBindingAvailable: no
\* other job has the key.
MayBind(asker, key, j) == BoundTo(asker, key) \subseteq {j}

\* A generic transaction writes all jobs, and refuses a memory that lacks
\* something of the rows.
Acceptable(jobs) ==
  Accepts(row, jobs) /\ aliasRow \subseteq alias /\ facts \subseteq known

\* It commits; the jobs of others go along.
Commits(jobs, aliases, made) ==
  Acceptable(jobs) /\ row' = jobs /\ aliasRow' = aliases /\ facts' = made

DatabaseFails == Event

\* Its caller gets an error: it is refused, or the database fails, maybe after
\* it has committed.
Fails(jobs, aliases, made) ==
  \/ ~Acceptable(jobs) /\ UNCHANGED <<rows, events>>
  \/ DatabaseFails /\ (UNCHANGED rows \/ Commits(jobs, aliases, made))

\* The first transaction of executeMarketAnalysisJob.
StartedJobs(j) ==
  IF run[j].held = "off" THEN mem ELSE [mem EXCEPT ![j] = Started(Object(j))]
CanBind(j) == MayBind(Object(j).asker, Object(j).key, j)

Start(j) ==
  /\ run[j].step = "starting"
  /\ CanBind(j)
  /\ Commits(StartedJobs(j), alias, known)
  /\ mem' = StartedJobs(j)
  /\ run' = [run EXCEPT ![j] =
       [step |-> "reading", snap |-> mem'[j],
        held |-> IF @.held = "off" THEN "off" ELSE "in",
        own |-> IF @.held = "off" THEN Started(@.own) ELSE NoJob]]
  /\ pending' = Moved({j}, "early", "ready")
  /\ UNCHANGED <<alias, known, answered, fetching, cache, now, events>>

\* It fails and is undone in memory; who waits for the run gets the error.
StartFails(j) ==
  /\ run[j].step = "starting"
  /\ \/ ~CanBind(j) /\ UNCHANGED <<rows, events>>
     \/ CanBind(j) /\ Fails(StartedJobs(j), alias, known)
  /\ run' = [run EXCEPT ![j] = Idle]
  /\ pending' = {p \in pending : p.job = j => p.at # "early"}
  /\ UNCHANGED <<mem, alias, known, answered, fetching, cache, now>>

\* Mutant of Ready: its run is over.
ReadyAfterwards(p) == run[p.job] = Idle
\* The run that p has joined is known to be stored (the promise ready).
Ready(p) == p.at # "early"

\* attachAndPersistAlias for a request that has joined, in its turn.
Attach(p) ==
  /\ p \in pending /\ Ready(p)
  /\ LET more == alias \cup {AliasOf(p)}
         can == MayBind(p.asker, p.key, p.job)
     IN \/ can /\ Commits(mem, more, known) /\ alias' = more /\ UNCHANGED events
        \/ can /\ Fails(mem, more, known) /\ UNCHANGED alias
        \/ ~can /\ UNCHANGED <<rows, alias, events>>
  /\ pending' = pending \ {p}
  /\ UNCHANGED <<mem, run, known, answered, fetching, cache, now>>

\* A new key for a question that must wait: it is bound and refused with 429,
\* or, when the database fails, refused with that error.
BindCoolingDown(asker, key, query) ==
  /\ BoundTo(asker, key) = {} /\ Active(asker, query) = {}
  /\ \E j \in CoolingDown(asker, query) :
       LET more == alias \cup {[asker |-> asker, key |-> key, job |-> j]}
       IN Commits(mem, more, known) /\ alias' \in {alias, more}
  /\ Event
  /\ UNCHANGED <<mem, run, pending, known, answered, fetching, cache, now>>

-----------------------------------------------------------------------------
Others == UNCHANGED <<aliasRow, alias, facts, known, answered, now>>

\* Runs get a result, or none; who has one waits for the aliases on the way.
ToStep(jobs, step) ==
  /\ run' = [j \in JobIds |-> IF j \in jobs THEN [run[j] EXCEPT !.step = step]
                                          ELSE run[j]]
  /\ pending' = IF step = "got" THEN Moved(jobs, "ready", "awaited") ELSE pending

\* A provider whose responses are not shared is asked by each run for itself;
\* it answers, or it fails or times out.
AskAlone(j) ==
  /\ run[j].step = "reading" /\ Object(j).query \notin Public
  /\ \E step \in {"got", "lost"} : ToStep({j}, step)
  /\ Others /\ UNCHANGED <<row, mem, fetching, cache, events>>

\* readProviderResponseCache.
ReadCache(j) ==
  /\ run[j].step = "reading" /\ Object(j).query \in Public
  /\ ToStep({j}, IF Object(j).query \in cache THEN "got" ELSE "missed")
  /\ Others /\ UNCHANGED <<row, mem, fetching, cache, events>>

\* activeTradeFlights: it waits for a fetch of the same question, by whomever,
\* or asks the provider.
Fetch(j) ==
  /\ run[j].step = "missed"
  /\ fetching' = fetching \cup {Object(j).query}
  /\ ToStep({j}, "waiting")
  /\ Others /\ UNCHANGED <<row, mem, cache, events>>

Waiting(q) == {j \in Working : run[j].step = "waiting" /\ Object(j).query = q}

\* The provider answers; writeProviderResponseCache persists the store, and a
\* failure of that is only a warning.
Answers(q) ==
  /\ q \in fetching /\ fetching' = fetching \ {q}
  /\ ToStep(Waiting(q), "got")
  /\ cache' = cache \cup {q}
  /\ \/ row' = (IF Acceptable(mem) THEN mem ELSE row) /\ UNCHANGED events
     \/ DatabaseFails /\ UNCHANGED row
  /\ Others /\ UNCHANGED mem

\* The provider fails or times out.
Refuses(q) ==
  /\ q \in fetching /\ fetching' = fetching \ {q}
  /\ ToStep(Waiting(q), "lost")
  /\ Others /\ UNCHANGED <<row, mem, cache, events>>

-----------------------------------------------------------------------------
\* failAgentJob, in memory; the provider may ask to wait.
Fail(j) ==
  /\ run[j].step = "lost"
  /\ \E until \in {0, now + 1} : Changed(j, Failed(Object(j), until), "failing")
  /\ Others /\ UNCHANGED <<row, pending, fetching, cache, events>>

\* store.persist() after it; if that fails the run's start is restored.
FailPersists(j) ==
  /\ run[j].step = "failing"
  /\ \/ Commits(mem, alias, known) /\ UNCHANGED <<mem, events>>
     \/ Fails(mem, alias, known) /\ mem' = [mem EXCEPT ![j] = run[j].snap]
  /\ run' = [run EXCEPT ![j] = Idle]
  /\ UNCHANGED <<alias, pending, known, answered, fetching, cache, now>>

\* Mutant of Results: the facts are left for later.
ResultsLater(j) == known
\* Observations and facts of the run, stored together with its job.
Results(j) == known \cup {j}

FinishedJobs(j) ==
  IF run[j].held = "in" THEN [mem EXCEPT ![j] = Completed(Object(j))] ELSE mem
\* The answer is in, and so are the aliases that came before it.
CanFinish(j) ==
  run[j].step = "got" /\ \A p \in pending : p.job = j => p.at # "awaited"
\* uk_market_opportunity_event_job: one set of facts for a job.
HasFacts(j) == j \in known

\* The second transaction.
Finish(j) ==
  /\ CanFinish(j) /\ ~HasFacts(j)
  /\ Commits(FinishedJobs(j), alias, Results(j))
  /\ mem' = FinishedJobs(j) /\ known' = Results(j)
  /\ answered' = answered \cup {j}
  /\ run' = [run EXCEPT ![j] = Idle]
  /\ UNCHANGED <<alias, pending, fetching, cache, now, events>>

\* It fails: the state after the first transaction is restored.
FinishFails(j) ==
  /\ CanFinish(j)
  /\ \/ HasFacts(j) /\ UNCHANGED <<rows, events>>
     \/ ~HasFacts(j) /\ Fails(FinishedJobs(j), alias, Results(j))
  /\ mem' = [mem EXCEPT ![j] = run[j].snap]
  /\ run' = [run EXCEPT ![j] = Idle]
  /\ UNCHANGED <<alias, pending, known, answered, fetching, cache, now>>

-----------------------------------------------------------------------------
\* reloadProspectRuns: the rows of jobs and aliases become new objects of the
\* store; facts are not read again.
Reload ==
  /\ Event
  /\ mem' = row /\ alias' = aliasRow
  /\ run' = [j \in JobIds |->
       IF run[j] # Idle /\ run[j].held = "in"
       THEN [run[j] EXCEPT !.held = "off", !.own = mem[j]] ELSE run[j]]
  /\ UNCHANGED <<rows, pending, known, answered, fetching, cache, now>>

\* The process ends, and responses not written yet are lost; when it starts,
\* recoverInterruptedAgentJobs.
Crash ==
  /\ DatabaseFails
  /\ row' = [j \in JobIds |-> Recovered(row[j])] /\ mem' = row'
  /\ alias' = aliasRow /\ known' = facts
  /\ run' = [j \in JobIds |-> Idle] /\ pending' = {} /\ fetching' = {}
  /\ cache' \in {cache, {}}
  /\ UNCHANGED <<aliasRow, facts, answered, now>>

\* Time passes, and responses may expire.  When nothing waits for it, nobody
\* could tell.
Clock ==
  /\ now < MaxTime /\ now' = now + 1
  /\ cache # {} \/ \E j \in Stored : mem[j].until > now
  /\ cache' \in {cache, {}}
  /\ UNCHANGED <<rows, mem, alias, run, pending, known, answered, fetching,
                 events>>

\* What nobody has used yet is all alike: one of it stands for the rest.
Offered(all, used) ==
  (all \cap used) \cup {x \in all \ used : x = CHOOSE y \in all \ used : TRUE}

Jobs == {mem[j] : j \in Stored} \cup {Object(j) : j \in Working}
          \cup {row[j] : j \in {i \in JobIds : row[i] # NoJob}}
KeysOf(asker) ==
  {d.key : d \in {e \in Jobs \cup aliasRow \cup pending : e.asker = asker}}

Ask ==
  \/ \E asker \in Offered(Askers, {d.asker : d \in Jobs}) :
     \E key \in Offered(Keys, KeysOf(asker)),
        query \in Offered(Public, {d.query : d \in Jobs})
                 \cup Offered(Queries \ Public, {d.query : d \in Jobs}) :
       \/ \E j \in JobIds : AskNew(j, asker, key, query)
       \/ Join(asker, key, query)
       \/ BindCoolingDown(asker, key, query)
  \/ \E j \in JobIds : AskAgain(j)

RunStep(j) ==
  /\ run[j] # Idle
  /\ \/ Start(j) \/ StartFails(j) \/ AskAlone(j) \/ ReadCache(j) \/ Fetch(j)
     \/ Fail(j) \/ FailPersists(j) \/ Finish(j) \/ FinishFails(j)

ProviderStep(q) == Answers(q) \/ Refuses(q)

AttachStep == \E p \in pending : Attach(p)

MarketNext ==
  \/ Ask
  \/ \E j \in JobIds : RunStep(j)
  \/ AttachStep
  \/ \E q \in Public : ProviderStep(q)
  \/ Reload \/ Crash \/ Clock

\* The process goes on with what it has begun, and every request to a
\* provider ends, by its timeout at the latest.
MarketSpec ==
  /\ MarketInit /\ [][MarketNext]_vars
  /\ \A j \in JobIds : WF_vars(RunStep(j))
  /\ \A q \in Public : WF_vars(ProviderStep(q))
  /\ WF_vars(AttachStep)

-----------------------------------------------------------------------------
\* A key stands for one job at most, be it the job's own key or an alias:
\* two requests with one key for two questions can pass the first look at the
\* same time, one bound for a run that is going on, the other with a new job.
KeyBindsOneJob ==
  \A asker \in Askers, key \in Keys : Cardinality(BoundTo(asker, key)) <= 1

\* One question of one asker is asked by one run at a time, under whichever
\* keys and however often retried; a run that waits for a fetch has one to
\* wait for.
SingleFlight ==
  /\ \A i, j \in Working : i # j => \/ Object(i).asker # Object(j).asker
                                    \/ Object(i).query # Object(j).query
  /\ \A j \in Working : run[j].step = "waiting" => Object(j).query \in fetching

\* Nothing is there without its job's row: no provider is asked before it is
\* written, so that a crash leaves something to recover, and facts are stored
\* in one piece with the success and for a stored job, since the process
\* refuses to start with facts of a job it does not know.
NothingWithoutItsJob ==
  \A j \in JobIds :
    /\ run[j].step \notin {"idle", "starting"} => row[j] # NoJob
    /\ row[j].status = "succeeded" => j \in facts
    /\ j \in facts \cup answered => row[j] # NoJob /\ j \in facts

\* A step changes the row of a job that has ended only by starting its retry,
\* and that of a success never.
KeepsEnded ==
  \A j \in JobIds :
    row[j].status \in {"succeeded", "failed", "dead_letter"} /\ row'[j] # row[j] =>
      /\ row[j].status # "succeeded"
      /\ run[j].step = "starting" /\ run'[j] # run[j]

\* What has ended in the rows is never revived there by a stale object or a
\* restored snapshot that goes along with another job's transaction.
EndedMovesByRetry == [][KeepsEnded]_vars

\* Every run ends, and every request that has joined one is answered.
RunsEnd ==
  /\ \A j \in JobIds : run[j] # Idle ~> run[j] = Idle
  /\ pending # {} ~> pending = {}

\* A retry of a failed job that is let in is executed, and turned down only
\* when the database fails: the routes that take one say so.
RetriesRun ==
  [][\A j \in JobIds :
       /\ run[j].step = "starting" /\ run'[j] = Idle
       /\ Object(j).status \in {"failed", "dead_letter"}
       => events' # events]_vars

\* A success that a request has been told is in the rows, so that the same
\* key gets the same answer and no second run.
AnsweredIsRecorded ==
  \A j \in answered : row[j].status = "succeeded"
=============================================================================
