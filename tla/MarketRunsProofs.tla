-------------------------- MODULE MarketRunsProofs --------------------------
(***************************************************************************)
(* Theorems about market analyses, for any askers, questions, keys, and    *)
(* numbers of jobs, attempts and events.                                   *)
(*                                                                         *)
(* MarketInv is the inductive invariant.  To what the properties say it    *)
(* adds how the three places in which a job lives belong together: its     *)
(* row, the memory of the store and the object that a run works on, with   *)
(* the snapshot the run would restore (JobOK, RunOK); and that keys bind   *)
(* one job already in the rows, of which the memory may know less.         *)
(***************************************************************************)
EXTENDS MarketRuns, FiniteSetTheorems, TLAPS

Ended == {"succeeded", "failed", "dead_letter"}

\* What is never changed of a job.
Same(d, e) == d.asker = e.asker /\ d.query = e.query /\ d.key = e.key

\* A job in memory has a row about the same request, and results once memory
\* or row say so.  They differ on an ended job only while the memory still, or
\* again, takes it for running.
JobOK(j) ==
  /\ mem[j] # NoJob => row[j] # NoJob /\ Same(mem[j], row[j])
  /\ row[j].status \in Ended => mem[j] = row[j] \/ mem[j].status = "running"
  /\ mem[j].status = "succeeded" \/ row[j].status = "succeeded" => j \in facts
  /\ j \in facts => mem[j] # NoJob

\* The object of a run is about its job's request; between its transactions
\* the job in memory is what has been committed and what would be restored.
RunOK(j) ==
  run[j] # Idle =>
    /\ run[j].held = "in" => mem[j] # NoJob /\ run[j].own = NoJob
    /\ run[j].held # "in" => run[j].own # NoJob
    /\ run[j].held = "out" =>
         mem[j] = NoJob /\ row[j] = NoJob /\ run[j].step = "starting"
    /\ run[j].held # "out" => mem[j] # NoJob /\ Same(Object(j), mem[j])
    /\ run[j].held = "off" => mem[j] = row[j]
    /\ run[j].step \notin {"starting", "failing"} =>
         /\ Object(j).status = "running"
         /\ run[j].snap = mem[j] /\ mem[j] = row[j]
    /\ run[j].step = "failing" =>
         /\ run[j].snap \in Job /\ Same(run[j].snap, mem[j])
         /\ \/ run[j].snap.status = "running"
            \/ run[j].snap = mem[j] /\ mem[j] = row[j]

JobTable == [JobIds -> Job \cup {NoJob}]
Tables ==
  row \in JobTable /\ mem \in JobTable /\ run \in [JobIds -> Run \cup {Idle}]

\* No two runs have the same question, and who waits has something to wait for.
Distinct ==
  \A i, j \in JobIds :
    i # j /\ run[i] # Idle /\ run[j] # Idle =>
      Object(i).asker # Object(j).asker \/ Object(i).query # Object(j).query
Fetching ==
  \A j \in JobIds :
    run[j] # Idle /\ run[j].step = "waiting" => Object(j).query \in fetching

\* Keys stand for jobs of the memory; requests wait for a job to come there
\* only with the run that brings it.
Waits(p) ==
  /\ mem[p.job] = NoJob => p.at = "early"
  /\ p.at = "early" => run[p.job].step = "starting"
KeysOK ==
  /\ aliasRow \subseteq Alias /\ alias \subseteq aliasRow
  /\ \A a \in aliasRow : mem[a.job] # NoJob
  /\ pending \subseteq Pending
  /\ \A p \in pending : Waits(p)

\* In the rows, each key stands for one job.
RowsBoundTo(asker, key) ==
  {j \in JobIds : row[j] # NoJob /\ row[j].asker = asker /\ row[j].key = key}
    \cup {a.job : a \in {b \in aliasRow : b.asker = asker /\ b.key = key}}
OneBinding ==
  \A asker, key : \A i, j \in RowsBoundTo(asker, key) : i = j

RestOK ==
  /\ facts \subseteq JobIds /\ known \subseteq facts /\ answered \subseteq facts
  /\ fetching \subseteq Queries /\ cache \subseteq Queries
  /\ now \in 0..MaxTime /\ events \in 0..MaxEvents

MarketInv ==
  /\ Tables /\ (\A j \in JobIds : JobOK(j) /\ RunOK(j))
  /\ Distinct /\ Fetching /\ KeysOK /\ OneBinding /\ RestOK

-----------------------------------------------------------------------------
(* Helpers.                                                                *)

\* No job is not a job, and the jobs' functions return jobs.
LEMMA JobTypes ==
  /\ NoJob \notin Job
  /\ \A j \in Job, until \in Nat :
       /\ Started(j) \in Job /\ Same(Started(j), j)
       /\ Started(j).status = "running"
       /\ Completed(j) \in Job /\ Same(Completed(j), j)
       /\ Completed(j).status = "succeeded"
       /\ Failed(j, until) \in Job /\ Same(Failed(j, until), j)
       /\ Failed(j, until).status \in {"failed", "dead_letter"}
       /\ Recovered(j) \in Job /\ Same(Recovered(j), j)
       /\ Recovered(j).status = "succeeded" => j.status = "succeeded"
<1>1. NoJob \notin Job
  BY DEF NoJob, Job
<1>2. ASSUME NEW j \in Job
      PROVE  /\ Started(j) \in Job /\ Same(Started(j), j)
             /\ Started(j).status = "running"
  <2>1. j.attempts + 1 \in Nat
    BY <1>2 DEF Job
  <2>2. \A n \in Nat : n = j.attempts + 1 =>
          Started(j) = [j EXCEPT !.status = "running", !.attempts = n, !.until = 0]
    BY Zenon DEF Started
  <2>3. ASSUME NEW n \in Nat
        PROVE  LET k == [j EXCEPT !.status = "running", !.attempts = n, !.until = 0]
               IN k \in Job /\ Same(k, j) /\ k.status = "running"
    BY <1>2, <2>3 DEF Job, Same
  <2> QED
    BY <2>1, <2>2, <2>3, Zenon
<1>3. ASSUME NEW j \in Job
      PROVE  /\ Completed(j) \in Job /\ Same(Completed(j), j)
             /\ Completed(j).status = "succeeded"
  BY <1>3 DEF Job, Completed, Same
<1>4. ASSUME NEW j \in Job, NEW until \in Nat
      PROVE  /\ Failed(j, until) \in Job /\ Same(Failed(j, until), j)
             /\ Failed(j, until).status \in {"failed", "dead_letter"}
  <2>1. CASE j.attempts >= MaxAttempts
    BY <1>4, <2>1 DEF Job, Failed, Same
  <2>2. CASE ~(j.attempts >= MaxAttempts)
    BY <1>4, <2>2 DEF Job, Failed, Same
  <2> QED
    BY <2>1, <2>2
<1>5. ASSUME NEW j \in Job
      PROVE  /\ Recovered(j) \in Job /\ Same(Recovered(j), j)
             /\ Recovered(j).status = "succeeded" => j.status = "succeeded"
  <2>1. CASE j.status = "running"
    BY <1>5, <2>1 DEF Job, Recovered, Same
  <2>2. CASE j.status # "running"
    BY <1>5, <2>2 DEF Job, Recovered, Same
  <2> QED
    BY <2>1, <2>2
<1> QED
  BY <1>1, <1>2, <1>3, <1>4, <1>5

\* What every state has.
LEMMA StateTypes ==
  ASSUME MarketInv, NEW j \in JobIds
  PROVE  /\ row[j] \in Job \cup {NoJob} /\ mem[j] \in Job \cup {NoJob}
         /\ run[j] \in Run \cup {Idle}
         /\ JobOK(j) /\ RunOK(j)
         /\ mem[j] # NoJob => mem[j] \in Job
         /\ row[j] # NoJob => row[j] \in Job
         /\ run[j] # Idle => run[j] \in Run
BY DEF MarketInv, Tables, JobTable

\* The object of a run is a job.
LEMMA ObjectIsJob ==
  ASSUME MarketInv, NEW j \in JobIds, run[j] # Idle
  PROVE  Object(j) \in Job
<1>1. run[j] \in Run /\ RunOK(j) /\ mem[j] \in Job \cup {NoJob}
  BY StateTypes
<1>2. run[j].own \in Job \cup {NoJob}
  BY <1>1 DEF Run
<1> QED
  BY <1>1, <1>2 DEF RunOK, Object

\* A job that a step does not touch, except that its row may be written.
LEMMA Untouched ==
  ASSUME MarketInv, NEW k \in JobIds,
         run'[k] = run[k], mem'[k] = mem[k], row'[k] \in {row[k], mem[k]},
         k \in facts' <=> k \in facts
  PROVE  JobOK(k)' /\ RunOK(k)'
<1>1. JobOK(k) /\ RunOK(k) /\ mem[k] \in Job \cup {NoJob}
  BY StateTypes
<1>2. JobOK(k)'
  <2>1. CASE row'[k] = row[k]
    BY <1>1, <2>1 DEF JobOK
  <2>2. CASE row'[k] = mem[k]
    BY <1>1, <2>2 DEF JobOK, Same, Ended, NoJob
  <2> QED
    BY <2>1, <2>2
<1>3. Object(k)' = Object(k)
  BY DEF Object
<1> QED
  BY <1>1, <1>2, <1>3 DEF RunOK

\* Keys stand for jobs of the memory, as long as none is lost there.
LEMMA KeysStay ==
  ASSUME MarketInv, aliasRow' \subseteq aliasRow, alias' \subseteq aliasRow',
         \A j \in JobIds : mem[j] # NoJob => mem'[j] # NoJob,
         pending' \subseteq Pending, \A p \in pending' : Waits(p)'
  PROVE  KeysOK'
BY DEF MarketInv, KeysOK, Alias

\* A commit without a new alias takes the memory's for the rows', which are
\* the same.
LEMMA CommitAliases ==
  ASSUME MarketInv, NEW jobs, NEW made, Commits(jobs, alias, made)
  PROVE  /\ row' = jobs /\ aliasRow' = alias /\ alias = aliasRow
         /\ facts' = made /\ facts = known
BY DEF MarketInv, KeysOK, RestOK, Commits, Acceptable

\* Keys bind the same jobs in the rows, when these stay about their requests.
LEMMA BindingsStay ==
  ASSUME MarketInv, aliasRow' \subseteq aliasRow,
         \A j \in JobIds :
           row'[j] # NoJob => row[j] # NoJob /\ Same(row'[j], row[j])
  PROVE  OneBinding'
<1>1. ASSUME NEW asker, NEW key
      PROVE  RowsBoundTo(asker, key)' \subseteq RowsBoundTo(asker, key)
  BY DEF RowsBoundTo, Same
<1> QED
  BY <1>1 DEF MarketInv, OneBinding

\* What a key stands for in memory, it stands for in the rows.
LEMMA MemoryBinds ==
  ASSUME MarketInv, NEW asker, NEW key
  PROVE  BoundTo(asker, key) \subseteq RowsBoundTo(asker, key)
<1>1. \A j \in JobIds : mem[j] # NoJob => row[j] # NoJob /\ Same(mem[j], row[j])
  BY StateTypes DEF JobOK
<1>2. alias \subseteq aliasRow
  BY DEF MarketInv, KeysOK
<1> QED
  BY <1>1, <1>2 DEF BoundTo, Stored, RowsBoundTo, Same

\* The memory is written, with one job that has just come and a key for it
\* that nothing else in memory has.
LEMMA BindingsGrow ==
  ASSUME MarketInv, NEW j \in JobIds, NEW asker, NEW key,
         BoundTo(asker, key) \subseteq {j},
         \A i \in JobIds \ {j} : row'[i] = mem[i],
         row'[j] = mem[j] \/ (row'[j].asker = asker /\ row'[j].key = key),
         aliasRow' \subseteq
           alias \cup {[asker |-> asker, key |-> key, job |-> j]}
  PROVE  OneBinding'
<1>1. ASSUME NEW someone, NEW other, asker = someone /\ key = other
      PROVE  RowsBoundTo(someone, other)' \subseteq {j}
  BY <1>1 DEF RowsBoundTo, BoundTo, Stored
<1>2. ASSUME NEW someone, NEW other, ~(asker = someone /\ key = other)
      PROVE  RowsBoundTo(someone, other)' \subseteq BoundTo(someone, other)
  BY <1>2 DEF RowsBoundTo, BoundTo, Stored
<1>3. \A someone, other :
        \/ RowsBoundTo(someone, other)' \subseteq {j}
        \/ RowsBoundTo(someone, other)' \subseteq RowsBoundTo(someone, other)
  BY <1>1, <1>2, MemoryBinds
<1> QED
  BY <1>3 DEF MarketInv, OneBinding

\* Runs go on with the same question, or end.
LEMMA QuestionsStay ==
  ASSUME MarketInv,
         \A j \in JobIds : run'[j] # Idle =>
           run[j] # Idle /\ Same(Object(j)', Object(j))
  PROVE  Distinct'
BY DEF MarketInv, Distinct, Same

\* Nobody starts to wait, and fetches go on.
LEMMA FetchesStay ==
  ASSUME MarketInv, fetching \subseteq fetching',
         \A j \in JobIds : run'[j] # Idle =>
           run[j] # Idle /\ Same(Object(j)', Object(j)),
         \A j \in JobIds : run'[j].step = "waiting" => run[j].step = "waiting"
  PROVE  Fetching'
BY DEF MarketInv, Fetching, Same, Idle

\* What most steps leave alone.
LEMMA RestStays ==
  ASSUME MarketInv, facts' = facts, known' = known, answered' = answered,
         fetching' \subseteq Queries, cache' \subseteq Queries,
         now' \in 0..MaxTime, events' \in 0..MaxEvents
  PROVE  RestOK'
BY DEF MarketInv, RestOK

\* The counter of events stays in its bound.
LEMMA EventCounts ==
  ASSUME MarketInv, Event
  PROVE  events' \in 0..MaxEvents
BY RunConstants DEF MarketInv, RestOK, Event

\* A failing transaction has left the rows alone or written them.
LEMMA FailsDoes ==
  ASSUME MarketInv, NEW jobs, NEW aliases, NEW made, Fails(jobs, aliases, made)
  PROVE  /\ events' \in 0..MaxEvents
         /\ \/ row' = row /\ aliasRow' = aliasRow /\ facts' = facts
            \/ Commits(jobs, aliases, made)
<1>1. events' \in 0..MaxEvents
  BY EventCounts DEF Fails, DatabaseFails, MarketInv, RestOK
<1> QED
  BY <1>1 DEF Fails, rows

\* Requests that have moved on are those that there were.
LEMMA MovedRequests ==
  ASSUME MarketInv, NEW jobs, NEW from, NEW to \in {"ready", "awaited"},
         NEW p \in Moved(jobs, from, to)
  PROVE  /\ p \in Pending
         /\ \E q \in pending :
              /\ q \in Pending /\ q.job = p.job /\ Waits(q)
              /\ IF q.job \in jobs /\ q.at = from THEN p.at = to ELSE p = q
<1>1. PICK q \in pending :
        p = IF q.job \in jobs /\ q.at = from THEN [q EXCEPT !.at = to] ELSE q
  BY DEF Moved
<1>2. q \in Pending /\ Waits(q)
  BY DEF MarketInv, KeysOK
<1> QED
  BY <1>1, <1>2 DEF Pending

\* In the beginning there is nothing.
LEMMA MarketInvInit ==
  ASSUME MarketInit PROVE MarketInv
<1>1. Tables
  BY DEF MarketInit, Tables, JobTable
<1>2. ASSUME NEW j \in JobIds PROVE JobOK(j) /\ RunOK(j)
  BY <1>2 DEF MarketInit, JobOK, RunOK, NoJob, Ended
<1>3. Distinct /\ Fetching /\ KeysOK /\ RestOK
  BY MarketConstants, RunConstants
     DEF MarketInit, Distinct, Fetching, KeysOK, RestOK
<1>4. OneBinding
  BY DEF MarketInit, OneBinding, RowsBoundTo
<1> QED
  BY <1>1, <1>2, <1>3, <1>4 DEF MarketInv

-----------------------------------------------------------------------------
(* Requests.                                                               *)

\* A run begins; keys and waiting requests stay what they are.
LEMMA KeysOfBegin ==
  ASSUME MarketInv, NEW j \in JobIds, mem' = mem, row' = row,
         aliasRow' = aliasRow, alias' = alias, pending' = pending,
         run'[j].step = "starting",
         \A i \in JobIds \ {j} : run'[i] = run[i]
  PROVE  KeysOK' /\ OneBinding'
<1>1. \A p \in pending' : p \in Pending /\ p.job \in JobIds /\ Waits(p)
  BY DEF MarketInv, KeysOK, Pending
<1>2. \A p \in pending' : Waits(p)'
  BY <1>1 DEF Waits
<1>3. KeysOK'
  BY <1>1, <1>2, KeysStay DEF MarketInv, KeysOK
<1>4. OneBinding'
  BY BindingsStay DEF Same
<1> QED
  BY <1>3, <1>4

\* A request for a new job: its run has an object that is not stored yet.
LEMMA AskNewKeeps ==
  ASSUME MarketInv, NEW j \in JobIds, NEW asker \in Askers, NEW key \in Keys,
         NEW query \in Queries, AskNew(j, asker, key, query)
  PROVE  MarketInv'
<1> DEFINE d == Enqueued(asker, query, key)
<1>1. /\ row[j] = NoJob /\ mem[j] = NoJob /\ run[j] = Idle
      /\ \A i \in JobIds : run[i] # Idle => Object(i).asker # asker
                                              \/ Object(i).query # query
  <2>1. ~(j < j)
    BY DEF JobIds
  <2>2. row[j] = NoJob /\ run[j] = Idle
    BY <2>1 DEF AskNew
  <2>3. mem[j] = NoJob
    BY <2>2, StateTypes DEF JobOK
  <2> QED
    BY <2>2, <2>3 DEF AskNew, Active, Working
<1>2. d \in Job /\ d.asker = asker /\ d.query = query /\ d # NoJob
  BY MarketConstants, JobTypes DEF Enqueued, Job
<1> HIDE DEF d
<1>3. /\ row' = row /\ mem' = mem /\ facts' = facts /\ alias' = alias
      /\ aliasRow' = aliasRow /\ pending' = pending /\ fetching' = fetching
      /\ run' = [run EXCEPT ![j] = [step |-> "starting", held |-> "out",
                                    own |-> d, snap |-> NoJob]]
  BY DEF AskNew, Begin, d, rows
<1>4. run \in [JobIds -> Run \cup {Idle}]
  BY DEF MarketInv, Tables
<1>5. Tables'
  BY <1>2, <1>3, <1>4 DEF MarketInv, Tables, Run
<1>6. /\ run'[j].held = "out" /\ run'[j].own = d /\ run'[j].step = "starting"
      /\ \A i \in JobIds \ {j} : run'[i] = run[i]
  BY <1>3, <1>4
<1>7. ASSUME NEW i \in JobIds PROVE JobOK(i)' /\ RunOK(i)'
  <2>1. CASE i # j
    BY <1>3, <1>6, <2>1, Untouched
  <2>2. CASE i = j
    <3>1. JobOK(j)'
      BY <1>3, StateTypes DEF JobOK
    <3>2. RunOK(j)'
      BY <1>1, <1>2, <1>3, <1>6 DEF RunOK
    <3> QED
      BY <2>2, <3>1, <3>2
  <2> QED
    BY <2>1, <2>2
<1>8. /\ Object(j)' = d
      /\ \A i \in JobIds \ {j} : Object(i)' = Object(i)
  BY <1>3, <1>6 DEF Object
<1>9. Distinct'
  BY <1>1, <1>2, <1>6, <1>8 DEF MarketInv, Distinct
<1>10. Fetching'
  BY <1>3, <1>6, <1>8 DEF MarketInv, Fetching
<1>11. KeysOK' /\ OneBinding'
  BY <1>3, <1>6, KeysOfBegin
<1>12. RestOK'
  BY RestStays DEF AskNew, rows, MarketInv, RestOK
<1> QED
  BY <1>5, <1>7, <1>9, <1>10, <1>11, <1>12 DEF MarketInv

\* A request for a stored job starts its run again, with the store's object.
LEMMA AskAgainKeeps ==
  ASSUME MarketInv, NEW j \in JobIds, AskAgain(j)
  PROVE  MarketInv'
<1>1. /\ mem[j] # NoJob
      /\ \A i \in JobIds : run[i] # Idle => Object(i).asker # mem[j].asker
                                              \/ Object(i).query # mem[j].query
  BY DEF AskAgain, Stored, Active, Working
<1>2. mem[j] \in Job /\ NoJob \notin Job /\ JobOK(j)
  BY <1>1, StateTypes, JobTypes
<1>3. /\ row' = row /\ mem' = mem /\ facts' = facts /\ alias' = alias
      /\ aliasRow' = aliasRow /\ pending' = pending /\ fetching' = fetching
      /\ run' = [run EXCEPT ![j] = [step |-> "starting", held |-> "in",
                                    own |-> NoJob, snap |-> NoJob]]
  BY DEF AskAgain, Begin, rows
<1>4. run \in [JobIds -> Run \cup {Idle}]
  BY DEF MarketInv, Tables
<1>5. Tables'
  BY <1>2, <1>3, <1>4 DEF MarketInv, Tables, Run
<1>6. /\ run'[j].held = "in" /\ run'[j].own = NoJob /\ run'[j].step = "starting"
      /\ \A i \in JobIds \ {j} : run'[i] = run[i]
  BY <1>3, <1>4
<1>7. /\ Object(j)' = mem[j]
      /\ \A i \in JobIds \ {j} : Object(i)' = Object(i)
  BY <1>3, <1>6 DEF Object
<1>8. ASSUME NEW i \in JobIds PROVE JobOK(i)' /\ RunOK(i)'
  <2>1. CASE i # j
    BY <1>3, <1>6, <2>1, Untouched
  <2>2. CASE i = j
    <3>1. JobOK(j)'
      BY <1>2, <1>3 DEF JobOK
    <3>2. RunOK(j)'
      BY <1>1, <1>3, <1>6, <1>7 DEF RunOK, Same
    <3> QED
      BY <2>2, <3>1, <3>2
  <2> QED
    BY <2>1, <2>2
<1>9. Distinct'
  BY <1>1, <1>6, <1>7 DEF MarketInv, Distinct
<1>10. Fetching'
  BY <1>3, <1>6, <1>7 DEF MarketInv, Fetching
<1>11. KeysOK' /\ OneBinding'
  BY <1>3, <1>6, KeysOfBegin
<1>12. RestOK'
  BY RestStays, EventCounts DEF AskAgain, rows, MarketInv, RestOK
<1> QED
  BY <1>5, <1>8, <1>9, <1>10, <1>11, <1>12 DEF MarketInv

\* Only keys and counters change.
LEMMA RunsUntouched ==
  ASSUME MarketInv, mem' = mem, run' = run, facts' = facts,
         row' \in {row, mem}, fetching' = fetching
  PROVE  /\ Tables' /\ (\A j \in JobIds : JobOK(j)' /\ RunOK(j)')
         /\ Distinct' /\ Fetching'
<1>1. Tables'
  BY DEF MarketInv, Tables, JobTable
<1>2. ASSUME NEW j \in JobIds PROVE JobOK(j)' /\ RunOK(j)'
  BY Untouched
<1>3. \A j \in JobIds : Object(j)' = Object(j)
  BY DEF Object
<1>4. Distinct' /\ Fetching'
  BY <1>3 DEF MarketInv, Distinct, Fetching
<1> QED
  BY <1>1, <1>2, <1>4

\* A request joins a run, whose job is stored or about to be.
LEMMA JoinKeeps ==
  ASSUME MarketInv, NEW asker \in Askers, NEW key \in Keys, NEW query \in Queries,
         Join(asker, key, query)
  PROVE  MarketInv'
<1>1. /\ row' = row /\ mem' = mem /\ run' = run /\ facts' = facts
      /\ aliasRow' = aliasRow /\ alias' = alias /\ fetching' = fetching
  BY DEF Join, rows
<1>2. PICK j \in Active(asker, query), at \in {"early", "ready"} :
        /\ pending' = pending \cup
             {[asker |-> asker, key |-> key, job |-> j, at |-> at]}
        /\ at = IF run[j].step = "starting" THEN "early" ELSE "ready"
  BY DEF Join
<1>3. j \in JobIds /\ run[j] # Idle
  BY <1>2 DEF Active, Working
<1>4. mem[j] = NoJob => run[j].step = "starting"
  BY <1>3, StateTypes DEF RunOK, Run
<1>5. \A p \in pending' : p \in Pending /\ Waits(p)'
  <2>1. \A p \in pending : p \in Pending /\ Waits(p)'
    BY <1>1 DEF MarketInv, KeysOK, Waits
  <2> DEFINE p == [asker |-> asker, key |-> key, job |-> j, at |-> at]
  <2>2. p \in Pending /\ p.job = j /\ p.at = at
    BY <1>3 DEF Pending
  <2>3. pending' = pending \cup {p}
    BY <1>2
  <2> HIDE DEF p
  <2>4. Waits(p)'
    BY <1>1, <1>2, <1>4, <2>2 DEF Waits
  <2> QED
    BY <2>1, <2>2, <2>3, <2>4
<1>6. KeysOK' /\ OneBinding'
  <2>1. alias' \subseteq aliasRow'
    BY <1>1 DEF MarketInv, KeysOK
  <2> QED
    BY <1>1, <1>5, <2>1, KeysStay, BindingsStay DEF Same
<1>7. RestOK'
  BY RestStays, EventCounts DEF Join, rows, MarketInv, RestOK
<1> QED
  BY <1>1, <1>6, <1>7, RunsUntouched DEF MarketInv

\* An alias is written for a stored job, unless another one has the key.
LEMMA AliasAdded ==
  ASSUME MarketInv, mem' = mem, run' = run, row' = mem, pending' \subseteq pending,
         NEW asker \in Askers, NEW key \in Keys, NEW j \in JobIds,
         mem[j] # NoJob, MayBind(asker, key, j), alias = aliasRow,
         NEW more, more = alias \cup {[asker |-> asker, key |-> key, job |-> j]},
         aliasRow' = more, alias' \in {alias, more}
  PROVE  KeysOK' /\ OneBinding'
<1>1. OneBinding'
  BY BindingsGrow DEF MayBind
<1>2. more \subseteq Alias /\ \A a \in more : mem[a.job] # NoJob
  BY DEF MarketInv, KeysOK, Alias
<1>3. KeysOK'
  BY <1>2 DEF MarketInv, KeysOK, Waits
<1> QED
  BY <1>1, <1>3

\* A request that has joined binds its key, or gets an error.
LEMMA AttachKeeps ==
  ASSUME MarketInv, NEW p \in pending, Attach(p)
  PROVE  MarketInv'
<1> DEFINE more == alias \cup {AliasOf(p)}
<1>1. /\ mem' = mem /\ run' = run /\ known' = known /\ fetching' = fetching
      /\ pending' = pending \ {p}
  BY DEF Attach
<1>2. /\ p.asker \in Askers /\ p.key \in Keys /\ p.job \in JobIds
      /\ mem[p.job] # NoJob
  BY DEF MarketInv, KeysOK, Pending, Waits, Attach, Ready
<1>3. /\ events' \in 0..MaxEvents
      /\ \/ row' = row /\ aliasRow' = aliasRow /\ facts' = facts /\ alias' = alias
         \/ /\ MayBind(p.asker, p.key, p.job) /\ Commits(mem, more, known)
            /\ alias' \in {alias, more}
  BY FailsDoes DEF Attach, rows, MarketInv, RestOK
<1>4. CASE row' = row /\ aliasRow' = aliasRow /\ facts' = facts /\ alias' = alias
  <2>1. KeysOK' /\ OneBinding'
    <3>1. \A q \in pending' : q \in Pending /\ Waits(q)'
      BY <1>1 DEF MarketInv, KeysOK, Waits
    <3> QED
      BY <1>1, <1>4, <3>1, KeysStay, BindingsStay DEF MarketInv, KeysOK, Same
  <2>2. RestOK'
    BY <1>3, <1>4, RestStays DEF Attach, MarketInv, RestOK
  <2> QED
    BY <1>1, <1>4, <2>1, <2>2, RunsUntouched DEF MarketInv
<1>5. CASE /\ MayBind(p.asker, p.key, p.job) /\ Commits(mem, more, known)
           /\ alias' \in {alias, more}
  <2>1. /\ row' = mem /\ aliasRow' = more /\ facts' = known /\ facts = known
        /\ alias = aliasRow
    BY <1>5 DEF Commits, Acceptable, MarketInv, KeysOK, RestOK
  <2>2. more = alias \cup {[asker |-> p.asker, key |-> p.key, job |-> p.job]}
    BY DEF AliasOf
  <2> HIDE DEF more
  <2>3. KeysOK' /\ OneBinding'
    BY <1>1, <1>2, <1>5, <2>1, <2>2, AliasAdded
  <2>4. RestOK'
    BY <1>3, <2>1, RestStays DEF Attach, MarketInv, RestOK
  <2> QED
    BY <1>1, <2>1, <2>3, <2>4, RunsUntouched DEF MarketInv
<1> QED
  BY <1>3, <1>4, <1>5

\* A key is bound to the job whose question must wait.
LEMMA BindKeeps ==
  ASSUME MarketInv, NEW asker \in Askers, NEW key \in Keys, NEW query \in Queries,
         BindCoolingDown(asker, key, query)
  PROVE  MarketInv'
<1>1. /\ mem' = mem /\ run' = run /\ fetching' = fetching
      /\ pending' = pending /\ BoundTo(asker, key) = {}
  BY DEF BindCoolingDown
<1>2. PICK j \in CoolingDown(asker, query) :
        LET more == alias \cup {[asker |-> asker, key |-> key, job |-> j]}
        IN Commits(mem, more, known) /\ alias' \in {alias, more}
  BY DEF BindCoolingDown
<1> DEFINE more == alias \cup {[asker |-> asker, key |-> key, job |-> j]}
<1>3. j \in JobIds /\ mem[j] # NoJob /\ MayBind(asker, key, j)
  BY <1>1, <1>2 DEF CoolingDown, Stored, MayBind
<1>4. Commits(mem, more, known) /\ alias' \in {alias, more}
  BY <1>2
<1>5. /\ row' = mem /\ aliasRow' = more /\ facts' = known /\ facts = known
      /\ alias = aliasRow
  BY <1>4 DEF Commits, Acceptable, MarketInv, KeysOK, RestOK
<1>6. KeysOK' /\ OneBinding'
  BY <1>1, <1>3, <1>4, <1>5, AliasAdded
<1>7. RestOK'
  BY <1>5, RestStays, EventCounts DEF BindCoolingDown, MarketInv, RestOK
<1> QED
  BY <1>1, <1>5, <1>6, <1>7, RunsUntouched DEF MarketInv

-----------------------------------------------------------------------------
(* Runs.                                                                   *)

\* One run moves, or ends, and rows are written; the others stay what they are.
LEMMA RunMoves ==
  ASSUME MarketInv, NEW j \in JobIds, NEW r \in Run \cup {Idle},
         run[j] # Idle, run' = [run EXCEPT ![j] = r],
         mem' \in JobTable, row' \in JobTable,
         \A i \in JobIds \ {j} : mem'[i] = mem[i] /\ row'[i] \in {row[i], mem[i]},
         \A i \in JobIds \ {j} : i \in facts' <=> i \in facts,
         JobOK(j)', RunOK(j)',
         r # Idle => Same(Object(j)', Object(j)),
         r.step # "waiting" \/ run[j].step = "waiting",
         fetching' = fetching
  PROVE  /\ Tables' /\ (\A i \in JobIds : JobOK(i)' /\ RunOK(i)')
         /\ Distinct' /\ Fetching'
<1>1. run \in [JobIds -> Run \cup {Idle}]
  BY DEF MarketInv, Tables
<1>2. Tables'
  BY <1>1 DEF Tables
<1>3. run'[j] = r /\ \A i \in JobIds \ {j} : run'[i] = run[i]
  BY <1>1
<1>4. ASSUME NEW i \in JobIds \ {j} PROVE JobOK(i)' /\ RunOK(i)'
  BY <1>3, Untouched
<1>5. \A i \in JobIds \ {j} : Object(i)' = Object(i)
  BY <1>3 DEF Object
<1>6. \A i \in JobIds : run'[i] # Idle =>
        run[i] # Idle /\ Same(Object(i)', Object(i))
  BY <1>3, <1>5 DEF Same
<1>7. \A i \in JobIds : run'[i].step = "waiting" => run[i].step = "waiting"
  BY <1>3
<1> QED
  BY <1>2, <1>4, <1>6, <1>7, QuestionsStay, FetchesStay

\* What a starting run would write.
LEMMA StartedRows ==
  ASSUME MarketInv, NEW j \in JobIds, run[j].step = "starting"
  PROVE  /\ run[j] # Idle /\ run[j] \in Run /\ JobOK(j) /\ RunOK(j)
         /\ Object(j) \in Job /\ NoJob \notin Job
         /\ StartedJobs(j) \in JobTable
         /\ \A i \in JobIds \ {j} : StartedJobs(j)[i] = mem[i]
         /\ StartedJobs(j)[j] \in Job /\ Same(StartedJobs(j)[j], Object(j))
         /\ run[j].held = "off" => StartedJobs(j) = mem
         /\ run[j].held # "off" => /\ StartedJobs(j)[j] = Started(Object(j))
                                   /\ StartedJobs(j)[j].status = "running"
<1>1. run[j] # Idle
  BY DEF Idle
<1>2. /\ run[j] \in Run /\ JobOK(j) /\ RunOK(j) /\ Object(j) \in Job
      /\ NoJob \notin Job /\ mem \in JobTable
  BY <1>1, StateTypes, ObjectIsJob, JobTypes DEF MarketInv, Tables
<1>3. CASE run[j].held = "off"
  <2>1. StartedJobs(j) = mem
    BY <1>3 DEF StartedJobs
  <2>2. mem[j] \in Job /\ Same(mem[j], Object(j))
    BY <1>1, <1>2, <1>3, StateTypes DEF RunOK, Same
  <2> QED
    BY <1>1, <1>2, <1>3, <2>1, <2>2
<1>4. CASE run[j].held # "off"
  <2> DEFINE d == Started(Object(j))
  <2>1. d \in Job /\ Same(d, Object(j)) /\ d.status = "running"
    BY <1>2, JobTypes
  <2>2. StartedJobs(j) = [mem EXCEPT ![j] = d]
    BY <1>4 DEF StartedJobs
  <2> HIDE DEF d
  <2>3. /\ StartedJobs(j) \in JobTable /\ StartedJobs(j)[j] = d
        /\ \A i \in JobIds \ {j} : StartedJobs(j)[i] = mem[i]
    BY <1>2, <2>1, <2>2 DEF JobTable
  <2> QED
    BY <1>1, <1>2, <1>4, <2>1, <2>3 DEF d
<1> QED
  BY <1>3, <1>4

\* Its key is bound in the rows as it may be.
LEMMA StartedBindings ==
  ASSUME MarketInv, NEW j \in JobIds, run[j].step = "starting", CanBind(j),
         row' = StartedJobs(j), aliasRow' = alias
  PROVE  OneBinding'
<1> DEFINE d == StartedJobs(j)[j]
<1>1. \A i \in JobIds \ {j} : row'[i] = mem[i]
  BY StartedRows
<1>2. d.asker = Object(j).asker /\ d.key = Object(j).key
  BY StartedRows DEF Same
<1>3. BoundTo(Object(j).asker, Object(j).key) \subseteq {j}
  BY DEF CanBind, MayBind
<1> QED
  BY <1>1, <1>2, <1>3, BindingsGrow

\* The first transaction of a run.
LEMMA StartKeeps ==
  ASSUME MarketInv, NEW j \in JobIds, Start(j)
  PROVE  MarketInv'
<1> DEFINE jobs == StartedJobs(j)
           r == [step |-> "reading", snap |-> jobs[j],
                 held |-> IF run[j].held = "off" THEN "off" ELSE "in",
                 own |-> IF run[j].held = "off" THEN Started(run[j].own) ELSE NoJob]
<1>1. run[j].step = "starting" /\ CanBind(j)
  BY DEF Start
<1>2. /\ run[j] # Idle /\ run[j] \in Run /\ JobOK(j) /\ RunOK(j)
      /\ Object(j) \in Job /\ NoJob \notin Job
      /\ jobs \in JobTable /\ \A i \in JobIds \ {j} : jobs[i] = mem[i]
      /\ jobs[j] \in Job /\ Same(jobs[j], Object(j))
  BY <1>1, StartedRows
<1>3. /\ row' = jobs /\ mem' = jobs /\ run' = [run EXCEPT ![j] = r]
      /\ alias' = alias /\ aliasRow' = alias /\ alias = aliasRow
      /\ pending' = Moved({j}, "early", "ready")
      /\ facts' = facts /\ known' = known /\ fetching' = fetching
  BY CommitAliases DEF Start
<1>4. run \in [JobIds -> Run \cup {Idle}]
  BY DEF MarketInv, Tables
<1>5. /\ r \in Run /\ r # Idle /\ r.step = "reading" /\ r.snap = jobs[j]
      /\ run[j].held = "off" => r.held = "off" /\ r.own = Started(Object(j))
      /\ run[j].held # "off" => r.held = "in" /\ r.own = NoJob
  <2>1. Started(Object(j)) \in Job
    BY <1>2, JobTypes
  <2>2. run[j].held = "off" => run[j].own = Object(j)
    BY DEF Object
  <2> QED
    BY <1>2, <2>1, <2>2 DEF Run, Idle
<1> HIDE DEF jobs, r
<1>6. /\ run'[j] = r /\ mem'[j] = jobs[j] /\ row'[j] = jobs[j]
      /\ \A i \in JobIds \ {j} : mem'[i] = mem[i] /\ run'[i] = run[i]
  BY <1>2, <1>3, <1>4
<1>7. /\ JobOK(j)' /\ RunOK(j)' /\ Same(Object(j)', Object(j))
  <2>1. CASE run[j].held = "off"
    <3>1. jobs[j] = mem[j] /\ mem[j] = row[j] /\ mem[j] # NoJob
      BY <1>1, <1>2, <2>1, StartedRows DEF RunOK, jobs
    <3>2. Object(j)' = Started(Object(j))
      BY <1>5, <1>6, <2>1 DEF Object
    <3>3. /\ Same(Started(Object(j)), Object(j)) /\ Started(Object(j)) \in Job
          /\ Started(Object(j)).status = "running"
      BY <1>2, JobTypes
    <3>4. JobOK(j)'
      BY <1>2, <1>3, <1>6, <3>1 DEF JobOK
    <3>5. RunOK(j)'
      BY <1>2, <1>5, <1>6, <2>1, <3>1, <3>2, <3>3 DEF RunOK, Same
    <3> QED
      BY <3>2, <3>3, <3>4, <3>5
  <2>2. CASE run[j].held # "off"
    <3>1. jobs[j].status = "running"
      BY <1>1, <2>2, StartedRows DEF jobs
    <3>2. Object(j)' = jobs[j]
      BY <1>5, <1>6, <2>2 DEF Object
    <3>3. JobOK(j)'
      BY <1>2, <1>6, <3>1 DEF JobOK, Same
    <3>4. RunOK(j)'
      BY <1>2, <1>5, <1>6, <2>2, <3>1, <3>2 DEF RunOK, Same
    <3> QED
      BY <1>2, <3>2, <3>3, <3>4
  <2> QED
    BY <2>1, <2>2
<1>8. /\ Tables' /\ (\A i \in JobIds : JobOK(i)' /\ RunOK(i)')
      /\ Distinct' /\ Fetching'
  <2>1. \A i \in JobIds \ {j} : mem'[i] = mem[i] /\ row'[i] \in {row[i], mem[i]}
    BY <1>2, <1>3
  <2> QED
    BY <1>2, <1>3, <1>5, <1>7, <2>1, RunMoves
<1>9. KeysOK'
  <2>1. ASSUME NEW p \in pending' PROVE p \in Pending /\ Waits(p)'
    <3>1. PICK q \in pending :
            /\ q \in Pending /\ q.job = p.job /\ Waits(q) /\ p \in Pending
            /\ IF q.job \in {j} /\ q.at = "early" THEN p.at = "ready" ELSE p = q
      BY <1>3, <2>1, MovedRequests
    <3>2. CASE p.job = j
      <4>1. p.at # "early" /\ mem'[p.job] # NoJob
        BY <1>2, <1>6, <3>1, <3>2
      <4> QED
        BY <3>1, <4>1 DEF Waits
    <3>3. CASE p.job # j
      <4>1. p = q /\ p.job \in JobIds \ {j}
        BY <3>1, <3>3 DEF Pending
      <4> QED
        BY <1>6, <3>1, <4>1 DEF Waits
    <3> QED
      BY <3>2, <3>3
  <2>2. \A i \in JobIds : mem[i] # NoJob => mem'[i] # NoJob
    BY <1>2, <1>6
  <2> QED
    BY <1>3, <2>1, <2>2, KeysStay
<1>10. OneBinding'
  BY <1>1, <1>3, StartedBindings DEF jobs
<1>11. RestOK'
  BY <1>3, RestStays DEF Start, MarketInv, RestOK
<1> QED
  BY <1>8, <1>9, <1>10, <1>11 DEF MarketInv

\* A run ends that leaves the memory as it was; its job may be in the rows.
LEMMA StartFailsKeeps ==
  ASSUME MarketInv, NEW j \in JobIds, StartFails(j)
  PROVE  MarketInv'
<1> DEFINE jobs == StartedJobs(j)
<1>1. /\ run[j].step = "starting" /\ run' = [run EXCEPT ![j] = Idle]
      /\ pending' = {p \in pending : p.job = j => p.at # "early"}
      /\ mem' = mem /\ alias' = alias /\ known' = known
      /\ fetching' = fetching
  BY DEF StartFails
<1>2. /\ run[j] # Idle /\ run[j] \in Run /\ JobOK(j) /\ RunOK(j)
      /\ Object(j) \in Job /\ NoJob \notin Job
      /\ jobs \in JobTable /\ \A i \in JobIds \ {j} : jobs[i] = mem[i]
      /\ jobs[j] \in Job /\ Same(jobs[j], Object(j))
      /\ jobs = mem \/ jobs[j].status = "running"
  BY <1>1, StartedRows
<1>3. /\ events' \in 0..MaxEvents
      /\ \/ row' = row /\ aliasRow' = aliasRow /\ facts' = facts
         \/ CanBind(j) /\ Commits(jobs, alias, known)
  BY FailsDoes DEF StartFails, rows, MarketInv, RestOK
<1>4. /\ facts' = facts /\ aliasRow' = aliasRow
      /\ \/ row' = row
         \/ CanBind(j) /\ row' = jobs /\ aliasRow' = alias
  BY <1>3, CommitAliases
<1> HIDE DEF jobs
<1>5. run \in [JobIds -> Run \cup {Idle}] /\ row \in JobTable /\ mem \in JobTable
  BY DEF MarketInv, Tables
<1>6. run'[j] = Idle /\ \A i \in JobIds \ {j} : run'[i] = run[i]
  BY <1>1, <1>5
<1>7. JobOK(j)' /\ RunOK(j)'
  <2>1. RunOK(j)'
    BY <1>6 DEF RunOK
  <2>2. CASE row' = row
    BY <1>1, <1>2, <1>4, <2>1, <2>2 DEF JobOK
  <2>3. CASE row' = jobs
    <3>1. mem[j] # NoJob => Same(mem[j], jobs[j])
      BY <1>2, StateTypes DEF RunOK, Run, Same
    <3>2. CASE jobs = mem
      BY <1>1, <1>2, <1>4, <2>1, <2>3, <3>2 DEF JobOK, Same
    <3>3. CASE jobs[j].status = "running"
      BY <1>1, <1>2, <1>4, <2>1, <2>3, <3>1, <3>3 DEF JobOK, Ended
    <3> QED
      BY <1>2, <3>2, <3>3
  <2> QED
    BY <1>4, <2>1, <2>2, <2>3
<1>8. /\ Tables' /\ (\A i \in JobIds : JobOK(i)' /\ RunOK(i)')
      /\ Distinct' /\ Fetching'
  <2>1. Idle.step # "waiting"
    BY DEF Idle
  <2>2. row' \in JobTable /\ \A i \in JobIds \ {j} : row'[i] \in {row[i], mem[i]}
    BY <1>2, <1>4, <1>5
  <2> QED
    BY <1>1, <1>2, <1>4, <1>5, <1>7, <2>1, <2>2, RunMoves
<1>9. KeysOK'
  <2>1. ASSUME NEW p \in pending' PROVE p \in Pending /\ Waits(p)'
    <3>1. p \in Pending /\ Waits(p) /\ (p.job = j => p.at # "early")
      BY <1>1 DEF MarketInv, KeysOK
    <3>2. p.job \in JobIds
      BY <3>1 DEF Pending
    <3> QED
      BY <1>1, <1>6, <3>1, <3>2 DEF Waits
  <2>2. alias' \subseteq aliasRow'
    BY <1>1, <1>4 DEF MarketInv, KeysOK
  <2> QED
    BY <1>1, <1>4, <2>1, <2>2, KeysStay
<1>10. OneBinding'
  <2>1. CASE row' = row
    BY <1>4, <2>1, BindingsStay DEF Same
  <2>2. CASE CanBind(j) /\ row' = jobs /\ aliasRow' = alias
    BY <1>1, <2>2, StartedBindings DEF jobs
  <2> QED
    BY <1>4, <2>1, <2>2
<1>11. RestOK'
  BY <1>1, <1>3, <1>4, RestStays DEF StartFails, MarketInv, RestOK
<1> QED
  BY <1>8, <1>9, <1>10, <1>11 DEF MarketInv

\* A run after its start.
LEMMA AfterStart ==
  ASSUME MarketInv, NEW j \in JobIds,
         run[j].step \notin {"idle", "starting"}
  PROVE  /\ run[j] # Idle /\ run[j] \in Run /\ JobOK(j) /\ RunOK(j)
         /\ Object(j) \in Job /\ Same(Object(j), mem[j]) /\ mem[j] \in Job
         /\ run[j].held \in {"in", "off"} /\ NoJob \notin Job
         /\ row[j] \in Job /\ row[j] # NoJob
         /\ run[j].snap \in Job /\ Same(run[j].snap, mem[j])
<1>1. run[j] # Idle
  BY DEF Idle
<1>2. run[j] \in Run /\ JobOK(j) /\ RunOK(j) /\ Object(j) \in Job /\ NoJob \notin Job
  BY <1>1, StateTypes, ObjectIsJob, JobTypes
<1>3. run[j].held \in {"in", "off"}
  BY <1>1, <1>2 DEF RunOK, Run
<1>4. mem[j] # NoJob /\ Same(Object(j), mem[j])
  BY <1>1, <1>2, <1>3 DEF RunOK
<1>5. mem[j] \in Job /\ row[j] \in Job /\ row[j] # NoJob
  BY <1>2, <1>4, StateTypes DEF JobOK
<1>6. run[j].snap \in Job /\ Same(run[j].snap, mem[j])
  BY <1>1, <1>2, <1>5 DEF RunOK, Same
<1> QED
  BY <1>1, <1>2, <1>3, <1>4, <1>5, <1>6

\* A run goes from one step between its transactions to the next.
LEMMA NewStep ==
  ASSUME MarketInv, NEW j \in JobIds,
         run[j].step \in {"reading", "missed", "waiting"},
         NEW step \in {"missed", "waiting", "got", "lost"},
         NEW r, r = [run[j] EXCEPT !.step = step]
  PROVE  /\ r \in Run /\ r.step = step /\ r # Idle
         /\ r.held = run[j].held /\ r.own = run[j].own /\ r.snap = run[j].snap
<1>1. run[j] \in Run
  BY AfterStart
<1> QED
  BY <1>1 DEF Run, Idle

\* A run with a new step, in a state with the same jobs or its row written.
LEMMA StepIsOK ==
  ASSUME MarketInv, NEW j \in JobIds,
         run[j].step \in {"reading", "missed", "waiting"},
         NEW step \in {"missed", "waiting", "got", "lost"},
         run'[j] = [run[j] EXCEPT !.step = step],
         mem'[j] = mem[j], row'[j] \in {row[j], mem[j]},
         j \in facts' <=> j \in facts
  PROVE  JobOK(j)' /\ RunOK(j)' /\ Object(j)' = Object(j)
<1>1. /\ run'[j] \in Run /\ run'[j].step = step /\ run'[j] # Idle
      /\ run'[j].held = run[j].held /\ run'[j].own = run[j].own
      /\ run'[j].snap = run[j].snap
  BY NewStep
<1>2. run[j] # Idle /\ JobOK(j) /\ RunOK(j) /\ run[j].held \in {"in", "off"}
  BY AfterStart
<1>3. Object(j)' = Object(j)
  BY <1>1 DEF Object
<1>4. row[j] = mem[j]
  BY <1>2 DEF RunOK
<1>5. JobOK(j)'
  BY <1>2, <1>4 DEF JobOK
<1>6. RunOK(j)'
  BY <1>1, <1>2, <1>3, <1>4 DEF RunOK
<1> QED
  BY <1>3, <1>5, <1>6

\* Runs between their transactions go on, the rows at most being written.
LEMMA StepsKeep ==
  ASSUME MarketInv, NEW jobs \in SUBSET JobIds,
         \A i \in jobs : run[i].step \in {"reading", "missed", "waiting"},
         NEW step \in {"missed", "waiting", "got", "lost"}, ToStep(jobs, step),
         mem' = mem, row' \in {row, mem}, facts' = facts,
         alias' = alias, aliasRow' = aliasRow,
         \A i \in JobIds : run'[i].step = "waiting" => Object(i).query \in fetching'
  PROVE  /\ Tables' /\ (\A i \in JobIds : JobOK(i)' /\ RunOK(i)')
         /\ Distinct' /\ Fetching' /\ KeysOK' /\ OneBinding'
<1>1. mem \in JobTable /\ run \in [JobIds -> Run \cup {Idle}] /\ row \in JobTable
  BY DEF MarketInv, Tables
<1>2. \A i \in JobIds :
        run'[i] = IF i \in jobs THEN [run[i] EXCEPT !.step = step] ELSE run[i]
  BY DEF ToStep
<1>3. ASSUME NEW i \in jobs
      PROVE  /\ run[i] # Idle /\ run'[i] \in Run /\ run'[i].step = step
             /\ JobOK(i)' /\ RunOK(i)' /\ Object(i)' = Object(i)
             /\ mem[i] # NoJob
  <2>1. /\ i \in JobIds /\ run[i].step \in {"reading", "missed", "waiting"}
        /\ run'[i] = [run[i] EXCEPT !.step = step]
        /\ mem'[i] = mem[i] /\ row'[i] \in {row[i], mem[i]}
    BY <1>2
  <2>2. run[i] # Idle /\ mem[i] # NoJob
    BY <2>1, AfterStart
  <2>3. run'[i] \in Run /\ run'[i].step = step
    BY <2>1, NewStep
  <2>4. JobOK(i)' /\ RunOK(i)' /\ Object(i)' = Object(i)
    BY <2>1, StepIsOK
  <2> QED
    BY <2>2, <2>3, <2>4
<1>4. ASSUME NEW i \in JobIds, i \notin jobs
      PROVE  run'[i] = run[i] /\ JobOK(i)' /\ RunOK(i)' /\ Object(i)' = Object(i)
  <2>1. run'[i] = run[i] /\ row'[i] \in {row[i], mem[i]} /\ mem'[i] = mem[i]
    BY <1>2, <1>4
  <2>2. Object(i)' = Object(i)
    BY <2>1 DEF Object
  <2> QED
    BY <2>1, <2>2, Untouched
<1>5. Tables'
  <2>1. \A i \in JobIds : run'[i] \in Run \cup {Idle}
    BY <1>1, <1>3, <1>4
  <2>2. run' = [i \in JobIds |-> IF i \in jobs
                                 THEN [run[i] EXCEPT !.step = step] ELSE run[i]]
    BY DEF ToStep
  <2>3. run' \in [JobIds -> Run \cup {Idle}]
    BY <2>1, <2>2
  <2> QED
    BY <1>1, <2>3 DEF Tables
<1>6. \A i \in JobIds : Object(i)' = Object(i) /\ (run'[i] # Idle => run[i] # Idle)
  BY <1>3, <1>4
<1>7. Distinct'
  BY <1>6, QuestionsStay DEF Same
<1>8. Fetching'
  BY <1>6 DEF Fetching
<1>9. KeysOK'
  <2>1. ASSUME NEW p \in pending' PROVE p \in Pending /\ Waits(p)'
    <3>1. PICK q \in pending :
            /\ p \in Pending /\ q.job = p.job /\ Waits(q)
            /\ q.at = "early" => p.at = "early"
            /\ p.at = "early" => q.at = "early"
      <4>1. CASE step = "got"
        <5>1. p \in Moved(jobs, "ready", "awaited")
          BY <2>1, <4>1 DEF ToStep
        <5> QED
          BY <5>1, MovedRequests
      <4>2. CASE step # "got"
        BY <2>1, <4>2 DEF ToStep, MarketInv, KeysOK
      <4> QED
        BY <4>1, <4>2
    <3>2. p.job \in JobIds
      BY <3>1 DEF Pending
    <3>3. CASE p.job \in jobs
      BY <1>3, <3>1, <3>3 DEF Waits
    <3>4. CASE p.job \notin jobs
      BY <1>4, <3>1, <3>2, <3>4 DEF Waits
    <3> QED
      BY <3>1, <3>3, <3>4
  <2> QED
    BY <2>1, KeysStay DEF MarketInv, KeysOK
<1>10. OneBinding'
  <2>1. \A i \in JobIds : mem[i] # NoJob => row[i] # NoJob /\ Same(mem[i], row[i])
    BY StateTypes DEF JobOK
  <2> QED
    BY <2>1, BindingsStay DEF Same
<1> QED
  BY <1>3, <1>4, <1>5, <1>7, <1>8, <1>9, <1>10

\* A provider that is asked by each run for itself answers or fails.
LEMMA AskAloneKeeps ==
  ASSUME MarketInv, NEW j \in JobIds, AskAlone(j)
  PROVE  MarketInv'
<1>1. PICK step \in {"got", "lost"} : ToStep({j}, step)
  BY DEF AskAlone
<1>2. /\ row' = row /\ mem' = mem /\ alias' = alias /\ aliasRow' = aliasRow
      /\ facts' = facts /\ fetching' = fetching /\ run[j].step = "reading"
  BY DEF AskAlone, Others
<1>3. \A i \in JobIds : run'[i].step = "waiting" => Object(i).query \in fetching'
  BY <1>1, <1>2 DEF ToStep, MarketInv, Fetching, Tables, Run, Idle
<1>4. RestOK'
  BY RestStays DEF AskAlone, Others, MarketInv, RestOK
<1> QED
  BY <1>1, <1>2, <1>3, <1>4, StepsKeep DEF MarketInv

\* The cache is read.
LEMMA ReadCacheKeeps ==
  ASSUME MarketInv, NEW j \in JobIds, ReadCache(j)
  PROVE  MarketInv'
<1>1. PICK step \in {"got", "missed"} : ToStep({j}, step)
  BY DEF ReadCache
<1>2. /\ row' = row /\ mem' = mem /\ alias' = alias /\ aliasRow' = aliasRow
      /\ facts' = facts /\ fetching' = fetching /\ run[j].step = "reading"
  BY DEF ReadCache, Others
<1>3. \A i \in JobIds : run'[i].step = "waiting" => Object(i).query \in fetching'
  BY <1>1, <1>2 DEF ToStep, MarketInv, Fetching, Tables, Run, Idle
<1>4. RestOK'
  BY RestStays DEF ReadCache, Others, MarketInv, RestOK
<1> QED
  BY <1>1, <1>2, <1>3, <1>4, StepsKeep DEF MarketInv

\* A provider is asked, or a fetch is joined.
LEMMA FetchKeeps ==
  ASSUME MarketInv, NEW j \in JobIds, Fetch(j)
  PROVE  MarketInv'
<1>1. /\ row' = row /\ mem' = mem /\ alias' = alias /\ aliasRow' = aliasRow
      /\ facts' = facts /\ run[j].step = "missed" /\ ToStep({j}, "waiting")
      /\ fetching' = fetching \cup {Object(j).query}
  BY DEF Fetch, Others
<1>2. \A i \in JobIds : run'[i].step = "waiting" => Object(i).query \in fetching'
  BY <1>1 DEF ToStep, MarketInv, Fetching, Tables, Run, Idle
<1>3. RestOK'
  <2>1. Object(j).query \in Queries
    BY <1>1, AfterStart DEF Job
  <2> QED
    BY <1>1, <2>1, RestStays DEF Fetch, Others, MarketInv, RestOK
<1> QED
  BY <1>1, <1>2, <1>3, StepsKeep DEF MarketInv

\* What the provider does to a query, answering it or not, keeps the invariant.
LEMMA ProviderKeeps ==
  ASSUME MarketInv, NEW q \in Public, ProviderStep(q)
  PROVE  MarketInv'
<1>1. PICK step \in {"got", "lost"} : ToStep(Waiting(q), step)
  BY DEF ProviderStep, Answers, Refuses
<1>2. /\ fetching' = fetching \ {q} /\ mem' = mem /\ row' \in {row, mem}
      /\ facts' = facts /\ alias' = alias /\ aliasRow' = aliasRow
      /\ known' = known /\ answered' = answered /\ now' = now
      /\ cache' \in {cache, cache \cup {q}} /\ events' \in 0..MaxEvents
  BY EventCounts
     DEF ProviderStep, Answers, Refuses, Others, DatabaseFails, MarketInv, RestOK
<1>3. /\ Waiting(q) \subseteq JobIds
      /\ \A i \in Waiting(q) : run[i].step = "waiting"
  BY DEF Waiting, Working
<1>4. ASSUME NEW i \in JobIds, run'[i].step = "waiting"
      PROVE  Object(i).query \in fetching'
  <2>1. i \notin Waiting(q)
    BY <1>1, <1>3, <1>4, NewStep DEF ToStep
  <2>2. run[i] # Idle /\ run[i].step = "waiting" /\ Object(i).query # q
    BY <1>1, <1>4, <2>1 DEF ToStep, Waiting, Working, Idle
  <2> QED
    BY <1>2, <2>2 DEF MarketInv, Fetching
<1>5. /\ Tables' /\ (\A i \in JobIds : JobOK(i)' /\ RunOK(i)')
      /\ Distinct' /\ Fetching' /\ KeysOK' /\ OneBinding'
  BY <1>1, <1>2, <1>3, <1>4, StepsKeep
<1>6. RestOK'
  BY <1>2, RestStays, RunConstants DEF MarketInv, RestOK
<1> QED
  BY <1>5, <1>6 DEF MarketInv

\* Keys stay with a step of a run that is stored.
LEMMA KeysOfMove ==
  ASSUME MarketInv, NEW j \in JobIds, run[j].step \notin {"idle", "starting"},
         \A i \in JobIds \ {j} : /\ run'[i] = run[i] /\ mem'[i] = mem[i]
                                 /\ row'[i] \in {row[i], mem[i]},
         mem'[j] # NoJob, Same(row'[j], mem[j]),
         alias' = alias, aliasRow' = aliasRow, pending' = pending
  PROVE  KeysOK' /\ OneBinding'
<1>1. \A p \in pending' : p \in Pending /\ Waits(p)'
  <2>1. ASSUME NEW p \in pending PROVE p \in Pending /\ Waits(p)'
    <3>1. p \in Pending /\ Waits(p) /\ p.job \in JobIds
      BY DEF MarketInv, KeysOK, Pending
    <3>2. CASE p.job = j
      BY <3>1, <3>2 DEF Waits
    <3>3. CASE p.job # j
      BY <3>1, <3>3 DEF Waits
    <3> QED
      BY <3>1, <3>2, <3>3
  <2> QED
    BY <2>1
<1>2. KeysOK'
  BY <1>1, KeysStay DEF MarketInv, KeysOK
<1>3. \A i \in JobIds : mem[i] # NoJob => row[i] # NoJob /\ Same(mem[i], row[i])
  BY StateTypes DEF JobOK
<1>4. OneBinding'
  BY <1>3, AfterStart, BindingsStay DEF Same
<1> QED
  BY <1>2, <1>4

\* A run has failed, in the store or on its own.
LEMMA FailKeeps ==
  ASSUME MarketInv, NEW j \in JobIds, Fail(j)
  PROVE  MarketInv'
<1>1. PICK until \in {0, now + 1} : Changed(j, Failed(Object(j), until), "failing")
  BY DEF Fail
<1> DEFINE d == Failed(Object(j), until)
           r == [run[j] EXCEPT !.step = "failing",
                               !.own = IF run[j].held = "in" THEN NoJob ELSE d]
<1>2. /\ run[j].step = "lost" /\ row' = row /\ alias' = alias
      /\ aliasRow' = aliasRow
      /\ pending' = pending /\ facts' = facts /\ fetching' = fetching
  BY DEF Fail, Others
<1>3. /\ run[j] # Idle /\ run[j] \in Run /\ JobOK(j) /\ RunOK(j)
      /\ Object(j) \in Job /\ Same(Object(j), mem[j]) /\ mem[j] \in Job
      /\ run[j].held \in {"in", "off"} /\ NoJob \notin Job
      /\ run[j].snap \in Job /\ Same(run[j].snap, mem[j])
  BY <1>2, AfterStart
<1>4. /\ mem \in JobTable /\ run \in [JobIds -> Run \cup {Idle}]
      /\ row \in JobTable
  BY DEF MarketInv, Tables
<1>5. d \in Job /\ Same(d, Object(j)) /\ d.status \in {"failed", "dead_letter"}
  <2>1. until \in Nat
    BY DEF MarketInv, RestOK
  <2> QED
    BY <1>3, <2>1, JobTypes
<1>6. /\ run' = [run EXCEPT ![j] = r]
      /\ mem' = IF run[j].held = "in" THEN [mem EXCEPT ![j] = d] ELSE mem
  BY <1>1, <1>4 DEF Changed
<1> HIDE DEF d
<1>7. /\ r \in Run /\ r.step = "failing" /\ r # Idle /\ r.held = run[j].held
      /\ r.snap = run[j].snap
      /\ r.own = IF run[j].held = "in" THEN NoJob ELSE d
  BY <1>3, <1>5 DEF Run, Idle
<1> HIDE DEF r
<1>8. /\ run'[j] = r /\ mem' \in JobTable
      /\ \A i \in JobIds \ {j} : mem'[i] = mem[i] /\ run'[i] = run[i]
      /\ mem'[j] = IF run[j].held = "in" THEN d ELSE mem[j]
  BY <1>4, <1>5, <1>6 DEF JobTable
<1>9. Object(j)' = d
  BY <1>7, <1>8 DEF Object
<1>10. /\ run[j].snap = mem[j] /\ mem[j] = row[j]
       /\ run[j].held = "in" => row[j].status = "running"
  BY <1>2, <1>3 DEF RunOK, Object
<1>11. JobOK(j)'
  BY <1>2, <1>3, <1>5, <1>8, <1>10 DEF JobOK, Same, Ended
<1>12. RunOK(j)'
  BY <1>2, <1>3, <1>5, <1>7, <1>8, <1>9, <1>10 DEF RunOK, Same
<1>13. /\ Tables' /\ (\A i \in JobIds : JobOK(i)' /\ RunOK(i)')
       /\ Distinct' /\ Fetching'
  BY <1>2, <1>3, <1>4, <1>5, <1>6, <1>7, <1>8, <1>9, <1>11, <1>12, RunMoves
<1>14. KeysOK' /\ OneBinding'
  <2>1. mem'[j] # NoJob /\ Same(row'[j], mem[j])
    BY <1>2, <1>3, <1>5, <1>8, <1>10 DEF Same
  <2> QED
    BY <1>2, <1>8, <2>1, KeysOfMove
<1>15. RestOK'
  BY RestStays DEF Fail, Others, MarketInv, RestOK
<1> QED
  BY <1>13, <1>14, <1>15 DEF MarketInv

\* A run ends, with its job in memory and row as they were or about the same.
LEMMA RunEnds ==
  ASSUME MarketInv, NEW j \in JobIds, run[j].step \in {"got", "failing"},
         run' = [run EXCEPT ![j] = Idle],
         mem' \in JobTable, row' \in JobTable, JobOK(j)',
         \A i \in JobIds \ {j} : mem'[i] = mem[i] /\ row'[i] \in {row[i], mem[i]},
         \A i \in JobIds \ {j} : i \in facts' <=> i \in facts,
         mem'[j] # NoJob, Same(row'[j], mem[j]),
         alias' = alias, aliasRow' = aliasRow, pending' = pending,
         fetching' = fetching
  PROVE  /\ Tables' /\ (\A i \in JobIds : JobOK(i)' /\ RunOK(i)')
         /\ Distinct' /\ Fetching' /\ KeysOK' /\ OneBinding'
<1>1. run[j] # Idle /\ run \in [JobIds -> Run \cup {Idle}]
  BY AfterStart DEF MarketInv, Tables
<1>2. run'[j] = Idle /\ \A i \in JobIds \ {j} : run'[i] = run[i]
  BY <1>1
<1>3. RunOK(j)'
  BY <1>2 DEF RunOK
<1>4. /\ Tables' /\ (\A i \in JobIds : JobOK(i)' /\ RunOK(i)')
      /\ Distinct' /\ Fetching'
  <2>1. Idle.step # "waiting"
    BY DEF Idle
  <2> QED
    BY <1>1, <1>3, <2>1, RunMoves
<1>5. KeysOK' /\ OneBinding'
  BY <1>2, KeysOfMove
<1> QED
  BY <1>4, <1>5

\* The failure is written, or its run's start restored, or both.
LEMMA FailPersistsKeeps ==
  ASSUME MarketInv, NEW j \in JobIds, FailPersists(j)
  PROVE  MarketInv'
<1>1. /\ run[j].step = "failing" /\ run' = [run EXCEPT ![j] = Idle]
      /\ alias' = alias /\ pending' = pending /\ known' = known
      /\ fetching' = fetching
  BY DEF FailPersists
<1>2. /\ run[j] # Idle /\ run[j] \in Run /\ JobOK(j) /\ RunOK(j)
      /\ mem[j] \in Job /\ NoJob \notin Job
      /\ row[j] \in Job /\ row[j] # NoJob
      /\ run[j].snap \in Job /\ Same(run[j].snap, mem[j])
  BY <1>1, AfterStart
<1>3. mem \in JobTable /\ row \in JobTable
  BY DEF MarketInv, Tables
<1>4. /\ events' \in 0..MaxEvents /\ facts' = facts /\ aliasRow' = aliasRow
      /\ \/ mem' = mem /\ row' = mem
         \/ mem' = [mem EXCEPT ![j] = run[j].snap] /\ row' \in {row, mem}
  <2>1. /\ events' \in 0..MaxEvents
        /\ \/ mem' = mem /\ Commits(mem, alias, known)
           \/ /\ mem' = [mem EXCEPT ![j] = run[j].snap]
              /\ \/ row' = row /\ aliasRow' = aliasRow /\ facts' = facts
                 \/ Commits(mem, alias, known)
    BY FailsDoes DEF FailPersists, MarketInv, RestOK
  <2> QED
    BY <2>1, CommitAliases
<1>5. JobOK(j)'
  <2>1. CASE mem' = mem /\ row' = mem
    BY <1>2, <1>4, <2>1 DEF JobOK, Same
  <2>2. CASE mem' = [mem EXCEPT ![j] = run[j].snap] /\ row' \in {row, mem}
    <3>1. \/ run[j].snap.status = "running"
          \/ run[j].snap = mem[j] /\ mem[j] = row[j]
      BY <1>1, <1>2 DEF RunOK
    <3>2. mem'[j] = run[j].snap /\ row'[j] \in {row[j], mem[j]}
      BY <1>3, <2>2 DEF JobTable
    <3>3. Same(run[j].snap, row[j]) /\ Same(run[j].snap, mem[j])
      BY <1>2 DEF JobOK, Same
    <3> QED
      BY <1>2, <1>4, <3>1, <3>2, <3>3 DEF JobOK, Ended
  <2> QED
    BY <1>4, <2>1, <2>2
<1>6. /\ mem' \in JobTable /\ row' \in JobTable
      /\ \A i \in JobIds \ {j} : mem'[i] = mem[i] /\ row'[i] \in {row[i], mem[i]}
      /\ mem'[j] # NoJob /\ Same(row'[j], mem[j])
  BY <1>2, <1>3, <1>4 DEF JobTable, JobOK, Same
<1>7. /\ Tables' /\ (\A i \in JobIds : JobOK(i)' /\ RunOK(i)')
      /\ Distinct' /\ Fetching' /\ KeysOK' /\ OneBinding'
  BY <1>1, <1>4, <1>5, <1>6, RunEnds
<1>8. RestOK'
  BY <1>1, <1>4, RestStays DEF FailPersists, MarketInv, RestOK
<1> QED
  BY <1>7, <1>8 DEF MarketInv

\* What a finishing run would write; its start is what would be restored.
LEMMA FinishedRows ==
  ASSUME MarketInv, NEW j \in JobIds, run[j].step = "got"
  PROVE  /\ FinishedJobs(j) \in JobTable
         /\ \A i \in JobIds \ {j} : FinishedJobs(j)[i] = mem[i]
         /\ FinishedJobs(j)[j] \in Job /\ Same(FinishedJobs(j)[j], mem[j])
         /\ \/ FinishedJobs(j) = mem
            \/ mem[j].status = "running" /\ row[j].status = "running"
         /\ run[j].snap = mem[j] /\ mem[j] \in Job /\ NoJob \notin Job
         /\ mem \in JobTable /\ JobOK(j)
<1>1. /\ JobOK(j) /\ RunOK(j) /\ run[j] # Idle
      /\ Object(j) \in Job /\ Same(Object(j), mem[j])
      /\ mem[j] \in Job /\ NoJob \notin Job
  BY AfterStart
<1>2. mem \in JobTable
  BY DEF MarketInv, Tables
<1>3. run[j].snap = mem[j] /\ mem[j] = row[j] /\ Object(j).status = "running"
  BY <1>1 DEF RunOK
<1>4. CASE run[j].held = "in"
  <2> DEFINE d == Completed(Object(j))
  <2>1. d \in Job /\ Same(d, mem[j])
    BY <1>1, JobTypes DEF Same
  <2>2. FinishedJobs(j) = [mem EXCEPT ![j] = d]
    BY <1>4 DEF FinishedJobs
  <2> HIDE DEF d
  <2>3. /\ FinishedJobs(j) \in JobTable /\ FinishedJobs(j)[j] = d
        /\ \A i \in JobIds \ {j} : FinishedJobs(j)[i] = mem[i]
    BY <1>2, <2>1, <2>2 DEF JobTable
  <2>4. mem[j].status = "running" /\ row[j].status = "running"
    BY <1>3, <1>4 DEF Object
  <2> QED
    BY <1>1, <1>2, <1>3, <2>1, <2>3, <2>4
<1>5. CASE run[j].held # "in"
  <2>1. FinishedJobs(j) = mem
    BY <1>5 DEF FinishedJobs
  <2> QED
    BY <1>1, <1>2, <1>3, <2>1 DEF Same
<1> QED
  BY <1>4, <1>5

\* The second transaction of a run.
LEMMA FinishKeeps ==
  ASSUME MarketInv, NEW j \in JobIds, Finish(j)
  PROVE  MarketInv'
<1> DEFINE jobs == FinishedJobs(j)
<1>1. /\ run[j].step = "got" /\ run' = [run EXCEPT ![j] = Idle]
      /\ mem' = jobs /\ row' = jobs /\ aliasRow' = aliasRow
      /\ facts = known /\ facts' = facts \cup {j} /\ known' = facts'
      /\ answered' = answered \cup {j} /\ alias' = alias
      /\ pending' = pending /\ fetching' = fetching
      /\ cache' = cache /\ now' = now /\ events' = events
  BY CommitAliases DEF Finish, CanFinish, Results
<1>2. /\ jobs \in JobTable /\ \A i \in JobIds \ {j} : jobs[i] = mem[i]
      /\ jobs[j] \in Job /\ Same(jobs[j], mem[j]) /\ NoJob \notin Job
  BY <1>1, FinishedRows
<1> HIDE DEF jobs
<1>3. JobOK(j)'
  BY <1>1, <1>2 DEF JobOK, Same
<1>4. /\ Tables' /\ (\A i \in JobIds : JobOK(i)' /\ RunOK(i)')
      /\ Distinct' /\ Fetching' /\ KeysOK' /\ OneBinding'
  BY <1>1, <1>2, <1>3, RunEnds
<1>5. RestOK'
  BY <1>1 DEF MarketInv, RestOK
<1> QED
  BY <1>4, <1>5 DEF MarketInv

\* The second transaction fails, maybe after it has been written.
LEMMA FinishFailsKeeps ==
  ASSUME MarketInv, NEW j \in JobIds, FinishFails(j)
  PROVE  MarketInv'
<1> DEFINE jobs == FinishedJobs(j)
<1>1. /\ run[j].step = "got" /\ run' = [run EXCEPT ![j] = Idle]
      /\ mem' = [mem EXCEPT ![j] = run[j].snap]
      /\ alias' = alias /\ pending' = pending /\ known' = known
      /\ answered' = answered /\ fetching' = fetching
      /\ cache' = cache /\ now' = now
  BY DEF FinishFails, CanFinish
<1>2. /\ jobs \in JobTable /\ \A i \in JobIds \ {j} : jobs[i] = mem[i]
      /\ jobs[j] \in Job /\ Same(jobs[j], mem[j]) /\ NoJob \notin Job
      /\ jobs = mem \/ mem[j].status = "running"
      /\ run[j].snap = mem[j] /\ mem[j] \in Job /\ mem \in JobTable /\ JobOK(j)
  BY <1>1, FinishedRows
<1>3. /\ events' \in 0..MaxEvents /\ aliasRow' = aliasRow
      /\ \/ row' = row /\ facts' = facts
         \/ row' = jobs /\ facts' = facts \cup {j}
  <2>1. /\ events' \in 0..MaxEvents
        /\ \/ row' = row /\ aliasRow' = aliasRow /\ facts' = facts
           \/ Commits(jobs, alias, Results(j))
    BY FailsDoes DEF FinishFails, rows, MarketInv, RestOK
  <2> QED
    BY <2>1, CommitAliases DEF Results
<1> HIDE DEF jobs
<1>4. mem' = mem /\ row \in JobTable
  BY <1>1, <1>2 DEF JobTable, MarketInv, Tables
<1>5. JobOK(j)'
  <2>1. CASE row' = row /\ facts' = facts
    BY <1>2, <1>4, <2>1 DEF JobOK
  <2>2. CASE row' = jobs /\ facts' = facts \cup {j}
    BY <1>2, <1>4, <2>2 DEF JobOK, Same
  <2> QED
    BY <1>3, <2>1, <2>2
<1>6. Same(row'[j], mem[j]) /\ mem'[j] # NoJob /\ row' \in JobTable
  BY <1>2, <1>3, <1>4 DEF JobOK, Same
<1>7. /\ \A i \in JobIds \ {j} : mem'[i] = mem[i] /\ row'[i] \in {row[i], mem[i]}
      /\ \A i \in JobIds \ {j} : i \in facts' <=> i \in facts
  BY <1>2, <1>3, <1>4
<1>8. /\ Tables' /\ (\A i \in JobIds : JobOK(i)' /\ RunOK(i)')
      /\ Distinct' /\ Fetching' /\ KeysOK' /\ OneBinding'
  BY <1>1, <1>2, <1>3, <1>4, <1>5, <1>6, <1>7, RunEnds
<1>9. RestOK'
  BY <1>1, <1>3 DEF MarketInv, RestOK
<1> QED
  BY <1>8, <1>9 DEF MarketInv

-----------------------------------------------------------------------------
(* The store, the process and time.                                        *)

\* A reload detaches the runs from the store's jobs.
LEMMA ReloadKeeps ==
  ASSUME MarketInv, Reload
  PROVE  MarketInv'
<1>1. /\ mem' = row /\ row' = row /\ aliasRow' = aliasRow /\ alias' = aliasRow
      /\ pending' = pending /\ facts' = facts /\ fetching' = fetching
      /\ run' = [j \in JobIds |->
           IF run[j] # Idle /\ run[j].held = "in"
           THEN [run[j] EXCEPT !.held = "off", !.own = mem[j]] ELSE run[j]]
  BY DEF Reload, rows
<1>2. mem \in JobTable /\ run \in [JobIds -> Run \cup {Idle}] /\ row \in JobTable
  BY DEF MarketInv, Tables
<1>3. ASSUME NEW j \in JobIds
      PROVE  /\ run'[j] \in Run \cup {Idle} /\ run'[j].step = run[j].step
             /\ JobOK(j)' /\ RunOK(j)'
             /\ run'[j] # Idle => run[j] # Idle /\ Object(j)' = Object(j)
             /\ mem[j] # NoJob => mem'[j] # NoJob
  <2>1. JobOK(j) /\ RunOK(j) /\ mem[j] \in Job \cup {NoJob}
        /\ run[j] \in Run \cup {Idle} /\ mem'[j] = row[j] /\ row'[j] = row[j]
    BY <1>1, StateTypes
  <2>2. JobOK(j)'
    BY <1>1, <2>1 DEF JobOK, Same
  <2>3. mem[j] # NoJob => mem'[j] # NoJob /\ Same(mem[j], mem'[j])
    BY <2>1 DEF JobOK
  <2>4. CASE run[j] # Idle /\ run[j].held = "in"
    <3>1. run'[j] = [run[j] EXCEPT !.held = "off", !.own = mem[j]]
          /\ run[j] \in Run /\ mem[j] \in Job
      BY <1>1, <2>1, <2>4 DEF RunOK
    <3>2. /\ run'[j] \in Run /\ run'[j].held = "off" /\ run'[j].own = mem[j]
          /\ run'[j].step = run[j].step /\ run'[j].snap = run[j].snap
      BY <3>1 DEF Run
    <3>3. Object(j)' = mem[j] /\ Object(j) = mem[j]
      BY <2>4, <3>2 DEF Object
    <3>4. mem[j] # NoJob
      BY <3>1, JobTypes
    <3>5. RunOK(j)'
      BY <2>1, <2>3, <2>4, <3>1, <3>2, <3>3, <3>4 DEF RunOK, Same
    <3> QED
      BY <2>2, <2>3, <2>4, <3>2, <3>3, <3>5
  <2>5. CASE ~(run[j] # Idle /\ run[j].held = "in")
    <3>1. run'[j] = run[j]
      BY <1>1, <2>5
    <3>2. run[j] # Idle => Object(j)' = Object(j)
      BY <2>5, <3>1 DEF Object
    <3>3. RunOK(j)'
      BY <1>1, <2>1, <2>3, <2>5, <3>1, <3>2 DEF RunOK, JobOK, Same
    <3> QED
      BY <2>1, <2>2, <2>3, <3>1, <3>2, <3>3
  <2> QED
    BY <2>4, <2>5
<1>4. Tables'
  <2>1. run' \in [JobIds -> Run \cup {Idle}]
    BY <1>1, <1>3
  <2> QED
    BY <1>1, <1>2, <2>1 DEF Tables
<1>5. Distinct' /\ Fetching'
  BY <1>1, <1>3, QuestionsStay, FetchesStay DEF Same
<1>6. KeysOK'
  <2>1. \A p \in pending' : p \in Pending /\ Waits(p)'
    BY <1>1, <1>3 DEF MarketInv, KeysOK, Pending, Waits
  <2> QED
    BY <1>1, <1>3, <2>1, KeysStay
<1>7. OneBinding'
  BY <1>1, BindingsStay DEF Same
<1>8. RestOK'
  BY RestStays, EventCounts DEF Reload, rows, MarketInv, RestOK
<1> QED
  BY <1>3, <1>4, <1>5, <1>6, <1>7, <1>8 DEF MarketInv

\* A crash ends all runs and fails the jobs found running.
LEMMA CrashKeeps ==
  ASSUME MarketInv, Crash
  PROVE  MarketInv'
<1>1. /\ row' = [j \in JobIds |-> Recovered(row[j])] /\ mem' = row'
      /\ run' = [j \in JobIds |-> Idle] /\ pending' = {} /\ fetching' = {}
      /\ aliasRow' = aliasRow /\ alias' = aliasRow
      /\ facts' = facts /\ known' = facts
  BY DEF Crash
<1>2. ASSUME NEW j \in JobIds
      PROVE  /\ Recovered(row[j]) \in Job \cup {NoJob}
             /\ row[j] = NoJob <=> Recovered(row[j]) = NoJob
             /\ row[j] # NoJob => Same(Recovered(row[j]), row[j])
             /\ Recovered(row[j]).status = "succeeded" =>
                  row[j].status = "succeeded"
  <2>1. CASE row[j] = NoJob
    BY <2>1 DEF Recovered, NoJob
  <2>2. CASE row[j] \in Job
    BY <2>2, JobTypes
  <2> QED
    BY <2>1, <2>2, StateTypes
<1>3. ASSUME NEW j \in JobIds
      PROVE  /\ JobOK(j)' /\ RunOK(j)' /\ run'[j] = Idle
             /\ mem[j] # NoJob => mem'[j] # NoJob
             /\ row'[j] # NoJob => row[j] # NoJob /\ Same(row'[j], row[j])
  <2>1. JobOK(j) /\ row'[j] = Recovered(row[j]) /\ mem'[j] = row'[j]
        /\ run'[j] = Idle
    BY <1>1, StateTypes
  <2>2. JobOK(j)'
    BY <1>1, <1>2, <2>1 DEF JobOK, Same
  <2> QED
    BY <1>2, <2>1, <2>2 DEF RunOK, JobOK
<1>4. Tables'
  BY <1>1, <1>2 DEF Tables, JobTable
<1>5. Distinct' /\ Fetching'
  BY <1>3 DEF Distinct, Fetching
<1>6. KeysOK' /\ OneBinding'
  BY <1>1, <1>3, KeysStay, BindingsStay
<1>7. RestOK'
  BY <1>1, EventCounts DEF Crash, DatabaseFails, MarketInv, RestOK
<1> QED
  BY <1>3, <1>4, <1>5, <1>6, <1>7 DEF MarketInv

\* Time passes, or nothing happens.
LEMMA ClockKeeps ==
  ASSUME MarketInv, Clock \/ UNCHANGED vars
  PROVE  MarketInv'
<1>1. /\ mem' = mem /\ run' = run /\ facts' = facts /\ row' = row
      /\ fetching' = fetching /\ alias' = alias /\ pending' = pending
      /\ aliasRow' = aliasRow /\ known' = known
      /\ answered' = answered /\ events' = events
  BY DEF Clock, vars, rows
<1>2. KeysOK' /\ OneBinding'
  BY <1>1 DEF MarketInv, KeysOK, Waits, OneBinding, RowsBoundTo
<1>3. RestOK'
  BY <1>1, MarketConstants DEF Clock, vars, MarketInv, RestOK
<1> QED
  BY <1>1, <1>2, <1>3, RunsUntouched DEF MarketInv

\* What is offered to a request exists.
LEMMA AskKeeps ==
  ASSUME MarketInv, Ask
  PROVE  MarketInv'
<1>1. ASSUME NEW all, NEW used
      PROVE  Offered(all, used) \subseteq all
  BY DEF Offered
<1>2. CASE \E j \in JobIds : AskAgain(j)
  BY <1>2, AskAgainKeeps
<1>3. CASE \E asker \in Askers, key \in Keys, query \in Queries :
             \/ \E j \in JobIds : AskNew(j, asker, key, query)
             \/ Join(asker, key, query)
             \/ BindCoolingDown(asker, key, query)
  BY <1>3, AskNewKeeps, JoinKeeps, BindKeeps
<1>4. /\ Offered(Askers, {d.asker : d \in Jobs}) \subseteq Askers
      /\ \A asker : Offered(Keys, KeysOf(asker)) \subseteq Keys
      /\ Offered(Public, {d.query : d \in Jobs}) \subseteq Queries
      /\ Offered(Queries \ Public, {d.query : d \in Jobs}) \subseteq Queries
  BY <1>1, RunConstants
<1> QED
  BY <1>2, <1>3, <1>4 DEF Ask

\* Every step keeps the invariant.
LEMMA NextKeeps ==
  ASSUME MarketInv, [MarketNext]_vars
  PROVE  MarketInv'
<1>1. ASSUME NEW j \in JobIds, RunStep(j) PROVE MarketInv'
  BY <1>1, StartKeeps, StartFailsKeeps, AskAloneKeeps, ReadCacheKeeps, FetchKeeps,
     FailKeeps, FailPersistsKeeps, FinishKeeps, FinishFailsKeeps DEF RunStep
<1>2. CASE Ask
  BY <1>2, AskKeeps
<1>3. CASE AttachStep
  BY <1>3, AttachKeeps DEF AttachStep
<1>4. CASE \E q \in Public : ProviderStep(q)
  BY <1>4, ProviderKeeps
<1>5. CASE Reload \/ Crash
  BY <1>5, ReloadKeeps, CrashKeeps
<1>6. CASE Clock \/ UNCHANGED vars
  BY <1>6, ClockKeeps
<1> QED
  BY <1>1, <1>2, <1>3, <1>4, <1>5, <1>6 DEF MarketNext

-----------------------------------------------------------------------------
(* Theorems.                                                               *)

\* The inductive invariant of market analyses.
THEOREM MarketInvariant == MarketSpec => []MarketInv
<1>1. MarketInit => MarketInv
  BY MarketInvInit
<1>2. MarketInv /\ [MarketNext]_vars => MarketInv'
  BY NextKeeps
<1> QED
  BY <1>1, <1>2, PTL DEF MarketSpec

\* Every reachable state has its type: an attached object is the store's job
\* and a started run works on a running one, through all reloads.
THEOREM MarketTypeCorrect == MarketSpec => []MarketTypeOK
<1>1. MarketInv => MarketTypeOK
  BY DEF MarketInv, Tables, JobTable, KeysOK, Waits, RestOK, RunOK, MarketTypeOK
<1> QED
  BY <1>1, MarketInvariant, PTL

\* A key stands for at most one job, in the rows and so in memory, although a
\* commit whose answer is lost leaves the memory without what it has bound.
THEOREM KeysBindOnce == MarketSpec => []KeyBindsOneJob
<1>1. ASSUME MarketInv, NEW asker \in Askers, NEW key \in Keys
      PROVE  Cardinality(BoundTo(asker, key)) <= 1
  <2>1. \A i, j \in BoundTo(asker, key) : i = j
    BY <1>1, MemoryBinds DEF MarketInv, OneBinding
  <2>2. CASE BoundTo(asker, key) = {}
    BY <2>2, FS_EmptySet
  <2>3. CASE BoundTo(asker, key) # {}
    <3>1. PICK i : i \in BoundTo(asker, key)
      BY <2>3
    <3>2. BoundTo(asker, key) = {i}
      BY <2>1, <3>1
    <3> QED
      BY <3>2, FS_Singleton
  <2> QED
    BY <2>2, <2>3
<1>2. MarketInv => KeyBindsOneJob
  BY <1>1 DEF KeyBindsOneJob
<1> QED
  BY <1>2, MarketInvariant, PTL

\* One question of one asker is asked by one run at a time.
THEOREM FlightsAreSingle == MarketSpec => []SingleFlight
<1>1. MarketInv => SingleFlight
  BY DEF MarketInv, Distinct, Fetching, SingleFlight, Working
<1> QED
  BY <1>1, MarketInvariant, PTL

\* Whoever asks a provider has a row that a crash leaves behind; facts and
\* success are never without each other or without their job.
THEOREM NothingLacksItsJob == MarketSpec => []NothingWithoutItsJob
<1>1. MarketInv => NothingWithoutItsJob
  <2>1. ASSUME MarketInv, NEW j \in JobIds
        PROVE  /\ run[j].step \notin {"idle", "starting"} => row[j] # NoJob
               /\ row[j].status = "succeeded" => j \in facts
               /\ j \in facts \cup answered => row[j] # NoJob /\ j \in facts
    <3>1. run[j].step \notin {"idle", "starting"} => row[j] # NoJob
      BY <2>1, AfterStart
    <3>2. JobOK(j) /\ answered \subseteq facts
      BY <2>1 DEF MarketInv, RestOK
    <3> QED
      BY <3>1, <3>2 DEF JobOK
  <2> QED
    BY <2>1 DEF NothingWithoutItsJob
<1> QED
  BY <1>1, MarketInvariant, PTL

\* Rows are written from the memory, but for the job whose run starts or
\* finishes; then none of those that have ended is accepted as another.
LEMMA EndedRows ==
  ASSUME MarketInv, NEW jobs, Accepts(row, jobs), row' = jobs,
         \A i \in JobIds : \/ jobs[i] = mem[i] \/ jobs[i].status = "running"
                           \/ row[i].status = "running"
  PROVE  KeepsEnded
<1>1. ASSUME NEW j \in JobIds, row[j].status \in Ended
      PROVE  jobs[j] = row[j]
  <2>1. jobs[j] = row[j] \/ jobs[j].status = "running"
    BY <1>1, StateTypes DEF JobOK, Ended
  <2>2. RowMayBecome(row[j], jobs[j]) /\ row[j] # NoJob
    BY <1>1 DEF Accepts, Ended, NoJob
  <2> QED
    BY <1>1, <2>1, <2>2 DEF RowMayBecome, Transitions, Ended
<1> QED
  BY <1>1 DEF KeepsEnded, Ended

\* The writings of one run.
LEMMA RunKeepsEnded ==
  ASSUME MarketInv, NEW j \in JobIds, RunStep(j)
  PROVE  KeepsEnded
<1>1. CASE row' = row
  BY <1>1 DEF KeepsEnded
<1>2. CASE row' = mem /\ Accepts(row, mem)
  BY <1>2, EndedRows
<1>3. ASSUME run[j].step = "starting", row' = StartedJobs(j),
             Accepts(row, StartedJobs(j))
      PROVE  KeepsEnded
  <2>1. \A i \in JobIds : \/ StartedJobs(j)[i] = mem[i]
                          \/ StartedJobs(j)[i].status = "running"
    BY <1>3, StartedRows
  <2> QED
    BY <1>3, <2>1, EndedRows
<1>4. ASSUME run[j].step = "got", row' = FinishedJobs(j),
             Accepts(row, FinishedJobs(j))
      PROVE  KeepsEnded
  <2>1. \A i \in JobIds : \/ FinishedJobs(j)[i] = mem[i]
                          \/ row[i].status = "running"
    BY <1>4, FinishedRows
  <2> QED
    BY <1>4, <2>1, EndedRows
<1>5. CASE Start(j) \/ StartFails(j)
  BY <1>1, <1>3, <1>5 DEF Start, StartFails, Fails, Commits, Acceptable, rows
<1>6. CASE Finish(j) \/ FinishFails(j)
  BY <1>1, <1>4, <1>6
     DEF Finish, FinishFails, CanFinish, Fails, Commits, Acceptable, rows
<1>7. CASE FailPersists(j)
  BY <1>1, <1>2, <1>7 DEF FailPersists, Fails, Commits, Acceptable, rows
<1>8. CASE AskAlone(j) \/ ReadCache(j) \/ Fetch(j) \/ Fail(j)
  BY <1>1, <1>8 DEF AskAlone, ReadCache, Fetch, Fail
<1> QED
  BY <1>5, <1>6, <1>7, <1>8 DEF RunStep

\* No step moves a row that has ended, whatever is written over it.
LEMMA StepKeepsEnded ==
  ASSUME MarketInv, [MarketNext]_vars
  PROVE  [KeepsEnded]_vars
<1>1. CASE row' = row
  BY <1>1 DEF KeepsEnded
<1>2. CASE row' = mem /\ Accepts(row, mem)
  BY <1>2, EndedRows
<1>3. ASSUME NEW j \in JobIds, RunStep(j)
      PROVE  [KeepsEnded]_vars
  BY <1>3, RunKeepsEnded
<1>4. CASE Ask
  <2>1. ASSUME NEW asker, NEW key, NEW query,
               BindCoolingDown(asker, key, query)
        PROVE  row' = mem /\ Accepts(row, mem)
    BY <2>1 DEF BindCoolingDown, Commits, Acceptable
  <2>2. ASSUME NEW asker, NEW key, NEW query,
               (\E j \in JobIds : AskNew(j, asker, key, query))
                 \/ Join(asker, key, query)
        PROVE  row' = row
    BY <2>2 DEF AskNew, Join, rows
  <2>3. CASE \E j \in JobIds : AskAgain(j)
    BY <1>1, <2>3 DEF AskAgain, rows
  <2> QED
    BY <1>1, <1>2, <1>4, <2>1, <2>2, <2>3 DEF Ask
<1>5. CASE AttachStep
  <2>1. row' = row \/ (row' = mem /\ Accepts(row, mem))
    BY <1>5 DEF AttachStep, Attach, Fails, Commits, Acceptable, rows
  <2> QED
    BY <1>1, <1>2, <2>1
<1>6. CASE \E q \in Public : ProviderStep(q)
  BY <1>1, <1>2, <1>6 DEF ProviderStep, Answers, Refuses, Acceptable
<1>7. CASE Crash
  BY <1>7 DEF Crash, Recovered, KeepsEnded
<1>8. CASE Reload \/ Clock \/ UNCHANGED vars
  BY <1>1, <1>8 DEF Reload, Clock, vars, rows
<1> QED
  BY <1>3, <1>4, <1>5, <1>6, <1>7, <1>8 DEF MarketNext

\* What has ended in the rows is never revived there by what another run, or
\* a run that has lost its start or its end, writes along.
THEOREM EndedMoveByRetry == MarketSpec => EndedMovesByRetry
<1>1. MarketInv /\ [MarketNext]_vars => [KeepsEnded]_vars
  BY StepKeepsEnded
<1> QED
  BY <1>1, MarketInvariant, PTL DEF MarketSpec, EndedMovesByRetry
=============================================================================
