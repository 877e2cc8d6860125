------------------------- MODULE ProspectConversion -------------------------
(***************************************************************************)
(* Prospects become leads and customers of the CRM                         *)
(* (prospect-lead-conversion.ts, prospect-customer-conversion.ts), and     *)
(* customers are released to the team's public pool and claimed from it    *)
(* (customer-public-pool.ts), with the MySQL store.                        *)
(*                                                                         *)
(* Three kinds of writers meet here.  Users change leads and customers in  *)
(* memory, and a queued persist replaces the rows by the memory            *)
(* (persistAll).  Conversions and changes of ownership work on the rows,   *)
(* one at a time in the same queue, and put their result into the memory   *)
(* after their commit.  Dispositions of prospects go around the queue; the *)
(* team guard keeps them apart from conversions.                           *)
(*                                                                         *)
(* One team, one organization per prospect.  Persisting, ownership changes *)
(* and dispositions are one step each: nobody else writes their rows       *)
(* between their beginning and their commit, and what users do to the      *)
(* memory meanwhile has the same effect as if it came before.  A           *)
(* conversion is two steps, because it keeps what it has read of the       *)
(* prospect.  Any check on approvals, active deals or the connection may   *)
(* refuse a request at any time.  Deals, to-dos, activities and the        *)
(* ownership version are left out.                                         *)
(***************************************************************************)
EXTENDS Naturals

CONSTANTS
  Owners,     \* sellers of the team
  Keys,       \* Idempotency-Key headers; each seller has his own
  Prospects,  \* prospects of the team, each with its organization
  Leads,      \* identifiers of leads that no conversion creates
  Customers,  \* identifiers of customers that no conversion creates
  Pool,       \* the owner of a public customer
  None,       \* nothing
  MaxActs,    \* bound: what users ask for
  MaxFaults   \* bound: crashes and commits whose outcome is unknown

\* A conversion derives the identifiers of all it creates from its request.
Requests    == Owners \X Keys
LeadIds     == Requests \cup Leads
CustomerIds == Requests \cup Customers

VARIABLES
  prospect,  \* rows of tenant_prospects
  acq,       \* rows of customer_acquisition_source_events, by prospect
  rows,      \* rows of leads, lead_source_events and customers
  mem,       \* the same in memory
  task,      \* the conversion that is running
  told,      \* prospects whose conversion to a customer has been confirmed
  holder,    \* who have been told, since its release, that a customer is theirs
  acts,      \* requests of users so far
  faults     \* faults so far

vars == <<prospect, acq, rows, mem, task, told, holder, acts, faults>>

\* barred is an exclusionMode other than none.
Prospect == [status : {"active", "excluded", "converted"}, barred : BOOLEAN,
             lead : LeadIds \cup {None}, customer : CustomerIds \cup {None}]
Lead     == [owner : Owners, customer : CustomerIds \cup {None},
             trashed : BOOLEAN]
Source   == [prospect : Prospects, lead : LeadIds]
Acq      == [by : Requests, lead : LeadIds, customer : CustomerIds]
Store    == [lead : [LeadIds -> Lead \cup {None}],
             source : [Requests -> Source \cup {None}],
             customer : [CustomerIds -> Owners \cup {Pool, None}]]

ASSUME ConversionConstants ==
  /\ Requests \cap (Leads \cup Customers) = {}
  /\ Pool \notin Owners /\ None \notin Owners \cup {Pool}
  /\ None \notin LeadIds \cup CustomerIds
  /\ None \notin Lead \cup Source \cup Acq
  /\ MaxActs \in Nat /\ MaxFaults \in Nat

Idle     == [step |-> "idle"]
\* lead or customer is the request itself when one is to be created.
Task     == [step : {"reading", "again"}, kind : {"lead", "customer"},
             by : Requests, prospect : Prospects, lead : LeadIds,
             customer : CustomerIds, seen : Prospect]

\* Rows, memory and the running conversion have their types; a prospect that
\* is linked is converted and one that has a customer has a lead; memory has
\* no source of a lead that the rows have not.
ConversionTypeOK ==
  /\ prospect \in [Prospects -> Prospect]
  /\ \A p \in Prospects :
       /\ prospect[p].lead # None => prospect[p].status = "converted"
       /\ prospect[p].customer # None => prospect[p].lead # None
  /\ acq \in [Prospects -> Acq \cup {None}]
  /\ rows \in Store /\ mem \in Store
  /\ \A r \in Requests : mem.source[r] \in {None, rows.source[r]}
  /\ task \in Task \cup {Idle}
  /\ told \subseteq Prospects
  /\ holder \in [CustomerIds -> SUBSET Owners]
  /\ acts \in 0..MaxActs /\ faults \in 0..MaxFaults

\* Prospects are found, and the CRM may have leads and customers already.
ConversionInit ==
  /\ prospect = [p \in Prospects |-> [status |-> "active", barred |-> FALSE,
                                      lead |-> None, customer |-> None]]
  /\ acq = [p \in Prospects |-> None]
  /\ \E lead \in [Leads -> [owner : Owners, customer : {None},
                            trashed : {FALSE}] \cup {None}],
        customer \in [Customers -> Owners \cup {Pool, None}] :
       rows = [lead |-> [l \in LeadIds |-> IF l \in Leads THEN lead[l] ELSE None],
               source |-> [r \in Requests |-> None],
               customer |-> [c \in CustomerIds |->
                               IF c \in Customers THEN customer[c] ELSE None]]
  /\ mem = rows
  /\ task = Idle /\ told = {} /\ holder = [c \in CustomerIds |-> {}]
  /\ acts = 0 /\ faults = 0

-----------------------------------------------------------------------------
\* Mutant of GuardFree: dispositions do not wait for the team guard.
GuardIgnored == TRUE
\* lockTeamGuard: a conversion has the guard from before it reads the
\* prospect until its transaction ends.
GuardFree == task.step # "reading"

Asks == acts < MaxActs /\ acts' = acts + 1

\* A conversion starts, and again after a commit that has failed.
Begin(kind, r, p, l, c) ==
  /\ task = Idle /\ Asks
  /\ task' = [step |-> "reading", kind |-> kind, by |-> r, prospect |-> p,
              lead |-> l, customer |-> c, seen |-> prospect[p]]
  /\ UNCHANGED <<prospect, acq, rows, mem, told, holder, faults>>
BeginAgain ==
  /\ task.step = "again"
  /\ task' = [task EXCEPT !.step = "reading", !.seen = prospect[task.prospect]]
  /\ UNCHANGED <<prospect, acq, rows, mem, told, holder, acts, faults>>

\* It is refused or rolled back, or tried again after a deadlock.
EndsWithout ==
  /\ task.step = "reading"
  /\ task' \in {Idle, [task EXCEPT !.step = "again"]}
  /\ UNCHANGED <<prospect, acq, rows, mem, told, holder, acts, faults>>

\* The commit is confirmed and the result put into the memory; or its outcome
\* is unknown, or the prospects cannot be reloaded after it, and the conversion
\* is tried again unless there is no connection or this was the last attempt.
Commits(prospects, acqs, newRows, newMem, nowTold) ==
  \/ /\ prospect' = prospects /\ acq' = acqs /\ rows' = newRows
     /\ mem' = newMem /\ told' = nowTold /\ task' = Idle
     /\ UNCHANGED <<holder, acts, faults>>
  \/ /\ faults < MaxFaults /\ faults' = faults + 1
     /\ \/ /\ prospect' = prospects /\ acq' = acqs /\ rows' = newRows
           /\ mem' \in {mem, newMem}
        \/ UNCHANGED <<prospect, acq, rows, mem>>
     /\ task' \in {Idle, [task EXCEPT !.step = "again"]}
     /\ UNCHANGED <<told, holder, acts>>

Linked(lead, customer) ==
  [prospect EXCEPT ![task.prospect] =
     [task.seen EXCEPT !.status = "converted", !.lead = lead, !.customer = customer]]

-----------------------------------------------------------------------------
\* The lead a conversion is about: created, or an existing one of the seller.
TargetLead ==
  IF task.lead = task.by
    THEN rows.lead[task.by] = None
    ELSE /\ rows.lead[task.lead] # None
         /\ rows.lead[task.lead].owner = task.by[1]
         /\ ~rows.lead[task.lead].trashed

\* The seller has no other source for this prospect.
NoOtherSource ==
  \A r \in Requests \ {task.by} :
    r[1] = task.by[1] /\ rows.source[r] # None
      => rows.source[r].prospect # task.prospect

\* The key has not been used, and the prospect may be converted.
MayBecomeLead ==
  /\ rows.source[task.by] = None
  /\ task.seen.status = "active" /\ ~task.seen.barred /\ task.seen.lead = None

\* convertProspectToLead, in its transaction.
BecomesLead ==
  /\ task.step = "reading" /\ task.kind = "lead"
  /\ NoOtherSource /\ MayBecomeLead /\ TargetLead
  /\ LET source == [prospect |-> task.prospect, lead |-> task.lead]
         lead == IF task.lead = task.by
                   THEN [owner |-> task.by[1], customer |-> None, trashed |-> FALSE]
                   ELSE rows.lead[task.lead]
         With(store) == [store EXCEPT !.lead[task.lead] = lead,
                                      !.source[task.by] = source]
     IN Commits(Linked(task.lead, task.seen.customer), acq,
                With(rows), With(mem), told)

\* The same request again: the answer comes from the rows.
LeadReplayed ==
  /\ task.step = "reading" /\ task.kind = "lead"
  /\ NoOtherSource
  /\ rows.source[task.by] = [prospect |-> task.prospect, lead |-> task.lead]
  /\ rows.lead[task.lead] # None /\ rows.lead[task.lead].owner = task.by[1]
  /\ task.seen.status = "converted" /\ task.seen.lead = task.lead
  /\ Commits(prospect, acq, rows,
             [mem EXCEPT !.lead[task.lead] = rows.lead[task.lead],
                         !.source[task.by] = rows.source[task.by]], told)

-----------------------------------------------------------------------------
\* findLead and findLeadSource: the seller's lead with its source.
LeadOfProspect ==
  /\ rows.lead[task.lead] # None
  /\ rows.lead[task.lead].owner = task.by[1] /\ ~rows.lead[task.lead].trashed
  /\ task.seen.lead = task.lead
  /\ \E r \in Requests : /\ r[1] = task.by[1]
                         /\ rows.source[r] = [prospect |-> task.prospect,
                                              lead |-> task.lead]

\* No other conversion has the organization, the lead or the key (which the
\* unique keys of the table say once more), and neither side is linked.
MayBecomeCustomer ==
  /\ acq[task.prospect] = None
  /\ \A p \in Prospects : acq[p] # None =>
       /\ acq[p].by # task.by
       /\ ~(acq[p].by[1] = task.by[1] /\ acq[p].lead = task.lead)
  /\ rows.lead[task.lead].customer = None /\ task.seen.customer = None
  /\ task.seen.status = "converted" /\ ~task.seen.barred

\* Created, or an existing customer of the seller.  Whether another
\* organization has it is asked of acquisition rows that are not loaded.
TargetCustomer ==
  IF task.customer = task.by THEN rows.customer[task.by] = None
                             ELSE rows.customer[task.customer] = task.by[1]

\* The customer and the lead as the transaction leaves them.
Converted(store) ==
  [store EXCEPT !.customer[task.customer] = task.by[1],
                !.lead[task.lead] = [rows.lead[task.lead] EXCEPT
                                       !.customer = task.customer]]

\* Mutant of Remembered: the lead in memory is forgotten.
RememberedCustomer == [mem EXCEPT !.customer[task.customer] = task.by[1]]
\* upsertConversionCache: the memory afterwards.
Remembered == Converted(mem)

\* convertProspectToCustomer, in its transaction.
BecomesCustomer ==
  /\ task.step = "reading" /\ task.kind = "customer"
  /\ LeadOfProspect /\ MayBecomeCustomer /\ TargetCustomer
  /\ Commits(Linked(task.lead, task.customer),
             [acq EXCEPT ![task.prospect] =
                [by |-> task.by, lead |-> task.lead, customer |-> task.customer]],
             Converted(rows), Remembered, told \cup {task.prospect})

\* The same request again.
CustomerReplayed ==
  /\ task.step = "reading" /\ task.kind = "customer"
  /\ LeadOfProspect
  /\ acq[task.prospect] = [by |-> task.by, lead |-> task.lead,
                           customer |-> task.customer]
  /\ rows.customer[task.customer] = task.by[1]
  /\ rows.lead[task.lead].customer = task.customer
  /\ task.seen.customer = task.customer
  /\ Commits(prospect, acq, rows, Remembered, told \cup {task.prospect})

-----------------------------------------------------------------------------
\* Mutant of Restored: the links are not looked at.
RestoredAsActive(q) == [q EXCEPT !.status = "active", !.barred = FALSE]
\* A prospect after the disposition resume.
Restored(q) == [q EXCEPT !.status = IF q.lead # None \/ q.customer # None
                                      THEN "converted" ELSE "active",
                         !.barred = FALSE]
Excluded(q) == [q EXCEPT !.status = IF @ = "converted" THEN @ ELSE "excluded",
                         !.barred = TRUE]

\* setTenantProspectDisposition for a candidate that is excluded or restored.
Dispose(p) ==
  /\ GuardFree /\ Asks
  /\ prospect' \in {[prospect EXCEPT ![p] = Restored(@)],
                    [prospect EXCEPT ![p] = Excluded(@)]}
  /\ UNCHANGED <<acq, rows, mem, task, told, holder, faults>>

\* A candidate is added to the leads: its lead has been created and persisted
\* before, and is linked whatever the state of the prospect.
LinkLead(p, l) ==
  /\ GuardFree /\ Asks
  /\ rows.lead[l] # None
  /\ prospect' = [prospect EXCEPT ![p].status = "converted", ![p].lead = l]
  /\ UNCHANGED <<acq, rows, mem, task, told, holder, faults>>

-----------------------------------------------------------------------------
\* mutateCustomerOwnership: a change of the row, put into the memory after a
\* confirmed commit, even where the customer has been deleted meanwhile.
Owned(c, owner, toldIfDone, toldIfUnknown) ==
  /\ task = Idle /\ Asks
  /\ \/ /\ rows' = [rows EXCEPT !.customer[c] = owner]
        /\ mem'  = [mem EXCEPT !.customer[c] = owner]
        /\ holder' = [holder EXCEPT ![c] = toldIfDone]
        /\ UNCHANGED faults
     \/ /\ faults < MaxFaults /\ faults' = faults + 1
        /\ rows' \in {rows, [rows EXCEPT !.customer[c] = owner]}
        /\ holder' = [holder EXCEPT ![c] = toldIfUnknown] /\ UNCHANGED mem
  /\ UNCHANGED <<prospect, acq, task, told>>

\* Release, by the owner or a manager.
Release(c) == rows.customer[c] \in Owners /\ Owned(c, Pool, {}, {})

\* Mutant of MayClaim: whoever owns the customer.
MayClaimAny(c) == rows.customer[c] # None
\* The customer's row says that it is public.
MayClaim(c) == rows.customer[c] = Pool
Claim(u, c) == MayClaim(c) /\ Owned(c, u, holder[c] \cup {u}, holder[c])

-----------------------------------------------------------------------------
\* Users change the memory, at any time.
Changes(m) ==
  /\ Asks /\ mem' = m
  /\ UNCHANGED <<prospect, acq, rows, task, told, holder, faults>>

\* DELETE /api/leads/:id, restore, and DELETE /api/leads/:id/permanent: a lead
\* that has become a customer is kept.
TrashLead(l) ==
  /\ mem.lead[l] # None /\ mem.lead[l].customer = None /\ ~mem.lead[l].trashed
  /\ Changes([mem EXCEPT !.lead[l].trashed = TRUE])
RestoreLead(l) ==
  /\ mem.lead[l] # None /\ mem.lead[l].trashed
  /\ Changes([mem EXCEPT !.lead[l].trashed = FALSE])
DeleteLead(l) ==
  /\ mem.lead[l] # None /\ mem.lead[l].customer = None /\ mem.lead[l].trashed
  /\ Changes([mem EXCEPT !.lead[l] = None,
                         !.source = [r \in Requests |->
                            IF @[r] # None /\ @[r].lead = l THEN None ELSE @[r]]])

\* A new identifier is one that nothing has had.
Unused(c) ==
  /\ rows.customer[c] = None /\ mem.customer[c] = None /\ holder[c] = {}
  /\ \A p \in Prospects : prospect[p].customer # c
  /\ \A l \in LeadIds : mem.lead[l] # None => mem.lead[l].customer # c

\* POST /api/leads/:id/convert, for leads that are no prospect's.
ConvertLead(l, c) ==
  /\ mem.lead[l] # None /\ ~mem.lead[l].trashed /\ mem.lead[l].customer = None
  /\ l \notin Requests
  /\ \A r \in Requests : mem.source[r] # None =>
       mem.source[r].lead # l \/ r[1] # mem.lead[l].owner
  /\ \/ mem.customer[c] \in Owners
     \/ c \in Customers /\ Unused(c)
  /\ Changes([mem EXCEPT !.lead[l].customer = c,
                         !.customer[c] = IF @ = None THEN mem.lead[l].owner ELSE @])

\* POST /api/leads and POST /api/customers.
CreateLead(u, l) ==
  /\ l \in Leads /\ rows.lead[l] = None /\ mem.lead[l] = None
  /\ \A p \in Prospects : prospect[p].lead # l
  /\ Changes([mem EXCEPT !.lead[l] = [owner |-> u, customer |-> None,
                                      trashed |-> FALSE]])
CreateCustomer(u, c) ==
  c \in Customers /\ Unused(c) /\ Changes([mem EXCEPT !.customer[c] = u])

\* POST /api/customers/bulk-delete.
DeleteCustomer(c) ==
  mem.customer[c] \in Owners /\ Changes([mem EXCEPT !.customer[c] = None])

\* persistAll: it waits for the conversion that is running.
Persist ==
  /\ task = Idle /\ rows # mem /\ rows' = mem
  /\ UNCHANGED <<prospect, acq, mem, task, told, holder, acts, faults>>

\* The process ends and starts again with what the rows say.
Crash ==
  /\ faults < MaxFaults /\ faults' = faults + 1
  /\ mem' = rows /\ task' = Idle
  /\ UNCHANGED <<prospect, acq, rows, told, holder, acts>>

-----------------------------------------------------------------------------
ConversionStep ==
  \/ \E r \in Requests, p \in Prospects, l \in LeadIds :
       \/ Begin("lead", r, p, l, r)
       \/ \E c \in CustomerIds : Begin("customer", r, p, l, c)
  \/ BeginAgain \/ EndsWithout
  \/ BecomesLead \/ LeadReplayed \/ BecomesCustomer \/ CustomerReplayed

UserStep ==
  \/ \E l \in LeadIds :
       \/ TrashLead(l) \/ RestoreLead(l) \/ DeleteLead(l)
       \/ \E c \in CustomerIds : ConvertLead(l, c)
       \/ \E u \in Owners : CreateLead(u, l)
  \/ \E c \in CustomerIds :
       \/ DeleteCustomer(c) \/ Release(c)
       \/ \E u \in Owners : Claim(u, c) \/ CreateCustomer(u, c)
  \/ \E p \in Prospects :
       Dispose(p) \/ \E l \in Leads : LinkLead(p, l)

ConversionNext == ConversionStep \/ UserStep \/ Persist \/ Crash

ConversionSpec == ConversionInit /\ [][ConversionNext]_vars

-----------------------------------------------------------------------------
\* What a step writes about a prospect, the prospect allows in the state before.
RefusesExcluded ==
  \A p \in Prospects :
    /\ acq'[p] # acq[p] =>
         prospect[p].status = "converted" /\ ~prospect[p].barred
    /\ \A r \in Requests :
         rows'.source[r] # rows.source[r] /\ rows'.source[r] # None
           /\ rows'.source[r].prospect = p =>
             prospect[p].status = "active" /\ ~prospect[p].barred

\* A prospect that is excluded at the time is not converted: a source event
\* or an acquisition event appears only for a prospect that may be converted
\* in the state before, although users exclude and restore prospects around
\* the queue that conversions wait in.
RefusedNotConverted == [][RefusesExcluded]_vars

\* An organization is bound to one customer for good, prospect and acquisition
\* event agree on it, and once the seller has been told so his lead is
\* converted to it and is not in the trash, in the rows and in memory,
\* whatever is deleted, persisted, replayed or lost meanwhile.
ConversionTraced ==
  /\ \A p \in Prospects :
       IF acq[p] = None THEN prospect[p].customer = None /\ p \notin told
                        ELSE prospect[p].customer = acq[p].customer
  /\ \A p \in told, store \in {rows, mem} :
       LET lead == store.lead[acq[p].lead] IN
       /\ lead # None
       /\ lead.customer = acq[p].customer /\ ~lead.trashed

\* Who has been told that he has claimed a customer has it, unless it is
\* deleted, until somebody asks to release it: no second claim, persist, crash,
\* conversion or lost commit gives it to another seller.
ClaimHolds ==
  \A c \in CustomerIds : \A u \in holder[c] :
    rows.customer[c] \in {u, None} /\ mem.customer[c] \in {u, None}
=============================================================================
