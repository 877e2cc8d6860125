---------------------- MODULE ProspectConversionProofs ----------------------
(***************************************************************************)
(* Theorems about conversions, dispositions and the public pool, for any   *)
(* sellers, keys, prospects, leads, customers and numbers of requests and  *)
(* faults.                                                                 *)
(*                                                                         *)
(* ConversionInv is the inductive invariant.  To what the properties say   *)
(* it adds that a conversion which has the team guard still sees the       *)
(* prospect as it is (SeenIsCurrent) and that a customer with the          *)
(* identifier of a request has been created by a conversion that left an   *)
(* acquisition event (CreatedOnce).                                        *)
(***************************************************************************)
EXTENDS ProspectConversion, TLAPS

\* Nobody changes a prospect that a conversion has read.
SeenIsCurrent == task.step = "reading" => task.seen = prospect[task.prospect]

\* A request that has created a customer has an acquisition event.
CreatedOnce ==
  \A r \in Requests :
    rows.customer[r] # None \/ mem.customer[r] # None \/ holder[r] # {}
      => \E p \in Prospects : acq[p] # None /\ acq[p].by = r

\* The parts of ConversionTraced.
Bound ==
  \A p \in Prospects :
    IF acq[p] = None THEN prospect[p].customer = None /\ p \notin told
                     ELSE prospect[p].customer = acq[p].customer
Keeps(lead) ==
  \A p \in told :
    /\ lead[acq[p].lead] # None
    /\ lead[acq[p].lead].customer = acq[p].customer
    /\ ~lead[acq[p].lead].trashed
Kept == Keeps(rows.lead) /\ Keeps(mem.lead)

ConversionInv ==
  /\ ConversionTypeOK /\ SeenIsCurrent
  /\ Bound /\ Kept /\ ClaimHolds /\ CreatedOnce

\* The two parts are the property.
LEMMA TracedParts == ConversionTraced <=> Bound /\ Kept
BY DEF ConversionTraced, Bound, Kept, Keeps

-----------------------------------------------------------------------------
(* Types.                                                                  *)

\* What is looked up has its type.
LEMMA Lookups ==
  ASSUME ConversionTypeOK
  PROVE  /\ \A p \in Prospects : prospect[p] \in Prospect
         /\ \A p \in Prospects : acq[p] = None \/ acq[p] \in Acq
         /\ \A p \in told : p \in Prospects
         /\ rows \in Store /\ mem \in Store
BY DEF ConversionTypeOK

\* The parts of a store have their types.
LEMMA StoreParts ==
  ASSUME NEW s \in Store
  PROVE  /\ s.lead \in [LeadIds -> Lead \cup {None}]
         /\ s.source \in [Requests -> Source \cup {None}]
         /\ s.customer \in [CustomerIds -> Owners \cup {Pool, None}]
BY DEF Store

\* Leads and customers a request creates are identifiers.
LEMMA Identifiers ==
  /\ Requests \subseteq LeadIds /\ Requests \subseteq CustomerIds
  /\ Leads \subseteq LeadIds /\ Customers \subseteq CustomerIds
  /\ None \notin LeadIds /\ None \notin CustomerIds
  /\ None \notin Owners /\ Pool \notin Owners
  /\ None \notin Lead /\ None \notin Source /\ None \notin Acq
  /\ \A c \in Customers : c \notin Requests
BY ConversionConstants DEF LeadIds, CustomerIds

\* A running conversion has the type of a task.
LEMMA Reading ==
  ASSUME ConversionTypeOK, task.step \in {"reading", "again"}
  PROVE  /\ task \in Task /\ task.prospect \in Prospects
         /\ task.by \in Requests /\ task.by[1] \in Owners
         /\ task.lead \in LeadIds /\ task.customer \in CustomerIds
         /\ task.seen \in Prospect
<1>1. task # Idle
  BY DEF Idle
<1>2. task \in Task
  BY <1>1 DEF ConversionTypeOK
<1> QED
  BY <1>2 DEF Task, Requests

-----------------------------------------------------------------------------
(* The steps of a conversion.                                              *)

\* A commit is confirmed, has happened without confirmation, or has not.
LEMMA CommitCases ==
  ASSUME NEW P, NEW A, NEW R, NEW M, NEW T, Commits(P, A, R, M, T)
  PROVE  /\ holder' = holder /\ acts' = acts
         /\ faults' = faults \/ (faults < MaxFaults /\ faults' = faults + 1)
         /\ task' \in {Idle, [task EXCEPT !.step = "again"]}
         /\ \/ /\ prospect' = P /\ acq' = A /\ rows' = R
               /\ mem' = M \/ (mem' = mem /\ told' = told)
               /\ told' = T \/ told' = told
            \/ UNCHANGED <<prospect, acq, rows, mem, told>>
BY DEF Commits

\* A task that is to be tried again has its type.
LEMMA TaskAgain ==
  ASSUME NEW t \in Task
  PROVE  LET u == [t EXCEPT !.step = "again"]
         IN  u \in Task /\ u.step = "again"
BY DEF Task

\* A prospect that is linked has its type.
LEMMA LinkedTypes ==
  ASSUME ConversionTypeOK, SeenIsCurrent, task.step = "reading",
         NEW l \in LeadIds, NEW c \in CustomerIds \cup {None}
  PROVE  LET P == Linked(l, c)
         IN  /\ P \in [Prospects -> Prospect]
             /\ P[task.prospect].status = "converted"
             /\ P[task.prospect].lead = l /\ P[task.prospect].customer = c
             /\ \A q \in Prospects \ {task.prospect} : P[q] = prospect[q]
<1> DEFINE n == [task.seen EXCEPT !.status = "converted", !.lead = l, !.customer = c]
<1>1. task.seen \in Prospect /\ task.prospect \in Prospects
  BY Reading
<1>2. n \in Prospect /\ n.status = "converted" /\ n.lead = l /\ n.customer = c
  BY <1>1 DEF Prospect
<1>3. prospect \in [Prospects -> Prospect]
  BY DEF ConversionTypeOK
<1>4. Linked(l, c) = [prospect EXCEPT ![task.prospect] = n]
  BY DEF Linked
<1> HIDE DEF n
<1> QED
  BY <1>1, <1>2, <1>3, <1>4

\* Linking keeps the types.
LEMMA LinkedKeepsLinks ==
  ASSUME ConversionTypeOK, SeenIsCurrent, task.step = "reading",
         NEW l \in LeadIds, NEW c \in CustomerIds \cup {None}
  PROVE  \A p \in Prospects :
           LET q == Linked(l, c)[p]
           IN  /\ q.lead # None => q.status = "converted"
               /\ q.customer # None => q.lead # None
BY LinkedTypes, Identifiers DEF ConversionTypeOK

\* What a conversion leaves of its task when it ends.
LEMMA TaskEnds ==
  ASSUME ConversionTypeOK, task.step = "reading",
         task' \in {Idle, [task EXCEPT !.step = "again"]}
  PROVE  task' \in Task \cup {Idle} /\ SeenIsCurrent'
<1>1. task \in Task
  BY Reading
<1>2. CASE task' = Idle
  BY <1>2 DEF Idle, SeenIsCurrent
<1>3. CASE task' = [task EXCEPT !.step = "again"]
  BY <1>1, <1>3, TaskAgain DEF SeenIsCurrent
<1> QED
  BY <1>2, <1>3

\* The counters stay in their bounds.
LEMMA CountersInBounds ==
  ASSUME ConversionTypeOK,
         acts' = acts \/ Asks,
         faults' = faults \/ (faults < MaxFaults /\ faults' = faults + 1)
  PROVE  acts' \in 0..MaxActs /\ faults' \in 0..MaxFaults
BY ConversionConstants DEF ConversionTypeOK, Asks

\* A conversion that does nothing keeps the invariant.
LEMMA NothingDone ==
  ASSUME ConversionInv, task.step = "reading",
         task' \in {Idle, [task EXCEPT !.step = "again"]},
         UNCHANGED <<prospect, acq, rows, mem, told, holder, acts>>,
         faults' = faults \/ (faults < MaxFaults /\ faults' = faults + 1)
  PROVE  ConversionInv'
<1>1. ConversionTypeOK
  BY DEF ConversionInv
<1>2. ConversionTypeOK'
  BY <1>1, TaskEnds, CountersInBounds
       DEF ConversionTypeOK
<1>3. SeenIsCurrent'
  BY <1>1, TaskEnds
<1>4. Bound' /\ Kept' /\ ClaimHolds' /\ CreatedOnce'
  BY DEF ConversionInv, Bound, Kept, Keeps, ClaimHolds, CreatedOnce
<1> QED
  BY <1>2, <1>3, <1>4 DEF ConversionInv

\* A task begins with the prospect as it is.
LEMMA BeginKeeps ==
  ASSUME ConversionInv,
         \/ \E kind \in {"lead", "customer"}, r \in Requests, p \in Prospects,
               l \in LeadIds, c \in CustomerIds : Begin(kind, r, p, l, c)
         \/ BeginAgain
  PROVE  ConversionInv'
<1>1. ConversionTypeOK
  BY DEF ConversionInv
<1>2. UNCHANGED <<prospect, acq, rows, mem, told, holder, faults>>
  BY DEF Begin, BeginAgain
<1>3. Bound' /\ Kept' /\ ClaimHolds' /\ CreatedOnce'
  BY <1>2 DEF ConversionInv, Bound, Kept, Keeps, ClaimHolds, CreatedOnce
<1>4. /\ task' \in Task /\ task'.seen = prospect[task'.prospect]
      /\ acts' = acts \/ Asks
  <2>1. CASE BeginAgain
    <3>1. task \in Task /\ task.prospect \in Prospects
      BY <1>1, <2>1, Reading DEF BeginAgain
    <3> DEFINE q == prospect[task.prospect]
    <3>2. q \in Prospect
      BY <1>1, <3>1, Lookups
    <3>3. task' = [task EXCEPT !.step = "reading", !.seen = q] /\ acts' = acts
      BY <2>1 DEF BeginAgain
    <3> HIDE DEF q
    <3>4. task' \in Task /\ task'.seen = q /\ task'.prospect = task.prospect
      BY <3>1, <3>2, <3>3 DEF Task
    <3> QED
      BY <3>3, <3>4 DEF q
  <2>2. ASSUME NEW kind \in {"lead", "customer"}, NEW r \in Requests,
               NEW p \in Prospects, NEW l \in LeadIds, NEW c \in CustomerIds,
               Begin(kind, r, p, l, c)
        PROVE  /\ task' \in Task /\ task'.seen = prospect[task'.prospect]
               /\ acts' = acts \/ Asks
    BY <1>1, <2>2, Lookups DEF Begin, Task
  <2> QED
    BY <2>1, <2>2
<1>5. ConversionTypeOK'
  BY <1>1, <1>2, <1>4, CountersInBounds DEF ConversionTypeOK
<1>6. SeenIsCurrent'
  BY <1>2, <1>4 DEF SeenIsCurrent
<1> QED
  BY <1>3, <1>5, <1>6 DEF ConversionInv

\* A refusal keeps the invariant.
LEMMA EndsWithoutKeeps ==
  ASSUME ConversionInv, EndsWithout
  PROVE  ConversionInv'
BY NothingDone DEF EndsWithout

\* A prospect that becomes a lead: the lead is new, or as the rows have it, so
\* whoever has been told of a customer keeps his.
LEMMA BecomesLeadKeeps ==
  ASSUME ConversionInv, BecomesLead
  PROVE  ConversionInv'
<1> DEFINE p == task.prospect
           x == IF task.lead = task.by
                  THEN [owner |-> task.by[1], customer |-> None, trashed |-> FALSE]
                  ELSE rows.lead[task.lead]
           y == [prospect |-> task.prospect, lead |-> task.lead]
           With(s) == [s EXCEPT !.lead[task.lead] = x, !.source[task.by] = y]
           P == Linked(task.lead, task.seen.customer)
<1>1. /\ ConversionTypeOK /\ SeenIsCurrent /\ task.step = "reading"
      /\ rows \in Store /\ mem \in Store
  BY Lookups DEF ConversionInv, BecomesLead
<1>2. /\ p \in Prospects /\ task.by \in Requests /\ task.by[1] \in Owners
      /\ task.lead \in LeadIds /\ task.seen \in Prospect /\ task.seen = prospect[p]
  BY <1>1, Reading DEF SeenIsCurrent
<1>3. Commits(P, acq, With(rows), With(mem), told)
  BY DEF BecomesLead
<1>4. /\ rows.source[task.by] = None
      /\ task.lead = task.by => rows.lead[task.lead] = None
      /\ task.lead # task.by => rows.lead[task.lead] # None
  BY DEF BecomesLead, MayBecomeLead, TargetLead
<1>5. x \in Lead /\ y \in Source
  <2>1. x \in Lead
    BY <1>1, <1>2, <1>4, StoreParts DEF Lead
  <2> QED
    BY <1>2, <2>1 DEF Source
<1>6. task.seen.customer \in CustomerIds \cup {None}
  BY <1>2 DEF Prospect
<1>7. x = rows.lead[task.lead] \/ rows.lead[task.lead] = None
  BY <1>4
<1> HIDE DEF x, y
<1>8. \A s \in {rows, mem} :
        /\ With(s) \in Store /\ With(s).customer = s.customer
        /\ With(s).lead = [s.lead EXCEPT ![task.lead] = x]
        /\ With(s).source = [s.source EXCEPT ![task.by] = y]
  <2> TAKE s \in {rows, mem}
  <2>1. s \in Store
    BY <1>1
  <2> QED
    BY <1>2, <1>5, <2>1 DEF Store
<1>9. /\ P \in [Prospects -> Prospect] /\ P[p].customer = prospect[p].customer
      /\ \A q \in Prospects \ {p} : P[q] = prospect[q]
      /\ \A q \in Prospects : /\ P[q].lead # None => P[q].status = "converted"
                              /\ P[q].customer # None => P[q].lead # None
  BY <1>1, <1>2, <1>6, LinkedTypes, LinkedKeepsLinks
<1> DEFINE R == With(rows)
           M == With(mem)
<1> HIDE DEF With, P
<1>10. CASE UNCHANGED <<prospect, acq, rows, mem, told>>
  BY <1>1, <1>3, <1>10, CommitCases, NothingDone
<1>11. CASE /\ prospect' = P /\ acq' = acq /\ rows' = R
            /\ mem' \in {M, mem} /\ told' = told
  <2>1. /\ holder' = holder /\ acts' = acts
        /\ faults' = faults \/ (faults < MaxFaults /\ faults' = faults + 1)
        /\ task' \in {Idle, [task EXCEPT !.step = "again"]}
    BY <1>3, CommitCases
  <2>2. /\ rows' \in Store /\ mem' \in Store
        /\ rows'.customer = rows.customer /\ mem'.customer = mem.customer
        /\ rows'.lead = [rows.lead EXCEPT ![task.lead] = x]
        /\ mem'.lead = mem.lead \/ mem'.lead = [mem.lead EXCEPT ![task.lead] = x]
        /\ rows'.source = [rows.source EXCEPT ![task.by] = y]
        /\ \/ mem'.source = mem.source
           \/ mem'.source = [mem.source EXCEPT ![task.by] = y]
    BY <1>1, <1>8, <1>11
  <2>3. \A r \in Requests : mem'.source[r] \in {None, rows'.source[r]}
    <3>1. \A r \in Requests : mem.source[r] \in {None, rows.source[r]}
      BY <1>1 DEF ConversionTypeOK
    <3>2. /\ rows.source \in [Requests -> Source \cup {None}]
          /\ mem.source \in [Requests -> Source \cup {None}]
      BY <1>1, StoreParts
    <3> QED
      BY <1>2, <1>4, <2>2, <3>1, <3>2
  <2>4. ConversionTypeOK'
    BY <1>1, <1>9, <1>11, <2>1, <2>2, <2>3, TaskEnds, CountersInBounds
       DEF ConversionTypeOK
  <2>5. SeenIsCurrent'
    BY <1>1, <2>1, TaskEnds
  <2>6. Bound'
    BY <1>2, <1>9, <1>11 DEF ConversionInv, Bound
  <2>7. Kept'
    <3>1. /\ rows.lead \in [LeadIds -> Lead \cup {None}]
          /\ mem.lead \in [LeadIds -> Lead \cup {None}]
      BY <1>1, StoreParts
    <3>2. \A q \in told : acq[q].lead \in LeadIds
      BY <1>1, Lookups DEF ConversionInv, Bound, Acq
    <3> QED
      BY <1>2, <1>7, <1>11, <2>2, <3>1, <3>2 DEF ConversionInv, Kept, Keeps
  <2>8. ClaimHolds' /\ CreatedOnce'
    BY <1>11, <2>1, <2>2 DEF ConversionInv, ClaimHolds, CreatedOnce
  <2> QED
    BY <2>4, <2>5, <2>6, <2>7, <2>8 DEF ConversionInv
<1> QED
  BY <1>3, <1>10, <1>11, CommitCases

\* A replayed conversion to a lead brings lead and source from the rows.
LEMMA LeadReplayedKeeps ==
  ASSUME ConversionInv, LeadReplayed
  PROVE  ConversionInv'
<1> DEFINE x == rows.lead[task.lead]
           y == rows.source[task.by]
           M == [mem EXCEPT !.lead[task.lead] = x, !.source[task.by] = y]
<1>1. /\ ConversionTypeOK /\ task.step = "reading"
      /\ rows \in Store /\ mem \in Store
  BY Lookups DEF ConversionInv, LeadReplayed
<1>2. task.by \in Requests /\ task.lead \in LeadIds
  BY <1>1, Reading
<1>3. Commits(prospect, acq, rows, M, told)
  BY DEF LeadReplayed
<1>4. /\ rows.lead \in [LeadIds -> Lead \cup {None}]
      /\ mem.lead \in [LeadIds -> Lead \cup {None}]
      /\ rows.source \in [Requests -> Source \cup {None}]
      /\ mem.source \in [Requests -> Source \cup {None}]
  BY <1>1, StoreParts
<1>5. x \in Lead \cup {None} /\ y \in Source \cup {None}
  BY <1>2, <1>4
<1>6. /\ M \in Store /\ M.customer = mem.customer
      /\ M.lead = [mem.lead EXCEPT ![task.lead] = rows.lead[task.lead]]
      /\ M.source = [mem.source EXCEPT ![task.by] = rows.source[task.by]]
  BY <1>1, <1>2, <1>5 DEF Store
<1> HIDE DEF M
<1>7. /\ holder' = holder /\ acts' = acts
      /\ faults' = faults \/ (faults < MaxFaults /\ faults' = faults + 1)
      /\ task' \in {Idle, [task EXCEPT !.step = "again"]}
      /\ UNCHANGED <<prospect, acq, rows, told>>
      /\ mem' = M \/ mem' = mem
  BY <1>3, CommitCases
<1>8. /\ mem' \in Store /\ mem'.customer = mem.customer
      /\ mem'.lead = mem.lead
         \/ mem'.lead = [mem.lead EXCEPT ![task.lead] = rows.lead[task.lead]]
      /\ mem'.source = mem.source
         \/ mem'.source = [mem.source EXCEPT ![task.by] = rows.source[task.by]]
  BY <1>1, <1>6, <1>7
<1>9. \A r \in Requests : mem'.source[r] \in {None, rows'.source[r]}
  <2>1. \A r \in Requests : mem.source[r] \in {None, rows.source[r]}
    BY <1>1 DEF ConversionTypeOK
  <2> QED
    BY <1>2, <1>4, <1>7, <1>8, <2>1
<1>10. ConversionTypeOK'
  BY <1>1, <1>7, <1>8, <1>9, TaskEnds, CountersInBounds
       DEF ConversionTypeOK
<1>11. SeenIsCurrent'
  BY <1>1, <1>7, TaskEnds
<1>12. Kept'
  <2>1. \A q \in told : acq[q].lead \in LeadIds
    BY <1>1, Lookups DEF ConversionInv, Bound, Acq
  <2> QED
    BY <1>2, <1>4, <1>7, <1>8, <2>1 DEF ConversionInv, Kept, Keeps
<1>13. Bound' /\ ClaimHolds' /\ CreatedOnce'
  BY <1>7, <1>8 DEF ConversionInv, Bound, ClaimHolds, CreatedOnce
<1> QED
  BY <1>10, <1>11, <1>12, <1>13 DEF ConversionInv

\* What a conversion to a customer makes of a store: the lead as in the rows,
\* with the customer, who belongs to the seller.
LEMMA ConvertedStores ==
  ASSUME ConversionTypeOK, task.step = "reading", LeadOfProspect
  PROVE  /\ \A s \in {rows, mem} :
              LET x == [rows.lead[task.lead] EXCEPT !.customer = task.customer]
              IN  /\ Converted(s) \in Store /\ Converted(s).source = s.source
                  /\ Converted(s).customer =
                       [s.customer EXCEPT ![task.customer] = task.by[1]]
                  /\ Converted(s).lead = [s.lead EXCEPT ![task.lead] = x]
         /\ [rows.lead[task.lead] EXCEPT !.customer = task.customer] \in Lead
<1> DEFINE x == [rows.lead[task.lead] EXCEPT !.customer = task.customer]
<1>1. rows \in Store /\ mem \in Store
  BY Lookups
<1>2. /\ task.by[1] \in Owners /\ task.lead \in LeadIds
      /\ task.customer \in CustomerIds
  BY Reading
<1>3. rows.lead[task.lead] \in Lead
  BY <1>1, <1>2, StoreParts DEF LeadOfProspect
<1>4. x \in Lead
  BY <1>2, <1>3 DEF Lead
<1> HIDE DEF x
<1>5. \A s \in {rows, mem} :
        Converted(s) = [s EXCEPT !.customer[task.customer] = task.by[1],
                                 !.lead[task.lead] = x]
  BY DEF Converted, x
<1>6. \A s \in {rows, mem} :
        /\ Converted(s) \in Store /\ Converted(s).source = s.source
        /\ Converted(s).customer = [s.customer EXCEPT ![task.customer] = task.by[1]]
        /\ Converted(s).lead = [s.lead EXCEPT ![task.lead] = x]
  <2> TAKE s \in {rows, mem}
  <2>1. s \in Store
    BY <1>1
  <2> DEFINE w == [s EXCEPT !.customer[task.customer] = task.by[1],
                            !.lead[task.lead] = x]
  <2>2. /\ w \in Store /\ w.source = s.source
        /\ w.customer = [s.customer EXCEPT ![task.customer] = task.by[1]]
        /\ w.lead = [s.lead EXCEPT ![task.lead] = x]
    BY <1>2, <1>4, <2>1 DEF Store
  <2>3. Converted(s) = w
    BY <1>5
  <2> HIDE DEF w
  <2> QED
    BY <2>2, <2>3
<1> QED
  BY <1>4, <1>6 DEF x

\* A lead that becomes a customer: nobody who has been told of another
\* customer loses this lead or this customer by it.
LEMMA BecomesCustomerKeeps ==
  ASSUME ConversionInv, BecomesCustomer
  PROVE  ConversionInv'
<1> DEFINE p == task.prospect
           c == task.customer
           u == task.by[1]
           a == [by |-> task.by, lead |-> task.lead, customer |-> task.customer]
           x == [rows.lead[task.lead] EXCEPT !.customer = task.customer]
           P == Linked(task.lead, task.customer)
           R == Converted(rows)
           M == Converted(mem)
<1>1. /\ ConversionTypeOK /\ SeenIsCurrent /\ task.step = "reading"
      /\ rows \in Store /\ mem \in Store
  BY Lookups DEF ConversionInv, BecomesCustomer
<1>2. /\ p \in Prospects /\ task.by \in Requests /\ u \in Owners
      /\ task.lead \in LeadIds /\ c \in CustomerIds /\ task.seen = prospect[p]
  BY <1>1, Reading DEF SeenIsCurrent
<1>3. Commits(P, [acq EXCEPT ![p] = a], R, M, told \cup {p})
  BY DEF BecomesCustomer, Remembered
<1>4. /\ acq[p] = None
      /\ \A q \in Prospects : acq[q] # None => acq[q].by # task.by
      /\ rows.lead[task.lead].customer = None /\ LeadOfProspect
      /\ rows.lead[task.lead] # None /\ ~rows.lead[task.lead].trashed
      /\ c = task.by => rows.customer[c] = None
      /\ c # task.by => rows.customer[c] = u
  BY DEF BecomesCustomer, MayBecomeCustomer, TargetCustomer, LeadOfProspect
<1>5. a \in Acq /\ a # None /\ a.by = task.by /\ a.lead = task.lead /\ a.customer = c
  BY <1>2, Identifiers DEF Acq
<1>6. /\ rows.lead \in [LeadIds -> Lead \cup {None}]
      /\ mem.lead \in [LeadIds -> Lead \cup {None}]
      /\ rows.customer \in [CustomerIds -> Owners \cup {Pool, None}]
      /\ mem.customer \in [CustomerIds -> Owners \cup {Pool, None}]
      /\ rows.lead[task.lead] \in Lead
  BY <1>1, <1>2, <1>4, StoreParts
<1>7. x \in Lead /\ x # None /\ x.customer = c /\ ~x.trashed
  <2>1. x \in Lead /\ x.customer = c /\ x.trashed = rows.lead[task.lead].trashed
    BY <1>2, <1>6 DEF Lead
  <2>2. None # x
    BY <2>1, Identifiers
  <2> QED
    BY <1>4, <2>1, <2>2
<1>8. /\ R \in Store /\ R.source = rows.source
      /\ R.customer = [rows.customer EXCEPT ![c] = u]
      /\ R.lead = [rows.lead EXCEPT ![task.lead] = x]
      /\ M \in Store /\ M.source = mem.source
      /\ M.customer = [mem.customer EXCEPT ![c] = u]
      /\ M.lead = [mem.lead EXCEPT ![task.lead] = x]
  BY <1>1, <1>4, ConvertedStores
<1>9. /\ P \in [Prospects -> Prospect] /\ P[p].customer = c
      /\ \A q \in Prospects \ {p} : P[q] = prospect[q]
      /\ \A q \in Prospects : /\ P[q].lead # None => P[q].status = "converted"
                              /\ P[q].customer # None => P[q].lead # None
  BY <1>1, <1>2, LinkedTypes, LinkedKeepsLinks
<1> HIDE DEF x, a, P, R, M
<1>10. CASE UNCHANGED <<prospect, acq, rows, mem, told>>
  BY <1>1, <1>3, <1>10, CommitCases, NothingDone
<1>11. CASE /\ prospect' = P /\ acq' = [acq EXCEPT ![p] = a] /\ rows' = R
            /\ mem' = M \/ (mem' = mem /\ told' = told)
            /\ told' = told \cup {p} \/ told' = told
  <2>1. /\ holder' = holder /\ acts' = acts
        /\ faults' = faults \/ (faults < MaxFaults /\ faults' = faults + 1)
        /\ task' \in {Idle, [task EXCEPT !.step = "again"]}
    BY <1>3, CommitCases
  <2>2. /\ rows' \in Store /\ mem' \in Store
        /\ rows'.source = rows.source /\ mem'.source = mem.source
        /\ rows'.customer = [rows.customer EXCEPT ![c] = u]
        /\ \/ mem'.customer = mem.customer
           \/ mem'.customer = [mem.customer EXCEPT ![c] = u]
        /\ rows'.lead = [rows.lead EXCEPT ![task.lead] = x]
        /\ \/ mem'.lead = mem.lead /\ told' = told
           \/ mem'.lead = [mem.lead EXCEPT ![task.lead] = x]
    BY <1>1, <1>8, <1>11
  <2>3. acq' \in [Prospects -> Acq \cup {None}] /\ told' \subseteq Prospects
    BY <1>1, <1>2, <1>5, <1>11 DEF ConversionTypeOK
  <2>4. ConversionTypeOK'
    BY <1>1, <1>9, <1>11, <2>1, <2>2, <2>3, TaskEnds, CountersInBounds
       DEF ConversionTypeOK
  <2>5. SeenIsCurrent'
    BY <1>1, <2>1, TaskEnds
  <2>6. acq'[p] = a /\ \A q \in Prospects \ {p} : acq'[q] = acq[q]
    BY <1>1, <1>2, <1>11 DEF ConversionTypeOK
  <2>7. Bound'
    BY <1>1, <1>2, <1>5, <1>9, <1>11, <2>6, Lookups DEF ConversionInv, Bound
  <2>8. Kept'
    <3>1. p \notin told /\ \A q \in told : acq[q] # None
      BY <1>1, <1>2, <1>4, Lookups DEF ConversionInv, Bound
    <3>2. \A q \in told : /\ acq[q].lead \in LeadIds
                          /\ acq[q].customer # None
      BY <1>1, <3>1, Lookups, Identifiers DEF Acq
    <3>3. \A q \in told : acq[q].lead # task.lead
      BY <1>4, <3>2 DEF ConversionInv, Kept, Keeps
    <3>4. \A q \in told : acq'[q] = acq[q] /\ q # p
      BY <1>1, <2>6, <3>1, Lookups
    <3> QED
      BY <1>2, <1>5, <1>6, <1>7, <1>11, <2>2, <2>6, <3>2, <3>3, <3>4
         DEF ConversionInv, Kept, Keeps
  <2>9. \A v \in holder[c] : v = u
    <3>1. CASE c = task.by
      BY <1>2, <1>4, <3>1 DEF ConversionInv, CreatedOnce
    <3>2. CASE c # task.by
      BY <1>2, <1>4, <3>2, Identifiers DEF ConversionInv, ClaimHolds
    <3> QED
      BY <3>1, <3>2
  <2>10. ClaimHolds'
    BY <1>2, <1>6, <2>1, <2>2, <2>9 DEF ConversionInv, ClaimHolds
  <2>11. CreatedOnce'
    <3>1. \A r \in Requests : r # c =>
            rows'.customer[r] = rows.customer[r] /\ mem'.customer[r] = mem.customer[r]
      BY <1>6, <2>2, Identifiers
    <3>2. \A q \in Prospects : acq[q] # None => acq'[q] = acq[q]
      BY <1>4, <2>6
    <3>3. \A r \in Requests \ {c} :
            rows'.customer[r] # None \/ mem'.customer[r] # None \/ holder'[r] # {}
              => \E q \in Prospects : acq'[q] # None /\ acq'[q].by = r
      BY <2>1, <3>1, <3>2 DEF ConversionInv, CreatedOnce
    <3>4. CASE c = task.by
      BY <1>2, <1>5, <2>6, <3>3, <3>4 DEF CreatedOnce
    <3>5. CASE c # task.by
      <4>1. c \in Requests => \E q \in Prospects : acq[q] # None /\ acq[q].by = c
        BY <1>2, <1>4, <3>5, Identifiers DEF ConversionInv, CreatedOnce
      <4> QED
        BY <3>2, <3>3, <4>1 DEF CreatedOnce
    <3> QED
      BY <3>4, <3>5
  <2> QED
    BY <2>4, <2>5, <2>7, <2>8, <2>10, <2>11 DEF ConversionInv
<1> QED
  BY <1>3, <1>10, <1>11, CommitCases

\* A replayed conversion to a customer brings lead and customer from the rows.
LEMMA CustomerReplayedKeeps ==
  ASSUME ConversionInv, CustomerReplayed
  PROVE  ConversionInv'
<1> DEFINE p == task.prospect
           c == task.customer
           u == task.by[1]
           x == [rows.lead[task.lead] EXCEPT !.customer = task.customer]
           M == Converted(mem)
<1>1. /\ ConversionTypeOK /\ task.step = "reading"
      /\ rows \in Store /\ mem \in Store
  BY Lookups DEF ConversionInv, CustomerReplayed
<1>2. /\ p \in Prospects /\ task.by \in Requests /\ u \in Owners
      /\ task.lead \in LeadIds /\ c \in CustomerIds
  BY <1>1, Reading
<1>3. Commits(prospect, acq, rows, M, told \cup {p})
  BY DEF CustomerReplayed, Remembered
<1>4. /\ acq[p] = [by |-> task.by, lead |-> task.lead, customer |-> c]
      /\ rows.customer[c] = u /\ rows.lead[task.lead].customer = c
      /\ LeadOfProspect
      /\ rows.lead[task.lead] # None /\ ~rows.lead[task.lead].trashed
  BY DEF CustomerReplayed, LeadOfProspect
<1>5. /\ acq[p] # None /\ acq[p].by = task.by
      /\ acq[p].lead = task.lead /\ acq[p].customer = c
  <2>1. None \notin Acq
    BY Identifiers
  <2> QED
    BY <1>2, <1>4, <2>1 DEF Acq
<1>6. /\ rows.lead \in [LeadIds -> Lead \cup {None}]
      /\ mem.lead \in [LeadIds -> Lead \cup {None}]
      /\ rows.customer \in [CustomerIds -> Owners \cup {Pool, None}]
      /\ mem.customer \in [CustomerIds -> Owners \cup {Pool, None}]
      /\ rows.lead[task.lead] \in Lead
  BY <1>1, <1>2, <1>4, StoreParts
<1>7. x = rows.lead[task.lead]
  BY <1>4, <1>6 DEF Lead
<1>8. /\ M \in Store /\ M.source = mem.source
      /\ M.customer = [mem.customer EXCEPT ![c] = u]
      /\ M.lead = [mem.lead EXCEPT ![task.lead] = rows.lead[task.lead]]
  BY <1>1, <1>4, <1>7, ConvertedStores
<1> HIDE DEF M
<1>9. /\ holder' = holder /\ acts' = acts
      /\ faults' = faults \/ (faults < MaxFaults /\ faults' = faults + 1)
      /\ task' \in {Idle, [task EXCEPT !.step = "again"]}
      /\ UNCHANGED <<prospect, acq, rows>>
      /\ mem' = M \/ (mem' = mem /\ told' = told)
      /\ told' = told \cup {p} \/ told' = told
  BY <1>3, CommitCases
<1>10. /\ mem' \in Store /\ mem'.source = mem.source
       /\ \/ mem'.customer = mem.customer
          \/ mem'.customer = [mem.customer EXCEPT ![c] = u]
       /\ \/ mem'.lead = mem.lead /\ told' = told
          \/ mem'.lead = [mem.lead EXCEPT ![task.lead] = rows.lead[task.lead]]
  BY <1>1, <1>8, <1>9
<1>11. ConversionTypeOK'
  <2>1. told' \subseteq Prospects
    BY <1>1, <1>2, <1>9 DEF ConversionTypeOK
  <2> QED
    BY <1>1, <1>9, <1>10, <2>1, TaskEnds, CountersInBounds
       DEF ConversionTypeOK
<1>12. SeenIsCurrent'
  BY <1>1, <1>9, TaskEnds
<1>13. Bound'
  BY <1>2, <1>5, <1>9 DEF ConversionInv, Bound
<1>14. Kept'
  <2>1. \A q \in told : acq[q].lead \in LeadIds
    BY <1>1, Lookups DEF ConversionInv, Bound, Acq
  <2> QED
    BY <1>2, <1>4, <1>5, <1>6, <1>9, <1>10, <2>1 DEF ConversionInv, Kept, Keeps
<1>15. ClaimHolds'
  <2>1. \A v \in holder[c] : v = u
    BY <1>2, <1>4, Identifiers DEF ConversionInv, ClaimHolds
  <2> QED
    BY <1>2, <1>6, <1>9, <1>10, <2>1 DEF ConversionInv, ClaimHolds
<1>16. CreatedOnce'
  <2>1. \A r \in Requests :
          mem'.customer[r] # None => mem.customer[r] # None \/ rows.customer[r] # None
    BY <1>2, <1>4, <1>6, <1>10, Identifiers
  <2> QED
    BY <1>9, <2>1 DEF ConversionInv, CreatedOnce
<1> QED
  BY <1>11, <1>12, <1>13, <1>14, <1>15, <1>16 DEF ConversionInv

-----------------------------------------------------------------------------
(* Dispositions.                                                           *)

\* A change of one prospect's status, exclusion or lead, without a conversion
\* that has read it, keeps the invariant.
LEMMA ProspectChange ==
  ASSUME ConversionInv, GuardFree, Asks, NEW p \in Prospects, NEW n \in Prospect,
         n.lead # None => n.status = "converted",
         n.customer # None => n.lead # None,
         n.customer = prospect[p].customer,
         prospect' = [prospect EXCEPT ![p] = n],
         UNCHANGED <<acq, rows, mem, task, told, holder, faults>>
  PROVE  ConversionInv'
<1>1. ConversionTypeOK /\ prospect \in [Prospects -> Prospect]
  BY DEF ConversionInv, ConversionTypeOK
<1>2. ConversionTypeOK'
  BY <1>1, CountersInBounds DEF ConversionTypeOK
<1>3. SeenIsCurrent'
  BY DEF GuardFree, SeenIsCurrent
<1>4. Bound'
  BY <1>1 DEF ConversionInv, Bound
<1>5. Kept' /\ ClaimHolds' /\ CreatedOnce'
  BY DEF ConversionInv, Kept, Keeps, ClaimHolds, CreatedOnce
<1> QED
  BY <1>2, <1>3, <1>4, <1>5 DEF ConversionInv

\* Excluding and restoring a candidate, and adding it to the leads.
LEMMA DispositionsKeep ==
  ASSUME ConversionInv, NEW p \in Prospects,
         Dispose(p) \/ \E l \in Leads : LinkLead(p, l)
  PROVE  ConversionInv'
<1> DEFINE q == prospect[p]
<1>1. /\ q \in Prospect
      /\ q.lead # None => q.status = "converted"
      /\ q.customer # None => q.lead # None
  BY Lookups DEF ConversionInv, ConversionTypeOK
<1> HIDE DEF q
<1>2. CASE Dispose(p)
  <2>1. PICK n : /\ n = Restored(q) \/ n = Excluded(q)
                 /\ prospect' = [prospect EXCEPT ![p] = n]
    BY <1>2 DEF Dispose, q
  <2>2. n \in Prospect /\ n.lead = q.lead /\ n.customer = q.customer
        /\ (n.lead # None => n.status = "converted")
    <3>1. CASE n = Restored(q)
      BY <1>1, <3>1 DEF Prospect, Restored
    <3>2. CASE n = Excluded(q)
      BY <1>1, <3>2 DEF Prospect, Excluded
    <3> QED
      BY <2>1, <3>1, <3>2
  <2>3. n.customer = prospect[p].customer /\ (n.customer # None => n.lead # None)
    BY <1>1, <2>2 DEF q
  <2> QED
    BY <1>2, <2>1, <2>2, <2>3, ProspectChange DEF Dispose
<1>3. ASSUME NEW l \in Leads, LinkLead(p, l)
      PROVE  ConversionInv'
  <2> DEFINE n == [q EXCEPT !.status = "converted", !.lead = l]
  <2>1. l \in LeadIds /\ l # None
    BY Identifiers
  <2>2. /\ n \in Prospect /\ n.lead = l /\ n.customer = q.customer
        /\ n.status = "converted"
    BY <1>1, <2>1 DEF Prospect
  <2>3. prospect' = [prospect EXCEPT ![p] = n]
    BY <1>3 DEF LinkLead, q
  <2>4. /\ n.customer = prospect[p].customer
        /\ UNCHANGED <<acq, rows, mem, task, told, holder, faults>>
        /\ GuardFree /\ Asks
    BY <1>3, <2>2 DEF LinkLead, q
  <2> HIDE DEF n
  <2> QED
    BY <2>1, <2>2, <2>3, <2>4, ProspectChange
<1> QED
  BY <1>2, <1>3

-----------------------------------------------------------------------------
(* Users.                                                                  *)

\* A change of the memory that keeps converted leads, and gives only new
\* customers to somebody, keeps the invariant.
LEMMA MemoryChange ==
  ASSUME ConversionInv, NEW m \in Store, Changes(m),
         \A r \in Requests : m.source[r] \in {None, mem.source[r]},
         \A l \in LeadIds :
           mem.lead[l] # None /\ mem.lead[l].customer # None /\ ~mem.lead[l].trashed
             => m.lead[l] = mem.lead[l],
         \A c \in CustomerIds : \/ m.customer[c] \in {None, mem.customer[c]}
                                \/ c \in Customers /\ holder[c] = {}
  PROVE  ConversionInv'
<1>1. /\ Asks /\ mem' = m
      /\ UNCHANGED <<prospect, acq, rows, task, told, holder, faults>>
  BY DEF Changes
<1>2. ConversionTypeOK
  BY DEF ConversionInv
<1>3. ConversionTypeOK'
  BY <1>1, <1>2, CountersInBounds DEF ConversionTypeOK
<1>4. SeenIsCurrent' /\ Bound'
  BY <1>1 DEF ConversionInv, SeenIsCurrent, Bound
<1>5. Kept'
  <2>1. \A p \in told : acq[p].lead \in LeadIds /\ acq[p].customer # None
    BY <1>2, Lookups, Identifiers DEF ConversionInv, Bound, Acq
  <2>2. \A p \in told : m.lead[acq[p].lead] = mem.lead[acq[p].lead]
    BY <2>1 DEF ConversionInv, Kept, Keeps
  <2> QED
    BY <1>1, <2>2 DEF ConversionInv, Kept, Keeps
<1>6. ClaimHolds'
  BY <1>1 DEF ConversionInv, ClaimHolds
<1>7. CreatedOnce'
  <2>1. \A r \in Requests : m.customer[r] \in {None, mem.customer[r]}
    BY Identifiers
  <2> QED
    BY <1>1, <2>1 DEF ConversionInv, CreatedOnce
<1> QED
  BY <1>3, <1>4, <1>5, <1>6, <1>7 DEF ConversionInv

\* A change of a lead that is not converted, or is in the trash.
LEMMA LeadChange ==
  ASSUME ConversionInv, NEW l \in LeadIds, NEW x \in Lead \cup {None},
         mem.lead[l] = None \/ mem.lead[l].customer = None \/ mem.lead[l].trashed,
         Changes([mem EXCEPT !.lead[l] = x])
  PROVE  ConversionInv'
<1> DEFINE m == [mem EXCEPT !.lead[l] = x]
<1>1. mem \in Store
  BY Lookups DEF ConversionInv
<1>2. /\ m \in Store /\ m.lead = [mem.lead EXCEPT ![l] = x]
      /\ m.source = mem.source /\ m.customer = mem.customer
  BY <1>1 DEF Store
<1>3. mem.lead \in [LeadIds -> Lead \cup {None}]
  BY <1>1, StoreParts
<1>4. Changes(m)
  OBVIOUS
<1> HIDE DEF m
<1>5. \A k \in LeadIds :
        mem.lead[k] # None /\ mem.lead[k].customer # None /\ ~mem.lead[k].trashed
          => m.lead[k] = mem.lead[k]
  BY <1>2, <1>3
<1> QED
  BY <1>2, <1>4, <1>5, MemoryChange

\* The trash, and new leads.
LEMMA LeadStepsKeep ==
  ASSUME ConversionInv, NEW l \in LeadIds,
         \/ TrashLead(l) \/ RestoreLead(l)
         \/ \E u \in Owners : CreateLead(u, l)
  PROVE  ConversionInv'
<1>1. mem \in Store /\ mem.lead \in [LeadIds -> Lead \cup {None}]
  BY Lookups, StoreParts DEF ConversionInv
<1>2. ASSUME NEW b \in BOOLEAN, mem.lead[l] # None,
             mem.lead[l].customer = None \/ mem.lead[l].trashed,
             Changes([mem EXCEPT !.lead[l].trashed = b])
      PROVE  ConversionInv'
  <2> DEFINE x == [mem.lead[l] EXCEPT !.trashed = b]
  <2>1. x \in Lead
    BY <1>1, <1>2 DEF Lead
  <2>2. Changes([mem EXCEPT !.lead[l] = x])
    BY <1>2
  <2> HIDE DEF x
  <2> QED
    BY <1>2, <2>1, <2>2, LeadChange
<1>3. CASE TrashLead(l)
  BY <1>2, <1>3 DEF TrashLead
<1>4. CASE RestoreLead(l)
  BY <1>2, <1>4 DEF RestoreLead
<1>5. ASSUME NEW u \in Owners, CreateLead(u, l)
      PROVE  ConversionInv'
  <2> DEFINE x == [owner |-> u, customer |-> None, trashed |-> FALSE]
  <2>1. x \in Lead
    BY DEF Lead
  <2>2. mem.lead[l] = None /\ Changes([mem EXCEPT !.lead[l] = x])
    BY <1>5 DEF CreateLead
  <2> HIDE DEF x
  <2> QED
    BY <2>1, <2>2, LeadChange
<1> QED
  BY <1>3, <1>4, <1>5

\* The permanent deletion of a lead takes its sources with it.
LEMMA DeleteLeadKeeps ==
  ASSUME ConversionInv, NEW l \in LeadIds, DeleteLead(l)
  PROVE  ConversionInv'
<1> DEFINE z == [r \in Requests |->
                   IF mem.source[r] # None /\ mem.source[r].lead = l
                     THEN None ELSE mem.source[r]]
           m == [mem EXCEPT !.lead[l] = None, !.source = z]
<1>1. mem \in Store
  BY Lookups DEF ConversionInv
<1>2. /\ mem.lead \in [LeadIds -> Lead \cup {None}]
      /\ mem.source \in [Requests -> Source \cup {None}]
  BY <1>1, StoreParts
<1>3. /\ z \in [Requests -> Source \cup {None}]
      /\ \A r \in Requests : z[r] \in {None, mem.source[r]}
  BY <1>2
<1>4. mem.lead[l].customer = None /\ Changes(m)
  BY DEF DeleteLead
<1> HIDE DEF z
<1>5. /\ m \in Store /\ m.lead = [mem.lead EXCEPT ![l] = None]
      /\ m.source = z /\ m.customer = mem.customer
  BY <1>1, <1>3 DEF Store
<1> HIDE DEF m
<1>6. \A k \in LeadIds :
        mem.lead[k] # None /\ mem.lead[k].customer # None /\ ~mem.lead[k].trashed
          => m.lead[k] = mem.lead[k]
  BY <1>2, <1>4, <1>5
<1> QED
  BY <1>3, <1>4, <1>5, <1>6, MemoryChange

\* New customers, and deleted ones.
LEMMA CustomerStepsKeep ==
  ASSUME ConversionInv, NEW c \in CustomerIds,
         \/ DeleteCustomer(c)
         \/ \E u \in Owners : CreateCustomer(u, c)
  PROVE  ConversionInv'
<1>1. PICK o \in Owners \cup {None} :
        /\ o = None \/ (c \in Customers /\ holder[c] = {})
        /\ Changes([mem EXCEPT !.customer[c] = o])
  BY DEF DeleteCustomer, CreateCustomer, Unused
<1> DEFINE m == [mem EXCEPT !.customer[c] = o]
<1>2. mem \in Store /\ mem.customer \in [CustomerIds -> Owners \cup {Pool, None}]
  BY Lookups, StoreParts DEF ConversionInv
<1>3. /\ m \in Store /\ m.customer = [mem.customer EXCEPT ![c] = o]
      /\ m.source = mem.source /\ m.lead = mem.lead
  BY <1>2 DEF Store
<1>4. Changes(m)
  BY <1>1
<1> HIDE DEF m
<1>5. \A k \in CustomerIds : \/ m.customer[k] \in {None, mem.customer[k]}
                             \/ k \in Customers /\ holder[k] = {}
  BY <1>1, <1>2, <1>3
<1> QED
  BY <1>3, <1>4, <1>5, MemoryChange

\* The conversion of a lead that is no prospect's.
LEMMA ConvertLeadKeeps ==
  ASSUME ConversionInv, NEW l \in LeadIds, NEW c \in CustomerIds, ConvertLead(l, c)
  PROVE  ConversionInv'
<1> DEFINE x == [mem.lead[l] EXCEPT !.customer = c]
           o == IF mem.customer[c] = None THEN mem.lead[l].owner ELSE mem.customer[c]
           m == [mem EXCEPT !.lead[l] = x, !.customer[c] = o]
<1>1. mem \in Store
  BY Lookups DEF ConversionInv
<1>2. /\ mem.lead \in [LeadIds -> Lead \cup {None}]
      /\ mem.customer \in [CustomerIds -> Owners \cup {Pool, None}]
  BY <1>1, StoreParts
<1>3. /\ mem.lead[l] # None /\ mem.lead[l].customer = None
      /\ mem.customer[c] \in Owners \/ (c \in Customers /\ holder[c] = {})
  BY DEF ConvertLead, Unused
<1>4. Changes([mem EXCEPT !.lead[l].customer = c,
                          !.customer[c] = IF @ = None THEN mem.lead[l].owner ELSE @])
  BY DEF ConvertLead
<1>5. Changes(m)
  BY <1>1, <1>4 DEF Store
<1>6. x \in Lead /\ o \in Owners \cup {Pool, None}
  BY <1>2, <1>3 DEF Lead
<1>7. o = mem.customer[c] \/ (c \in Customers /\ holder[c] = {})
  BY <1>3, Identifiers
<1> HIDE DEF x, o
<1>8. /\ m \in Store /\ m.lead = [mem.lead EXCEPT ![l] = x]
      /\ m.customer = [mem.customer EXCEPT ![c] = o] /\ m.source = mem.source
  BY <1>1, <1>6 DEF Store
<1> HIDE DEF m
<1>9. \A k \in CustomerIds : \/ m.customer[k] \in {None, mem.customer[k]}
                             \/ k \in Customers /\ holder[k] = {}
  BY <1>2, <1>7, <1>8
<1>10. \A k \in LeadIds :
         mem.lead[k] # None /\ mem.lead[k].customer # None /\ ~mem.lead[k].trashed
           => m.lead[k] = mem.lead[k]
  BY <1>2, <1>3, <1>8
<1> QED
  BY <1>5, <1>8, <1>9, <1>10, MemoryChange

-----------------------------------------------------------------------------
(* The public pool, the queue of the store and crashes.                    *)

\* A change of ownership keeps the invariant if whoever has been told that
\* the customer is his is the new owner or is told that it is not.
LEMMA OwnedKeeps ==
  ASSUME ConversionInv, NEW c \in CustomerIds, NEW o \in Owners \cup {Pool},
         NEW done \in SUBSET Owners, NEW unknown \in SUBSET Owners,
         Owned(c, o, done, unknown), rows.customer[c] # None,
         done \subseteq {o}, unknown = {}
  PROVE  ConversionInv'
<1> DEFINE R == [rows EXCEPT !.customer[c] = o]
           M == [mem EXCEPT !.customer[c] = o]
<1>1. ConversionTypeOK /\ rows \in Store /\ mem \in Store
  BY Lookups DEF ConversionInv
<1>2. /\ R \in Store /\ R.lead = rows.lead /\ R.source = rows.source
      /\ R.customer = [rows.customer EXCEPT ![c] = o]
      /\ M \in Store /\ M.lead = mem.lead /\ M.source = mem.source
      /\ M.customer = [mem.customer EXCEPT ![c] = o]
  BY <1>1 DEF Store
<1>3. /\ Asks /\ UNCHANGED <<prospect, acq, task, told>>
      /\ rows' = R \/ rows' = rows
      /\ \/ rows' = R /\ mem' = M /\ holder' = [holder EXCEPT ![c] = done]
         \/ mem' = mem /\ holder' = [holder EXCEPT ![c] = {}]
      /\ faults' = faults \/ (faults < MaxFaults /\ faults' = faults + 1)
  BY DEF Owned
<1> HIDE DEF R, M
<1>4. /\ rows' \in Store /\ rows'.lead = rows.lead /\ rows'.source = rows.source
      /\ mem' \in Store /\ mem'.lead = mem.lead /\ mem'.source = mem.source
  BY <1>1, <1>2, <1>3
<1>5. /\ rows.customer \in [CustomerIds -> Owners \cup {Pool, None}]
      /\ mem.customer \in [CustomerIds -> Owners \cup {Pool, None}]
      /\ holder \in [CustomerIds -> SUBSET Owners]
  BY <1>1, StoreParts DEF ConversionTypeOK
<1>6. holder' \in [CustomerIds -> SUBSET Owners]
  BY <1>3, <1>5
<1>7. ConversionTypeOK'
  BY <1>1, <1>3, <1>4, <1>6, CountersInBounds DEF ConversionTypeOK
<1>8. SeenIsCurrent' /\ Bound' /\ Kept'
  BY <1>3, <1>4 DEF ConversionInv, SeenIsCurrent, Bound, Kept, Keeps
<1>9. ClaimHolds'
  BY <1>2, <1>3, <1>5 DEF ConversionInv, ClaimHolds
<1>10. CreatedOnce'
  <2>1. \A r \in Requests : r # c =>
          /\ rows'.customer[r] = rows.customer[r]
          /\ mem'.customer[r] = mem.customer[r]
          /\ holder'[r] = holder[r]
    BY <1>2, <1>3, <1>5, Identifiers
  <2>2. c \in Requests => \E p \in Prospects : acq[p] # None /\ acq[p].by = c
    BY DEF ConversionInv, CreatedOnce
  <2> QED
    BY <1>3, <2>1, <2>2 DEF ConversionInv, CreatedOnce
<1> QED
  BY <1>7, <1>8, <1>9, <1>10 DEF ConversionInv

\* Releases and claims.
LEMMA PoolKeeps ==
  ASSUME ConversionInv, NEW c \in CustomerIds,
         Release(c) \/ \E u \in Owners : Claim(u, c)
  PROVE  ConversionInv'
<1>1. CASE Release(c)
  <2>1. rows.customer[c] # None /\ Owned(c, Pool, {}, {})
    BY <1>1, Identifiers DEF Release
  <2> QED
    BY <2>1, OwnedKeeps
<1>2. ASSUME NEW u \in Owners, Claim(u, c)
      PROVE  ConversionInv'
  <2>1. rows.customer[c] = Pool /\ Pool # None
    BY <1>2, ConversionConstants DEF Claim, MayClaim
  <2>2. holder[c] \in SUBSET Owners
    BY DEF ConversionInv, ConversionTypeOK
  <2>3. holder[c] = {}
    BY <2>1, <2>2, Identifiers DEF ConversionInv, ClaimHolds
  <2>4. Owned(c, u, {u}, {})
    BY <1>2, <2>3 DEF Claim
  <2> QED
    BY <2>1, <2>4, OwnedKeeps
<1> QED
  BY <1>1, <1>2

\* A persist makes rows of the memory, a crash memory of the rows.
LEMMA PersistAndCrashKeep ==
  ASSUME ConversionInv, Persist \/ Crash
  PROVE  ConversionInv'
<1>1. /\ UNCHANGED <<prospect, acq, told, holder, acts>>
      /\ rows' \in {rows, mem} /\ mem' = rows'
      /\ faults' = faults \/ (faults < MaxFaults /\ faults' = faults + 1)
      /\ task' = task \/ task' = Idle
  BY DEF Persist, Crash
<1>2. ConversionTypeOK
  BY DEF ConversionInv
<1>3. ConversionTypeOK'
  BY <1>1, <1>2, CountersInBounds DEF ConversionTypeOK
<1>4. SeenIsCurrent'
  BY <1>1 DEF ConversionInv, SeenIsCurrent, Idle
<1>5. Bound' /\ Kept' /\ ClaimHolds' /\ CreatedOnce'
  BY <1>1 DEF ConversionInv, Bound, Kept, Keeps, ClaimHolds, CreatedOnce
<1> QED
  BY <1>3, <1>4, <1>5 DEF ConversionInv

-----------------------------------------------------------------------------
(* The theorems.                                                           *)

\* The invariant holds at the beginning.
LEMMA InitKeeps ==
  ASSUME ConversionInit
  PROVE  ConversionInv
<1>1. /\ prospect \in [Prospects -> Prospect]
      /\ \A p \in Prospects : prospect[p].lead = None /\ prospect[p].customer = None
      /\ \A p \in Prospects : acq[p] = None
      /\ acq \in [Prospects -> Acq \cup {None}]
  BY DEF ConversionInit, Prospect
<1>2. PICK lead \in [Leads -> [owner : Owners, customer : {None}, trashed : {FALSE}]
                             \cup {None}],
           customer \in [Customers -> Owners \cup {Pool, None}] :
        rows = [lead |-> [l \in LeadIds |-> IF l \in Leads THEN lead[l] ELSE None],
                source |-> [r \in Requests |-> None],
                customer |-> [c \in CustomerIds |->
                                IF c \in Customers THEN customer[c] ELSE None]]
  BY DEF ConversionInit
<1>3. [owner : Owners, customer : {None}, trashed : {FALSE}] \subseteq Lead
  BY DEF Lead
<1>4. /\ rows \in Store
      /\ \A r \in Requests : rows.customer[r] = None /\ rows.source[r] = None
  BY <1>2, <1>3, Identifiers DEF Store
<1>5. /\ mem = rows /\ task = Idle /\ told = {} /\ acts = 0 /\ faults = 0
      /\ holder = [c \in CustomerIds |-> {}]
  BY DEF ConversionInit
<1>6. ConversionTypeOK
  BY <1>1, <1>4, <1>5, ConversionConstants DEF ConversionTypeOK
<1>7. SeenIsCurrent /\ Bound /\ Kept
  BY <1>1, <1>5 DEF SeenIsCurrent, Idle, Bound, Kept, Keeps
<1>8. ClaimHolds /\ CreatedOnce
  BY <1>4, <1>5, Identifiers DEF ClaimHolds, CreatedOnce
<1> QED
  BY <1>6, <1>7, <1>8 DEF ConversionInv

\* Every step keeps the invariant.
LEMMA StepKeeps ==
  ASSUME ConversionInv, [ConversionNext]_vars
  PROVE  ConversionInv'
<1>1. CASE ConversionStep
  <2>1. ASSUME NEW r \in Requests, NEW p \in Prospects, NEW l \in LeadIds,
               \/ Begin("lead", r, p, l, r)
               \/ \E c \in CustomerIds : Begin("customer", r, p, l, c)
        PROVE  ConversionInv'
    BY <2>1, BeginKeeps, Identifiers
  <2> QED
    BY <1>1, <2>1, BeginKeeps, EndsWithoutKeeps, BecomesLeadKeeps, LeadReplayedKeeps,
       BecomesCustomerKeeps, CustomerReplayedKeeps DEF ConversionStep
<1>2. CASE UserStep
  <2>1. ASSUME NEW l \in LeadIds,
               \/ TrashLead(l) \/ RestoreLead(l) \/ DeleteLead(l)
               \/ \E c \in CustomerIds : ConvertLead(l, c)
               \/ \E u \in Owners : CreateLead(u, l)
        PROVE  ConversionInv'
    BY <2>1, LeadStepsKeep, DeleteLeadKeeps, ConvertLeadKeeps
  <2>2. ASSUME NEW c \in CustomerIds,
               \/ DeleteCustomer(c) \/ Release(c)
               \/ \E u \in Owners : Claim(u, c) \/ CreateCustomer(u, c)
        PROVE  ConversionInv'
    BY <2>2, CustomerStepsKeep, PoolKeeps
  <2>3. ASSUME NEW p \in Prospects, Dispose(p) \/ \E l \in Leads : LinkLead(p, l)
        PROVE  ConversionInv'
    BY <2>3, DispositionsKeep
  <2> QED
    BY <1>2, <2>1, <2>2, <2>3 DEF UserStep
<1>3. CASE Persist \/ Crash
  BY <1>3, PersistAndCrashKeep
<1>4. CASE UNCHANGED vars
  BY <1>4 DEF vars, ConversionInv, ConversionTypeOK, SeenIsCurrent, Bound, Kept,
              Keeps, ClaimHolds, CreatedOnce
<1> QED
  BY <1>1, <1>2, <1>3, <1>4 DEF ConversionNext

\* The inductive invariant of conversions and the pool.
THEOREM ConversionInvariant == ConversionSpec => []ConversionInv
<1>1. ConversionInit => ConversionInv
  BY InitKeeps
<1>2. ConversionInv /\ [ConversionNext]_vars => ConversionInv'
  BY StepKeeps
<1> QED
  BY <1>1, <1>2, PTL DEF ConversionSpec

\* Rows, memory and the running conversion always have their types, and a
\* linked prospect is converted: a restored candidate keeps its lead.
THEOREM ConversionTypeCorrect == ConversionSpec => []ConversionTypeOK
<1>1. ConversionInv => ConversionTypeOK
  BY DEF ConversionInv
<1> QED
  BY <1>1, ConversionInvariant, PTL

\* Whoever has been told that his lead has become a customer keeps the lead,
\* and the organization is bound to that customer, in rows and memory.
THEOREM ConversionsAreTraced == ConversionSpec => []ConversionTraced
<1>1. ConversionInv => ConversionTraced
  BY TracedParts DEF ConversionInv
<1> QED
  BY <1>1, ConversionInvariant, PTL

\* Whoever has been told that he has claimed a customer has it until it is
\* released or deleted.
THEOREM ClaimsHold == ConversionSpec => []ClaimHolds
<1>1. ConversionInv => ClaimHolds
  BY DEF ConversionInv
<1> QED
  BY <1>1, ConversionInvariant, PTL

\* No step converts a prospect that is excluded.
LEMMA StepRefuses ==
  ASSUME ConversionInv, [ConversionNext]_vars
  PROVE  [RefusesExcluded]_vars
<1>1. /\ ConversionTypeOK /\ SeenIsCurrent /\ rows \in Store /\ mem \in Store
      /\ \A r \in Requests : mem.source[r] \in {None, rows.source[r]}
  BY Lookups DEF ConversionInv, ConversionTypeOK
<1>2. CASE /\ acq' = acq
           /\ \A r \in Requests : rows'.source[r] \in {None, rows.source[r]}
  BY <1>2 DEF RefusesExcluded
<1>3. CASE BecomesLead
  <2> DEFINE x == IF task.lead = task.by
                    THEN [owner |-> task.by[1], customer |-> None, trashed |-> FALSE]
                    ELSE rows.lead[task.lead]
             y == [prospect |-> task.prospect, lead |-> task.lead]
             R == [rows EXCEPT !.lead[task.lead] = x, !.source[task.by] = y]
             M == [mem EXCEPT !.lead[task.lead] = x, !.source[task.by] = y]
             P == Linked(task.lead, task.seen.customer)
  <2>1. /\ task.by \in Requests /\ task.prospect \in Prospects
        /\ task.seen = prospect[task.prospect]
        /\ task.seen.status = "active" /\ ~task.seen.barred
    BY <1>1, <1>3, Reading DEF BecomesLead, MayBecomeLead, SeenIsCurrent
  <2>2. Commits(P, acq, R, M, told)
    BY <1>3 DEF BecomesLead
  <2>3. y.prospect = task.prospect
    OBVIOUS
  <2>4. R.source = [rows.source EXCEPT ![task.by] = y]
    BY <1>1 DEF Store
  <2>5. rows.source \in [Requests -> Source \cup {None}]
    BY <1>1, StoreParts
  <2> HIDE DEF x, y, R, M, P
  <2>6. acq' = acq /\ rows' \in {rows, R}
    BY <2>2, CommitCases
  <2>7. \A r \in Requests : rows'.source[r] # rows.source[r] =>
          r = task.by /\ rows'.source[r] = y
    BY <2>1, <2>4, <2>5, <2>6
  <2> QED
    BY <2>1, <2>3, <2>6, <2>7 DEF RefusesExcluded
<1>4. CASE BecomesCustomer
  <2> DEFINE a == [by |-> task.by, lead |-> task.lead, customer |-> task.customer]
  <2>1. /\ task.prospect \in Prospects /\ task.seen = prospect[task.prospect]
        /\ task.seen.status = "converted" /\ ~task.seen.barred
        /\ task.step = "reading" /\ LeadOfProspect
    BY <1>1, <1>4, Reading DEF BecomesCustomer, MayBecomeCustomer, SeenIsCurrent
  <2>2. Commits(Linked(task.lead, task.customer), [acq EXCEPT ![task.prospect] = a],
                Converted(rows), Converted(mem), told \cup {task.prospect})
    BY <1>4 DEF BecomesCustomer, Remembered
  <2>3. Converted(rows).source = rows.source
    BY <1>1, <2>1, ConvertedStores
  <2> HIDE DEF a
  <2>4. /\ acq' \in {acq, [acq EXCEPT ![task.prospect] = a]}
        /\ rows'.source = rows.source
    BY <2>2, <2>3, CommitCases
  <2>5. \A p \in Prospects : acq'[p] # acq[p] => p = task.prospect
    BY <1>1, <2>1, <2>4 DEF ConversionTypeOK
  <2> QED
    BY <2>1, <2>4, <2>5 DEF RefusesExcluded
<1>5. CASE LeadReplayed \/ CustomerReplayed
  <2>1. acq' = acq /\ rows' = rows
    BY <1>5, CommitCases DEF LeadReplayed, CustomerReplayed
  <2> QED
    BY <1>2, <2>1
<1>6. CASE UserStep
  <2>1. ASSUME NEW c \in CustomerIds, NEW o, NEW done, NEW unknown,
               Owned(c, o, done, unknown)
        PROVE  acq' = acq /\ rows'.source = rows.source
    BY <1>1, <2>1 DEF Owned, Store
  <2>2. ASSUME NEW m, Changes(m)
        PROVE  acq' = acq /\ rows' = rows
    BY <2>2 DEF Changes
  <2>3. acq' = acq /\ rows'.source = rows.source
    BY <1>6, <2>1, <2>2
       DEF UserStep, TrashLead, RestoreLead, DeleteLead, ConvertLead, CreateLead,
           DeleteCustomer, Release, Claim, CreateCustomer, Dispose, LinkLead
  <2> QED
    BY <1>2, <2>3
<1>7. CASE Persist \/ Crash \/ UNCHANGED vars
  BY <1>1, <1>2, <1>7 DEF Persist, Crash, vars
<1>8. ASSUME \/ BeginAgain \/ EndsWithout
             \/ \E r \in Requests, p \in Prospects, l \in LeadIds :
                  \/ Begin("lead", r, p, l, r)
                  \/ \E c \in CustomerIds : Begin("customer", r, p, l, c)
      PROVE  [RefusesExcluded]_vars
  <2>1. acq' = acq /\ rows' = rows
    BY <1>8 DEF BeginAgain, EndsWithout, Begin
  <2> QED
    BY <1>2, <2>1
<1> QED
  BY <1>3, <1>4, <1>5, <1>6, <1>7, <1>8 DEF ConversionNext, ConversionStep

\* An excluded prospect is converted in no behaviour.
THEOREM ExcludedAreRefused == ConversionSpec => RefusedNotConverted
<1>1. ConversionInv /\ [ConversionNext]_vars => [RefusesExcluded]_vars
  BY StepRefuses
<1> QED
  BY <1>1, ConversionInvariant, PTL DEF ConversionSpec, RefusedNotConverted
=============================================================================
