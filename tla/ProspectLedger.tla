--------------------------- MODULE ProspectLedger ---------------------------
(***************************************************************************)
(* What the provider request ledger promises to the rest of the system,    *)
(* whatever the execution kernel, its workers and its crashes do.          *)
(*                                                                         *)
(* A shard talks to its provider in numbered requests, the                 *)
(* logicalRequestNo of the code.  The ledger keeps one entry per request;  *)
(* an entry is prepared before anything leaves the process, is sent at     *)
(* most once, is answered at most once, and is closed exactly once.  What  *)
(* an answer cost is booked exactly once, when the entry closes, and a     *)
(* page of results is accepted only by an entry that closes as a success.  *)
(* A shard opens its next request only when the previous one is closed.    *)
(*                                                                         *)
(* The status vocabularies and the two tables are those of                 *)
(* prospect-provider-request-ledger.ts.  The kernel's model is shown to    *)
(* implement this specification.                                           *)
(***************************************************************************)
EXTENDS Naturals

CONSTANTS Shards,      \* the shards of all runs
          MaxCalls     \* the requests one shard may number

VARIABLE book          \* the entry of every request, opened or not

-----------------------------------------------------------------------------
\* ProspectProviderRequestStatus, and "none" for a request not yet prepared.
LedgerStatus == {"none", "prepared", "dispatch_started", "dispatch_confirmed",
                 "response_received", "outcome_unknown", "settled",
                 "cancelled_late"}

\* ProspectProviderRequestDispatchStatus, and "none" before the dispatch row.
\* ("rejected" is in the code's type and never assigned.)
DispatchStatus == {"none", "started", "confirmed", "outcome_unknown",
                   "response_received", "rejected"}

\* ProspectProviderRequestSettlementKind
SettlementKind == {"none", "success", "failure", "cancelled_late",
                   "cancelled_before_dispatch"}

\* ledgerTransitions: the successors of every ledger status.
LedgerTransitions ==
  [st \in LedgerStatus |->
     CASE st = "none"               -> {"prepared"}
       [] st = "prepared"           -> {"dispatch_started", "settled"}
       [] st = "dispatch_started"   -> {"dispatch_confirmed",
                                        "response_received", "outcome_unknown"}
       [] st = "dispatch_confirmed" -> {"response_received", "outcome_unknown"}
       [] st = "response_received"  -> {"settled", "cancelled_late"}
       [] st = "outcome_unknown"    -> {"dispatch_started", "dispatch_confirmed",
                                        "response_received", "cancelled_late"}
       [] OTHER                     -> {}]

\* dispatchTransitions: the successors of every dispatch status.
DispatchTransitions ==
  [st \in DispatchStatus |->
     CASE st = "none"            -> {"started"}
       [] st = "started"         -> {"confirmed", "response_received",
                                     "outcome_unknown", "rejected"}
       [] st = "confirmed"       -> {"response_received", "outcome_unknown"}
       [] st = "outcome_unknown" -> {"confirmed", "response_received"}
       [] OTHER                  -> {}]

Closed == {"settled", "cancelled_late"}

-----------------------------------------------------------------------------
Requests == Shards \X (1..MaxCalls)

Entry == [status: LedgerStatus, dispatch: DispatchStatus, kind: SettlementKind,
          evidence: Nat, pages: Nat]

Blank == [status |-> "none", dispatch |-> "none", kind |-> "none",
          evidence |-> 0, pages |-> 0]

TypeOK == book \in [Requests -> Entry]

\* The entry is opened, and nothing has left the process yet.
Prepares(a, b) ==
  /\ a = Blank
  /\ b = [Blank EXCEPT !.status = "prepared"]

\* The one dispatch of the request leaves the process.
Sends(a, b) ==
  /\ a.status = "prepared"
  /\ b = [a EXCEPT !.status = "dispatch_started", !.dispatch = "started"]

\* The answer is stored, possibly after the outcome was given up as unknown.
Answers(a, b) ==
  /\ a.status \in {"dispatch_started", "outcome_unknown"}
  /\ b = [a EXCEPT !.status = "response_received",
                   !.dispatch = "response_received"]

\* Nobody can tell any more whether the provider has executed the request.
GivesUp(a, b) ==
  /\ a.status = "dispatch_started"
  /\ b = [a EXCEPT !.status = "outcome_unknown", !.dispatch = "outcome_unknown"]

\* The stored answer is settled: its cost is booked, and only a success
\* brings a page.
Settles(a, b) ==
  /\ a.status = "response_received"
  /\ \E k \in {"success", "failure", "cancelled_late"} :
       b = [a EXCEPT !.status   = IF k = "cancelled_late" THEN k ELSE "settled",
                     !.kind     = k,
                     !.evidence = 1,
                     !.pages    = IF k = "success" THEN 1 ELSE 0]

\* The run was cancelled before the request left the process.
Withdraws(a, b) ==
  /\ a.status = "prepared"
  /\ b = [a EXCEPT !.status = "settled", !.kind = "cancelled_before_dispatch"]

Step(a, b) ==
  \/ Prepares(a, b) \/ Sends(a, b)   \/ Answers(a, b)
  \/ GivesUp(a, b)  \/ Settles(a, b) \/ Withdraws(a, b)

\* A shard opens a request only when all the earlier ones are closed.
InTurn(s, n) ==
  (book[s, n].status = "none" /\ book'[s, n].status # "none")
    => \A m \in 1..(n - 1) : book[s, m].status = "settled"

-----------------------------------------------------------------------------
Init == book = [q \in Requests |-> Blank]

\* One transaction of the kernel may move the entries of several shards.
Next ==
  /\ book' \in [Requests -> Entry]
  /\ \A q \in Requests : book'[q] = book[q] \/ Step(book[q], book'[q])
  /\ \A s \in Shards, n \in 1..MaxCalls : InTurn(s, n)

Spec == Init /\ [][Next]_book
=============================================================================
