--------------------------------- MODULE Odis ---------------------------------
(***************************************************************************)
(* The relayer's query for the pepper of a phone number.                   *)
(*   packages/apps/relayer/src/odis/odis.service.ts                        *)
(*   packages/apps/relayer/src/app.controller.ts                           *)
(*                                                                         *)
(* ODIS (external) answers the relayer's account as long as the account    *)
(* has quota; a transfer of the account adds to it.  Several queries are   *)
(* in flight at a time and share the quota.                                *)
(***************************************************************************)
EXTENDS Naturals, FiniteSets

CONSTANTS
    Tries,      \* tries of @retry
    FirstQuota, \* quota of the relayer's account in the beginning
    Grant       \* quota that a transfer adds

\* The call is tried at least twice: a transfer would be in vain otherwise.
ASSUME OdisAssumption == Tries \in Nat \ {0, 1} /\ FirstQuota \in Nat /\ Grant \in Nat \ {0}

VARIABLES
    quota,     \* queries that ODIS still answers (external)
    queries,   \* call |-> its progress
    disturbed  \* ghost: calls that lost a try to the timeout, or quota to another query

odisVars == <<quota, queries, disturbed>>

OdisQueryErrorTypes == {"OutOfQuota", "Timeout", "Unknown"}
BailOnErrorTypes == {"Unknown"}

\* late counts queries that the timeout has beaten; they are still under way.
NoQuery == [st |-> "idle", tries |-> 0, result |-> "none", late |-> 0]

Query(r, q) == queries' = [queries EXCEPT ![r] = q]

\* Mutant of the next definition: the call bails on a lack of quota too.
RetriesTimeoutsOnly(error, tries) == tries # Tries /\ error = "Timeout"

\* The decorator: an error is tried again unless it is of a kind to bail on.
Retries(error, tries) == tries # Tries /\ error \notin BailOnErrorTypes

\* A try ends with an error.
TryFails(r, q, error) ==
    Query(r, IF Retries(error, q.tries) THEN [q EXCEPT !.st = "query", !.tries = @ + 1]
             ELSE [q EXCEPT !.st = "done", !.result = error])

\* ODIS takes a unit of quota for a query of r.
Charged(r) ==
    /\ quota > 0 /\ quota' = quota - 1
    /\ disturbed' = disturbed \cup {q \in DOMAIN queries \ {r} : queries[q].st \in {"query", "replenish"}}

getPhoneNumberSignature(r) ==
    /\ queries[r].st = "idle"
    /\ Query(r, [queries[r] EXCEPT !.st = "query", !.tries = 1])
    /\ UNCHANGED <<quota, disturbed>>

\* queryOdis: a signature.
Signed(r) ==
    /\ queries[r].st = "query" /\ Charged(r)
    /\ Query(r, [queries[r] EXCEPT !.st = "done", !.result = "signature"])

\* queryOdis: the answer contains odisQuotaError; the relayer sends itself one
\* unit of gold and waits for the receipt.
QuotaRefused(r) ==
    /\ queries[r].st = "query" /\ quota = 0
    /\ Query(r, [queries[r] EXCEPT !.st = "replenish"])
    /\ UNCHANGED <<quota, disturbed>>

\* queryOdis: any other error.
QueryFails(r) ==
    /\ queries[r].st = "query"
    /\ TryFails(r, queries[r], "Unknown")
    /\ UNCHANGED <<quota, disturbed>>

\* The timeout wins the race.
QueryTimesOut(r) ==
    /\ queries[r].st = "query"
    /\ TryFails(r, [queries[r] EXCEPT !.late = @ + 1], "Timeout")
    /\ disturbed' = disturbed \cup {r} /\ UNCHANGED quota

\* A query that lost the race ends: ODIS may charge it, its answer is ignored.
LateQueryEnds(r) ==
    /\ queries[r].late > 0
    /\ Query(r, [queries[r] EXCEPT !.late = @ - 1])
    /\ \/ /\ quota > 0 /\ quota' = quota - 1
          /\ disturbed' = disturbed \cup {q \in DOMAIN queries : queries[q].st \in {"query", "replenish"}}
       \/ UNCHANGED <<quota, disturbed>>

\* replenishQuota has its receipt; the answer of the try stays OutOfQuota.
Replenished(r) ==
    /\ queries[r].st = "replenish"
    /\ quota' = quota + Grant
    /\ TryFails(r, queries[r], "OutOfQuota")
    /\ UNCHANGED disturbed

\* The transfer fails: the rejection leaves the decorator and the handler.
ReplenishFails(r) ==
    /\ queries[r].st = "replenish"
    /\ Query(r, [queries[r] EXCEPT !.st = "done", !.result = "Exception"])
    /\ UNCHANGED <<quota, disturbed>>

OdisStep(r) ==
    \/ Signed(r) \/ QuotaRefused(r) \/ QueryFails(r) \/ QueryTimesOut(r)
    \/ LateQueryEnds(r) \/ Replenished(r) \/ ReplenishFails(r)
===============================================================================
