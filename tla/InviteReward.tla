----------------------------- MODULE InviteReward -----------------------------
(***************************************************************************)
(* Which withdrawals from the escrow are rewarded: the event handlers of   *)
(* several instances of the rewards application, over one database.        *)
(*   packages/apps/rewards/src/invite/inviteReward.service.ts              *)
(*   packages/apps/rewards/src/attestation/attestation.service.ts          *)
(*   packages/apps/rewards/src/addressMappings/addressMappings.service.ts  *)
(*                                                                         *)
(* A handler looks up the transaction of the withdrawal, evaluates four    *)
(* conditions in parallel, creates a row and starts the sending.  What the *)
(* conditions depend on changes meanwhile: rows are created by the other   *)
(* instances, attestations and address mappings are stored by their own    *)
(* polls, and accounts are verified, or no longer are, on the chain.       *)
(*                                                                         *)
(* How events are polled is in EventPolling, how a reward is sent in       *)
(* RewardSender.  Every instance handles every withdrawal once, or again   *)
(* after an error: the shared cursor allows no less and no more.           *)
(***************************************************************************)
EXTENDS Naturals, Sequences, FiniteSets

CONSTANTS
    Instances,    \* processes of the rewards application
    Scenarios,    \* sets of events that happen together, see below
    WeeklyLimit   \* WEEKLY_INVITE_LIMIT

\* What the environment may do:
\*   node    a lookup at the node or in the database rejects
\*   db      saving a row fails, other than on a unique constraint
\*   crash   a process restarts
\*   revoke  an account is no longer considered verified
\*   fail    the sending of a reward fails
\*   week    a new week begins
Faults == {"node", "db", "crash", "revoke", "fail", "week"}

\* A scenario has
\*   withdrawals   Withdrawal events of the escrow, with their transactions, in
\*                 the order of the chain
\*   attestations  AttestationCompleted events: [address, identifier]
\*   mappings      AccountWalletAddressSet events: [account, wallet]
\*   known         the attestations stored, of verified accounts, at the start
\*   budget        bound: how often each fault may happen
StableTokens == {"cUSD", "cEUR"}
NoInvitee == "none"

ASSUME RewardAssumption ==
    /\ IsFiniteSet(Instances) /\ Instances # {}
    /\ WeeklyLimit \in Nat \ {0}
    /\ \A sc \in Scenarios :
        /\ sc.known \subseteq sc.attestations /\ sc.budget \in [Faults -> Nat]
        /\ sc.withdrawals \in Seq({sc.withdrawals[k] : k \in DOMAIN sc.withdrawals})
        /\ \A m \in sc.mappings : m = [account |-> m.account, wallet |-> m.wallet]

VARIABLES
    scenario,     \* the events of the three contracts (external)
    handling,     \* instance |-> the run of handleWithdrawalEvent
    next,         \* instance |-> index of the withdrawal it handles (next)
    attestations, \* rows of attestation, unprocessed in attestationsTodo
    attestationsTodo,
    mappings,     \* rows of account_wallet_mapping, unprocessed in mappingsTodo
    mappingsTodo,
    rows,         \* rows of invite_reward
    fired,        \* the sendings that handleWithdrawalEvent has started, in that order
    tracked,      \* withdrawals for which InviteNotRewarded or an error is tracked
    verified,     \* attestations of accounts considered verified (external)
    everVerified, \* ghost: the ones that have been
    week,         \* of the current date
    faults        \* what is left of the budget

polled == <<attestations, attestationsTodo, mappings, mappingsTodo>>
chain == <<scenario, verified, everVerified, week>>
vars == <<scenario, handling, next, attestations, attestationsTodo, mappings, mappingsTodo,
          rows, fired, tracked, verified, everVerified, week, faults>>

Spend(f) == faults[f] > 0 /\ faults' = [faults EXCEPT ![f] = @ - 1]

Conditions == {"inviterVerified", "inviteeVerified", "belowWeeklyLimit", "notInProgress"}

\* A handler: st is the await it is in, met the conditions found to hold so
\* far, accounts and candidates the progress of isAddressVerified, row the row
\* it has saved.
NoRow == [invitee |-> NoInvitee]
Idle == [st |-> "idle", w |-> NoRow, met |-> {}, accounts |-> {}, candidates |-> {},
         row |-> NoRow]

Set(n, h) == handling' = [handling EXCEPT ![n] = h]

-----------------------------------------------------------------------------
(* AttestationService, AddressMappingsService *)

\* handleAttestationRequest: a duplicate is ignored, and so is every other
\* error.  The event counts as handled in any case.
HandleAttestation(a) ==
    /\ attestationsTodo' = attestationsTodo \ {a}
    /\ \/ attestations' = attestations \cup {a} /\ UNCHANGED faults
       \/ Spend("db") /\ UNCHANGED attestations
    /\ UNCHANGED <<handling, next, mappings, mappingsTodo, rows, fired, tracked, chain>>

HandleMapping(m) ==
    /\ mappingsTodo' = mappingsTodo \ {m}
    /\ \/ mappings' = mappings \cup {m} /\ UNCHANGED faults
       \/ Spend("db") /\ UNCHANGED mappings
    /\ UNCHANGED <<handling, next, attestations, attestationsTodo, rows, fired, tracked, chain>>

\* findAccountAddresses: the accounts of a wallet, or else the wallet itself.
AccountAddresses(wallet) ==
    LET accounts == {m.account : m \in {x \in mappings : x.wallet = wallet}} IN
    IF accounts # {} THEN accounts ELSE {wallet}

-----------------------------------------------------------------------------
(* handleWithdrawalEvent *)

Withdrawals == {scenario.withdrawals[k] : k \in DOMAIN scenario.withdrawals}

\* Mutant of the next definition: the cursor moves past an event too many.
ConsumedTwo(n) == Set(n, Idle) /\ next' = [next EXCEPT ![n] = @ + 2]

\* The handler resolves: the event is consumed by this instance.
Consumed(n) == Set(n, Idle) /\ next' = [next EXCEPT ![n] = @ + 1]

\* Mutant of the next definition: an event counts as handled when it fails.
NotConsumedSkips(n) == Set(n, Idle) /\ next' = [next EXCEPT ![n] = @ + 1]

\* The poll ends without: the next one goes on behind the shared cursor, which
\* is no further.
NotConsumed(n) ==
    /\ Set(n, Idle)
    /\ \E k \in 1 .. next[n] : next' = [next EXCEPT ![n] = k]

\* The event arrives.  Another token is not rewarded; else the transaction is
\* looked up.
HandleWithdrawal(n) ==
    /\ handling[n].st = "idle"
    /\ next[n] =< Len(scenario.withdrawals)
    /\ LET w == scenario.withdrawals[next[n]] IN
        IF w.token \in StableTokens
        THEN Set(n, [Idle EXCEPT !.st = "transaction", !.w = w]) /\ UNCHANGED <<next, tracked>>
        ELSE Consumed(n) /\ tracked' = tracked \cup {w}
    /\ UNCHANGED <<polled, rows, fired, chain, faults>>

\* Mutant of the next definition: it does not matter who sent the transaction.
RewardableFromAnyone(w) == w.invitee # NoInvitee

\* The transaction went to a wallet, and a relayer of Komenci sent it.
Rewardable(w) == w.invitee # NoInvitee /\ w.komenci

TransactionFound(n) ==
    /\ handling[n].st = "transaction"
    /\ IF Rewardable(handling[n].w)
       THEN Set(n, [handling[n] EXCEPT !.st = "checks"]) /\ UNCHANGED <<next, tracked>>
       ELSE Consumed(n) /\ tracked' = tracked \cup {handling[n].w}
    /\ UNCHANGED <<polled, rows, fired, chain, faults>>

\* inviteRewardConditionsAreMet: one of the parallel checks has its answer.
\* Once one of them is FALSE the others only add reasons to track.
Check(n, c, answer) ==
    Set(n, IF answer THEN [handling[n] EXCEPT !.met = @ \cup {c}]
           ELSE [handling[n] EXCEPT !.st = "refused"])

Checking(n, c) == handling[n].st = "checks" /\ c \notin handling[n].met

\* isAddressVerified: mappings, then attestations, then the chain.
FindAccounts(n) ==
    /\ Checking(n, "inviterVerified") /\ handling[n].accounts = {}
    /\ Set(n, [handling[n] EXCEPT !.accounts = AccountAddresses(handling[n].w.inviter)])
    /\ UNCHANGED <<next, polled, rows, fired, tracked, chain, faults>>

FindAttestations(n) ==
    /\ Checking(n, "inviterVerified") /\ handling[n].accounts # {} /\ handling[n].candidates = {}
    /\ LET found == {a \in attestations : a.address \in handling[n].accounts} IN
        IF found = {} THEN Check(n, "inviterVerified", FALSE)
        ELSE Set(n, [handling[n] EXCEPT !.candidates = found])
    /\ UNCHANGED <<next, polled, rows, fired, tracked, chain, faults>>

isAddressVerifiedWithIdentifier(a) == a \in verified

CheckCandidate(n) ==
    /\ Checking(n, "inviterVerified")
    /\ \E a \in handling[n].candidates :
        IF isAddressVerifiedWithIdentifier(a) THEN Check(n, "inviterVerified", TRUE)
        ELSE IF handling[n].candidates = {a} THEN Check(n, "inviterVerified", FALSE)
        ELSE Set(n, [handling[n] EXCEPT !.candidates = @ \ {a}])
    /\ UNCHANGED <<next, polled, rows, fired, tracked, chain, faults>>

CheckInvitee(n) ==
    /\ Checking(n, "inviteeVerified")
    /\ Check(n, "inviteeVerified", isAddressVerifiedWithIdentifier(
            [address |-> handling[n].w.invitee, identifier |-> handling[n].w.identifier]))
    /\ UNCHANGED <<next, polled, rows, fired, tracked, chain, faults>>

\* Mutant of the next definition: rows that are still being sent do not count.
invitesThisWeekCreated(inviter) ==
    Cardinality({r \in rows : r.inviter = inviter /\ r.week = week /\ r.state = "Submitted"})

\* Rewards of this week's date that have not failed.
invitesThisWeek(inviter) ==
    Cardinality({r \in rows : r.inviter = inviter /\ r.week = week /\ r.state # "Failed"})

CheckWeeklyLimit(n) ==
    /\ Checking(n, "belowWeeklyLimit")
    /\ Check(n, "belowWeeklyLimit", invitesThisWeek(handling[n].w.inviter) < WeeklyLimit)
    /\ UNCHANGED <<next, polled, rows, fired, tracked, chain, faults>>

CheckNotInProgress(n) ==
    /\ Checking(n, "notInProgress")
    /\ Check(n, "notInProgress", \A r \in rows : r.invitee # handling[n].w.invitee)
    /\ UNCHANGED <<next, polled, rows, fired, tracked, chain, faults>>

ChecksDone(n) ==
    /\ \/ /\ handling[n].st = "checks" /\ handling[n].met = Conditions
          /\ Set(n, [handling[n] EXCEPT !.st = "save"]) /\ UNCHANGED <<next, tracked>>
       \/ /\ handling[n].st = "refused"
          /\ Consumed(n) /\ tracked' = tracked \cup {handling[n].w}
    /\ UNCHANGED <<polled, rows, fired, chain, faults>>

NewRow(w) == [inviter |-> w.inviter, invitee |-> w.invitee, identifier |-> w.identifier,
              week |-> week, state |-> "Created", failed |-> FALSE]

\* Mutant of the next definition: only the phone number is unique.
UniqueIdentifier(r) == \A s \in rows : s.identifier # r.identifier

\* The unique columns of invite_reward.
Unique(r) == \A s \in rows : s.invitee # r.invitee /\ s.identifier # r.identifier

\* createInviteReward.  Every error is swallowed, and the event consumed; the
\* violation of a unique constraint is not even tracked.  If it is the answer
\* that is lost, the row is there and nobody sends its reward.
CreateReward(n) ==
    /\ handling[n].st = "save"
    /\ LET w == handling[n].w IN
        \/ /\ Unique(NewRow(w))
           /\ rows' = rows \cup {NewRow(w)}
           /\ Set(n, [handling[n] EXCEPT !.st = "fire", !.row = NewRow(w)])
           /\ UNCHANGED <<next, tracked, faults>>
        \/ ~Unique(NewRow(w)) /\ Consumed(n) /\ UNCHANGED <<rows, tracked, faults>>
        \/ /\ Spend("db") /\ Consumed(n) /\ tracked' = tracked \cup {w}
           /\ UNCHANGED rows \/ (Unique(NewRow(w)) /\ rows' = rows \cup {NewRow(w)})
    /\ UNCHANGED <<polled, fired, chain>>

Person(r) == [invitee |-> r.invitee, identifier |-> r.identifier]

\* sendInviteReward is started and not waited for.
FireReward(n) ==
    /\ handling[n].st = "fire"
    /\ fired' = Append(fired, Person(handling[n].row))
    /\ Consumed(n)
    /\ UNCHANGED <<polled, rows, tracked, chain, faults>>

\* A lookup rejects (a transaction the node does not know included), and so
\* does the handler: the poll ends, the event stays.
HandlerRejects(n) ==
    /\ handling[n].st \in {"transaction", "checks", "refused"}
    /\ Spend("node") /\ NotConsumed(n)
    /\ UNCHANGED <<polled, rows, fired, tracked, chain>>

Crash(n) ==
    /\ handling[n].st # "idle"
    /\ Spend("crash") /\ NotConsumed(n)
    /\ UNCHANGED <<polled, rows, fired, tracked, chain>>

-----------------------------------------------------------------------------
(* The reward sender, the chain and the clock *)

\* A reward whose sending was started fails, and is sent once more.
RewardFails ==
    /\ Spend("fail")
    /\ \E r \in rows :
        /\ r.state = "Created" /\ \E k \in DOMAIN fired : fired[k] = Person(r)
        /\ rows' = (rows \ {r}) \cup {[r EXCEPT !.state = "Failed", !.failed = TRUE]}
    /\ UNCHANGED <<handling, next, polled, fired, tracked, chain>>

RewardSentAgain ==
    /\ \E r \in rows :
        /\ r.state = "Failed"
        /\ rows' = (rows \ {r}) \cup {[r EXCEPT !.state = "Submitted"]}
    /\ UNCHANGED <<handling, next, polled, fired, tracked, chain, faults>>

AccountVerified ==
    /\ \E a \in scenario.attestations \ verified :
        verified' = verified \cup {a} /\ everVerified' = everVerified \cup {a}
    /\ UNCHANGED <<scenario, handling, next, polled, rows, fired, tracked, week, faults>>

AccountRevoked ==
    /\ Spend("revoke")
    /\ \E a \in verified : verified' = verified \ {a}
    /\ UNCHANGED <<scenario, handling, next, polled, rows, fired, tracked, everVerified, week>>

NextWeek ==
    /\ Spend("week") /\ week' = week + 1
    /\ UNCHANGED <<scenario, handling, next, polled, rows, fired, tracked, verified, everVerified>>

-----------------------------------------------------------------------------
(* The specification *)

Init ==
    /\ scenario \in Scenarios
    /\ handling = [n \in Instances |-> Idle]
    /\ next = [n \in Instances |-> 1]
    /\ attestations = scenario.known /\ attestationsTodo = scenario.attestations \ scenario.known
    /\ mappings = {} /\ mappingsTodo = scenario.mappings
    /\ rows = {} /\ fired = <<>> /\ tracked = {}
    /\ verified = scenario.known /\ everVerified = scenario.known
    /\ week = 1 /\ faults = scenario.budget

Poll ==
    \/ \E a \in attestationsTodo : HandleAttestation(a)
    \/ \E m \in mappingsTodo : HandleMapping(m)

Handler(n) ==
    \/ HandleWithdrawal(n) \/ TransactionFound(n)
    \/ FindAccounts(n) \/ FindAttestations(n) \/ CheckCandidate(n)
    \/ CheckInvitee(n) \/ CheckWeeklyLimit(n) \/ CheckNotInProgress(n)
    \/ ChecksDone(n) \/ CreateReward(n) \/ FireReward(n)

Fault(n) == HandlerRejects(n) \/ Crash(n)

Environment == RewardFails \/ RewardSentAgain \/ AccountVerified \/ AccountRevoked \/ NextWeek

Next == Poll \/ Environment \/ \E n \in Instances : Handler(n) \/ Fault(n)

Spec == Init /\ [][Next]_vars

-----------------------------------------------------------------------------
(* Properties *)

\* The variables fit together: a run of a handler is about a withdrawal its
\* instance still has to do, and what is stored or verified has happened.
TypeOK ==
    /\ scenario \in Scenarios
    /\ \A n \in Instances :
        /\ handling[n].st \in {"idle", "transaction", "checks", "refused", "save", "fire"}
        /\ handling[n].met \subseteq Conditions
        /\ next[n] \in 1 .. (Len(scenario.withdrawals) + 1)
        /\ handling[n].st # "idle" => handling[n].w = scenario.withdrawals[next[n]]
    /\ attestations \subseteq scenario.attestations \ attestationsTodo
    /\ mappings \subseteq scenario.mappings \ mappingsTodo
    /\ verified \subseteq everVerified /\ everVerified \subseteq scenario.attestations
    /\ tracked \subseteq Withdrawals /\ faults \in [Faults -> Nat]

\* Every reward is deserved: a relayer redeemed the invite for the invitee,
\* who has been verified with the identifier of the payment, and some account
\* of the inviter has been verified, whatever the polls had stored and in
\* whichever order the checks were answered.  (inviteRewardConditionsAreMet)
RewardsAreDeserved ==
    \A r \in rows :
        /\ [address |-> r.invitee, identifier |-> r.identifier] \in everVerified
        /\ \E a \in everVerified :
            \/ a.address = r.inviter
            \/ [account |-> a.address, wallet |-> r.inviter] \in scenario.mappings
        /\ \E w \in Withdrawals :
            w.inviter = r.inviter /\ Person(w) = Person(r) /\ w.komenci /\ w.token \in StableTokens

\* The weekly limit is counted before the row is inserted, so that every
\* instance can overrun it by a row, but the first; rewards that have failed
\* come on top, as they do not count and are sent again.
\* (inviterHasNotReachedWeeklyLimit)
WeeklyLimitOverrun ==
    \A r \in rows :
        Cardinality({s \in rows : s.inviter = r.inviter /\ s.week = r.week /\ ~s.failed})
            =< WeeklyLimit + Cardinality(Instances) - 1

\* No withdrawal disappears: one that an instance has consumed is rewarded, or
\* its invitee or phone number is, or it is tracked why not.
\* (handleWithdrawalEvent, createInviteReward)
ConsumedIsAccountedFor ==
    \A n \in Instances : \A k \in 1 .. (next[n] - 1) :
        LET w == scenario.withdrawals[k] IN
        \/ w \in tracked
        \/ \E r \in rows : r.invitee = w.invitee \/ r.identifier = w.identifier

\* "we need to make sure we don't send more than one reward for the same
\* invitee": all instances together start the sending of a reward as the
\* ledger grants them, one after the other, at most once for an invitee and at
\* most once for a phone number: a second start for the same reward would be a
\* second grant.
Ledger == INSTANCE RewardLedger WITH
    Grants <- UNION {{Person(sc.withdrawals[k]) : k \in DOMAIN sc.withdrawals} : sc \in Scenarios}, granted <- fired

ImplementsLedger == Ledger!Spec
===============================================================================
