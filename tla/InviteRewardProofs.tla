-------------------------- MODULE InviteRewardProofs --------------------------
(***************************************************************************)
(* InviteReward implements RewardLedger, and has its properties, for any   *)
(* number of processes, any scenarios, limit and faults.                   *)
(*                                                                         *)
(* The ledger is about the rewards whose sending has been started, the     *)
(* code about rows with unique columns.  What ties them together is that a *)
(* process about to start a sending does it for a row it has inserted      *)
(* itself, which no other process does and nobody has done before.         *)
(***************************************************************************)
EXTENDS InviteReward, FiniteSetTheorems, TLAPS

HandlerFields == {"st", "w", "met", "accounts", "candidates", "row"}
RowFields == {"inviter", "invitee", "identifier", "week", "state", "failed"}

\* A run of the handler that is not idle is about one of the withdrawals.
HandlerOK(h) == DOMAIN h = HandlerFields /\ (h.st # "idle" => h.w \in Withdrawals)

HandlersInv ==
    /\ scenario \in Scenarios
    /\ DOMAIN handling = Instances /\ \A n \in Instances : HandlerOK(handling[n])
    /\ next \in [Instances -> Nat \ {0}]

People == {Person(r) : r \in rows}

\* The unique columns keep the people of the rows apart.
Apart(p, q) == p = q \/ (p.invitee # q.invitee /\ p.identifier # q.identifier)

RowsInv ==
    /\ \A r \in rows : DOMAIN r = RowFields
    /\ \A p, q \in People : Apart(p, q)

\* Whom a process is about to reward.
Fires(n) == handling[n].st = "fire"
Rewarded(n) == Person(handling[n].row)

\* Whose sending has been started.
Started == {fired[k] : k \in DOMAIN fired}

FiringInv ==
    /\ fired \in Seq(Started) /\ Started \subseteq People
    /\ \A n \in Instances : Fires(n) =>
        /\ Rewarded(n) = Person(handling[n].w)
        /\ Rewarded(n) \in People \ Started
    /\ \A m, n \in Instances : Fires(m) /\ Fires(n) /\ m # n => Rewarded(m) # Rewarded(n)

LInv == HandlersInv /\ RowsInv /\ FiringInv

\* A process goes on without inserting a row or starting a sending.
Quiet(n) ==
    /\ \E h : HandlerOK(h) /\ h.st # "fire" /\ handling' = [handling EXCEPT ![n] = h]
    /\ \E k \in Nat \ {0} : next' = [next EXCEPT ![n] = k]
    /\ UNCHANGED <<scenario, rows, fired>>

-----------------------------------------------------------------------------

LEMMA InitLInv == Init => LInv
<1> SUFFICES ASSUME Init PROVE LInv
  OBVIOUS
<1> USE DEF Init
<1>1. HandlersInv
  BY DEF HandlersInv, HandlerOK, HandlerFields, Idle
<1>2. RowsInv
  BY DEF RowsInv, People
<1>3. FiringInv
  <2>1. Started = {} /\ fired \in Seq(Started)
    BY DEF Started
  <2> QED
    BY <2>1 DEF FiringInv, Fires, Idle
<1> QED
  BY <1>1, <1>2, <1>3 DEF LInv

LEMMA QuietStep ==
    ASSUME LInv, NEW n \in Instances, Quiet(n)
    PROVE  LInv'
<1>1. PICK h : HandlerOK(h) /\ h.st # "fire" /\ handling' = [handling EXCEPT ![n] = h]
  BY DEF Quiet
<1>2. PICK k \in Nat \ {0} : next' = [next EXCEPT ![n] = k]
  BY DEF Quiet
<1>3. UNCHANGED <<scenario, rows, fired>>
  BY DEF Quiet
<1>4. HandlersInv'
  BY <1>1, <1>2, <1>3 DEF LInv, HandlersInv, HandlerOK, Withdrawals
<1>5. RowsInv' /\ People' = People
  BY <1>3 DEF LInv, RowsInv, People
<1>6. \A m \in Instances : Fires(m)' => Fires(m) /\ handling'[m] = handling[m]
  BY <1>1 DEF LInv, HandlersInv, Fires
<1>7. FiringInv'
  <2>1. fired' = fired /\ Started' = Started
    BY <1>3 DEF Started
  <2> QED
    BY <1>5, <1>6, <2>1 DEF LInv, FiringInv, Fires, Rewarded
<1> QED
  BY <1>4, <1>5, <1>7 DEF LInv

-----------------------------------------------------------------------------
(* The steps of a handler *)

LEMMA ConsumedIsQuiet ==
    ASSUME LInv, NEW n \in Instances, Consumed(n), UNCHANGED <<scenario, rows, fired>>
    PROVE  Quiet(n)
<1>1. HandlerOK(Idle) /\ Idle.st # "fire"
  BY DEF HandlerOK, HandlerFields, Idle
<1>2. next[n] + 1 \in Nat \ {0}
  BY DEF LInv, HandlersInv
<1>3. next' = [next EXCEPT ![n] = next[n] + 1] /\ handling' = [handling EXCEPT ![n] = Idle]
  BY DEF Consumed, Set
<1> QED
  BY <1>1, <1>2, <1>3 DEF Quiet

LEMMA NotConsumedIsQuiet ==
    ASSUME LInv, NEW n \in Instances, NotConsumed(n), UNCHANGED <<scenario, rows, fired>>
    PROVE  Quiet(n)
<1>1. HandlerOK(Idle) /\ Idle.st # "fire"
  BY DEF HandlerOK, HandlerFields, Idle
<1>2. PICK k \in 1 .. next[n] : next' = [next EXCEPT ![n] = k]
  BY DEF NotConsumed
<1>3. k \in Nat \ {0}
  BY DEF LInv, HandlersInv
<1> QED
  BY <1>1, <1>2, <1>3 DEF Quiet, NotConsumed, Set

\* The handler stays with its withdrawal.
LEMMA GoesOnIsQuiet ==
    ASSUME LInv, NEW n \in Instances, NEW h, Set(n, h), HandlerOK(h), h.st # "fire",
           UNCHANGED <<scenario, next, rows, fired>>
    PROVE  Quiet(n)
<1>1. next[n] \in Nat \ {0} /\ next' = [next EXCEPT ![n] = next[n]]
  BY DEF LInv, HandlersInv
<1> QED
  BY <1>1 DEF Quiet, Set

LEMMA CheckIsQuiet ==
    ASSUME LInv, NEW n \in Instances, NEW c, NEW answer \in BOOLEAN, Check(n, c, answer),
           handling[n].st = "checks", UNCHANGED <<scenario, next, rows, fired>>
    PROVE  Quiet(n)
<1>1. HandlerOK(handling[n])
  BY DEF LInv, HandlersInv
<1>2. CASE answer
  <2> DEFINE h == [handling[n] EXCEPT !.met = @ \cup {c}]
  <2>1. HandlerOK(h) /\ h.st # "fire"
    BY <1>1 DEF HandlerOK, HandlerFields
  <2> QED
    BY <1>2, <2>1, GoesOnIsQuiet DEF Check
<1>3. CASE ~answer
  <2> DEFINE h == [handling[n] EXCEPT !.st = "refused"]
  <2>1. HandlerOK(h) /\ h.st # "fire"
    BY <1>1 DEF HandlerOK, HandlerFields
  <2> QED
    BY <1>3, <2>1, GoesOnIsQuiet DEF Check
<1> QED
  BY <1>2, <1>3

LEMMA HandlerSteps ==
    ASSUME LInv, NEW n \in Instances,
           \/ HandleWithdrawal(n) \/ TransactionFound(n)
           \/ FindAccounts(n) \/ FindAttestations(n) \/ CheckCandidate(n)
           \/ CheckInvitee(n) \/ CheckWeeklyLimit(n) \/ CheckNotInProgress(n)
           \/ ChecksDone(n) \/ HandlerRejects(n) \/ Crash(n)
    PROVE  Quiet(n)
<1> USE DEF polled, chain
<1>0. HandlerOK(handling[n])
  BY DEF LInv, HandlersInv
<1>1. CASE HandleWithdrawal(n)
  <2> DEFINE w == scenario.withdrawals[next[n]]
             h == [Idle EXCEPT !.st = "transaction", !.w = w]
  <2>1. next[n] \in DOMAIN scenario.withdrawals
    <3>1. scenario.withdrawals \in Seq({scenario.withdrawals[k] : k \in DOMAIN scenario.withdrawals})
      BY RewardAssumption DEF LInv, HandlersInv
    <3>2. DOMAIN scenario.withdrawals = 1 .. Len(scenario.withdrawals)
      BY <3>1
    <3>3. next[n] \in Nat \ {0} /\ next[n] =< Len(scenario.withdrawals)
      BY <1>1 DEF LInv, HandlersInv, HandleWithdrawal
    <3> QED
      BY <3>1, <3>2, <3>3
  <2>2. HandlerOK(h) /\ h.st # "fire"
    BY <2>1 DEF HandlerOK, HandlerFields, Idle, Withdrawals
  <2>3. CASE w.token \in StableTokens
    BY <1>1, <2>2, <2>3, GoesOnIsQuiet DEF HandleWithdrawal
  <2>4. CASE w.token \notin StableTokens
    BY <1>1, <2>4, ConsumedIsQuiet DEF HandleWithdrawal
  <2> QED
    BY <2>3, <2>4
<1>2. CASE TransactionFound(n)
  <2> DEFINE h == [handling[n] EXCEPT !.st = "checks"]
  <2>1. HandlerOK(h) /\ h.st # "fire"
    BY <1>0, <1>2 DEF TransactionFound, HandlerOK, HandlerFields
  <2>2. CASE Rewardable(handling[n].w)
    BY <1>2, <2>1, <2>2, GoesOnIsQuiet DEF TransactionFound
  <2>3. CASE ~Rewardable(handling[n].w)
    BY <1>2, <2>3, ConsumedIsQuiet DEF TransactionFound
  <2> QED
    BY <2>2, <2>3
<1>3. CASE FindAccounts(n)
  <2> DEFINE h == [handling[n] EXCEPT !.accounts = AccountAddresses(handling[n].w.inviter)]
  <2>1. HandlerOK(h) /\ h.st # "fire"
    BY <1>0, <1>3 DEF FindAccounts, Checking, HandlerOK, HandlerFields
  <2> QED
    BY <1>3, <2>1, GoesOnIsQuiet DEF FindAccounts
<1>4. CASE FindAttestations(n)
  <2> DEFINE found == {a \in attestations : a.address \in handling[n].accounts}
             h == [handling[n] EXCEPT !.candidates = found]
  <2>1. HandlerOK(h) /\ h.st # "fire"
    BY <1>0, <1>4 DEF FindAttestations, Checking, HandlerOK, HandlerFields
  <2>2. CASE found = {}
    BY <1>4, <2>2, CheckIsQuiet DEF FindAttestations, Checking
  <2>3. CASE found # {}
    BY <1>4, <2>1, <2>3, GoesOnIsQuiet DEF FindAttestations
  <2> QED
    BY <2>2, <2>3
<1>5. CASE CheckCandidate(n)
  <2>1. PICK a \in handling[n].candidates :
            IF isAddressVerifiedWithIdentifier(a) THEN Check(n, "inviterVerified", TRUE)
            ELSE IF handling[n].candidates = {a} THEN Check(n, "inviterVerified", FALSE)
            ELSE Set(n, [handling[n] EXCEPT !.candidates = @ \ {a}])
    BY <1>5 DEF CheckCandidate
  <2> DEFINE h == [handling[n] EXCEPT !.candidates = @ \ {a}]
  <2>2. HandlerOK(h) /\ h.st # "fire"
    BY <1>0, <1>5 DEF CheckCandidate, Checking, HandlerOK, HandlerFields
  <2>3. handling[n].st = "checks" /\ UNCHANGED <<scenario, next, rows, fired>>
    BY <1>5 DEF CheckCandidate, Checking
  <2> QED
    BY <2>1, <2>2, <2>3, CheckIsQuiet, GoesOnIsQuiet
<1>6. CASE CheckInvitee(n)
  <2> DEFINE answer == isAddressVerifiedWithIdentifier(
                [address |-> handling[n].w.invitee, identifier |-> handling[n].w.identifier])
  <2>1. answer \in BOOLEAN
    BY DEF isAddressVerifiedWithIdentifier
  <2>2. Check(n, "inviteeVerified", answer) /\ handling[n].st = "checks"
    BY <1>6 DEF CheckInvitee, Checking
  <2>3. UNCHANGED <<scenario, next, rows, fired>>
    BY <1>6 DEF CheckInvitee
  <2> HIDE DEF answer
  <2> QED
    BY <2>1, <2>2, <2>3, CheckIsQuiet
<1>7. CASE CheckWeeklyLimit(n)
  <2>1. (invitesThisWeek(handling[n].w.inviter) < WeeklyLimit) \in BOOLEAN
    OBVIOUS
  <2> QED
    BY <1>7, <2>1, CheckIsQuiet DEF CheckWeeklyLimit, Checking
<1>8. CASE CheckNotInProgress(n)
  BY <1>8, CheckIsQuiet DEF CheckNotInProgress, Checking
<1>9. CASE ChecksDone(n)
  <2> DEFINE h == [handling[n] EXCEPT !.st = "save"]
  <2>1. CASE handling[n].st = "checks" /\ Set(n, h) /\ UNCHANGED next
    <3>1. HandlerOK(h) /\ h.st # "fire"
      BY <1>0, <2>1 DEF HandlerOK, HandlerFields
    <3> QED
      BY <1>9, <2>1, <3>1, GoesOnIsQuiet DEF ChecksDone
  <2>2. CASE Consumed(n)
    BY <1>9, <2>2, ConsumedIsQuiet DEF ChecksDone
  <2> QED
    BY <1>9, <2>1, <2>2 DEF ChecksDone
<1>10. CASE HandlerRejects(n)
  BY <1>10, NotConsumedIsQuiet DEF HandlerRejects
<1>11. CASE Crash(n)
  BY <1>11, NotConsumedIsQuiet DEF Crash
<1> QED
  BY <1>1, <1>2, <1>3, <1>4, <1>5, <1>6, <1>7, <1>8, <1>9, <1>10, <1>11

-----------------------------------------------------------------------------
(* The steps that change a row or start a sending *)

LEMMA CreateRewardStep ==
    ASSUME LInv, NEW n \in Instances, CreateReward(n)
    PROVE  LInv'
<1> DEFINE w == handling[n].w
           r == NewRow(w)
<1>1. HandlerOK(handling[n]) /\ handling[n].st = "save"
  BY DEF LInv, HandlersInv, CreateReward
<1>2. CASE /\ Unique(r) /\ rows' = rows \cup {r}
           /\ Set(n, [handling[n] EXCEPT !.st = "fire", !.row = r]) /\ UNCHANGED next
  <2> DEFINE h == [handling[n] EXCEPT !.st = "fire", !.row = r]
  <2>1. HandlerOK(h) /\ h.w = w /\ h.row = r /\ h.st = "fire" /\ handling' = [handling EXCEPT ![n] = h]
    BY <1>1, <1>2 DEF HandlerOK, HandlerFields, Set
  <2>2. DOMAIN r = RowFields /\ r.invitee = w.invitee /\ r.identifier = w.identifier
    BY DEF NewRow, RowFields
  <2>3. UNCHANGED <<scenario, fired>>
    BY DEF CreateReward, chain
  <2>4. Person(r) = Person(w) /\ Person(r).invitee = r.invitee /\ Person(r).identifier = r.identifier
    BY <2>2 DEF Person
  <2>5. People' = People \cup {Person(r)}
    BY <1>2 DEF People
  <2>6. \A q \in People : q.invitee # Person(r).invitee /\ q.identifier # Person(r).identifier
    BY <1>2, <2>4 DEF People, Unique, Person
  <2> HIDE DEF h, r
  <2>7. HandlersInv'
    BY <1>2, <2>1, <2>3 DEF LInv, HandlersInv, HandlerOK, Withdrawals
  <2>8. RowsInv'
    <3>1. \A s \in rows' : DOMAIN s = RowFields
      BY <1>2, <2>2 DEF LInv, RowsInv
    <3>2. \A p, q \in People' : Apart(p, q)
      BY <2>5, <2>6 DEF LInv, RowsInv, Apart
    <3> QED
      BY <3>1, <3>2 DEF RowsInv
  <2>9. FiringInv'
    <3>1. Fires(n)' /\ Rewarded(n)' = Person(r)
      BY <2>1 DEF Fires, Rewarded, LInv, HandlersInv
    <3>2. \A m \in Instances \ {n} : Fires(m)' = Fires(m) /\ handling'[m] = handling[m]
      BY <2>1 DEF Fires, LInv, HandlersInv
    <3>3. Person(r) \notin People
      BY <2>6
    <3>4. /\ fired \in Seq(Started) /\ Started \subseteq People
          /\ \A m \in Instances : Fires(m) => Rewarded(m) \in People
      BY DEF LInv, FiringInv
    <3>8. fired' = fired /\ Started' = Started
      BY <2>3 DEF Started
    <3>5. fired' \in Seq(Started') /\ Started' \subseteq People'
      BY <2>5, <3>4, <3>8
    <3>6. ASSUME NEW m \in Instances, Fires(m)'
          PROVE  Rewarded(m)' = Person(handling[m].w)' /\ Rewarded(m)' \in People' \ Started'
      <4>1. CASE m = n
        <5>1. Rewarded(m)' = Person(handling[m].w)'
          BY <2>1, <2>4, <3>1, <4>1 DEF LInv, HandlersInv
        <5> QED
          BY <2>5, <3>1, <3>3, <3>4, <3>8, <4>1, <5>1
      <4>2. CASE m # n
        BY <2>5, <3>2, <3>6, <3>8, <4>2 DEF LInv, FiringInv, Rewarded
      <4> QED
        BY <4>1, <4>2
    <3>7. ASSUME NEW m \in Instances, NEW k \in Instances, Fires(m)', Fires(k)', m # k
          PROVE  Rewarded(m)' # Rewarded(k)'
      BY <3>1, <3>2, <3>3, <3>4, <3>7 DEF LInv, FiringInv, Rewarded
    <3> QED
      BY <3>5, <3>6, <3>7 DEF FiringInv
  <2> QED
    BY <2>7, <2>8, <2>9 DEF LInv
<1>3. CASE Consumed(n) /\ UNCHANGED rows
  BY <1>3, ConsumedIsQuiet, QuietStep DEF CreateReward, chain
\* The answer is lost: a row whose sending nobody starts.
<1>4. CASE Consumed(n) /\ Unique(r) /\ rows' = rows \cup {r}
  <2>1. DOMAIN r = RowFields /\ Person(r) = Person(w)
        /\ Person(r).invitee = r.invitee /\ Person(r).identifier = r.identifier
    BY DEF NewRow, RowFields, Person
  <2>2. UNCHANGED <<scenario, fired>>
    BY DEF CreateReward, chain
  <2> HIDE DEF r
  <2>3. People' = People \cup {Person(r)}
    BY <1>4 DEF People
  <2>4. \A q \in People : q.invitee # Person(r).invitee /\ q.identifier # Person(r).identifier
    BY <1>4, <2>1 DEF People, Unique, Person
  <2>5. handling' = [handling EXCEPT ![n] = Idle] /\ next' = [next EXCEPT ![n] = next[n] + 1]
    BY <1>4 DEF Consumed, Set
  <2>6. HandlerOK(Idle) /\ Idle.st # "fire"
    BY DEF HandlerOK, HandlerFields, Idle
  <2>7. HandlersInv'
    BY <2>2, <2>5, <2>6 DEF LInv, HandlersInv, HandlerOK, Withdrawals
  <2>8. RowsInv'
    <3>1. \A s \in rows' : DOMAIN s = RowFields
      BY <1>4, <2>1 DEF LInv, RowsInv
    <3>2. \A p, q \in People' : Apart(p, q)
      BY <2>3, <2>4 DEF LInv, RowsInv, Apart
    <3> QED
      BY <3>1, <3>2 DEF RowsInv
  <2>9. FiringInv'
    <3>1. fired' = fired /\ Started' = Started
      BY <2>2 DEF Started
    <3>2. \A m \in Instances : Fires(m)' => Fires(m) /\ handling'[m] = handling[m]
      BY <2>5, <2>6 DEF LInv, HandlersInv, Fires
    <3> QED
      BY <2>3, <3>1, <3>2 DEF LInv, FiringInv, Fires, Rewarded
  <2> QED
    BY <2>7, <2>8, <2>9 DEF LInv
<1> QED
  BY <1>2, <1>3, <1>4 DEF CreateReward

\* One more sending is started.
LEMMA AppendStarts ==
    ASSUME fired \in Seq(Started), NEW g, fired' = Append(fired, g)
    PROVE  fired' \in Seq(Started') /\ Started' = Started \cup {g}
<1>1. fired \in Seq(Started \cup {g}) /\ fired' \in Seq(Started \cup {g})
  BY DEF Started
<1>2. /\ Len(fired) \in Nat /\ DOMAIN fired = 1 .. Len(fired)
      /\ DOMAIN fired' = 1 .. (Len(fired) + 1)
      /\ \A k \in 1 .. Len(fired) : fired'[k] = fired[k]
      /\ fired'[Len(fired) + 1] = g
  BY DEF Started
<1>3. \A k \in 1 .. (Len(fired) + 1) : k \in 1 .. Len(fired) \/ k = Len(fired) + 1
  BY <1>2
<1>4. Len(fired) + 1 \in 1 .. (Len(fired) + 1) /\ \A k \in 1 .. Len(fired) : k \in 1 .. (Len(fired) + 1)
  BY <1>2
<1>5. Started' = Started \cup {g}
  BY <1>2, <1>3, <1>4, Zenon DEF Started
<1> QED
  BY <1>1, <1>5

LEMMA FireRewardStep ==
    ASSUME LInv, NEW n \in Instances, FireReward(n)
    PROVE  LInv'
<1>1. /\ handling' = [handling EXCEPT ![n] = Idle] /\ next' = [next EXCEPT ![n] = @ + 1]
      /\ fired' = Append(fired, Rewarded(n)) /\ UNCHANGED <<scenario, rows>> /\ Fires(n)
  BY DEF FireReward, Consumed, Set, Rewarded, Fires, chain
<1>2. HandlerOK(Idle) /\ Idle.st # "fire"
  BY DEF HandlerOK, HandlerFields, Idle
<1>3. HandlersInv'
  BY <1>1, <1>2 DEF LInv, HandlersInv, HandlerOK, Withdrawals
<1>4. RowsInv' /\ People' = People
  BY <1>1 DEF LInv, RowsInv, People
<1>5. \A m \in Instances : Fires(m)' => m # n /\ Fires(m) /\ handling'[m] = handling[m]
  BY <1>1, <1>2 DEF LInv, HandlersInv, Fires
<1>6. FiringInv'
  <2>1. fired' \in Seq(Started') /\ Started' = Started \cup {Rewarded(n)}
    BY <1>1, AppendStarts DEF LInv, FiringInv
  <2> QED
    BY <1>1, <1>4, <1>5, <2>1 DEF LInv, FiringInv, Rewarded
<1> QED
  BY <1>3, <1>4, <1>6 DEF LInv

\* The reward sender changes what a row says of its sending, not whom it is for.
LEMMA RowChanges ==
    ASSUME LInv, NEW r \in rows, NEW s, DOMAIN s = RowFields, Person(s) = Person(r),
           rows' = (rows \ {r}) \cup {s}, UNCHANGED <<scenario, handling, next, fired>>
    PROVE  LInv'
<1>1. People' = People
  BY DEF People
<1>2. HandlersInv'
  BY DEF LInv, HandlersInv, HandlerOK, Withdrawals
<1>3. RowsInv'
  BY <1>1 DEF LInv, RowsInv
<1>4. FiringInv'
  <2>1. fired' = fired /\ Started' = Started
    BY DEF Started
  <2> QED
    BY <1>1, <2>1 DEF LInv, FiringInv, Fires, Rewarded
<1> QED
  BY <1>2, <1>3, <1>4 DEF LInv

LEMMA RestStep ==
    ASSUME LInv, UNCHANGED <<scenario, handling, next, rows, fired>>
    PROVE  LInv'
<1>1. People' = People
  BY DEF People
<1>0. fired' = fired /\ Started' = Started
  BY DEF Started
<1>2. HandlersInv' /\ RowsInv' /\ FiringInv'
  BY <1>0, <1>1 DEF LInv, HandlersInv, HandlerOK, Withdrawals, RowsInv, FiringInv, Fires, Rewarded
<1> QED
  BY <1>2 DEF LInv

LEMMA EnvironmentStep ==
    ASSUME LInv, Environment
    PROVE  LInv'
<1>1. CASE RewardFails
  <2>1. PICK r \in rows : rows' = (rows \ {r}) \cup {[r EXCEPT !.state = "Failed", !.failed = TRUE]}
    BY <1>1 DEF RewardFails
  <2> DEFINE s == [r EXCEPT !.state = "Failed", !.failed = TRUE]
  <2>2. DOMAIN s = RowFields /\ Person(s) = Person(r)
    BY DEF LInv, RowsInv, RowFields, Person
  <2> QED
    BY <1>1, <2>1, <2>2, RowChanges DEF RewardFails, chain
<1>2. CASE RewardSentAgain
  <2>1. PICK r \in rows : rows' = (rows \ {r}) \cup {[r EXCEPT !.state = "Submitted"]}
    BY <1>2 DEF RewardSentAgain
  <2> DEFINE s == [r EXCEPT !.state = "Submitted"]
  <2>2. DOMAIN s = RowFields /\ Person(s) = Person(r)
    BY DEF LInv, RowsInv, RowFields, Person
  <2> QED
    BY <1>2, <2>1, <2>2, RowChanges DEF RewardSentAgain, chain
<1>3. CASE AccountVerified \/ AccountRevoked \/ NextWeek
  BY <1>3, RestStep DEF AccountVerified, AccountRevoked, NextWeek
<1> QED
  BY <1>1, <1>2, <1>3 DEF Environment

-----------------------------------------------------------------------------

LEMMA NextLInv == LInv /\ [Next]_vars => LInv'
<1> SUFFICES ASSUME LInv, [Next]_vars PROVE LInv'
  OBVIOUS
<1>1. CASE Poll
  BY <1>1, RestStep DEF Poll, HandleAttestation, HandleMapping, chain
<1>2. CASE Environment
  BY <1>2, EnvironmentStep
<1>3. ASSUME NEW n \in Instances, Handler(n) \/ Fault(n) PROVE LInv'
  <2>1. CASE CreateReward(n)
    BY <2>1, CreateRewardStep
  <2>2. CASE FireReward(n)
    BY <2>2, FireRewardStep
  <2>3. CASE ~CreateReward(n) /\ ~FireReward(n)
    BY <1>3, <2>3, HandlerSteps, QuietStep DEF Handler, Fault
  <2> QED
    BY <2>1, <2>2, <2>3
<1>4. CASE UNCHANGED vars
  BY <1>4, RestStep DEF vars
<1> QED
  BY <1>1, <1>2, <1>3, <1>4 DEF Next

\* A sending that is started is a grant: it is for someone of the withdrawals,
\* and nobody rewarded so far has the invitee or the phone number.
LEMMA FireIsGrant ==
    ASSUME LInv, NEW n \in Instances, FireReward(n)
    PROVE  Ledger!Next
<1> DEFINE g == Rewarded(n)
<1>1. Fires(n) /\ fired' = Append(fired, g)
  BY DEF FireReward, Fires, Rewarded
<1>2. g = Person(handling[n].w) /\ g \in People \ Started
  BY <1>1 DEF LInv, FiringInv
<1>3. handling[n].w \in Withdrawals /\ scenario \in Scenarios
  BY <1>1 DEF LInv, HandlersInv, HandlerOK, Fires
<1>4. g \in UNION {{Person(sc.withdrawals[k]) : k \in DOMAIN sc.withdrawals} : sc \in Scenarios}
  BY <1>2, <1>3 DEF Withdrawals
<1>5. \A k \in DOMAIN fired : ~Ledger!Clash(g, fired[k])
  <2> SUFFICES ASSUME NEW h \in Started PROVE g.invitee # h.invitee /\ g.identifier # h.identifier
    BY DEF Ledger!Clash, Started
  <2>1. h \in People /\ g # h
    BY <1>2 DEF LInv, FiringInv
  <2> QED
    BY <1>2, <2>1 DEF LInv, RowsInv, Apart
<1> HIDE DEF g
<1>6. Ledger!Grant(g)
  BY <1>1, <1>5 DEF Ledger!Grant
<1> QED
  BY <1>4, <1>6 DEF Ledger!Next

LEMMA StepRefines == LInv /\ [Next]_vars => [Ledger!Next]_fired
<1> SUFFICES ASSUME LInv, [Next]_vars PROVE Ledger!Next \/ fired' = fired
  OBVIOUS
<1>1. CASE Poll
  BY <1>1 DEF Poll, HandleAttestation, HandleMapping
<1>2. CASE Environment
  BY <1>2 DEF Environment, RewardFails, RewardSentAgain, AccountVerified, AccountRevoked, NextWeek
<1>3. ASSUME NEW n \in Instances, Handler(n) \/ Fault(n) PROVE Ledger!Next \/ fired' = fired
  <2>1. CASE CreateReward(n)
    BY <2>1 DEF CreateReward
  <2>2. CASE FireReward(n)
    BY <2>2, FireIsGrant
  <2>3. CASE ~CreateReward(n) /\ ~FireReward(n)
    BY <1>3, <2>3, HandlerSteps DEF Handler, Fault, Quiet
  <2> QED
    BY <2>1, <2>2, <2>3
<1>4. CASE UNCHANGED vars
  BY <1>4 DEF vars
<1> QED
  BY <1>1, <1>2, <1>3, <1>4 DEF Next

\* sendInviteRewards: "we need to make sure we don't send more than one reward
\* for the same invitee".  However many processes handle the same withdrawals,
\* the sendings they start are the grants of one ledger.
THEOREM LedgerIsImplemented == Spec => ImplementsLedger
<1>1. Init => Ledger!Init
  BY DEF Init, Ledger!Init
<1> QED
  BY <1>1, InitLInv, NextLInv, StepRefines, PTL DEF Spec, ImplementsLedger, Ledger!Spec

-----------------------------------------------------------------------------
(* What a run of the handler has found out, and what becomes of a withdrawal *)

AccountOf(a, wallet) == a = wallet \/ [account |-> a, wallet |-> wallet] \in scenario.mappings
InviteeOK(x) == [address |-> x.invitee, identifier |-> x.identifier] \in everVerified
InviterOK(x) == \E a \in everVerified : AccountOf(a.address, x.inviter)

\* A run is about the withdrawal it is at, and each answer it has was true once.
GoodRun(h, k) ==
    /\ h.st \in {"idle", "transaction", "checks", "refused", "save", "fire"}
    /\ h.met \subseteq Conditions
    /\ h.st # "idle" =>
        k =< Len(scenario.withdrawals) /\ h.w = scenario.withdrawals[k] /\ h.w.token \in StableTokens
    /\ h.st \notin {"idle", "transaction"} => Rewardable(h.w)
    /\ \A a \in h.accounts : AccountOf(a, h.w.inviter)
    /\ \A c \in h.candidates : c.address \in h.accounts
    /\ "inviteeVerified" \in h.met => InviteeOK(h.w)
    /\ "inviterVerified" \in h.met => InviterOK(h.w)
    /\ h.st = "transaction" => h.met = {}
    /\ h.st = "save" => h.met = Conditions

RunsInv ==
    \A n \in Instances :
        next[n] \in 1 .. (Len(scenario.withdrawals) + 1) /\ GoodRun(handling[n], next[n])

StoredInv ==
    /\ attestationsTodo \subseteq scenario.attestations /\ mappingsTodo \subseteq scenario.mappings
    /\ attestations \subseteq scenario.attestations \ attestationsTodo
    /\ mappings \subseteq scenario.mappings \ mappingsTodo
    /\ verified \subseteq everVerified /\ everVerified \subseteq scenario.attestations
    /\ tracked \subseteq Withdrawals /\ faults \in [Faults -> Nat]

\* The weekly limit.  A run that was admitted under it is going to add a row, if
\* it does not end before; every other row of the week is there already.
Counted(i, wk) == {s \in rows : s.inviter = i /\ s.week = wk /\ ~s.failed}
Admits(h) == "belowWeeklyLimit" \in h.met /\ h.st \in {"checks", "save"}
Admitted(i) == {n \in Instances : Admits(handling[n]) /\ handling[n].w.inviter = i}
Inviters == {w.inviter : w \in Withdrawals}
Most == WeeklyLimit + Cardinality(Instances) - 1

WeekInv ==
    /\ week \in Nat /\ IsFiniteSet(rows)
    /\ \A r \in rows : /\ r.week \in Nat /\ r.week =< week
                       /\ r.failed \in BOOLEAN /\ (r.state = "Failed" => r.failed)
    /\ \A i \in Inviters : Cardinality(Counted(i, week)) + Cardinality(Admitted(i)) =< Most

\* The inductive invariant.
IInv ==
    /\ LInv /\ StoredInv /\ RunsInv /\ WeekInv
    /\ RewardsAreDeserved /\ ConsumedIsAccountedFor /\ WeeklyLimitOverrun

\* It is rewarded, or its invitee or phone number is, or it is tracked why not.
Accounted(w) ==
    w \in tracked \/ \E p \in People : p.invitee = w.invitee \/ p.identifier = w.identifier

Keeps(n, h) == Admits(h) => Admits(handling[n]) /\ h.w = handling[n].w

\* A process goes on to run h at withdrawal k.
Goes(n, h, k) ==
    /\ handling' = [handling EXCEPT ![n] = h] /\ next' = [next EXCEPT ![n] = k]
    /\ GoodRun(h, k) /\ k \in 1 .. (Len(scenario.withdrawals) + 1)
    /\ k =< next[n] \/ (k = next[n] + 1 /\ \E w : w = scenario.withdrawals[next[n]] /\ Accounted(w)')

LEMMA AccountedMeans ==
    /\ ConsumedIsAccountedFor =>
        \A n \in Instances : \A k \in 1 .. (next[n] - 1) : Accounted(scenario.withdrawals[k])
    /\ (\A n \in Instances : \A k \in 1 .. (next[n] - 1) : Accounted(scenario.withdrawals[k]))'
        => ConsumedIsAccountedFor'
<1>1. \A r : Person(r).invitee = r.invitee /\ Person(r).identifier = r.identifier
  BY DEF Person
<1>2. ASSUME NEW w, NEW r \in rows, r.invitee = w.invitee \/ r.identifier = w.identifier
      PROVE  Accounted(w)
  <2>1. Person(r) \in People
    BY DEF People
  <2> QED
    BY <1>1, <1>2, <2>1 DEF Accounted
<1>3. ASSUME NEW w, Accounted(w)'
      PROVE  w \in tracked' \/ \E r \in rows' : r.invitee = w.invitee \/ r.identifier = w.identifier
  <2>1. ASSUME NEW p \in People', p.invitee = w.invitee \/ p.identifier = w.identifier
        PROVE  \E r \in rows' : r.invitee = w.invitee \/ r.identifier = w.identifier
    <3>1. PICK r \in rows' : p = Person(r)
      BY <2>1 DEF People
    <3> QED
      BY <1>1, <2>1, <3>1
  <2> QED
    BY <1>3, <2>1 DEF Accounted
<1>4. ConsumedIsAccountedFor =>
        \A n \in Instances : \A k \in 1 .. (next[n] - 1) : Accounted(scenario.withdrawals[k])
  BY <1>2 DEF ConsumedIsAccountedFor, Accounted
<1>5. (\A n \in Instances : \A k \in 1 .. (next[n] - 1) : Accounted(scenario.withdrawals[k]))'
        => ConsumedIsAccountedFor'
  BY <1>3 DEF ConsumedIsAccountedFor
<1> QED
  BY <1>4, <1>5

LEMMA WithdrawalsAre ==
    ASSUME IInv
    PROVE  /\ Len(scenario.withdrawals) \in Nat
           /\ DOMAIN scenario.withdrawals = 1 .. Len(scenario.withdrawals)
           /\ \A k \in 1 .. Len(scenario.withdrawals) : scenario.withdrawals[k] \in Withdrawals
<1>1. scenario.withdrawals \in Seq({scenario.withdrawals[k] : k \in DOMAIN scenario.withdrawals})
  BY RewardAssumption DEF IInv, LInv, HandlersInv
<1> QED
  BY <1>1 DEF Withdrawals

LEMMA RunIs ==
    ASSUME IInv, NEW n \in Instances
    PROVE  /\ DOMAIN handling[n] = HandlerFields /\ GoodRun(handling[n], next[n])
           /\ next[n] \in Nat /\ 1 =< next[n] /\ next[n] =< Len(scenario.withdrawals) + 1
           /\ handling[n].st # "idle" =>
                /\ next[n] =< Len(scenario.withdrawals) /\ handling[n].w = scenario.withdrawals[next[n]]
                /\ handling[n].w \in Withdrawals
BY WithdrawalsAre DEF IInv, LInv, HandlersInv, HandlerOK, RunsInv, GoodRun

LEMMA GoodStays ==
    ASSUME UNCHANGED scenario, everVerified \subseteq everVerified'
    PROVE  \A h, k : GoodRun(h, k) => GoodRun(h, k)'
<1>1. \A a, wallet : AccountOf(a, wallet) => AccountOf(a, wallet)'
  BY DEF AccountOf
<1>2. \A w : (InviteeOK(w) => InviteeOK(w)') /\ (InviterOK(w) => InviterOK(w)')
  BY <1>1 DEF InviteeOK, InviterOK
<1> QED
  BY <1>1, <1>2 DEF GoodRun

LEMMA AccountedStays ==
    ASSUME People \subseteq People', tracked \subseteq tracked'
    PROVE  \A w : Accounted(w) => Accounted(w)'
BY DEF Accounted

\* Nothing a step adds takes from what the runs have found out or accounts for.
LEMMA GoesStep ==
    ASSUME IInv, NEW n \in Instances, NEW h, NEW k, Goes(n, h, k), UNCHANGED <<scenario, everVerified>>,
           People \subseteq People', tracked \subseteq tracked'
    PROVE  RunsInv' /\ ConsumedIsAccountedFor'
<1>1. /\ handling'[n] = h /\ next'[n] = k
      /\ \A m \in Instances : m # n => handling'[m] = handling[m] /\ next'[m] = next[m]
  BY DEF Goes, IInv, LInv, HandlersInv
<1>2. RunsInv'
  <2>1. \A g, j : GoodRun(g, j) => GoodRun(g, j)'
    BY GoodStays
  <2> SUFFICES ASSUME NEW m \in Instances
               PROVE  next'[m] \in 1 .. (Len(scenario'.withdrawals) + 1) /\ GoodRun(handling[m], next[m])'
    BY DEF RunsInv
  <2>2. CASE m = n
    BY <1>1, <2>1, <2>2 DEF Goes
  <2>3. CASE m # n
    BY <1>1, <2>1, <2>3 DEF IInv, RunsInv
  <2> QED
    BY <2>2, <2>3
<1>3. ConsumedIsAccountedFor'
  <2>1. \A w : Accounted(w) => Accounted(w)'
    BY AccountedStays
  <2>2. \A m \in Instances : \A j \in 1 .. (next[m] - 1) : Accounted(scenario.withdrawals[j])
    BY AccountedMeans DEF IInv
  <2>3. ASSUME NEW m \in Instances, NEW j \in 1 .. (next'[m] - 1)
        PROVE  Accounted(scenario.withdrawals[j])'
    <3>1. next[n] \in Nat
      BY RunIs
    <3>2. CASE m # n
      BY <1>1, <2>1, <2>2, <2>3, <3>2
    <3>3. CASE m = n /\ j \in 1 .. (next[n] - 1)
      BY <2>1, <2>2, <3>3
    <3>4. CASE m = n /\ j \notin 1 .. (next[n] - 1)
      <4>1. j = next[n] /\ k = next[n] + 1
        BY <1>1, <2>3, <3>1, <3>4 DEF Goes
      <4>2. \E w : w = scenario.withdrawals[j] /\ Accounted(w)'
        BY <3>1, <4>1 DEF Goes
      <4> QED
        BY <4>2
    <3> QED
      BY <3>2, <3>3, <3>4
  <2> QED
    BY <2>3, AccountedMeans
<1> QED
  BY <1>2, <1>3

LEMMA ConsumedGoes ==
    ASSUME IInv, NEW n \in Instances, Consumed(n), next[n] =< Len(scenario.withdrawals),
           NEW w, w = scenario.withdrawals[next[n]], Accounted(w)'
    PROVE  Goes(n, Idle, next[n] + 1) /\ Keeps(n, Idle)
<1>1. GoodRun(Idle, next[n] + 1) /\ Keeps(n, Idle)
  BY DEF GoodRun, Idle, Keeps, Admits
<1>2. handling' = [handling EXCEPT ![n] = Idle] /\ next' = [next EXCEPT ![n] = next[n] + 1]
  BY DEF Consumed, Set
<1>3. next[n] + 1 \in 1 .. (Len(scenario.withdrawals) + 1)
  BY RunIs, WithdrawalsAre
<1> QED
  BY <1>1, <1>2, <1>3 DEF Goes

LEMMA NotConsumedGoes ==
    ASSUME IInv, NEW n \in Instances, NotConsumed(n)
    PROVE  \E k : Goes(n, Idle, k) /\ Keeps(n, Idle)
<1>1. PICK k \in 1 .. next[n] : next' = [next EXCEPT ![n] = k]
  BY DEF NotConsumed
<1>2. GoodRun(Idle, k) /\ Keeps(n, Idle)
  BY DEF GoodRun, Idle, Keeps, Admits
<1>3. k =< next[n] /\ k \in 1 .. (Len(scenario.withdrawals) + 1)
  BY RunIs, WithdrawalsAre
<1> QED
  BY <1>1, <1>2, <1>3 DEF Goes, NotConsumed, Set

LEMMA SetGoes ==
    ASSUME IInv, NEW n \in Instances, NEW h, Set(n, h), UNCHANGED next, GoodRun(h, next[n])
    PROVE  Goes(n, h, next[n])
<1>1. next' = [next EXCEPT ![n] = next[n]]
  BY DEF IInv, LInv, HandlersInv
<1>2. next[n] \in 1 .. (Len(scenario.withdrawals) + 1) /\ next[n] =< next[n]
  BY RunIs, WithdrawalsAre
<1> QED
  BY <1>1, <1>2 DEF Goes, Set

LEMMA CheckHolds ==
    ASSUME IInv, NEW n \in Instances, NEW c \in Conditions, handling[n].st = "checks",
           Set(n, [handling[n] EXCEPT !.met = @ \cup {c}]), UNCHANGED next,
           c = "inviteeVerified" => InviteeOK(handling[n].w),
           c = "inviterVerified" => InviterOK(handling[n].w)
    PROVE  \E h : /\ Goes(n, h, next[n]) /\ h.w = handling[n].w
                  /\ c # "belowWeeklyLimit" => Keeps(n, h)
<1>1. PICK h : h = [handling[n] EXCEPT !.met = @ \cup {c}]
  OBVIOUS
<1>2. /\ h.st = handling[n].st /\ h.w = handling[n].w /\ h.met = handling[n].met \cup {c}
      /\ h.accounts = handling[n].accounts /\ h.candidates = handling[n].candidates
  BY <1>1, RunIs DEF HandlerFields
<1>3. GoodRun(h, next[n])
  BY <1>2, RunIs DEF GoodRun
<1>4. c # "belowWeeklyLimit" => Keeps(n, h)
  BY <1>2 DEF Keeps, Admits
<1> QED
  BY <1>1, <1>2, <1>3, <1>4, SetGoes

LEMMA CheckFails ==
    ASSUME IInv, NEW n \in Instances, handling[n].st = "checks",
           Set(n, [handling[n] EXCEPT !.st = "refused"]), UNCHANGED next
    PROVE  \E h : Goes(n, h, next[n]) /\ Keeps(n, h)
<1>1. PICK h : h = [handling[n] EXCEPT !.st = "refused"]
  OBVIOUS
<1>2. /\ h.st = "refused" /\ h.w = handling[n].w /\ h.met = handling[n].met
      /\ h.accounts = handling[n].accounts /\ h.candidates = handling[n].candidates
  BY <1>1, RunIs DEF HandlerFields
<1>3. GoodRun(h, next[n])
  BY <1>2, RunIs DEF GoodRun
<1>4. Keeps(n, h)
  BY <1>2 DEF Keeps, Admits
<1> QED
  BY <1>1, <1>3, <1>4, SetGoes

\* What the four checks find is so.
LEMMA AccountsAreOf ==
    ASSUME IInv, NEW wallet, NEW a \in AccountAddresses(wallet)
    PROVE  AccountOf(a, wallet)
<1>1. CASE a = wallet
  BY <1>1 DEF AccountOf
<1>2. CASE a # wallet
  <2>1. PICK m \in mappings : m.wallet = wallet /\ a = m.account
    BY <1>2 DEF AccountAddresses
  <2>2. m \in scenario.mappings /\ scenario \in Scenarios
    BY DEF IInv, StoredInv, LInv, HandlersInv
  <2>3. m = [account |-> m.account, wallet |-> m.wallet]
    BY <2>2, RewardAssumption
  <2> QED
    BY <2>1, <2>2, <2>3 DEF AccountOf
<1> QED
  BY <1>1, <1>2

LEMMA CheckSteps ==
    ASSUME IInv, NEW n \in Instances,
           \/ FindAccounts(n) \/ FindAttestations(n) \/ CheckCandidate(n)
           \/ CheckInvitee(n) \/ CheckNotInProgress(n)
    PROVE  \E h : Goes(n, h, next[n]) /\ Keeps(n, h)
<1>0. GoodRun(handling[n], next[n]) /\ DOMAIN handling[n] = HandlerFields
  BY RunIs
<1>1. handling[n].st = "checks" /\ UNCHANGED next
  BY DEF FindAccounts, FindAttestations, CheckCandidate, CheckInvitee, CheckNotInProgress, Checking
<1>2. CASE FindAccounts(n)
  <2>1. PICK h : h = [handling[n] EXCEPT !.accounts = AccountAddresses(handling[n].w.inviter)]
    OBVIOUS
  <2>2. /\ h.st = handling[n].st /\ h.w = handling[n].w /\ h.met = handling[n].met
        /\ h.accounts = AccountAddresses(handling[n].w.inviter) /\ h.candidates = handling[n].candidates
    BY <1>0, <2>1 DEF HandlerFields
  <2>3. \A c \in handling[n].candidates : FALSE
    BY <1>0, <1>2 DEF FindAccounts, GoodRun
  <2>4. \A a \in h.accounts : AccountOf(a, h.w.inviter)
    BY <2>2, AccountsAreOf
  <2>5. GoodRun(h, next[n])
    BY <1>0, <1>1, <2>2, <2>3, <2>4 DEF GoodRun
  <2>6. Keeps(n, h)
    BY <2>2 DEF Keeps, Admits
  <2> QED
    BY <1>1, <1>2, <2>1, <2>5, <2>6, SetGoes DEF FindAccounts
<1>3. CASE FindAttestations(n)
  <2>1. PICK found : found = {a \in attestations : a.address \in handling[n].accounts}
    OBVIOUS
  <2>2. CASE found = {}
    <3>1. Set(n, [handling[n] EXCEPT !.st = "refused"])
      BY <1>3, <2>1, <2>2 DEF FindAttestations, Check
    <3> QED
      BY <1>1, <3>1, CheckFails
  <2>3. CASE found # {}
    <3>1. PICK h : h = [handling[n] EXCEPT !.candidates = found]
      OBVIOUS
    <3>2. /\ h.st = handling[n].st /\ h.w = handling[n].w /\ h.met = handling[n].met
          /\ h.accounts = handling[n].accounts /\ h.candidates = found
      BY <1>0, <3>1 DEF HandlerFields
    <3>3. GoodRun(h, next[n])
      BY <1>0, <1>1, <2>1, <3>2 DEF GoodRun
    <3>4. Keeps(n, h) /\ Set(n, h)
      BY <1>3, <2>1, <2>3, <3>1, <3>2 DEF Keeps, Admits, FindAttestations
    <3> QED
      BY <1>1, <3>3, <3>4, SetGoes
  <2> QED
    BY <2>2, <2>3
<1>4. CASE CheckCandidate(n)
  <2>1. PICK a \in handling[n].candidates :
            IF isAddressVerifiedWithIdentifier(a) THEN Check(n, "inviterVerified", TRUE)
            ELSE IF handling[n].candidates = {a} THEN Check(n, "inviterVerified", FALSE)
            ELSE Set(n, [handling[n] EXCEPT !.candidates = @ \ {a}])
    BY <1>4 DEF CheckCandidate
  <2>2. CASE a \in verified
    <3>1. Set(n, [handling[n] EXCEPT !.met = @ \cup {"inviterVerified"}])
      BY <2>1, <2>2 DEF isAddressVerifiedWithIdentifier, Check
    <3>2. InviterOK(handling[n].w)
      BY <1>0, <2>2 DEF GoodRun, InviterOK, IInv, StoredInv
    <3> QED
      BY <1>1, <3>1, <3>2, CheckHolds DEF Conditions
  <2>3. CASE a \notin verified /\ handling[n].candidates = {a}
    <3>1. Set(n, [handling[n] EXCEPT !.st = "refused"])
      BY <2>1, <2>3 DEF isAddressVerifiedWithIdentifier, Check
    <3> QED
      BY <1>1, <3>1, CheckFails
  <2>4. CASE a \notin verified /\ handling[n].candidates # {a}
    <3>1. PICK h : h = [handling[n] EXCEPT !.candidates = @ \ {a}]
      OBVIOUS
    <3>2. /\ h.st = handling[n].st /\ h.w = handling[n].w /\ h.met = handling[n].met
          /\ h.accounts = handling[n].accounts /\ h.candidates \subseteq handling[n].candidates
      BY <1>0, <3>1 DEF HandlerFields
    <3>3. GoodRun(h, next[n])
      BY <1>0, <1>1, <3>2 DEF GoodRun
    <3>4. Keeps(n, h) /\ Set(n, h)
      BY <2>1, <2>4, <3>1, <3>2 DEF Keeps, Admits, isAddressVerifiedWithIdentifier
    <3> QED
      BY <1>1, <3>3, <3>4, SetGoes
  <2> QED
    BY <2>2, <2>3, <2>4
<1>5. CASE CheckInvitee(n)
  <2>1. CASE [address |-> handling[n].w.invitee, identifier |-> handling[n].w.identifier] \in verified
    <3>1. Set(n, [handling[n] EXCEPT !.met = @ \cup {"inviteeVerified"}])
      BY <1>5, <2>1 DEF CheckInvitee, Check, isAddressVerifiedWithIdentifier
    <3>2. InviteeOK(handling[n].w)
      BY <2>1 DEF InviteeOK, IInv, StoredInv
    <3> QED
      BY <1>1, <3>1, <3>2, CheckHolds DEF Conditions
  <2>2. CASE [address |-> handling[n].w.invitee, identifier |-> handling[n].w.identifier] \notin verified
    <3>1. Set(n, [handling[n] EXCEPT !.st = "refused"])
      BY <1>5, <2>2 DEF CheckInvitee, Check, isAddressVerifiedWithIdentifier
    <3> QED
      BY <1>1, <3>1, CheckFails
  <2> QED
    BY <2>1, <2>2
<1>6. CASE CheckNotInProgress(n)
  <2>1. CASE \A r \in rows : r.invitee # handling[n].w.invitee
    <3>1. Set(n, [handling[n] EXCEPT !.met = @ \cup {"notInProgress"}])
      BY <1>6, <2>1 DEF CheckNotInProgress, Check
    <3> QED
      BY <1>1, <3>1, CheckHolds DEF Conditions
  <2>2. CASE ~ \A r \in rows : r.invitee # handling[n].w.invitee
    <3>1. Set(n, [handling[n] EXCEPT !.st = "refused"])
      BY <1>6, <2>2 DEF CheckNotInProgress, Check
    <3> QED
      BY <1>1, <3>1, CheckFails
  <2> QED
    BY <2>1, <2>2
<1> QED
  BY <1>2, <1>3, <1>4, <1>5, <1>6

\* The event arrives, its transaction is found, the checks are over, or it is
\* given up for now.
LEMMA OtherSteps ==
    ASSUME IInv, NEW n \in Instances,
           \/ HandleWithdrawal(n) \/ TransactionFound(n) \/ ChecksDone(n)
           \/ HandlerRejects(n) \/ Crash(n)
    PROVE  /\ \E h, k : Goes(n, h, k) /\ Keeps(n, h)
           /\ tracked \subseteq tracked' /\ tracked' \subseteq Withdrawals
<1>0. /\ GoodRun(handling[n], next[n]) /\ DOMAIN handling[n] = HandlerFields
      /\ handling[n].st # "idle" =>
            /\ next[n] =< Len(scenario.withdrawals) /\ handling[n].w = scenario.withdrawals[next[n]]
            /\ handling[n].w \in Withdrawals
  BY RunIs
<1>1. ASSUME NEW w \in Withdrawals, w = scenario.withdrawals[next[n]], next[n] =< Len(scenario.withdrawals),
             Consumed(n), tracked' = tracked \cup {w}
      PROVE  /\ \E h, k : Goes(n, h, k) /\ Keeps(n, h)
             /\ tracked \subseteq tracked' /\ tracked' \subseteq Withdrawals
  <2>1. Accounted(w)'
    BY <1>1 DEF Accounted
  <2> QED
    BY <1>1, <2>1, ConsumedGoes DEF IInv, StoredInv
<1>2. tracked \subseteq Withdrawals
  BY DEF IInv, StoredInv
<1>3. CASE HandleWithdrawal(n)
  <2>1. PICK w : w = scenario.withdrawals[next[n]]
    OBVIOUS
  <2>2. next[n] =< Len(scenario.withdrawals) /\ w \in Withdrawals
    BY <1>3, <2>1, RunIs, WithdrawalsAre DEF HandleWithdrawal
  <2>3. CASE w.token \in StableTokens
    <3>1. PICK h : h = [Idle EXCEPT !.st = "transaction", !.w = w]
      OBVIOUS
    <3>2. h.st = "transaction" /\ h.w = w /\ h.met = {} /\ h.accounts = {} /\ h.candidates = {}
      BY <3>1 DEF Idle
    <3>3. GoodRun(h, next[n]) /\ Keeps(n, h)
      BY <2>1, <2>2, <2>3, <3>2 DEF GoodRun, Keeps, Admits
    <3>4. Set(n, h) /\ UNCHANGED <<next, tracked>>
      BY <1>3, <2>1, <2>3, <3>1 DEF HandleWithdrawal
    <3> QED
      BY <1>2, <3>3, <3>4, SetGoes
  <2>4. CASE w.token \notin StableTokens
    <3>1. Consumed(n) /\ tracked' = tracked \cup {w}
      BY <1>3, <2>1, <2>4 DEF HandleWithdrawal
    <3> QED
      BY <1>1, <2>1, <2>2, <3>1
  <2> QED
    BY <2>3, <2>4
<1>4. CASE TransactionFound(n)
  <2>1. CASE Rewardable(handling[n].w)
    <3>1. PICK h : h = [handling[n] EXCEPT !.st = "checks"]
      OBVIOUS
    <3>2. /\ h.st = "checks" /\ h.w = handling[n].w /\ h.met = handling[n].met
          /\ h.accounts = handling[n].accounts /\ h.candidates = handling[n].candidates
      BY <1>0, <3>1 DEF HandlerFields
    <3>3. handling[n].st = "transaction" /\ Set(n, h) /\ UNCHANGED <<next, tracked>>
      BY <1>4, <2>1, <3>1 DEF TransactionFound
    <3>4. GoodRun(h, next[n])
      BY <1>0, <2>1, <3>2, <3>3 DEF GoodRun
    <3>5. Keeps(n, h)
      BY <1>0, <3>2, <3>3 DEF Keeps, Admits, GoodRun
    <3> QED
      BY <1>2, <3>3, <3>4, <3>5, SetGoes
  <2>2. CASE ~Rewardable(handling[n].w)
    <3>1. Consumed(n) /\ tracked' = tracked \cup {handling[n].w} /\ handling[n].st # "idle"
      BY <1>4, <2>2 DEF TransactionFound
    <3> QED
      BY <1>0, <1>1, <3>1
  <2> QED
    BY <2>1, <2>2
<1>5. CASE ChecksDone(n)
  <2>1. CASE handling[n].st = "checks"
    <3>1. PICK h : h = [handling[n] EXCEPT !.st = "save"]
      OBVIOUS
    <3>2. /\ h.st = "save" /\ h.w = handling[n].w /\ h.met = handling[n].met
          /\ h.accounts = handling[n].accounts /\ h.candidates = handling[n].candidates
      BY <1>0, <3>1 DEF HandlerFields
    <3>3. handling[n].met = Conditions /\ Set(n, h) /\ UNCHANGED <<next, tracked>>
      BY <1>5, <2>1, <3>1 DEF ChecksDone
    <3>4. GoodRun(h, next[n])
      BY <1>0, <2>1, <3>2, <3>3 DEF GoodRun
    <3>5. Keeps(n, h)
      BY <2>1, <3>2 DEF Keeps, Admits
    <3> QED
      BY <1>2, <3>3, <3>4, <3>5, SetGoes
  <2>2. CASE handling[n].st # "checks"
    <3>1. Consumed(n) /\ tracked' = tracked \cup {handling[n].w} /\ handling[n].st # "idle"
      BY <1>5, <2>2 DEF ChecksDone
    <3> QED
      BY <1>0, <1>1, <3>1
  <2> QED
    BY <2>1, <2>2
<1>6. CASE HandlerRejects(n) \/ Crash(n)
  BY <1>2, <1>6, NotConsumedGoes DEF HandlerRejects, Crash
<1> QED
  BY <1>3, <1>4, <1>5, <1>6

-----------------------------------------------------------------------------
(* The weekly limit *)

\* The runs that are admitted under the limit are some of the processes.
LEMMA SomeInstances ==
    ASSUME NEW A \in SUBSET Instances
    PROVE  /\ IsFiniteSet(A) /\ Cardinality(A) \in Nat /\ Cardinality(Instances) \in Nat
           /\ Cardinality(A) =< Cardinality(Instances)
BY RewardAssumption, FS_Subset, FS_CardinalityType

LEMMA CountedIs ==
    ASSUME IsFiniteSet(rows), NEW i, NEW wk
    PROVE  IsFiniteSet(Counted(i, wk)) /\ Cardinality(Counted(i, wk)) \in Nat
<1>1. Counted(i, wk) \subseteq rows
  BY DEF Counted
<1> QED
  BY <1>1, FS_Subset, FS_CardinalityType

\* No run is admitted and no row is added.
LEMMA LimitStays ==
    ASSUME IInv, UNCHANGED <<scenario, week>>, IsFiniteSet(rows'),
           \A i \in Inviters : Admitted(i)' \subseteq Admitted(i),
           \A i, wk : Counted(i, wk)' \subseteq Counted(i, wk)
    PROVE  /\ \A i \in Inviters' : Cardinality(Counted(i, week)') + Cardinality(Admitted(i)') =< Most
           /\ (\A r \in rows' : \E q \in rows : r.inviter = q.inviter /\ r.week = q.week) => WeeklyLimitOverrun'
<1>1. \A i, wk : Cardinality(Counted(i, wk)') =< Cardinality(Counted(i, wk))
                 /\ Cardinality(Counted(i, wk)') \in Nat /\ Cardinality(Counted(i, wk)) \in Nat
  <2> SUFFICES ASSUME NEW i, NEW wk
               PROVE  /\ Cardinality(Counted(i, wk)') =< Cardinality(Counted(i, wk))
                      /\ Cardinality(Counted(i, wk)') \in Nat /\ Cardinality(Counted(i, wk)) \in Nat
    OBVIOUS
  <2>1. IsFiniteSet(Counted(i, wk)) /\ Cardinality(Counted(i, wk)) \in Nat
    BY CountedIs DEF IInv, WeekInv
  <2> QED
    BY <2>1, FS_Subset, FS_CardinalityType
<1>2. ASSUME NEW i \in Inviters
      PROVE  Cardinality(Counted(i, week)') + Cardinality(Admitted(i)') =< Most
  <2>1. Admitted(i) \in SUBSET Instances
    BY DEF Admitted
  <2>2. IsFiniteSet(Admitted(i)) /\ Cardinality(Admitted(i)) \in Nat
    BY <2>1, SomeInstances
  <2>3. Cardinality(Admitted(i)') =< Cardinality(Admitted(i)) /\ Cardinality(Admitted(i)') \in Nat
    BY <2>2, FS_Subset, FS_CardinalityType
  <2>4. Cardinality(Counted(i, week)) + Cardinality(Admitted(i)) =< Most /\ Most \in Int
    BY SomeInstances, RewardAssumption DEF IInv, WeekInv, Most
  <2>5. PICK wk : wk = week
    OBVIOUS
  <2>6. Counted(i, week)' = Counted(i, wk)'
    BY <2>5
  <2> QED
    BY <1>1, <2>2, <2>3, <2>4, <2>5, <2>6
<1>3. ASSUME \A r \in rows' : \E q \in rows : r.inviter = q.inviter /\ r.week = q.week
      PROVE  WeeklyLimitOverrun'
  <2> SUFFICES ASSUME NEW r \in rows'
               PROVE  Cardinality(Counted(r.inviter, r.week)') =< Most
    BY DEF WeeklyLimitOverrun, Counted, Most
  <2>1. PICK q \in rows : r.inviter = q.inviter /\ r.week = q.week
    BY <1>3
  <2>2. Cardinality(Counted(q.inviter, q.week)) =< Most /\ Most \in Int
    BY SomeInstances, RewardAssumption DEF IInv, WeeklyLimitOverrun, Counted, Most
  <2> QED
    BY <1>1, <2>1, <2>2
<1>4. Inviters' = Inviters
  BY DEF Inviters, Withdrawals
<1> QED
  BY <1>2, <1>3, <1>4

\* A process goes on, and nothing else changes but what is tracked and the faults.
LEMMA GoesIInv ==
    ASSUME IInv, LInv', NEW n \in Instances, NEW h, NEW k, Goes(n, h, k),
           UNCHANGED <<polled, rows, fired, chain>>,
           tracked \subseteq tracked', tracked' \subseteq Withdrawals, faults' \in [Faults -> Nat],
           \A i \in Inviters : Cardinality(Counted(i, week)) + Cardinality(Admitted(i)') =< Most
    PROVE  IInv'
<1>1. People' = People /\ Withdrawals' = Withdrawals /\ Inviters' = Inviters
  BY DEF People, Withdrawals, Inviters, chain
<1>2. RunsInv' /\ ConsumedIsAccountedFor'
  BY <1>1, GoesStep DEF chain
<1>3. StoredInv'
  BY <1>1 DEF IInv, StoredInv, polled, chain
<1>4. RewardsAreDeserved' /\ WeeklyLimitOverrun'
  BY <1>1 DEF IInv, RewardsAreDeserved, WeeklyLimitOverrun, chain
<1>5. WeekInv'
  <2>1. \A i \in Inviters : Counted(i, week)' = Counted(i, week)
    BY DEF Counted, chain
  <2> QED
    BY <1>1, <2>1 DEF IInv, WeekInv, chain
<1> QED
  BY <1>2, <1>3, <1>4, <1>5 DEF IInv

LEMMA AdmittedOnly ==
    ASSUME IInv, NEW n \in Instances, NEW h, NEW k, Goes(n, h, k)
    PROVE  /\ \A i : Admitted(i)' \subseteq Admitted(i) \cup {n}
           /\ Keeps(n, h) => \A i : Admitted(i)' \subseteq Admitted(i)
           /\ \A i : n \in Admitted(i)' => h.w.inviter = i /\ Admits(h)
<1>1. handling'[n] = h /\ \A m \in Instances : m # n => handling'[m] = handling[m]
  BY DEF Goes, IInv, LInv, HandlersInv
<1> QED
  BY <1>1 DEF Admitted, Admits, Keeps

LEMMA KeepsIInv ==
    ASSUME IInv, LInv', NEW n \in Instances, NEW h, NEW k, Goes(n, h, k), Keeps(n, h),
           UNCHANGED <<polled, rows, fired, chain>>,
           tracked \subseteq tracked', tracked' \subseteq Withdrawals, faults' \in [Faults -> Nat]
    PROVE  IInv'
<1>1. \A i \in Inviters : Admitted(i)' \subseteq Admitted(i)
  BY AdmittedOnly
<1>2. UNCHANGED <<scenario, week, rows>> /\ IsFiniteSet(rows')
  BY DEF chain, IInv, WeekInv
<1>3. \A i, wk : Counted(i, wk)' \subseteq Counted(i, wk)
  BY DEF Counted
<1>4. \A i \in Inviters' : Cardinality(Counted(i, week)') + Cardinality(Admitted(i)') =< Most
  BY <1>1, <1>2, <1>3, LimitStays
<1>5. ASSUME NEW i \in Inviters PROVE Cardinality(Counted(i, week)) + Cardinality(Admitted(i)') =< Most
  <2>1. i \in Inviters' /\ Counted(i, week)' = Counted(i, week)
    BY <1>2 DEF Inviters, Withdrawals, Counted
  <2> QED
    BY <1>4, <2>1
<1> QED
  BY <1>5, GoesIInv

\* The count is below the limit when a run is admitted, however many others are.
LEMMA CheckWeeklyLimitStep ==
    ASSUME IInv, LInv', NEW n \in Instances, CheckWeeklyLimit(n)
    PROVE  IInv'
<1>1. /\ handling[n].st = "checks" /\ UNCHANGED <<next, polled, rows, fired, tracked, chain, faults>>
      /\ Check(n, "belowWeeklyLimit", invitesThisWeek(handling[n].w.inviter) < WeeklyLimit)
  BY DEF CheckWeeklyLimit, Checking
<1>2. tracked \subseteq tracked' /\ tracked' \subseteq Withdrawals /\ faults' \in [Faults -> Nat]
  BY <1>1 DEF IInv, StoredInv
<1>3. CASE ~(invitesThisWeek(handling[n].w.inviter) < WeeklyLimit)
  <2>1. Set(n, [handling[n] EXCEPT !.st = "refused"])
    BY <1>1, <1>3 DEF Check
  <2>2. PICK h : Goes(n, h, next[n]) /\ Keeps(n, h)
    BY <1>1, <2>1, CheckFails
  <2> QED
    BY <1>1, <1>2, <2>2, KeepsIInv
<1>4. CASE invitesThisWeek(handling[n].w.inviter) < WeeklyLimit
  <2>1. Set(n, [handling[n] EXCEPT !.met = @ \cup {"belowWeeklyLimit"}])
    BY <1>1, <1>4 DEF Check
  <2>2. PICK h : Goes(n, h, next[n]) /\ h.w = handling[n].w
    BY <1>1, <2>1, CheckHolds DEF Conditions
  <2>3. ASSUME NEW i \in Inviters
        PROVE  Cardinality(Counted(i, week)) + Cardinality(Admitted(i)') =< Most
    <3>1. Most \in Int /\ WeeklyLimit \in Nat /\ Cardinality(Instances) \in Nat
          /\ Most = WeeklyLimit + Cardinality(Instances) - 1
      BY SomeInstances, RewardAssumption DEF Most
    <3>2. Admitted(i) \in SUBSET Instances /\ Admitted(i)' \in SUBSET Instances
      BY DEF Admitted
    <3>3. Cardinality(Counted(i, week)) \in Nat
      BY CountedIs DEF IInv, WeekInv
    <3>4. CASE i = handling[n].w.inviter
      <4>1. PICK S : S = {r \in rows : r.inviter = i /\ r.week = week /\ r.state # "Failed"}
        OBVIOUS
      <4>2. Cardinality(S) < WeeklyLimit
        BY <1>4, <3>4, <4>1 DEF invitesThisWeek
      <4>3. IsFiniteSet(S) /\ Cardinality(S) \in Nat
        BY <4>1, FS_Subset, FS_CardinalityType DEF IInv, WeekInv
      <4>4. Counted(i, week) \subseteq S
        BY <4>1 DEF Counted, IInv, WeekInv
      <4>5. Cardinality(Counted(i, week)) =< Cardinality(S)
        BY <4>3, <4>4, FS_Subset
      <4>6. Cardinality(Admitted(i)') =< Cardinality(Instances) /\ Cardinality(Admitted(i)') \in Nat
        BY <3>2, SomeInstances
      <4> QED
        BY <3>1, <3>3, <4>2, <4>3, <4>5, <4>6
    <3>5. CASE i # handling[n].w.inviter
      <4>1. Admitted(i)' \subseteq Admitted(i)
        BY <2>2, <3>5, AdmittedOnly
      <4>2. IsFiniteSet(Admitted(i)) /\ Cardinality(Admitted(i)) \in Nat
        BY <3>2, SomeInstances
      <4>3. Cardinality(Admitted(i)') =< Cardinality(Admitted(i)) /\ Cardinality(Admitted(i)') \in Nat
        BY <3>2, <4>1, <4>2, SomeInstances, FS_Subset
      <4>4. Cardinality(Counted(i, week)) + Cardinality(Admitted(i)) =< Most
        BY DEF IInv, WeekInv
      <4> QED
        BY <3>1, <3>3, <4>2, <4>3, <4>4
    <3> QED
      BY <3>4, <3>5
  <2> QED
    BY <1>1, <1>2, <2>2, <2>3, GoesIInv
<1> QED
  BY <1>3, <1>4

-----------------------------------------------------------------------------
(* The rows *)

LEMMA SpendType ==
    ASSUME IInv, NEW f \in Faults, Spend(f)
    PROVE  faults' \in [Faults -> Nat]
BY DEF IInv, StoredInv, Spend

\* A run that has passed the checks deserves its row.
LEMMA InsertStep ==
    ASSUME IInv, LInv', NEW n \in Instances, handling[n].st = "save",
           rows' = rows \cup {NewRow(handling[n].w)},
           NEW h, NEW k, Goes(n, h, k), Keeps(n, h), ~Admits(h),
           tracked \subseteq tracked', tracked' \subseteq Withdrawals, faults' \in [Faults -> Nat],
           UNCHANGED <<polled, fired, chain>>
    PROVE  IInv'
<1>1. PICK w, r : w = handling[n].w /\ r = NewRow(w)
  OBVIOUS
<1>2. /\ GoodRun(handling[n], next[n]) /\ DOMAIN handling[n] = HandlerFields
      /\ w \in Withdrawals /\ w = scenario.withdrawals[next[n]]
      /\ next[n] =< Len(scenario.withdrawals) /\ handling[n].met = Conditions
      /\ Rewardable(w) /\ w.token \in StableTokens /\ InviteeOK(w) /\ InviterOK(w)
  BY <1>1, RunIs DEF GoodRun, Conditions
<1>3. /\ r.inviter = w.inviter /\ r.invitee = w.invitee /\ r.identifier = w.identifier
      /\ r.week = week /\ r.failed = FALSE /\ r.state = "Created" /\ rows' = rows \cup {r}
  BY <1>1 DEF NewRow
<1>5. UNCHANGED <<scenario, verified, everVerified, week>>
  BY DEF chain
<1>6. Goes(n, h, k) /\ Keeps(n, h)
  OBVIOUS
<1>7. RunsInv' /\ ConsumedIsAccountedFor'
  <2>1. People \subseteq People'
    BY <1>3 DEF People
  <2> QED
    BY <1>5, <1>6, <2>1, GoesStep
<1>8. StoredInv'
  BY <1>5 DEF IInv, StoredInv, Withdrawals, polled
<1>9. RewardsAreDeserved'
  <2>1. Withdrawals' = Withdrawals
    BY <1>5 DEF Withdrawals
  <2>2. Person(w) = Person(r) /\ w.komenci
    BY <1>2, <1>3 DEF Person, Rewardable
  <2>3. /\ [address |-> r.invitee, identifier |-> r.identifier] \in everVerified
        /\ \E a \in everVerified : \/ a.address = r.inviter
                                   \/ [account |-> a.address, wallet |-> r.inviter] \in scenario.mappings
        /\ \E v \in Withdrawals :
            v.inviter = r.inviter /\ Person(v) = Person(r) /\ v.komenci /\ v.token \in StableTokens
    BY <1>2, <1>3, <2>2 DEF InviteeOK, InviterOK, AccountOf
  <2> QED
    BY <1>3, <1>5, <2>1, <2>3 DEF IInv, RewardsAreDeserved
<1>10. IsFiniteSet(rows) /\ IsFiniteSet(rows') /\ week \in Nat
  BY <1>3, FS_AddElement DEF IInv, WeekInv
<1>11. /\ \A i, wk : i # r.inviter \/ wk # week => Counted(i, wk)' = Counted(i, wk)
       /\ Counted(r.inviter, week)' = Counted(r.inviter, week) \cup {r}
  BY <1>3, <1>5 DEF Counted
<1>12. Most \in Int /\ r.inviter \in Inviters /\ Inviters' = Inviters
  BY <1>2, <1>3, <1>5, SomeInstances, RewardAssumption DEF Most, Inviters, Withdrawals
<1>13. PICK c : c = Counted(r.inviter, week)
  OBVIOUS
<1>14. /\ IsFiniteSet(c) /\ Cardinality(c) \in Nat
       /\ Cardinality(c \cup {r}) \in Nat /\ Cardinality(c \cup {r}) =< Cardinality(c) + 1
  <2>1. IsFiniteSet(c) /\ Cardinality(c) \in Nat
    BY <1>10, <1>13, CountedIs
  <2>2. Cardinality(c \cup {r}) = IF r \in c THEN Cardinality(c) ELSE Cardinality(c) + 1
    BY <2>1, FS_AddElement
  <2> QED
    BY <2>1, <2>2
<1>15. PICK A, B : A = Admitted(r.inviter) /\ B = Admitted(r.inviter)'
  OBVIOUS
<1>16. /\ IsFiniteSet(A) /\ n \in A /\ B \subseteq A \ {n} /\ Cardinality(A) \in Nat
  <2>1. A \in SUBSET Instances
    BY <1>15 DEF Admitted
  <2>2. n \in A
    BY <1>1, <1>2, <1>3, <1>15 DEF Admitted, Admits, Conditions
  <2>3. B \subseteq A /\ n \notin B
    BY <1>6, <1>15, AdmittedOnly
  <2> QED
    BY <2>1, <2>2, <2>3, SomeInstances
<1>17. Cardinality(B) \in Nat /\ Cardinality(B) =< Cardinality(A) - 1
  <2>1. IsFiniteSet(A \ {n}) /\ Cardinality(A \ {n}) = Cardinality(A) - 1
    BY <1>16, FS_RemoveElement
  <2> QED
    BY <1>16, <2>1, FS_Subset, FS_CardinalityType
<1>18. Cardinality(c) + Cardinality(A) =< Most
  BY <1>12, <1>13, <1>15 DEF IInv, WeekInv
<1>19. Cardinality(c \cup {r}) + Cardinality(B) =< Most /\ Cardinality(c \cup {r}) =< Most
  BY <1>12, <1>14, <1>16, <1>17, <1>18
<1>20. WeekInv'
  <2>1. \A q \in rows' : /\ q.week \in Nat /\ q.week =< week
                         /\ q.failed \in BOOLEAN /\ (q.state = "Failed" => q.failed)
    <3>1. r.week \in Nat /\ r.week =< week /\ r.failed \in BOOLEAN /\ r.state # "Failed"
      <4>1. r.week \in Nat /\ r.week =< week
        BY ONLY <1>3, <1>10
      <4>2. r.failed \in BOOLEAN
        BY ONLY <1>3, Zenon
      <4>3. r.state # "Failed"
        BY ONLY <1>3
      <4> QED
        BY <4>1, <4>2, <4>3
    <3>2. \A q \in rows : /\ q.week \in Nat /\ q.week =< week
                          /\ q.failed \in BOOLEAN /\ (q.state = "Failed" => q.failed)
      BY DEF IInv, WeekInv
    <3>3. \A q \in rows' : q \in rows \/ q = r
      BY <1>3
    <3> QED
      BY ONLY <3>1, <3>2, <3>3
  <2>2. ASSUME NEW i \in Inviters
        PROVE  Cardinality(Counted(i, week)') + Cardinality(Admitted(i)') =< Most
    <3>1. CASE i = r.inviter
      BY <1>5, <1>11, <1>13, <1>15, <1>19, <3>1
    <3>2. CASE i # r.inviter
      <4>1. Admitted(i) \in SUBSET Instances /\ Admitted(i)' \subseteq Admitted(i)
        BY <1>6, AdmittedOnly DEF Admitted
      <4>2. /\ Cardinality(Admitted(i)') =< Cardinality(Admitted(i))
            /\ Cardinality(Admitted(i)') \in Nat /\ Cardinality(Admitted(i)) \in Nat
        BY <4>1, SomeInstances, FS_Subset
      <4>3. PICK wk : wk = week
        OBVIOUS
      <4>4. Counted(i, wk)' = Counted(i, wk)
        BY <1>11, <3>2
      <4>5. Counted(i, week)' = Counted(i, week)
        BY <1>5, <4>3, <4>4
      <4>6. Cardinality(Counted(i, week)) \in Nat
        BY <1>10, CountedIs
      <4> QED
        BY <1>12, <4>2, <4>5, <4>6 DEF IInv, WeekInv
    <3> QED
      BY <3>1, <3>2
  <2> QED
    BY <1>5, <1>10, <1>12, <2>1, <2>2 DEF WeekInv
<1>21. WeeklyLimitOverrun'
  <2> SUFFICES ASSUME NEW q \in rows'
               PROVE  Cardinality(Counted(q.inviter, q.week)') =< Most
    BY DEF WeeklyLimitOverrun, Counted, Most
  <2>1. CASE q.inviter = r.inviter /\ q.week = week
    <3>1. Counted(q.inviter, q.week)' = c \cup {r}
      BY <1>3, <1>5, <1>13, <2>1 DEF Counted
    <3> QED
      BY <1>19, <3>1
  <2>2. CASE ~(q.inviter = r.inviter /\ q.week = week)
    <3>1. q \in rows /\ Counted(q.inviter, q.week)' = Counted(q.inviter, q.week)
      BY <1>3, <1>11, <2>2
    <3>2. Cardinality(Counted(q.inviter, q.week)) =< Most
      BY <3>1 DEF IInv, WeeklyLimitOverrun, Counted, Most
    <3> QED
      BY <3>1, <3>2
  <2> QED
    BY <2>1, <2>2
<1> QED
  BY <1>7, <1>8, <1>9, <1>20, <1>21 DEF IInv

LEMMA CreateRewardIInv ==
    ASSUME IInv, LInv', NEW n \in Instances, CreateReward(n)
    PROVE  IInv'
<1>1. PICK w : w = handling[n].w
  OBVIOUS
<1>2. /\ handling[n].st = "save" /\ w \in Withdrawals /\ w = scenario.withdrawals[next[n]]
      /\ next[n] =< Len(scenario.withdrawals)
  BY <1>1, RunIs DEF CreateReward
<1>3. UNCHANGED <<polled, fired, chain>> /\ tracked \subseteq Withdrawals /\ faults \in [Faults -> Nat]
  BY DEF CreateReward, IInv, StoredInv
<1>4. CASE /\ rows' = rows \cup {NewRow(w)}
           /\ Set(n, [handling[n] EXCEPT !.st = "fire", !.row = NewRow(w)])
           /\ UNCHANGED <<next, tracked, faults>>
  <2>1. PICK r, h : r = NewRow(w) /\ h = [handling[n] EXCEPT !.st = "fire", !.row = r]
    OBVIOUS
  <2>2. /\ GoodRun(handling[n], next[n]) /\ DOMAIN handling[n] = HandlerFields
        /\ w = scenario.withdrawals[next[n]] /\ next[n] =< Len(scenario.withdrawals)
        /\ handling[n].met = Conditions
        /\ Rewardable(w) /\ w.token \in StableTokens /\ InviteeOK(w) /\ InviterOK(w)
    BY <1>1, <1>2, RunIs DEF GoodRun, Conditions
  <2>3. r.inviter = w.inviter /\ r.invitee = w.invitee /\ r.identifier = w.identifier
    BY <2>1 DEF NewRow
  <2>4. /\ h.st = "fire" /\ h.w = w /\ h.met = handling[n].met
        /\ h.accounts = handling[n].accounts /\ h.candidates = handling[n].candidates
    BY <1>1, <2>1, <2>2 DEF HandlerFields
  <2>5. GoodRun(h, next[n])
    BY <1>1, <2>1, <2>2, <2>3, <2>4 DEF GoodRun
  <2>6. Set(n, h) /\ ~Admits(h) /\ Keeps(n, h)
    BY <1>4, <2>1, <2>4 DEF Keeps, Admits
  <2>7. Goes(n, h, next[n])
    BY <1>4, <2>5, <2>6, SetGoes
  <2> QED
    BY <1>1, <1>2, <1>3, <1>4, <2>6, <2>7, InsertStep
<1>5. CASE ~Unique(NewRow(w)) /\ Consumed(n) /\ UNCHANGED <<rows, tracked, faults>>
  <2>1. PICK s \in rows : s.invitee = w.invitee \/ s.identifier = w.identifier
    BY <1>5 DEF Unique, NewRow
  <2>2. Person(s) \in People' /\ Person(s).invitee = s.invitee /\ Person(s).identifier = s.identifier
    BY <1>5 DEF People, Person
  <2>3. Accounted(w)'
    BY <2>1, <2>2 DEF Accounted
  <2>4. Goes(n, Idle, next[n] + 1) /\ Keeps(n, Idle)
    BY <1>2, <1>5, <2>3, ConsumedGoes
  <2> QED
    BY <1>3, <1>5, <2>4, KeepsIInv
<1>6. CASE Spend("db") /\ Consumed(n) /\ tracked' = tracked \cup {w} /\ UNCHANGED rows
  <2>1. Accounted(w)'
    BY <1>6 DEF Accounted
  <2>2. Goes(n, Idle, next[n] + 1) /\ Keeps(n, Idle)
    BY <1>2, <1>6, <2>1, ConsumedGoes
  <2>3. faults' \in [Faults -> Nat] /\ tracked \subseteq tracked' /\ tracked' \subseteq Withdrawals
    BY <1>2, <1>3, <1>6, SpendType DEF Faults
  <2> QED
    BY <1>3, <1>6, <2>2, <2>3, KeepsIInv
<1>7. CASE /\ Spend("db") /\ Consumed(n) /\ tracked' = tracked \cup {w}
           /\ rows' = rows \cup {NewRow(w)}
  <2>1. Accounted(w)'
    BY <1>7 DEF Accounted
  <2>2. Goes(n, Idle, next[n] + 1) /\ Keeps(n, Idle) /\ ~Admits(Idle)
    <3>1. ~Admits(Idle)
      BY DEF Admits, Idle
    <3> QED
      BY <1>2, <1>7, <2>1, <3>1, ConsumedGoes
  <2>3. faults' \in [Faults -> Nat] /\ tracked \subseteq tracked' /\ tracked' \subseteq Withdrawals
    BY <1>2, <1>3, <1>7, SpendType DEF Faults
  <2> QED
    BY <1>1, <1>2, <1>3, <1>7, <2>2, <2>3, InsertStep
<1> QED
  BY <1>1, <1>4, <1>5, <1>6, <1>7 DEF CreateReward

LEMMA FireRewardIInv ==
    ASSUME IInv, LInv', NEW n \in Instances, FireReward(n)
    PROVE  IInv'
<1>1. /\ handling[n].st = "fire" /\ Consumed(n) /\ UNCHANGED <<polled, rows, tracked, chain, faults>>
  BY DEF FireReward
<1>2. PICK w : w = handling[n].w
  OBVIOUS
<1>3. w = scenario.withdrawals[next[n]] /\ next[n] =< Len(scenario.withdrawals)
  BY <1>1, <1>2, RunIs
<1>4. Person(w) \in People /\ People' = People
  BY <1>1, <1>2 DEF IInv, LInv, FiringInv, Fires, Rewarded, People
<1>5. Accounted(w)'
  BY <1>4 DEF Accounted, Person
<1>6. Goes(n, Idle, next[n] + 1) /\ Keeps(n, Idle)
  BY <1>1, <1>3, <1>5, ConsumedGoes
<1>7. RunsInv' /\ ConsumedIsAccountedFor'
  BY <1>1, <1>4, <1>6, GoesStep DEF chain
<1>8. UNCHANGED <<scenario, verified, everVerified, week>> /\ Withdrawals' = Withdrawals /\ Inviters' = Inviters
  BY <1>1 DEF chain, Withdrawals, Inviters
<1>9. StoredInv' /\ RewardsAreDeserved' /\ WeeklyLimitOverrun'
  BY <1>1, <1>8 DEF IInv, StoredInv, RewardsAreDeserved, WeeklyLimitOverrun, polled
<1>10. WeekInv'
  <2>1. \A i \in Inviters : Admitted(i)' \subseteq Admitted(i)
    BY <1>6, AdmittedOnly
  <2>2. \A i, wk : Counted(i, wk)' \subseteq Counted(i, wk)
    BY <1>1 DEF Counted
  <2>3. IsFiniteSet(rows')
    BY <1>1 DEF IInv, WeekInv
  <2>4. \A i \in Inviters' : Cardinality(Counted(i, week)') + Cardinality(Admitted(i)') =< Most
    BY <1>8, <2>1, <2>2, <2>3, LimitStays
  <2> QED
    BY <1>1, <1>8, <2>4 DEF IInv, WeekInv
<1> QED
  BY <1>7, <1>9, <1>10 DEF IInv

\* The reward sender changes the state of a row, and remembers when it has failed.
LEMMA RowChangesIInv ==
    ASSUME IInv, LInv', NEW r \in rows, NEW q, rows' = (rows \ {r}) \cup {q},
           Person(q) = Person(r), q.invitee = r.invitee, q.identifier = r.identifier,
           q.inviter = r.inviter, q.week = r.week, q.failed, q.failed \in BOOLEAN,
           UNCHANGED <<handling, next, polled, fired, tracked, chain>>, faults' \in [Faults -> Nat]
    PROVE  IInv'
<1>1. /\ UNCHANGED <<scenario, verified, everVerified, week>> /\ Withdrawals' = Withdrawals /\ Inviters' = Inviters
      /\ People' = People
  BY DEF chain, Withdrawals, Inviters, People
<1>2. RunsInv'
  BY <1>1, GoodStays DEF IInv, RunsInv
<1>3. ConsumedIsAccountedFor'
  <2>1. \A w : Accounted(w) => Accounted(w)'
    BY <1>1, AccountedStays
  <2>2. \A n \in Instances : \A k \in 1 .. (next[n] - 1) : Accounted(scenario.withdrawals[k])
    BY AccountedMeans DEF IInv
  <2>3. ASSUME NEW n \in Instances, NEW k \in 1 .. (next'[n] - 1)
        PROVE  Accounted(scenario.withdrawals[k])'
    BY <1>1, <2>1, <2>2, <2>3
  <2> QED
    BY <2>3, AccountedMeans
<1>4. StoredInv'
  BY <1>1 DEF IInv, StoredInv, polled
<1>5. RewardsAreDeserved'
  <2>1. \A s \in rows' : s \in rows \/ s = q
    OBVIOUS
  <2> QED
    BY <1>1, <2>1 DEF IInv, RewardsAreDeserved
<1>6. /\ \A i, wk : Counted(i, wk)' \subseteq Counted(i, wk)
      /\ \A i \in Inviters : Admitted(i)' \subseteq Admitted(i)
      /\ \A s \in rows' : \E t \in rows : s.inviter = t.inviter /\ s.week = t.week
  BY DEF Counted, Admitted
<1>7. IsFiniteSet(rows')
  <2>1. IsFiniteSet(rows \ {r})
    BY FS_RemoveElement DEF IInv, WeekInv
  <2> QED
    BY <2>1, FS_AddElement
<1>8. /\ \A i \in Inviters' : Cardinality(Counted(i, week)') + Cardinality(Admitted(i)') =< Most
      /\ WeeklyLimitOverrun'
  BY <1>1, <1>6, <1>7, LimitStays
<1>9. WeekInv'
  <2>1. \A s \in rows' : s \in rows \/ s = q
    OBVIOUS
  <2>2. \A s \in rows' : /\ s.week \in Nat /\ s.week =< week
                         /\ s.failed \in BOOLEAN /\ (s.state = "Failed" => s.failed)
    BY <2>1 DEF IInv, WeekInv
  <2> QED
    BY <1>1, <1>7, <1>8, <2>2 DEF IInv, WeekInv
<1> QED
  BY <1>2, <1>3, <1>4, <1>5, <1>8, <1>9 DEF IInv

-----------------------------------------------------------------------------
(* The rest *)

\* Nothing changes for the rows and the runs, and what was verified stays so.
LEMMA RestIInv ==
    ASSUME IInv, LInv', UNCHANGED <<scenario, handling, next, rows, tracked>>, StoredInv',
           everVerified \subseteq everVerified', week' \in Nat, week =< week',
           \A i \in Inviters : Cardinality(Counted(i, week)') + Cardinality(Admitted(i)) =< Most
    PROVE  IInv'
<1>1. Withdrawals' = Withdrawals /\ Inviters' = Inviters /\ People' = People
  BY DEF Withdrawals, Inviters, People
<1>2. RunsInv'
  BY GoodStays DEF IInv, RunsInv
<1>3. ConsumedIsAccountedFor' /\ WeeklyLimitOverrun'
  BY DEF IInv, ConsumedIsAccountedFor, WeeklyLimitOverrun
<1>4. RewardsAreDeserved'
  BY <1>1 DEF IInv, RewardsAreDeserved
<1>5. WeekInv'
  <2>1. \A i : Admitted(i)' = Admitted(i)
    BY DEF Admitted
  <2>2. \A r \in rows : r.week =< week'
    BY DEF IInv, WeekInv
  <2> QED
    BY <1>1, <2>1, <2>2 DEF IInv, WeekInv
<1> QED
  BY <1>2, <1>3, <1>4, <1>5 DEF IInv

LEMMA SameWeekIInv ==
    ASSUME IInv, LInv', UNCHANGED <<scenario, handling, next, rows, tracked, week>>, StoredInv',
           everVerified \subseteq everVerified'
    PROVE  IInv'
<1>1. week' \in Nat /\ week =< week'
  BY DEF IInv, WeekInv
<1>2. \A i \in Inviters : Counted(i, week)' = Counted(i, week)
  BY DEF Counted
<1>3. \A i \in Inviters : Cardinality(Counted(i, week)') + Cardinality(Admitted(i)) =< Most
  BY <1>2 DEF IInv, WeekInv
<1> QED
  BY <1>1, <1>3, RestIInv

LEMMA PollIInv == ASSUME IInv, LInv', Poll PROVE IInv'
<1>1. UNCHANGED <<scenario, handling, next, rows, tracked, week, verified, everVerified>>
  BY DEF Poll, HandleAttestation, HandleMapping, chain
<1>2. faults' \in [Faults -> Nat]
  BY SpendType DEF Poll, HandleAttestation, HandleMapping, Faults, IInv, StoredInv
<1>3. StoredInv'
  BY <1>1, <1>2 DEF Poll, HandleAttestation, HandleMapping, IInv, StoredInv, Withdrawals
<1> QED
  BY <1>1, <1>3, SameWeekIInv

LEMMA NextWeekIInv == ASSUME IInv, LInv', NextWeek PROVE IInv'
<1>1. /\ UNCHANGED <<scenario, handling, next, polled, rows, fired, tracked, verified, everVerified>>
      /\ week' = week + 1 /\ Spend("week")
  BY DEF NextWeek
<1>2. StoredInv'
  BY <1>1, SpendType DEF IInv, StoredInv, Withdrawals, polled, Faults
<1>3. week \in Nat /\ week' \in Nat /\ week =< week'
  BY <1>1 DEF IInv, WeekInv
<1>4. ASSUME NEW i \in Inviters
      PROVE  Cardinality(Counted(i, week)') + Cardinality(Admitted(i)) =< Most
  <2>1. Counted(i, week)' = {}
    BY <1>1, <1>3 DEF Counted, IInv, WeekInv
  <2>2. Cardinality({}) = 0
    BY FS_EmptySet
  <2>3. Admitted(i) \in SUBSET Instances
    BY DEF Admitted
  <2>4. /\ Cardinality(Admitted(i)) \in Nat /\ Cardinality(Instances) \in Nat
        /\ Cardinality(Admitted(i)) =< Cardinality(Instances)
    BY <2>3, SomeInstances
  <2>5. WeeklyLimit \in Nat \ {0}
    BY RewardAssumption
  <2> QED
    BY <2>1, <2>2, <2>4, <2>5 DEF Most
<1> QED
  BY <1>1, <1>2, <1>3, <1>4, RestIInv

LEMMA EnvironmentIInv == ASSUME IInv, LInv', Environment PROVE IInv'
<1>1. CASE RewardFails
  <2>1. PICK r \in rows : rows' = (rows \ {r}) \cup {[r EXCEPT !.state = "Failed", !.failed = TRUE]}
    BY <1>1 DEF RewardFails
  <2>2. PICK q : q = [r EXCEPT !.state = "Failed", !.failed = TRUE]
    OBVIOUS
  <2>3. DOMAIN r = RowFields
    BY DEF IInv, LInv, RowsInv
  <2>4. /\ q.invitee = r.invitee /\ q.identifier = r.identifier
        /\ q.inviter = r.inviter /\ q.week = r.week /\ q.failed = TRUE
    BY <2>2, <2>3 DEF RowFields
  <2>5. Person(q) = Person(r)
    BY <2>4 DEF Person
  <2>6. q.failed /\ q.failed \in BOOLEAN
    BY ONLY <2>4, Zenon
  <2>7. UNCHANGED <<handling, next, polled, fired, tracked, chain>> /\ faults' \in [Faults -> Nat]
    BY <1>1, SpendType DEF RewardFails, Faults
  <2>8. rows' = (rows \ {r}) \cup {q}
    BY <2>1, <2>2
  <2> QED
    BY <2>4, <2>5, <2>6, <2>7, <2>8, RowChangesIInv
<1>2. CASE RewardSentAgain
  <2>1. PICK r \in rows : r.state = "Failed" /\ rows' = (rows \ {r}) \cup {[r EXCEPT !.state = "Submitted"]}
    BY <1>2 DEF RewardSentAgain
  <2>2. PICK q : q = [r EXCEPT !.state = "Submitted"]
    OBVIOUS
  <2>3. DOMAIN r = RowFields
    BY DEF IInv, LInv, RowsInv
  <2>4. /\ q.invitee = r.invitee /\ q.identifier = r.identifier
        /\ q.inviter = r.inviter /\ q.week = r.week /\ q.failed = r.failed
    BY <2>2, <2>3 DEF RowFields
  <2>5. Person(q) = Person(r)
    BY <2>4 DEF Person
  <2>6. r.failed /\ r.failed \in BOOLEAN
    BY <2>1 DEF IInv, WeekInv
  <2>7. q.failed /\ q.failed \in BOOLEAN
    BY ONLY <2>4, <2>6, Zenon
  <2>8. UNCHANGED <<handling, next, polled, fired, tracked, chain>> /\ faults' \in [Faults -> Nat]
    BY <1>2 DEF RewardSentAgain, IInv, StoredInv
  <2>9. rows' = (rows \ {r}) \cup {q}
    BY <2>1, <2>2
  <2> QED
    BY <2>4, <2>5, <2>7, <2>8, <2>9, RowChangesIInv
<1>3. CASE AccountVerified
  <2>1. UNCHANGED <<scenario, handling, next, polled, rows, fired, tracked, week, faults>>
    BY <1>3 DEF AccountVerified
  <2>2. StoredInv' /\ everVerified \subseteq everVerified'
    BY <1>3, <2>1 DEF AccountVerified, IInv, StoredInv, Withdrawals, polled
  <2> QED
    BY <2>1, <2>2, SameWeekIInv
<1>4. CASE AccountRevoked
  <2>1. UNCHANGED <<scenario, handling, next, polled, rows, fired, tracked, everVerified, week>>
    BY <1>4 DEF AccountRevoked
  <2>2. faults' \in [Faults -> Nat] /\ verified' \subseteq verified
    BY <1>4, SpendType DEF AccountRevoked, Faults
  <2>3. StoredInv'
    BY <2>1, <2>2 DEF IInv, StoredInv, Withdrawals, polled
  <2> QED
    BY <2>1, <2>3, SameWeekIInv
<1>5. CASE NextWeek
  BY <1>5, NextWeekIInv
<1> QED
  BY <1>1, <1>2, <1>3, <1>4, <1>5 DEF Environment

LEMMA InitIInv == Init => IInv
<1> SUFFICES ASSUME Init PROVE IInv
  OBVIOUS
<1>1. LInv
  BY InitLInv
<1>2. scenario \in Scenarios /\ rows = {} /\ week = 1
      /\ \A n \in Instances : handling[n] = Idle /\ next[n] = 1
  BY DEF Init
<1>3. scenario.known \subseteq scenario.attestations /\ scenario.budget \in [Faults -> Nat]
      /\ Len(scenario.withdrawals) \in Nat
  <2>1. scenario.withdrawals \in Seq({scenario.withdrawals[k] : k \in DOMAIN scenario.withdrawals})
    BY <1>2, RewardAssumption
  <2> QED
    BY <1>2, <2>1, RewardAssumption
<1>4. StoredInv
  BY <1>3 DEF Init, StoredInv
<1>5. RunsInv
  BY <1>2, <1>3 DEF RunsInv, GoodRun, Idle
<1>6. RewardsAreDeserved /\ WeeklyLimitOverrun /\ ConsumedIsAccountedFor
  BY <1>2 DEF RewardsAreDeserved, WeeklyLimitOverrun, ConsumedIsAccountedFor
<1>7. WeekInv
  <2>1. \A i : Counted(i, week) = {} /\ Admitted(i) = {}
    BY <1>2 DEF Counted, Admitted, Admits, Idle
  <2>2. IsFiniteSet({}) /\ Cardinality({}) = 0
    BY FS_EmptySet
  <2>3. Most \in Nat
    <3>1. Cardinality(Instances) \in Nat /\ WeeklyLimit \in Nat \ {0}
      BY SomeInstances, RewardAssumption
    <3> QED
      BY <3>1 DEF Most
  <2> QED
    BY <1>2, <2>1, <2>2, <2>3 DEF WeekInv
<1> QED
  BY <1>1, <1>4, <1>5, <1>6, <1>7 DEF IInv

LEMMA NextIInv == IInv /\ [Next]_vars => IInv'
<1> SUFFICES ASSUME IInv, [Next]_vars PROVE IInv'
  OBVIOUS
<1>0. LInv'
  BY NextLInv DEF IInv
<1>1. CASE Poll
  BY <1>0, <1>1, PollIInv
<1>2. CASE Environment
  BY <1>0, <1>2, EnvironmentIInv
<1>3. ASSUME NEW n \in Instances,
             \/ FindAccounts(n) \/ FindAttestations(n) \/ CheckCandidate(n)
             \/ CheckInvitee(n) \/ CheckNotInProgress(n)
      PROVE  IInv'
  <2>1. PICK h : Goes(n, h, next[n]) /\ Keeps(n, h)
    BY <1>3, CheckSteps
  <2>2. UNCHANGED <<polled, rows, fired, tracked, chain, faults>>
    BY <1>3 DEF FindAccounts, FindAttestations, CheckCandidate, CheckInvitee, CheckNotInProgress
  <2>3. tracked \subseteq tracked' /\ tracked' \subseteq Withdrawals /\ faults' \in [Faults -> Nat]
    BY <2>2 DEF IInv, StoredInv
  <2> QED
    BY <1>0, <2>1, <2>2, <2>3, KeepsIInv
<1>4. ASSUME NEW n \in Instances,
             \/ HandleWithdrawal(n) \/ TransactionFound(n) \/ ChecksDone(n)
             \/ HandlerRejects(n) \/ Crash(n)
      PROVE  IInv'
  <2>1. PICK h, k : Goes(n, h, k) /\ Keeps(n, h)
    BY <1>4, OtherSteps
  <2>2. tracked \subseteq tracked' /\ tracked' \subseteq Withdrawals
    BY <1>4, OtherSteps
  <2>3. UNCHANGED <<polled, rows, fired, chain>>
    BY <1>4 DEF HandleWithdrawal, TransactionFound, ChecksDone, HandlerRejects, Crash
  <2>4. faults' \in [Faults -> Nat]
    BY <1>4, SpendType DEF HandleWithdrawal, TransactionFound, ChecksDone, HandlerRejects, Crash,
                           Faults, IInv, StoredInv
  <2> QED
    BY <1>0, <2>1, <2>2, <2>3, <2>4, KeepsIInv
<1>5. ASSUME NEW n \in Instances, CheckWeeklyLimit(n) \/ CreateReward(n) \/ FireReward(n)
      PROVE  IInv'
  BY <1>0, <1>5, CheckWeeklyLimitStep, CreateRewardIInv, FireRewardIInv
<1>6. CASE UNCHANGED vars
  <2>1. UNCHANGED <<scenario, handling, next, rows, tracked, week, everVerified>> /\ StoredInv'
    BY <1>6 DEF vars, IInv, StoredInv, Withdrawals
  <2> QED
    BY <1>0, <2>1, SameWeekIInv
<1> QED
  BY <1>1, <1>2, <1>3, <1>4, <1>5, <1>6 DEF Next, Handler, Fault

LEMMA SpecIInv == Spec => []IInv
BY InitIInv, NextIInv, PTL DEF Spec

-----------------------------------------------------------------------------
(* The properties *)

\* The variables fit together, whatever the polls, the handlers and the faults do.
THEOREM TypeCorrect == Spec => []TypeOK
<1>1. IInv => TypeOK
  BY RunIs DEF IInv, LInv, HandlersInv, StoredInv, RunsInv, GoodRun, TypeOK
<1> QED
  BY <1>1, SpecIInv, PTL

\* Every row is deserved: each of the four answers that a run of
\* inviteRewardConditionsAreMet has collected when it inserts was true when it
\* came, for any number of processes and whatever changed since.
THEOREM EveryRowIsDeserved == Spec => []RewardsAreDeserved
<1>1. IInv => RewardsAreDeserved
  BY DEF IInv
<1> QED
  BY <1>1, SpecIInv, PTL

\* The weekly limit is overrun by at most one row for every process but one: the
\* rows of the week and the runs that were let through by
\* inviterHasNotReachedWeeklyLimit never are more together.
THEOREM LimitIsNearlyKept == Spec => []WeeklyLimitOverrun
<1>1. IInv => WeeklyLimitOverrun
  BY DEF IInv
<1> QED
  BY <1>1, SpecIInv, PTL

\* No withdrawal that a process is done with disappears: it was rewarded, or its
\* invitee or phone number was, or handleWithdrawalEvent has tracked why not.
THEOREM NothingDisappears == Spec => []ConsumedIsAccountedFor
<1>1. IInv => ConsumedIsAccountedFor
  BY DEF IInv
<1> QED
  BY <1>1, SpecIInv, PTL
===============================================================================
