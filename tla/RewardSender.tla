----------------------------- MODULE RewardSender -----------------------------
(***************************************************************************)
(* Sending invite rewards: the RewardSenderService of several instances of *)
(* the rewards application, over one database.                             *)
(*   packages/apps/rewards/src/invite/rewardSender.service.ts              *)
(*   packages/apps/rewards/src/invite/inviteReward.service.ts (creation)   *)
(*   packages/apps/rewards/src/relayer/relayer_proxy.service.ts            *)
(*                                                                         *)
(* A reward is a row of invite_reward, unique per invitee.  It is paid by  *)
(* a transfer that a relayer sends; the relayer answers with the hash of   *)
(* the transfer, or the call times out.  Two cron jobs follow the hashes:  *)
(* checkWatchedInvites those this process remembers, checkFailedInvites    *)
(* the old unfinished rows, which it locks and sends once more.            *)
(*                                                                         *)
(* The relayer and the chain are external.  The k-th transfer asked of the *)
(* relayer for a reward stands for its hash; 0 is the null hash.  A call   *)
(* that times out leaves a transfer that the relayer may still send, before *)
(* or after whatever the application does next, or never.                  *)
(***************************************************************************)
EXTENDS Naturals, Sequences, FiniteSets

CONSTANTS
    Invites,     \* invitees: at most one row of invite_reward each
    Instances,   \* processes of the rewards application
    MaxInvitesPerQuery, \* MAX_INVITES_PER_QUERY
    MaxSends,    \* bound: transfers asked of the relayer for one reward
    Budget       \* bound: how often each fault may happen

\* What the environment may do:
\*   timeout   the relayer takes a call, but its answer does not arrive in time
\*   crash     a process restarts
\*   db        the update after a first send fails
\*   rollback  the transaction of checkFailedInvites does not commit
\*   replaced  the relayer dead-letters a transfer: it never has a receipt
Faults == {"timeout", "crash", "db", "rollback", "replaced"}

NoInstance == "none"

ASSUME SenderAssumption ==
    /\ MaxSends \in Nat \ {0}
    /\ MaxInvitesPerQuery \in Nat \ {0}
    /\ IsFiniteSet(Invites)
    /\ Budget \in [Faults -> Nat]
    /\ NoInstance \notin Instances

RewardStatus == {"Created", "Submitted", "Completed", "Failed", "DeadLettered"}
TxStatus == {"Abandoned", "Pending", "Completed", "Failed", "Replaced"}
NullHash == 0
Hashes == 0 .. MaxSends

VARIABLES
    rows,      \* invite |-> its row; state "none" while there is no row
    lock,      \* invite |-> the instance whose transaction has locked the row
    transfers, \* invite |-> status of the transfers asked of the relayer for it
    first,     \* invite |-> the sendInviteReward fired by handleWithdrawalEvent
    watched,   \* instance |-> this.watchedInvites
    checking,  \* instance |-> work of its checkWatchedInvites run
    retrying,  \* instance |-> its checkFailedInvites transaction
    faults     \* what is left of Budget

vars == <<rows, lock, transfers, first, watched, checking, retrying, faults>>

NoRow == [state |-> "none", hash |-> NullHash, old |-> FALSE]
NoSend == [st |-> "none", at |-> NoInstance, hash |-> NullHash]
NoRetry == [on |-> FALSE, items |-> {}]

Spend(f) == faults[f] > 0 /\ faults' = [faults EXCEPT ![f] = @ - 1]

\* Mutant of the next definition: the status of the receipt is not looked at.
getTxStatusAnyReceipt(i, k) ==
    IF transfers[i][k] \in {"Completed", "Failed"} THEN "Completed" ELSE "Pending"

\* getTxStatus: no receipt is Pending, also for a transfer that was replaced.
getTxStatus(i, k) ==
    IF transfers[i][k] \in {"Completed", "Failed"} THEN transfers[i][k] ELSE "Pending"

\* sendTxThroughRelayer.  The answer is a hash, or NullHash for any error:
\* refused by the relayer, or no answer in time: the timeout only wins the
\* race, and nobody looks at what the relayer does with the call.
Relay(i, answer) ==
    \/ /\ Len(transfers[i]) < MaxSends
       /\ \/ /\ answer = Len(transfers[i]) + 1
             /\ transfers' = [transfers EXCEPT ![i] = Append(@, "Pending")]
             /\ UNCHANGED faults
          \/ /\ answer = NullHash
             /\ transfers' = [transfers EXCEPT ![i] = Append(@, "Abandoned")]
             /\ Spend("timeout")
    \/ answer = NullHash /\ UNCHANGED <<transfers, faults>>

\* The row sendInviteReward writes after the relayer's answer.
Sent(row, answer, isRetry) ==
    IF answer # NullHash THEN [row EXCEPT !.state = "Submitted", !.hash = answer]
    ELSE [row EXCEPT !.state = IF isRetry THEN "DeadLettered" ELSE "Failed"]

\* Mutant of the next definition: a reward without a hash is watched too.
RememberedAlways(i, answer, isRetry) ==
    {[invite |-> i, hash |-> answer, markAsDeadLetterIfFailed |-> isRetry]}

\* What it remembers; markAsDeadLetterIfFailed is kept in memory only.
Remembered(i, answer, isRetry) ==
    IF answer = NullHash THEN {}
    ELSE {[invite |-> i, hash |-> answer, markAsDeadLetterIfFailed |-> isRetry]}

-----------------------------------------------------------------------------
(* The chain (external) *)

TransferSettles(i) ==
    /\ \E k \in DOMAIN transfers[i], s \in {"Completed", "Failed"} :
        /\ transfers[i][k] = "Pending"
        /\ transfers' = [transfers EXCEPT ![i][k] = s]
    /\ UNCHANGED <<rows, lock, first, watched, checking, retrying, faults>>

\* The relayer sends the transfer of a call that the application gave up.
LateTransfer(i) ==
    /\ \E k \in DOMAIN transfers[i] :
        /\ transfers[i][k] = "Abandoned"
        /\ transfers' = [transfers EXCEPT ![i][k] = "Pending"]
    /\ UNCHANGED <<rows, lock, first, watched, checking, retrying, faults>>

\* The relayer replaces a transfer that is not mined by a dead letter.
TransferReplaced(i) ==
    /\ Spend("replaced")
    /\ \E k \in DOMAIN transfers[i] :
        /\ transfers[i][k] = "Pending"
        /\ transfers' = [transfers EXCEPT ![i][k] = "Replaced"]
    /\ UNCHANGED <<rows, lock, first, watched, checking, retrying>>

-----------------------------------------------------------------------------
(* First send *)

\* createInviteReward: a second row for the invitee violates the unique
\* constraint.  The send is fired without waiting for it.
CreateReward(n, i) ==
    /\ rows[i].state = "none"
    /\ rows' = [rows EXCEPT ![i].state = "Created"]
    /\ first' = [first EXCEPT ![i] = [NoSend EXCEPT !.st = "relay", !.at = n]]
    /\ UNCHANGED <<lock, transfers, watched, checking, retrying, faults>>

FirstRelayed(i) ==
    /\ first[i].st = "relay"
    /\ \E answer \in Hashes :
        /\ Relay(i, answer)
        /\ first' = [first EXCEPT ![i] = [@ EXCEPT !.st = "update", !.hash = answer]]
    /\ UNCHANGED <<rows, lock, watched, checking, retrying>>

\* repository.update, then watchedInvites.add.  The update waits for the row.
FirstRecorded(i) ==
    /\ first[i].st = "update" /\ lock[i] = NoInstance
    /\ rows' = [rows EXCEPT ![i] = Sent(@, first[i].hash, FALSE)]
    /\ watched' = [watched EXCEPT ![first[i].at] = @ \cup Remembered(i, first[i].hash, FALSE)]
    /\ first' = [first EXCEPT ![i] = NoSend]
    /\ UNCHANGED <<lock, transfers, checking, retrying, faults>>

\* The update is rejected; nobody handles the rejection.
FirstNotRecorded(i) ==
    /\ first[i].st = "update" /\ Spend("db")
    /\ first' = [first EXCEPT ![i] = NoSend]
    /\ UNCHANGED <<rows, lock, transfers, watched, checking, retrying>>

\* The row becomes older than 30 minutes.  A first send is over long before:
\* its relayer call is cut after relayerRpcTimeoutMs.
Ages(i) ==
    /\ rows[i].state # "none" /\ ~rows[i].old /\ first[i].st = "none"
    /\ rows' = [rows EXCEPT ![i].old = TRUE]
    /\ UNCHANGED <<lock, transfers, first, watched, checking, retrying, faults>>

-----------------------------------------------------------------------------
(* checkWatchedInvites, every second, one run at a time per process.  The   *)
(* run asks for every watched hash in parallel and then updates the row.    *)

CheckWatched(n) ==
    /\ checking[n] = {} /\ watched[n] # {}
    /\ checking' = [checking EXCEPT ![n] = {[w |-> w, status |-> "ask"] : w \in watched[n]}]
    /\ UNCHANGED <<rows, lock, transfers, first, watched, retrying, faults>>

WatchedStatus(n) ==
    /\ \E c \in checking[n] :
        /\ c.status = "ask"
        /\ LET s == getTxStatus(c.w.invite, c.w.hash) IN
            checking' = [checking EXCEPT ![n] =
                (@ \ {c}) \cup (IF s = "Pending" THEN {} ELSE {[c EXCEPT !.status = s]})]
    /\ UNCHANGED <<rows, lock, transfers, first, watched, retrying, faults>>

\* The update by id does not look at the state or the hash of the row.
WatchedUpdate(n) ==
    /\ \E c \in checking[n] :
        /\ c.status # "ask" /\ lock[c.w.invite] = NoInstance
        /\ rows' = [rows EXCEPT ![c.w.invite].state =
                        IF c.status = "Completed" THEN "Completed"
                        ELSE IF c.w.markAsDeadLetterIfFailed THEN "DeadLettered"
                        ELSE "Failed"]
        /\ watched' = [watched EXCEPT ![n] = @ \ {c.w}]
        /\ checking' = [checking EXCEPT ![n] = @ \ {c}]
    /\ UNCHANGED <<lock, transfers, first, retrying, faults>>

-----------------------------------------------------------------------------
(* checkFailedInvites, every minute, one run at a time per process.         *)

\* Mutant of the next definition: failed rewards are not selected.
UnfinishedNotFailed(row) == row.state \in {"Created", "Submitted"} /\ row.old

\* Mutant of the next definition: young rows are selected as well.
UnfinishedAnyAge(row) == row.state \in {"Created", "Submitted", "Failed"}

Unfinished(row) == row.state \in {"Created", "Submitted", "Failed"} /\ row.old

\* Mutant of the next definition: the rows are selected without a lock.
CheckFailedUnlocked(n) ==
    /\ ~retrying[n].on
    /\ LET selected == {i \in Invites : Unfinished(rows[i])} IN
        /\ selected # {}
        /\ retrying' = [retrying EXCEPT ![n] =
            [on |-> TRUE, items |-> {[invite |-> i, st |-> "ask", row |-> rows[i]] : i \in selected}]]
    /\ UNCHANGED <<rows, lock, transfers, first, watched, checking, faults>>

\* SELECT ... LIMIT ... FOR UPDATE NOWAIT, in no particular order: a selected
\* row that another process has locked makes the whole query fail, and the run
\* ends without doing anything.
CheckFailed(n) ==
    /\ ~retrying[n].on
    /\ \E selected \in SUBSET {i \in Invites : Unfinished(rows[i])} :
        /\ selected # {} /\ \A i \in selected : lock[i] = NoInstance
        /\ \/ Cardinality(selected) = MaxInvitesPerQuery
           \/ /\ Cardinality(selected) < MaxInvitesPerQuery
              /\ selected = {i \in Invites : Unfinished(rows[i])}
        /\ lock' = [i \in Invites |-> IF i \in selected THEN n ELSE lock[i]]
        /\ retrying' = [retrying EXCEPT ![n] =
            [on |-> TRUE, items |-> {[invite |-> i, st |-> "ask", row |-> rows[i]] : i \in selected}]]
    /\ UNCHANGED <<rows, transfers, first, watched, checking, faults>>

ReplaceItem(n, x, y) == [retrying EXCEPT ![n].items = (@ \ {x}) \cup {y}]

\* Mutant of the next definition: a transfer without a receipt counts as failed.
RetryStatusPendingFails(n) ==
    /\ \E x \in retrying[n].items :
        /\ x.st = "ask"
        /\ retrying' = ReplaceItem(n, x,
                IF x.row.hash # NullHash /\ getTxStatus(x.invite, x.row.hash) = "Completed"
                THEN [x EXCEPT !.st = "done", !.row.state = "Completed"]
                ELSE [x EXCEPT !.st = "relay"])
    /\ UNCHANGED <<rows, lock, transfers, first, watched, checking, faults>>

\* Without a hash the reward counts as failed.
RetryStatus(n) ==
    /\ \E x \in retrying[n].items :
        /\ x.st = "ask"
        /\ LET s == IF x.row.hash = NullHash THEN "Failed"
                    ELSE getTxStatus(x.invite, x.row.hash)
           IN retrying' = ReplaceItem(n, x,
                CASE s = "Completed" -> [x EXCEPT !.st = "done", !.row.state = "Completed"]
                  [] s = "Failed"    -> [x EXCEPT !.st = "relay"]
                  [] s = "Pending"   -> [x EXCEPT !.st = "done"])
    /\ UNCHANGED <<rows, lock, transfers, first, watched, checking, faults>>

RetryRelayed(n) ==
    /\ \E x \in retrying[n].items, answer \in Hashes :
        /\ x.st = "relay"
        /\ Relay(x.invite, answer)
        /\ retrying' = ReplaceItem(n, x, [x EXCEPT !.st = "update", !.row = Sent(@, answer, TRUE)])
    /\ UNCHANGED <<rows, lock, first, watched, checking>>

\* The update inside the transaction, and the hash remembered before it commits.
RetryRecorded(n) ==
    /\ \E x \in retrying[n].items :
        /\ x.st = "update"
        /\ retrying' = ReplaceItem(n, x, [x EXCEPT !.st = "done"])
        /\ watched' = [watched EXCEPT ![n] = @ \cup
            Remembered(x.invite, IF x.row.state = "Submitted" THEN x.row.hash ELSE NullHash, TRUE)]
    /\ UNCHANGED <<rows, lock, transfers, first, checking, faults>>

Unlocked(n) == [i \in Invites |-> IF lock[i] = n THEN NoInstance ELSE lock[i]]

\* The transaction ends: its updates become visible, or are undone.
RetryCommits(n) ==
    /\ retrying[n].on /\ \A x \in retrying[n].items : x.st = "done"
    /\ rows' = [i \in Invites |->
                    IF \E x \in retrying[n].items : x.invite = i
                    THEN (CHOOSE x \in retrying[n].items : x.invite = i).row ELSE rows[i]]
    /\ lock' = Unlocked(n)
    /\ retrying' = [retrying EXCEPT ![n] = NoRetry]
    /\ UNCHANGED <<transfers, first, watched, checking, faults>>

\* An error on the way, or at the commit; what was sent and remembered stays.
RetryRollsBack(n) ==
    /\ retrying[n].on /\ Spend("rollback")
    /\ lock' = Unlocked(n)
    /\ retrying' = [retrying EXCEPT ![n] = NoRetry]
    /\ UNCHANGED <<rows, transfers, first, watched, checking>>

-----------------------------------------------------------------------------
\* A process restarts: what it remembered and was doing is lost, its database
\* transaction is rolled back.
Restart(n) ==
    /\ Spend("crash")
    /\ first' = [i \in Invites |-> IF first[i].at = n THEN NoSend ELSE first[i]]
    /\ watched' = [watched EXCEPT ![n] = {}]
    /\ checking' = [checking EXCEPT ![n] = {}]
    /\ retrying' = [retrying EXCEPT ![n] = NoRetry]
    /\ lock' = Unlocked(n)
    /\ UNCHANGED <<rows, transfers>>

Init ==
    /\ rows = [i \in Invites |-> NoRow]
    /\ lock = [i \in Invites |-> NoInstance]
    /\ transfers = [i \in Invites |-> <<>>]
    /\ first = [i \in Invites |-> NoSend]
    /\ watched = [n \in Instances |-> {}]
    /\ checking = [n \in Instances |-> {}]
    /\ retrying = [n \in Instances |-> NoRetry]
    /\ faults = Budget

Watcher(n) == CheckWatched(n) \/ WatchedStatus(n) \/ WatchedUpdate(n)

Retrier(n) ==
    \/ CheckFailed(n) \/ RetryStatus(n) \/ RetryRelayed(n) \/ RetryRecorded(n)
    \/ RetryCommits(n) \/ RetryRollsBack(n)

FirstSend(i) == FirstRelayed(i) \/ FirstRecorded(i) \/ FirstNotRecorded(i)

Next ==
    \/ \E i \in Invites :
        \/ TransferSettles(i) \/ LateTransfer(i) \/ TransferReplaced(i)
        \/ Ages(i) \/ FirstSend(i)
        \/ \E n \in Instances : CreateReward(n, i)
    \/ \E n \in Instances : Watcher(n) \/ Retrier(n) \/ Restart(n)

Spec == Init /\ [][Next]_vars

\* Cron jobs that run, a node that answers and mines, database locks that are
\* released and granted: a blocked update gets the row when it is free again
\* and again, because the database queues the waiters.
Fairness ==
    /\ \A i \in Invites :
        /\ WF_vars(TransferSettles(i)) /\ WF_vars(Ages(i))
        /\ WF_vars(FirstRelayed(i)) /\ SF_vars(FirstRecorded(i))
    /\ \A n \in Instances :
        /\ WF_vars(CheckWatched(n)) /\ WF_vars(WatchedStatus(n)) /\ SF_vars(WatchedUpdate(n))
        /\ WF_vars(RetryStatus(n)) /\ WF_vars(RetryRelayed(n))
        /\ WF_vars(RetryRecorded(n)) /\ WF_vars(RetryCommits(n))
    /\ WF_vars(\E n \in Instances : CheckFailed(n))

LiveSpec == Spec /\ Fairness

-----------------------------------------------------------------------------
(* Properties *)

Watched == [invite : Invites, hash : 1 .. MaxSends, markAsDeadLetterIfFailed : BOOLEAN]
Rows == [state : RewardStatus \cup {"none"}, hash : Hashes, old : BOOLEAN]

\* Every variable has its type.
TypeOK ==
    /\ rows \in [Invites -> Rows]
    /\ lock \in [Invites -> Instances \cup {NoInstance}]
    /\ transfers \in [Invites -> Seq(TxStatus)]
    /\ first \in [Invites -> [st : {"none", "relay", "update"},
                              at : Instances \cup {NoInstance}, hash : Hashes]]
    /\ watched \in [Instances -> SUBSET Watched]
    /\ checking \in [Instances -> SUBSET [w : Watched, status : {"ask", "Completed", "Failed"}]]
    /\ retrying \in [Instances -> [on : BOOLEAN,
            items : SUBSET [invite : Invites, st : {"ask", "relay", "update", "done"}, row : Rows]]]
    /\ faults \in [Faults -> Nat]

Paid(i) == {k \in DOMAIN transfers[i] : transfers[i][k] = "Completed"}

\* A row is only marked Completed when the inviter has been paid, whichever
\* of the concurrent jobs wrote last.  (checkWatchedInvites, checkFailedInvites)
CompletedIsPaid == \A i \in Invites : rows[i].state = "Completed" => Paid(i) # {}

\* While a row records a hash, the relayer is asked for no further transfer
\* for the reward unless that one has failed: the row lock keeps the hash read
\* at the start of checkFailedInvites current until it sends.
ResendOnlyAfterFailure ==
    [][\A i \in Invites :
        Len(transfers'[i]) > Len(transfers[i]) /\ rows[i].hash # NullHash
        => transfers[i][rows[i].hash] = "Failed"]_vars

\* packages/apps/rewards/README.md:4 "These rewards are recorded in a database
\* to avoid double spending": a reward is paid at most once.
NoDoubleReward == \A i \in Invites : Cardinality(Paid(i)) =< 1

\* No answer of the relayer and no write has been lost so far.
Lossless == \A f \in Faults \ {"replaced"} : faults[f] = Budget[f]

\* It is, with two processes that race for the rows, unless the hash of a
\* transfer is lost between the relayer's answer and the commit.
\* (sendInviteReward, checkFailedInvites)
DoubleRewardNeedsLoss == Lossless => NoDoubleReward

\* Rewards with a transfer the relayer replaced: it never has a receipt.
Stuck == {i \in Invites : \E k \in DOMAIN transfers[i] : transfers[i][k] = "Replaced"}

\* rewardSender.service.ts:42 "until they succeed and get marked as completed
\* or they fail": every reward reaches a final state and stays there, except
\* that one with a replaced transfer may be asked for for ever; and as long as
\* these are fewer than a query returns, they hold up no other reward.
\* (checkWatchedInvites, checkFailedInvites, MAX_INVITES_PER_QUERY)
RewardIsSettled ==
    <>[](\A i \in Invites :
            \/ rows[i].state \in {"none", "Completed", "DeadLettered"}
            \/ i \in Stuck \/ Cardinality(Stuck) >= MaxInvitesPerQuery)

\* In full: however the processes race for the rows, one attempt to pay a
\* reward is made at a time, and none after the reward is paid.  The payment is
\* implemented step by step until an answer or a write has been lost.
\* (sendInviteReward, checkFailedInvites, getTxStatus)
PaymentState(i) ==
    IF Paid(i) # {} THEN "paid"
    ELSE IF \A k \in DOMAIN transfers[i] : transfers[i][k] = "Failed" THEN "due"
    ELSE "underway"
Payment == INSTANCE RewardPayment WITH
    Rewards <- Invites, state <- [i \in Invites |-> PaymentState(i)],
    attempts <- [i \in Invites |-> Len(transfers[i])]
ImplementsPayment == Payment!Init /\ [][Lossless => Payment!Step]_vars
===============================================================================
