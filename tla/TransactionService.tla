-------------------------- MODULE TransactionService --------------------------
(***************************************************************************)
(* The relayer's transaction service:                                      *)
(*   packages/apps/relayer/src/chain/transaction.service.ts                *)
(*                                                                         *)
(* One relayer account submits transactions for many concurrent callers.   *)
(* The service hands out nonces from memory under a mutex, watches every   *)
(* transaction it sent, and replaces ("dead-letters") the ones that stay   *)
(* unmined with a dummy transaction of the same nonce and a higher price.  *)
(*                                                                         *)
(* The node, its pool and the chain are external: they are modelled from   *)
(* the answers the service distinguishes.  A transaction is identified     *)
(* with its hash, because signing is deterministic: equal nonce, price     *)
(* and content give the equal hash.  Gas prices are levels of a            *)
(* logarithmic scale: one level is the factor 1.4 of a dead letter, so     *)
(* that a price multiplied is a level added to.                            *)
(***************************************************************************)
EXTENDS Naturals, FiniteSets, FiniteSetsExt

CONSTANTS
    Calls,              \* submitTransaction requests
    Runs,               \* checkTransactions runs that may overlap
    Tries,              \* tries of the @retry decorators
    MaxNonce,           \* bound: nonces of the account are below it
    TopLevel,           \* bound: highest price level of a transaction
    TopMinimum,         \* bound: highest gas price minimum of the network
    MultiplierLevels,   \* appCfg.gasPriceMultiplier, in levels
    MaxGasPrice,        \* appCfg.maxGasPrice
    GasPriceFallback,   \* appCfg.gasPriceFallback
    Budget              \* bound: how often each fault may happen

\* What the environment may do to the service:
\*   lost     the node accepts a transaction, its answer does not arrive
\*   refused  a send fails for a reason the code does not distinguish
\*   rpc      a read from the node fails, or has no receipt yet
\*   lookup   txpool_content fails while the service starts
\*   drop     the node forgets a pooled transaction
\*   crash    the process restarts
\*   odis     the ODIS service replenishes its quota from the same account
Faults == {"lost", "refused", "rpc", "lookup", "drop", "crash", "odis"}

ASSUME BoundsAssumption ==
    /\ Tries \in Nat \ {0}
    /\ MaxNonce \in Nat
    /\ TopMinimum \in Nat \ {0}
    /\ MultiplierLevels \in Nat
    /\ TopLevel \in Nat \ {0}
    /\ MaxGasPrice \in 1 .. TopLevel
    /\ GasPriceFallback \in 1 .. TopLevel
    /\ TopMinimum =< TopLevel
    /\ Budget \in [Faults -> Nat]

\* Who wrote a transaction: a caller, the dead-letter code, the ODIS service.
\* The three are told apart because their content, hence their hash, differs.
DeadLetter == "deadLetter"
Odis == "odis"

ASSUME OriginAssumption == {DeadLetter, Odis} \cap Calls = {}

Levels == 1 .. TopLevel
Nonces == 0 .. (MaxNonce - 1)
Tx == [nonce : Nonces, price : Levels, from : Calls \cup {DeadLetter, Odis}]
NoLock == "free"
NoPrice == 0
NoNonce == MaxNonce + 1

ASSUME LockAssumption == NoLock \notin Calls

VARIABLES
    \* the chain, as the node sees it (external)
    mined,      \* number of mined transactions of the account: its next nonce
    ledger,     \* the mined transactions themselves
    pool,       \* transactions in the node's pool, at most one per nonce
    minPrice,   \* gas price minimum of the network
    \* the service
    phase,      \* the next await of onModuleInit, then "up"
    nonce,      \* this.nonce
    gasPrice,   \* this.gasPrice
    nonceLock,  \* this.nonceLock: the call that holds it, or NoLock
    watched,    \* this.watchedTransactions and this.transactions: tx |-> gasPrice
    gasTimer,   \* the minimum read by the gas price timer, not yet applied
    calls,      \* submitTransaction calls
    runs,       \* checkTransactions runs
    \* the others
    odis,       \* the nonce replenishQuota is about to use, or NoNonce
    faults      \* what is left of Budget

chainVars == <<mined, ledger, pool, minPrice>>
serviceVars == <<phase, nonce, gasPrice, nonceLock, watched, gasTimer>>
vars == <<mined, ledger, pool, minPrice, phase, nonce, gasPrice, nonceLock, watched,
          gasTimer, calls, runs, odis, faults>>

-----------------------------------------------------------------------------
(* The node *)

Pooled(n) == \E t \in pool : t.nonce = n

\* eth_getTransactionCount(account, "pending"): the first nonce that is
\* neither mined nor pooled.
PendingNonce == Min({n \in mined .. MaxNonce : ~Pooled(n)})

\* What the node answers to a transaction, the strings the service matches.
NodeAnswer(t) ==
    IF t.nonce < mined THEN "nonce too low"
    ELSE IF t.price < minPrice THEN "price below minimum"
    ELSE IF \E p \in pool : p.nonce = t.nonce /\ t.price =< p.price THEN "other"
    ELSE "ok"

Accept(t) == pool' = {p \in pool : p.nonce # t.nonce} \cup {t}

Spend(f) == faults[f] > 0 /\ faults' = [faults EXCEPT ![f] = @ - 1]

\* The node receives t; answer is what the sender will see.
Deliver(t, answer) ==
    \/ /\ answer = NodeAnswer(t)
       /\ IF answer = "ok" THEN Accept(t) ELSE pool' = pool
       /\ UNCHANGED faults
    \/ /\ answer = "other" /\ NodeAnswer(t) = "ok"
       /\ Accept(t) /\ Spend("lost")
    \/ /\ answer = "other"
       /\ pool' = pool /\ Spend("refused")

Answers == {"ok", "nonce too low", "price below minimum", "other"}

\* A block takes the account's next transaction if it pays enough.
Mine ==
    /\ \E t \in pool :
        /\ t.nonce = mined /\ t.price >= minPrice
        /\ pool' = pool \ {t}
        /\ ledger' = ledger \cup {t}
    /\ mined' = mined + 1
    /\ UNCHANGED <<minPrice, serviceVars, calls, runs, odis, faults>>

\* The pool forgets a transaction (eviction, node restart).  Bound: not one
\* at the highest level, which no dead letter could outbid in the model.
Drop ==
    /\ Spend("drop")
    /\ \E t \in pool : t.price < TopLevel /\ pool' = pool \ {t}
    /\ UNCHANGED <<mined, ledger, minPrice, serviceVars, calls, runs, odis>>

MinimumChanges ==
    /\ \E p \in 1 .. TopMinimum : p # minPrice /\ minPrice' = p
    /\ UNCHANGED <<mined, ledger, pool, serviceVars, calls, runs, odis, faults>>

-----------------------------------------------------------------------------
(* watchTransaction, unwatchTransaction, updateGasPrice *)

WatchIn(w, t, price) ==
    [x \in DOMAIN w \cup {t} |-> IF x = t THEN price ELSE w[x]]

UnwatchIn(w, ts) == [x \in DOMAIN w \ ts |-> w[x]]

\* The price the service pays when the network's minimum is m.
PriceFor(m) == Min({m + MultiplierLevels, MaxGasPrice})

\* updateGasPrice awaited by another handler: a failed read is logged and
\* keeps the price (which is never zero).
UpdateGasPrice ==
    \/ gasPrice' = PriceFor(minPrice) /\ UNCHANGED faults
    \/ Spend("rpc") /\ UNCHANGED gasPrice

\* updateGasPrice called by its timer: the read and the assignment are an
\* await apart, so an older minimum may be applied after a newer one.
GasTimerReads ==
    /\ phase = "up" /\ gasTimer = NoPrice
    /\ gasTimer' = minPrice
    /\ UNCHANGED <<chainVars, phase, nonce, gasPrice, nonceLock, watched,
                   calls, runs, odis, faults>>

GasTimerApplies ==
    /\ phase = "up" /\ gasTimer # NoPrice
    /\ \/ gasPrice' = PriceFor(gasTimer) /\ UNCHANGED faults
       \/ Spend("rpc") /\ UNCHANGED gasPrice
    /\ gasTimer' = NoPrice
    /\ UNCHANGED <<chainVars, phase, nonce, nonceLock, watched, calls, runs, odis>>

-----------------------------------------------------------------------------
(* submitTransaction.  A call is                                           *)
(*   "new"     not received;         "lock"   wants the lock to send        *)
(*   "reply"   holds the lock, the node has received tx                     *)
(*   "resync"  wants the lock for updateNonce                               *)
(*   "nonce"   holds the lock, the node answered count                      *)
(*   "ok", "err"  answered;          "gone"   the process died under it     *)

NoTx == [nonce |-> 0, price |-> 0, from |-> Odis]
NewCall == [st |-> "new", try |-> 1, tx |-> NoTx, answer |-> "other", count |-> 0]

Submit(c) ==
    /\ phase = "up" /\ calls[c].st = "new"
    /\ calls' = [calls EXCEPT ![c].st = "lock"]
    /\ UNCHANGED <<chainVars, serviceVars, runs, odis, faults>>

\* Mutant of the next definition: the lock is not taken.
SubmitSendsUnlocked(c) ==
    /\ phase = "up" /\ calls[c].st = "lock" /\ nonce < MaxNonce
    /\ nonceLock' = nonceLock
    /\ LET t == [nonce |-> nonce, price |-> gasPrice, from |-> c] IN
        \E a \in Answers :
            /\ Deliver(t, a)
            /\ calls' = [calls EXCEPT ![c] =
                            [@ EXCEPT !.st = "reply", !.tx = t, !.answer = a]]
    /\ UNCHANGED <<mined, ledger, minPrice, phase, nonce, gasPrice, watched, gasTimer,
                   runs, odis>>

\* nonceLock acquired; sendTransaction(tx, this.gasPrice, this.nonce).
SubmitSends(c) ==
    /\ phase = "up" /\ calls[c].st = "lock"
    /\ nonceLock = NoLock /\ nonceLock' = c
    /\ nonce < MaxNonce
    /\ LET t == [nonce |-> nonce, price |-> gasPrice, from |-> c] IN
        \E a \in Answers :
            /\ Deliver(t, a)
            /\ calls' = [calls EXCEPT ![c] =
                            [@ EXCEPT !.st = "reply", !.tx = t, !.answer = a]]
    /\ UNCHANGED <<mined, ledger, minPrice, phase, nonce, gasPrice, watched, gasTimer,
                   runs, odis>>

\* @retry: another attempt of a call that got an error, unless it was the last.
Retried(call) ==
    IF call.try = Tries THEN [NewCall EXCEPT !.st = "err"]
    ELSE [NewCall EXCEPT !.st = "lock", !.try = call.try + 1]

\* The send resolved: the nonce is used up, the lock released, and the hash
\* watched with the price this.gasPrice has by now.
SubmitAccepted(c) ==
    /\ phase = "up" /\ calls[c].st = "reply" /\ calls[c].answer = "ok"
    /\ nonce' = nonce + 1
    /\ nonceLock' = NoLock
    /\ watched' = WatchIn(watched, calls[c].tx, gasPrice)
    /\ calls' = [calls EXCEPT ![c] = [NewCall EXCEPT !.st = "ok", !.tx = calls[c].tx]]
    /\ UNCHANGED <<chainVars, phase, gasPrice, gasTimer, runs, odis, faults>>

\* The send failed: the lock is released, then the error is classified.
SubmitFailed(c) ==
    /\ phase = "up" /\ calls[c].st = "reply" /\ calls[c].answer # "ok"
    /\ nonceLock' = NoLock
    /\ \/ /\ calls[c].answer = "price below minimum"
          /\ UpdateGasPrice
          /\ calls' = [calls EXCEPT ![c] = Retried(@)]
       \/ /\ calls[c].answer = "nonce too low"
          /\ calls' = [calls EXCEPT ![c] = [NewCall EXCEPT !.st = "resync", !.try = calls[c].try]]
          /\ UNCHANGED <<gasPrice, faults>>
       \/ /\ calls[c].answer = "other"
          /\ calls' = [calls EXCEPT ![c] = Retried(@)]
          /\ UNCHANGED <<gasPrice, faults>>
    /\ UNCHANGED <<chainVars, phase, nonce, watched, gasTimer, runs, odis>>

\* updateNonce: the lock again, then the node's pending count.
ResyncReads(c) ==
    /\ phase = "up" /\ calls[c].st = "resync"
    /\ nonceLock = NoLock /\ nonceLock' = c
    /\ calls' = [calls EXCEPT ![c] = [@ EXCEPT !.st = "nonce", !.count = PendingNonce]]
    /\ UNCHANGED <<chainVars, phase, nonce, gasPrice, watched, gasTimer, runs,
                   odis, faults>>

ResyncApplies(c) ==
    /\ phase = "up" /\ calls[c].st = "nonce"
    /\ nonce' = calls[c].count
    /\ nonceLock' = NoLock
    /\ calls' = [calls EXCEPT ![c] = Retried(@)]
    /\ UNCHANGED <<chainVars, phase, gasPrice, watched, gasTimer, runs, odis, faults>>

\* updateNonce fails: the rejection leaves submitTransaction as it is thrown,
\* past @retry, which only handles returned errors.
ResyncFails(c) ==
    /\ phase = "up" /\ calls[c].st = "nonce"
    /\ Spend("rpc")
    /\ nonceLock' = NoLock
    /\ calls' = [calls EXCEPT ![c] = [NewCall EXCEPT !.st = "err"]]
    /\ UNCHANGED <<chainVars, phase, nonce, gasPrice, watched, gasTimer, runs, odis>>

-----------------------------------------------------------------------------
(* checkTransactions.  Its timer does not wait for the previous run, so     *)
(* runs overlap.  A run is                                                  *)
(*   "idle"       not started                                               *)
(*   "summaries"  awaits getTxSummaries of items, taken from the watch list *)
(*   "balance"    awaits balanceService.logBalance                          *)
(*   "low", "expired"  awaits the deadLetter tasks of that reason, then the *)
(*                next ones, then the receipts of completed                 *)

Idle == [st |-> "idle", items |-> {}, low |-> {}, expired |-> {},
         completed |-> {}, tasks |-> {}]

Item(t) == [tx |-> t, cached |-> watched[t]]
Task(item) == [tx |-> item.tx, cached |-> item.cached, st |-> "send",
               try |-> 1, answer |-> "other", new |-> NoTx]

\* With nothing watched a run has no effect, and is left out.
CheckStarts(r) ==
    /\ phase = "up" /\ runs[r].st = "idle" /\ DOMAIN watched # {}
    /\ runs' = [runs EXCEPT ![r] =
        [Idle EXCEPT !.st = "summaries", !.items = {Item(t) : t \in DOMAIN watched}]]
    /\ UNCHANGED <<chainVars, serviceVars, calls, odis, faults>>

hasGasTooLow(item) == item.cached < gasPrice

\* isExpired: a transaction that is not mined may have outlived its timeout.
\* Bound: not one at the highest level, which no dead letter could outbid.
isExpired(item) == item.cached < TopLevel
\* Mutant of the next definition: a transaction the node forgot never expires.
ExpirableKnown(items) == {i \in items : isExpired(i) /\ i.tx \in pool}

Expirable(items) == {i \in items : isExpired(i)}

\* The dead letters of gasTooLow start; those of expired will follow.
StartDeadLetters(run, expired) ==
    [run EXCEPT !.st = "low", !.items = {}, !.low = {}, !.expired = expired,
                !.tasks = {Task(i) : i \in run.low}]

\* getTxSummaries resolves; gasTooLow and completed are filtered at once, and
\* without completed transactions there is no await before the expired filter.
\* items keeps the ones that are not mined (tx.blockHash is null, or no tx).
CheckSummaries(r, timedOut) ==
    /\ phase = "up" /\ runs[r].st = "summaries"
    /\ LET unmined == {i \in runs[r].items : i.tx \notin ledger}
           run == [runs[r] EXCEPT
                     !.items = unmined,
                     !.low = {i \in unmined : hasGasTooLow(i)},
                     !.completed = {i.tx : i \in runs[r].items \ unmined}]
       IN  runs' = [runs EXCEPT ![r] =
                        IF run.completed # {} THEN [run EXCEPT !.st = "balance"]
                        ELSE StartDeadLetters(run, Expirable(unmined) \cap timedOut)]
    /\ UNCHANGED <<chainVars, serviceVars, calls, odis, faults>>

CheckBalance(r, timedOut) ==
    /\ phase = "up" /\ runs[r].st = "balance"
    /\ runs' = [runs EXCEPT ![r] =
                    StartDeadLetters(@, Expirable(@.items) \cap timedOut)]
    /\ UNCHANGED <<chainVars, serviceVars, calls, odis, faults>>

CheckExpired(r) ==
    /\ phase = "up" /\ runs[r].st = "low" /\ runs[r].tasks = {}
    /\ runs' = [runs EXCEPT ![r] = [@ EXCEPT !.st = "expired", !.expired = {},
                                     !.tasks = {Task(i) : i \in runs[r].expired}]]
    /\ UNCHANGED <<chainVars, serviceVars, calls, odis, faults>>

\* withReceipts resolves and finalizeTransaction unwatches every completed
\* transaction, except those whose receipt the node does not have yet.
CheckFinalizes(r) ==
    /\ phase = "up" /\ runs[r].st = "expired" /\ runs[r].tasks = {}
    /\ \/ watched' = UnwatchIn(watched, runs[r].completed) /\ UNCHANGED faults
       \/ /\ Spend("rpc")
          /\ \E noReceipt \in runs[r].completed :
                watched' = UnwatchIn(watched, runs[r].completed \ {noReceipt})
    /\ runs' = [runs EXCEPT ![r] = Idle]
    /\ UNCHANGED <<chainVars, phase, nonce, gasPrice, nonceLock, gasTimer, calls, odis>>

\* A rejected getTxSummaries, logBalance or withReceipts ends the run there.
CheckAborts(r) ==
    /\ phase = "up"
    /\ \/ runs[r].st \in {"summaries", "balance"}
       \/ runs[r].st = "expired" /\ runs[r].tasks = {} /\ runs[r].completed # {}
    /\ Spend("rpc")
    /\ runs' = [runs EXCEPT ![r] = Idle]
    /\ UNCHANGED <<chainVars, serviceVars, calls, odis>>

-----------------------------------------------------------------------------
(* deadLetter, one task per transaction; outside the nonce lock.            *)

ReplaceTask(r, k, new) == [runs EXCEPT ![r].tasks = (@ \ {k}) \cup new]

\* Mutant of the next definition: one try too many.
RetriedTaskOnceMore(k) ==
    IF k.try > Tries THEN {}
    ELSE {[k EXCEPT !.st = "send", !.try = @ + 1, !.answer = "other", !.new = NoTx]}

\* @retry with bailOnErrorTypes: none after NonceTooLow.
RetriedTask(k) ==
    IF k.try = Tries THEN {}
    ELSE {[k EXCEPT !.st = "send", !.try = @ + 1, !.answer = "other", !.new = NoTx]}

DeadLetterSends(r) ==
    /\ phase = "up"
    /\ \E k \in runs[r].tasks, a \in Answers :
        LET t == [nonce |-> k.tx.nonce, price |-> Max({k.cached + 1, gasPrice}),
                  from |-> DeadLetter]
        IN  /\ k.st = "send"
            /\ Deliver(t, a)
            /\ runs' = ReplaceTask(r, k, {[k EXCEPT !.st = "reply", !.answer = a, !.new = t]})
    /\ UNCHANGED <<mined, ledger, minPrice, serviceVars, calls, odis>>

\* Mutant of the next definition: the dead letter is not watched.
DeadLetterAcceptedUnwatched(r) ==
    /\ phase = "up"
    /\ \E k \in runs[r].tasks :
        /\ k.st = "reply" /\ k.answer = "ok"
        /\ watched' = UnwatchIn(watched, {k.tx})
        /\ runs' = ReplaceTask(r, k, {})
    /\ UNCHANGED <<chainVars, phase, nonce, gasPrice, nonceLock, gasTimer, calls,
                   odis, faults>>

\* The dead letter is in the pool: it takes the place of the transaction.
DeadLetterAccepted(r) ==
    /\ phase = "up"
    /\ \E k \in runs[r].tasks :
        /\ k.st = "reply" /\ k.answer = "ok"
        /\ watched' = WatchIn(UnwatchIn(watched, {k.tx}), k.new, k.new.price)
        /\ runs' = ReplaceTask(r, k, {})
    /\ UNCHANGED <<chainVars, phase, nonce, gasPrice, nonceLock, gasTimer, calls,
                   odis, faults>>

\* "nonce too low": something of that nonce was mined, nothing left to watch.
DeadLetterTooLate(r) ==
    /\ phase = "up"
    /\ \E k \in runs[r].tasks :
        /\ k.st = "reply" /\ k.answer = "nonce too low"
        /\ watched' = UnwatchIn(watched, {k.tx})
        /\ runs' = ReplaceTask(r, k, {})
    /\ UNCHANGED <<chainVars, phase, nonce, gasPrice, nonceLock, gasTimer, calls,
                   odis, faults>>

\* Mutant of the next definition: every error unwatches the transaction.
DeadLetterFailedUnwatches(r) ==
    /\ phase = "up"
    /\ \E k \in runs[r].tasks :
        /\ k.st = "reply"
        /\ \/ k.answer = "price below minimum" /\ UpdateGasPrice
           \/ k.answer = "other" /\ UNCHANGED <<gasPrice, faults>>
        /\ watched' = UnwatchIn(watched, {k.tx})
        /\ runs' = ReplaceTask(r, k, RetriedTask(k))
    /\ UNCHANGED <<chainVars, phase, nonce, nonceLock, gasTimer, calls, odis>>

\* Any other error leaves the watch list alone.
DeadLetterFailed(r) ==
    /\ phase = "up"
    /\ \E k \in runs[r].tasks :
        /\ k.st = "reply"
        /\ \/ k.answer = "price below minimum" /\ UpdateGasPrice
           \/ k.answer = "other" /\ UNCHANGED <<gasPrice, faults>>
        /\ runs' = ReplaceTask(r, k, RetriedTask(k))
    /\ UNCHANGED <<chainVars, phase, nonce, nonceLock, watched, gasTimer, calls, odis>>

-----------------------------------------------------------------------------
(* OdisService.replenishQuota: a transfer from the same account, numbered   *)
(* by the node and not by nonceLock, and not watched.                       *)

ReplenishReads ==
    /\ phase = "up" /\ odis = NoNonce /\ Spend("odis")
    /\ PendingNonce < MaxNonce /\ odis' = PendingNonce
    /\ UNCHANGED <<chainVars, serviceVars, calls, runs>>

ReplenishSends ==
    /\ phase = "up" /\ odis # NoNonce
    /\ \E a \in Answers :
        Deliver([nonce |-> odis, price |-> minPrice, from |-> Odis], a)
    /\ odis' = NoNonce
    /\ UNCHANGED <<mined, ledger, minPrice, serviceVars, calls, runs>>

-----------------------------------------------------------------------------
(* onModuleInit and restarts *)

StartGas ==
    /\ phase = "gas" /\ phase' = "nonce"
    /\ UpdateGasPrice
    /\ UNCHANGED <<chainVars, nonce, nonceLock, watched, gasTimer, calls, runs, odis>>

\* Mutant of the next definition: pooled transactions are not counted.
StartNonceMined ==
    /\ phase = "nonce" /\ phase' = "pool"
    /\ nonce' = mined
    /\ UNCHANGED <<chainVars, gasPrice, nonceLock, watched, gasTimer, calls, runs,
                   odis, faults>>

StartNonce ==
    /\ phase = "nonce" /\ phase' = "pool"
    /\ nonce' = PendingNonce
    /\ UNCHANGED <<chainVars, gasPrice, nonceLock, watched, gasTimer, calls, runs,
                   odis, faults>>

\* Mutant of the next definition: the last pending transaction is left out.
StartPoolButLast ==
    /\ phase = "pool" /\ phase' = "up"
    /\ watched' = [t \in {p \in pool : p.nonce + 1 < PendingNonce} |-> t.price]
    /\ UNCHANGED <<chainVars, nonce, gasPrice, nonceLock, gasTimer, calls, runs, odis, faults>>

\* getPendingTransactions: txpool_content lists the executable transactions of
\* the account; if it fails, the service starts with nothing to watch.
StartPool ==
    /\ phase = "pool" /\ phase' = "up"
    /\ \/ /\ watched' = [t \in {p \in pool : p.nonce < PendingNonce} |-> t.price]
          /\ UNCHANGED faults
       \/ watched' = [t \in {} |-> NoPrice] /\ Spend("lookup")
    /\ UNCHANGED <<chainVars, nonce, gasPrice, nonceLock, gasTimer, calls, runs, odis>>

InProgress == {"lock", "reply", "resync", "nonce"}

\* The process stops (onModuleDestroy, or a crash) and is started again.
Restart ==
    /\ Spend("crash")
    /\ phase' = "gas" /\ nonce' = 0 /\ gasPrice' = GasPriceFallback
    /\ nonceLock' = NoLock /\ gasTimer' = NoPrice /\ odis' = NoNonce
    /\ watched' = [t \in {} |-> NoPrice]
    /\ runs' = [r \in Runs |-> Idle]
    /\ calls' = [c \in Calls |-> IF calls[c].st \in InProgress
                                 THEN [NewCall EXCEPT !.st = "gone"] ELSE calls[c]]
    /\ UNCHANGED chainVars

-----------------------------------------------------------------------------
(* The specification *)

Init ==
    /\ mined = 0 /\ ledger = {} /\ pool = {} /\ minPrice = 1
    /\ phase = "gas" /\ nonce = 0 /\ gasPrice = GasPriceFallback
    /\ nonceLock = NoLock /\ watched = [t \in {} |-> NoPrice] /\ gasTimer = NoPrice
    /\ calls = [c \in Calls |-> NewCall]
    /\ runs = [r \in Runs |-> Idle]
    /\ odis = NoNonce
    /\ faults = Budget

Node == Mine \/ Drop \/ MinimumChanges

Call(c) ==
    \/ Submit(c) \/ SubmitSends(c) \/ SubmitAccepted(c) \/ SubmitFailed(c)
    \/ ResyncReads(c) \/ ResyncApplies(c) \/ ResyncFails(c)

DeadLetterStep(r) ==
    \/ DeadLetterSends(r) \/ DeadLetterAccepted(r) \/ DeadLetterTooLate(r)
    \/ DeadLetterFailed(r)

CheckStep(r) ==
    \/ CheckStarts(r)
    \/ \E timedOut \in SUBSET runs[r].items :
        CheckSummaries(r, timedOut) \/ CheckBalance(r, timedOut)
    \/ CheckExpired(r) \/ CheckFinalizes(r) \/ CheckAborts(r)

Start == StartGas \/ StartNonce \/ StartPool

Next ==
    \/ Node \/ Start \/ Restart
    \/ GasTimerReads \/ GasTimerApplies
    \/ ReplenishReads \/ ReplenishSends
    \/ \E c \in Calls : Call(c)
    \/ \E r \in Runs : CheckStep(r) \/ DeadLetterStep(r)

Spec == Init /\ [][Next]_vars

\* A node that answers and mines, timers that fire, promises that are resumed.
\* Nothing obliges the network to change its price, a caller to call or a fault
\* to happen.  The strong fairness says that a transaction that stays unmined
\* is found to have outlived its timeout by some check.
Fairness ==
    /\ WF_vars(Mine) /\ WF_vars(Start)
    /\ WF_vars(GasTimerReads) /\ WF_vars(GasTimerApplies)
    /\ WF_vars(ReplenishSends)
    /\ \A c \in Calls :
        /\ WF_vars(SubmitAccepted(c) \/ SubmitFailed(c) \/ ResyncApplies(c))
        /\ SF_vars(SubmitSends(c) \/ ResyncReads(c))
    /\ \A r \in Runs :
        /\ WF_vars(CheckStep(r)) /\ WF_vars(DeadLetterStep(r))
        /\ SF_vars(CheckSummaries(r, runs[r].items))
        /\ SF_vars(CheckBalance(r, runs[r].items))

LiveSpec == Spec /\ Fairness

-----------------------------------------------------------------------------
(* Properties *)

Items == [tx : Tx, cached : Levels]

CallStates == {"new", "lock", "reply", "resync", "nonce", "ok", "err", "gone"}

CallRecords == [st : CallStates, try : 1 .. Tries, tx : Tx \cup {NoTx},
                answer : Answers, count : 0 .. MaxNonce]

TaskRecords == [tx : Tx, cached : Levels, st : {"send", "reply"}, try : 1 .. Tries,
                answer : Answers, new : Tx \cup {NoTx}]

RunRecords == [st : {"idle", "summaries", "balance", "low", "expired"},
               items : SUBSET Items, low : SUBSET Items, expired : SUBSET Items,
               completed : SUBSET Tx, tasks : SUBSET TaskRecords]

\* Every variable has its type.
TypeOK ==
    /\ mined \in 0 .. MaxNonce /\ ledger \subseteq Tx /\ pool \subseteq Tx
    /\ minPrice \in 1 .. TopMinimum
    /\ phase \in {"gas", "nonce", "pool", "up"}
    /\ nonce \in 0 .. MaxNonce /\ gasPrice \in Levels
    /\ nonceLock \in Calls \cup {NoLock}
    /\ DOMAIN watched \subseteq Tx /\ watched \in [DOMAIN watched -> Levels]
    /\ gasTimer \in 0 .. TopMinimum
    /\ calls \in [Calls -> CallRecords]
    /\ runs \in [Runs -> RunRecords]
    /\ odis \in Nonces \cup {NoNonce}
    /\ faults \in [Faults -> Nat]

\* A nonce is settled, or a transaction of that nonce is watched.
Covered(n) == n < mined \/ \E t \in DOMAIN watched : t.nonce = n

\* README.md:8 "Enforce sequential nonce with parallel access": two callers are
\* never told that their transactions went out under the same nonce.
\* (submitTransaction, nonceLock and updateNonce.)
AcknowledgedNoncesDistinct ==
    \A c, d \in Calls :
        calls[c].st = "ok" /\ calls[d].st = "ok" /\ c # d
            => calls[c].tx.nonce # calls[d].tx.nonce

\* The watch list never loses a nonce: overlapping check runs, dead letters on
\* stale summaries and finalisation only take a transaction off the list when
\* its nonce is mined or another transaction of that nonce is on the list.
WatchNeverLosesNonce ==
    [][phase' = "up" => \A t \in DOMAIN watched : Covered(t.nonce)']_vars

\* A fault that has not happened yet.
Spared(f) == faults[f] = Budget[f]

\* What the watch list is rebuilt from after a restart: the node's pool, when
\* it can be looked up and has forgotten nothing.
Recoverable == Spared("crash") \/ (Spared("lookup") /\ Spared("drop"))

\* A transaction acknowledged to its caller is mined, or its nonce is watched:
\* no acknowledged transaction is forgotten, across a restart too unless the
\* pool is of no help then.  (watchTransaction, deadLetter, getPendingTransactions)
AcknowledgedIsCovered ==
    phase = "up" /\ Recoverable =>
        \A c \in Calls : calls[c].st = "ok" => Covered(calls[c].tx.nonce)

\* Below this.nonce nothing is left behind: a nonce that is neither mined nor
\* watched would block all later ones once the node forgets its transaction.
\* A transaction whose answer was lost, or that the ODIS service has sent, is
\* counted by the node and watched by nobody.
NoStrandedNonce ==
    phase = "up" /\ Recoverable /\ Spared("lost") /\ Spared("odis") =>
        \A n \in 0 .. (nonce - 1) : Covered(n)

Watched(n) == \E t \in DOMAIN watched : t.nonce = n

\* README.md:9 "Dead-letter transactions to ensure execution doesn't stall":
\* what the service watches gets through, by itself or by its dead letter, so
\* a nonce that is watched is mined sooner or later.
ExecutionDoesNotStall == \A n \in Nonces : Watched(n) ~> (n < mined)

\* A nonce has to wait for one below it that nobody watches: the node mines them
\* in order, and nothing replaces a forgotten transaction that is not watched.
Blocked(n) == \E m \in 0 .. (n - 1) : ~Covered(m)

\* As far as the watch list goes the execution does not stall: a nonce that is
\* watched is mined sooner or later, unless from some time on there is always a
\* nonce below it that is neither mined nor watched.  (checkTransactions, deadLetter)
WatchedGetsThrough ==
    \A n \in Nonces : (Watched(n) ~> (n < mined)) \/ <>[]Blocked(n)

\* README.md:8 "Enforce sequential nonce with parallel access", in full: the
\* account's nonces are used without a gap, and the nonces of acknowledged
\* transactions are used and increase in the order of the acknowledgements,
\* across restarts, lost answers and foreign transactions.  The account is
\* implemented step by step until the node forgets a transaction.
\* (submitTransaction, deadLetter, updateNonce)
Acknowledged == {c \in Calls : calls[c].st = "ok"}
Account == INSTANCE RelayerAccount WITH
    Callers <- Calls, used <- PendingNonce, settled <- mined,
    told <- [c \in Acknowledged |-> calls[c].tx.nonce]
ImplementsAccount == Account!Init /\ [][Spared("drop")' => Account!Step]_vars
===============================================================================
